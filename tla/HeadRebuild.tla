----------------------------- MODULE HeadRebuild -----------------------------
(***************************************************************************)
(* SqlAdmin.rebuild_heads and SqlAdmin.verify (sql/admin.py) on a          *)
(* PostgreSQL store whose callers keep committing.  The callers are those  *)
(* of SqlStore, with single requests; the operator's call is one more      *)
(* process, one action per statement.  On SQLite both are one transaction  *)
(* that overlaps nothing, and are left out.                                *)
(*                                                                         *)
(* A chunk of the log may end within an aggregate; what counts is the last *)
(* statement that reads it, so a chunk is a set of aggregates, each folded *)
(* to its newest row.  The order of the aggregates is left open.           *)
(***************************************************************************)
EXTENDS SqlStore

CONSTANTS
    Scopes,    \* the sets of keys a call may cover: one stream's, or all
    MaxCalls   \* bound: calls of rebuild_heads and verify in one behaviour

ASSUME RebuildAssumption ==
    /\ Scopes \subseteq SUBSET Keys
    /\ ~Serialized /\ MaxBatch = 1
    /\ MaxCalls \in Nat

VARIABLES
    op,        \* the operator's call
    waiting,   \* writers whose SELECT ... FOR UPDATE waits for a deleted head
    calls      \* calls of the operator so far

allVars == <<vars, op, waiting, calls>>

(* The call and the statement it is at; the heads its SELECT found, those  *)
(* still to be deleted and those deleted; the aggregates there were at the *)
(* first chunk, those read so far, and the folded rows not dealt with yet; *)
(* the row to upsert, the heads written; the mismatches counted; and, for  *)
(* the properties alone, the keys whose head lagged at the start or that   *)
(* were committed to since.                                                *)
NoCall ==
    [kind |-> "none", at |-> "idle", scope |-> {}, found |-> {}, doomed |-> {},
     gone |-> {}, due |-> {}, read |-> {}, docs |-> {}, row |-> NoRow,
     heads |-> [k \in Keys |-> NoRow], mismatches |-> {}, moved |-> {}]

RebuildInit ==
    /\ Init
    /\ op = NoCall
    /\ waiting = {}
    /\ calls = 0

-----------------------------------------------------------------------------
(* The log and the locks.                                                  *)

RowsOf(k) == {r \in revisions : r.key = k}

NewestRow(k) == CHOOSE r \in RowsOf(k) : \A s \in RowsOf(k) : r.rev >= s.rev

(* _last_row: select_latest_revision.                                      *)
EarliestRevision(k) == CHOOSE r \in RowsOf(k) : \A s \in RowsOf(k) : r.rev <= s.rev
LatestRevision(k) == NewestRow(k)

Lagging == {k \in Keys : RowsOf(k) # {} /\ head[k] # NewestRow(k)}

(* No writer has locked or written the head of k.                          *)
Free(k) == \A w \in Writers : k \notin tx[w].locks

(* The head rows the operator's transaction has deleted or written, which  *)
(* every statement that wants to lock or write one waits for.              *)
OpLocks == op.gone \cup {k \in Keys : op.heads[k] # NoRow}
Clear(w) == Request(w).key \notin OpLocks

-----------------------------------------------------------------------------
(* The operator.                                                           *)

OperatorGoes(o) ==
    /\ op' = o
    /\ UNCHANGED <<vars, waiting, calls>>

Heads(S) == {k \in S : head[k] # NoRow}

(* engine.begin(), and select_all_heads_for: head_keys.                    *)
StartRebuild(S) ==
    /\ op.at = "idle" /\ calls < MaxCalls
    /\ op' = [NoCall EXCEPT !.kind = "rebuild", !.scope = S, !.found = Heads(S),
                            !.at = "clear", !.moved = Lagging]
    /\ calls' = calls + 1
    /\ UNCHANGED <<vars, waiting>>

(* delete_heads covers the heads that are committed when it begins.        *)
DeleteHeads ==
    /\ op.at = "clear"
    /\ OperatorGoes([op EXCEPT !.doomed = Heads(op.scope),
                               !.at = IF Heads(op.scope) = {} THEN "scan" ELSE "delete"])

StartVerify(S) ==
    /\ op.at = "idle" /\ calls < MaxCalls
    /\ op' = [NoCall EXCEPT !.kind = "verify", !.scope = S, !.at = "scan", !.moved = Lagging]
    /\ calls' = calls + 1
    /\ UNCHANGED <<vars, waiting>>

(* DELETE goes from row to row and waits at each for its holder.           *)
DeleteHead(k) ==
    /\ op.at = "delete" /\ k \in op.doomed
    /\ Free(k)
    /\ OperatorGoes([op EXCEPT !.doomed = @ \ {k}, !.gone = @ \cup {k},
                               !.at = IF op.doomed = {k} THEN "scan" ELSE "delete"])

Unread == {k \in op.scope \ op.read : RowsOf(k) # {}}

(* select_all_log_for: the next chunk, folded.                             *)
ReadChunkHalf(S) ==
    /\ op.at = "scan" /\ S # {} /\ S \subseteq Unread
    /\ OperatorGoes([op EXCEPT !.read = @ \cup S, !.at = "emit",
                               !.docs = {EarliestRevision(k) : k \in S},
                               !.due = IF op.read = {} THEN Unread ELSE @])

ReadChunk(S) ==
    /\ op.at = "scan" /\ S # {} /\ S \subseteq Unread
    /\ OperatorGoes([op EXCEPT !.read = @ \cup S, !.at = "emit",
                               !.docs = {NewestRow(k) : k \in S},
                               !.due = IF op.read = {} THEN Unread ELSE @])

AfterEmit(docs) == IF docs = {} THEN "scan" ELSE "emit"

(* emit of rebuild_heads: _last_row and the comparison of digests.         *)
LastRow(doc) ==
    LET last == LatestRevision(doc.key)
    IN  /\ op.at = "emit" /\ op.kind = "rebuild" /\ doc \in op.docs
        /\ IF last.content = doc.content
           THEN OperatorGoes([op EXCEPT !.docs = @ \ {doc}, !.row = last, !.at = "upsert"])
           ELSE OperatorGoes([op EXCEPT !.docs = @ \ {doc}, !.at = AfterEmit(op.docs \ {doc}),
                                        !.mismatches = @ \cup {doc.key}])

UpsertHead ==
    /\ op.at = "upsert"
    /\ Free(op.row.key)
    /\ OperatorGoes([op EXCEPT !.heads[op.row.key] = op.row, !.row = NoRow,
                               !.at = AfterEmit(op.docs)])

(* emit of verify: the folded document against the live head.              *)
CompareHead(doc) ==
    /\ op.at = "emit" /\ op.kind = "verify" /\ doc \in op.docs
    /\ OperatorGoes([op EXCEPT
         !.docs = @ \ {doc}, !.at = AfterEmit(op.docs \ {doc}),
         !.mismatches = IF head[doc.key] # NoRow /\ head[doc.key].content = doc.content
                        THEN @ ELSE @ \cup {doc.key}])

(* The last chunk was empty: aggregates created since the first one may    *)
(* lie before the cursor, all others have been read.                       *)
LastUnread == op.at = "scan"
Exhausted == op.at = "scan" /\ op.due \subseteq op.read /\ (op.read = {} => Unread = {})

(* COMMIT.  A statement that waited for a head the operator deleted        *)
(* resumes with no row: the new head is not in its snapshot.               *)
FinishRebuild ==
    /\ op.kind = "rebuild" /\ Exhausted
    /\ head' = [k \in Keys |-> IF op.heads[k] # NoRow THEN op.heads[k]
                               ELSE IF k \in op.gone THEN NoRow ELSE head[k]]
    /\ tx' = [w \in Writers |-> IF w \in waiting
                                THEN [tx[w] EXCEPT !.seen = NoRevision] ELSE tx[w]]
    /\ pc' = [w \in Writers |-> IF w \in waiting THEN "row" ELSE pc[w]]
    /\ waiting' = {}
    /\ op' = NoCall
    /\ UNCHANGED <<revisions, intents, ledger, clock, outcome, acks, commits, calls>>

FinishVerify ==
    /\ op.kind = "verify" /\ Exhausted
    /\ OperatorGoes(NoCall)

(* The operator's process dies: rollback, and the waiters find the row.    *)
CrashOperator ==
    /\ op.at # "idle"
    /\ op' = NoCall
    /\ waiting' = {}
    /\ UNCHANGED <<vars, calls>>

Operator ==
    \/ DeleteHeads
    \/ \E k \in Keys : DeleteHead(k)
    \/ \E S \in SUBSET Keys : ReadChunk(S)
    \/ \E doc \in op.docs : LastRow(doc) \/ CompareHead(doc)
    \/ UpsertHead
    \/ FinishRebuild
    \/ FinishVerify

-----------------------------------------------------------------------------
(* The callers, as in SqlStore; with single requests none deadlocks.       *)

(* SELECT ... FOR UPDATE finds the deleted row and waits for the operator. *)
AwaitOperator(w) ==
    /\ pc[w] = "head" /\ w \notin waiting
    /\ Request(w).key \in op.gone
    /\ waiting' = waiting \cup {w}
    /\ UNCHANGED <<vars, op, calls>>

CallerStatement(w) ==
    \/ /\ pc[w] \in {"head", "upsert", "repair"} /\ Clear(w)
       /\ SelectHead(w) \/ WriteHead(w) \/ RepairHead(w)
    \/ SelectRow(w) \/ InsertRow(w) \/ UpsertFingerprint(w) \/ Ack(w)

Publish(w) ==
    /\ CommitTx(w)
    /\ op' = IF op.at = "idle" THEN op ELSE [op EXCEPT !.moved = @ \cup {Request(w).key}]
    /\ UNCHANGED <<waiting, calls>>

Caller(w) ==
    /\ CallerStatement(w)
    /\ UNCHANGED <<op, waiting, calls>>

StartCaller(w) ==
    /\ Begin(w)
    /\ UNCHANGED <<op, waiting, calls>>

CrashCaller(w) ==
    /\ Crash(w)
    /\ waiting' = waiting \ {w}
    /\ UNCHANGED <<op, calls>>

RebuildNext ==
    \/ \E w \in Writers :
          \/ StartCaller(w) \/ Caller(w) \/ Publish(w) \/ AwaitOperator(w) \/ CrashCaller(w)
    \/ \E S \in Scopes : StartRebuild(S) \/ StartVerify(S)
    \/ Operator
    \/ CrashOperator

RebuildSpec == RebuildInit /\ [][RebuildNext]_allVars

-----------------------------------------------------------------------------
(* Properties.                                                             *)

(* Every variable of the operator keeps its type.                          *)
RebuildTypeOK ==
    /\ op \in [kind : {"none", "rebuild", "verify"},
               at : {"idle", "clear", "delete", "scan", "emit", "upsert"},
               scope : SUBSET Keys, found : SUBSET Keys,
               doomed : SUBSET Keys, gone : SUBSET Keys,
               due : SUBSET Keys, read : SUBSET Keys, docs : SUBSET Rows,
               row : Rows \cup {NoRow}, heads : [Keys -> Rows \cup {NoRow}],
               mismatches : SUBSET Keys, moved : SUBSET Keys]
    /\ waiting \subseteq {w \in Writers : pc[w] = "head"}
    /\ calls \in Nat

(* Everything the rebuild deleted is back, at the newest row of its log,   *)
(* when it commits, although callers went on committing: nobody appends to *)
(* an aggregate whose head is deleted.                                     *)
RebuildRepairs ==
    [][FinishRebuild => \A k \in op.gone : head'[k] = NewestRow(k)]_allVars

(* rebuild_heads counts a mismatch only for an aggregate that had no head  *)
(* when it started, and verify only for one whose head lagged then or that *)
(* was committed to since.                                                 *)
MismatchHasCause ==
    op.mismatches \subseteq IF op.kind = "rebuild" THEN Keys \ op.gone ELSE op.moved

(* rebuild_heads reports no orphan: every head that its SELECT found has a *)
(* row in the log, the scan comes by it, and it is among those rebuilt,    *)
(* whatever callers committed in between.                                  *)
FoundAreRebuilt ==
    op.kind = "rebuild" /\ Exhausted =>
        op.found \subseteq {k \in op.read : op.heads[k] # NoRow}

(* What the operator is told holds of the store.                           *)
ReportsAreTrue == RebuildTypeOK /\ MismatchHasCause /\ FoundAreRebuilt

=============================================================================
