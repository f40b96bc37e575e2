------------------------------ MODULE SqlStore ------------------------------
(***************************************************************************)
(* The write path of the SQL store: SQLite.commit and Postgres.commit      *)
(* (src/src/eventic/sql/store.py), one action per SQL statement that       *)
(* another transaction can observe or wait for.                            *)
(*                                                                         *)
(* Serialized = TRUE is the SQLite backend: every transaction starts with  *)
(* BEGIN IMMEDIATE, so two of them never overlap.  Serialized = FALSE is   *)
(* the Postgres backend at its default isolation, READ COMMITTED: each     *)
(* statement sees what is committed when it starts plus the transaction's  *)
(* own writes, SELECT ... FOR UPDATE and upserts take row locks held to    *)
(* the end, and an INSERT waits for a concurrent insert of the same unique *)
(* key.                                                                    *)
(*                                                                         *)
(* The stream is stored with the default encoding, snapshot/1, whose       *)
(* payload is the document itself.  A content stands for everything that   *)
(* _is_identical compares: digest, kind, schema_version, meta_version and  *)
(* meta.  An absent revision, expected or read, is NoRevision.             *)
(***************************************************************************)
EXTENDS Integers, Sequences, FiniteSets

CONSTANTS
    Writers,          \* threads or processes, each with one commit at a time
    Keys,             \* aggregate keys
    Contents,         \* the durable content of a revision
    Versions,         \* schema versions
    VersionOf,        \* [Contents -> Versions], the one a content is written in
    Streams,          \* stream names
    StreamOf,         \* [Keys -> Streams]
    Subs,             \* ids of the Outbox subscriptions
    SubStream,        \* [Subs -> Streams]
    SubKinds,         \* [Subs -> SUBSET {"create", "change"}]
    InvalidQueue,     \* subscriptions declared with an empty queue name
    Fingerprints,     \* model fingerprints
    FingerprintOf,    \* [Writers -> Fingerprints], the build each one runs
    Serialized,       \* TRUE for SQLite, FALSE for Postgres
    Fabricate,        \* may a caller name a base revision it never read?
    MaxBatch,         \* capabilities.max_batch
    MaxRevision,      \* bound: revisions 0 .. MaxRevision
    MaxCommits,       \* bound: calls of commit in one behaviour
    MaxClock          \* bound: readings 0 .. MaxClock of the database clock

ASSUME StoreAssumption ==
    /\ StreamOf \in [Keys -> Streams]
    /\ VersionOf \in [Contents -> Versions]
    /\ SubStream \in [Subs -> Streams]
    /\ SubKinds \in [Subs -> SUBSET {"create", "change"}]
    /\ InvalidQueue \subseteq Subs
    /\ FingerprintOf \in [Writers -> Fingerprints]
    /\ Serialized \in BOOLEAN /\ Fabricate \in BOOLEAN
    /\ MaxBatch \in Nat \ {0} /\ MaxRevision \in Nat
    /\ MaxCommits \in Nat /\ MaxClock \in Nat

VARIABLES
    revisions,   \* eventic_revision: the committed log rows
    head,        \* eventic_head: the committed head row of each key, or NoRow
    intents,     \* eventic_intent: the delivery intents staged by commits
    ledger,      \* eventic_schema: the fingerprint first seen for each schema
    clock,       \* the database clock
    pc,          \* the statement each writer is about to execute
    tx,          \* each writer's open transaction
    outcome,     \* how each writer's last call of commit ended
    acks,        \* the CommitResults callers have received
    commits      \* calls of commit so far

vars == <<revisions, head, intents, ledger, clock, pc, tx, outcome, acks, commits>>

tables == <<revisions, head, intents, ledger>>

NoRevision == -1
NoRow == [rev |-> NoRevision]

Rows == [key : Keys, rev : 0 .. MaxRevision, content : Contents, at : Nat]
Requests == [key : Keys, expected : NoRevision .. MaxRevision - 1, content : Contents]
Intents == [sub : Subs, key : Keys, rev : 0 .. MaxRevision]
Entries == [schema : Streams \X Versions, fingerprint : Fingerprints]
Results == [key : Keys, rev : 0 .. MaxRevision, content : Contents, at : Nat, replayed : BOOLEAN]

Outcomes == {"none", "running", "ok", "conflict", "busy", "bad_intent", "deadlock",
             "integrity", "lost"}
PCs == {"idle", "head", "row", "insert", "upsert", "repair", "ledger", "commit", "ack"}

(* What a transaction holds: the batch and the position in it, now(), the  *)
(* head revision the CAS read, its uncommitted rows, heads, intents and    *)
(* ledger entries, the head rows it has locked and the positions that      *)
(* turned out to be replays.                                               *)
Transactions ==
    [batch : Seq(Requests), pos : Nat \ {0}, now : Nat, seen : Nat \cup {NoRevision},
     rows : SUBSET Rows, heads : [Keys -> Rows \cup {NoRow}],
     intents : SUBSET Intents, ledger : SUBSET Entries,
     locks : SUBSET Keys, replays : SUBSET Nat]

Idle ==
    [batch |-> <<>>, pos |-> 1, now |-> 0, seen |-> NoRevision,
     rows |-> {}, heads |-> [k \in Keys |-> NoRow],
     intents |-> {}, ledger |-> {}, locks |-> {}, replays |-> {}]

Init ==
    /\ revisions = {}
    /\ head = [k \in Keys |-> NoRow]
    /\ intents = {}
    /\ ledger = {}
    /\ clock = 0
    /\ pc = [w \in Writers |-> "idle"]
    /\ tx = [w \in Writers |-> Idle]
    /\ outcome = [w \in Writers |-> "none"]
    /\ acks = {}
    /\ commits = 0

-----------------------------------------------------------------------------
(* The request at hand, and what _commit_one computes from it.             *)

Request(w) == tx[w].batch[tx[w].pos]
Target(q) == q.expected + 1
Kind(rev) == IF rev = 0 THEN "create" ELSE "change"

AnyKind(k, rev) == [sub : {s \in Subs : SubStream[s] = StreamOf[k]}, key : {k}, rev : {rev}]

IntentsFor(k, rev) ==
    [sub : {s \in Subs : SubStream[s] = StreamOf[k] /\ Kind(rev) \in SubKinds[s]},
     key : {k}, rev : {rev}]

(* Both refusals in one: expected_revision is None exactly when there is   *)
(* no head, and otherwise it is the head's revision.                       *)
NoCas(seen, expected) == TRUE
CasOffByOne(seen, expected) == seen >= 0 /\ seen = expected + 1
CasHolds(seen, expected) == seen = expected

SameTarget(row, q) == row.key = q.key /\ row.rev = Target(q)
AnyContent(row, q) == TRUE
Identical(row, q) == row.content = q.content

(* head_row is None, or behind the row being replayed.                     *)
AlwaysBehind(seen, row) == TRUE
HeadBehind(seen, row) == seen < row.rev

(* The primary key of eventic_schema, for a request as for its row.        *)
Schema(r) == <<StreamOf[r.key], VersionOf[r.content]>>

RowOf(w) ==
    [key |-> Request(w).key, rev |-> Target(Request(w)),
     content |-> Request(w).content, at |-> tx[w].now]

VisibleRows(w) == revisions \cup tx[w].rows
VisibleHead(w, k) == IF tx[w].heads[k] # NoRow THEN tx[w].heads[k] ELSE head[k]
Existing(w) == {r \in VisibleRows(w) : SameTarget(r, Request(w))}

Active(w) == pc[w] \notin {"idle", "ack"}
Others(w) == Writers \ {w}

(* The waits of the statements: a locked head row, an uncommitted log row  *)
(* with the same unique key, an uncommitted ledger entry.                  *)
HeadHolders(w) == {v \in Others(w) : Request(w).key \in tx[v].locks}
RowHolders(w) == {v \in Others(w) : \E r \in tx[v].rows : SameTarget(r, Request(w))}
LedgerHolders(w) ==
    {v \in Others(w) : \E e \in tx[v].ledger : e.schema = Schema(Request(w))}

Blockers(w) ==
    CASE pc[w] = "head" /\ VisibleHead(w, Request(w).key) # NoRow -> HeadHolders(w)
      [] pc[w] \in {"upsert", "repair"} -> HeadHolders(w)
      [] pc[w] = "insert" -> RowHolders(w)
      [] pc[w] = "ledger" -> LedgerHolders(w)
      [] OTHER -> {}

(* PostgreSQL ends a wait only when it closes a cycle: w is on one when it *)
(* belongs to a set whose members each wait for a member and hold one up.  *)
NeverDeadlocked(w) == FALSE
Deadlocked(w) ==
    \E C \in SUBSET Writers :
        /\ w \in C
        /\ \A v \in C : Blockers(v) \cap C # {} /\ \E u \in C : v \in Blockers(u)

-----------------------------------------------------------------------------
(* One call of commit, statement by statement.                             *)

(* A Revision is only ever handed out for a committed row, so a caller's   *)
(* base is one of those unless it builds the request by hand.              *)
AnyBase(q) == TRUE
Plannable(q) ==
    \/ q.expected = NoRevision
    \/ Fabricate
    \/ \E r \in revisions : r.key = q.key /\ r.rev = q.expected

(* engine.begin() and _now.                                                *)
Begin(w) ==
    /\ pc[w] = "idle"
    /\ commits < MaxCommits
    /\ Serialized => \A v \in Writers : ~Active(v)
    /\ \E n \in 1 .. MaxBatch : \E b \in [1 .. n -> Requests] :
          /\ \A i \in 1 .. n : Plannable(b[i])
          /\ tx' = [tx EXCEPT ![w] = [Idle EXCEPT !.batch = b, !.now = clock]]
    /\ pc' = [pc EXCEPT ![w] = "head"]
    /\ outcome' = [outcome EXCEPT ![w] = "running"]
    /\ commits' = commits + 1
    /\ UNCHANGED <<tables, clock, acks>>

AutocommitAbort(w, how) ==
    /\ revisions' = revisions \cup tx[w].rows
    /\ pc' = [pc EXCEPT ![w] = "idle"]
    /\ tx' = [tx EXCEPT ![w] = Idle]
    /\ outcome' = [outcome EXCEPT ![w] = how]
    /\ UNCHANGED <<head, intents, ledger, clock, acks, commits>>

(* The exception leaves engine.begin(): everything the transaction wrote   *)
(* is rolled back and its locks are released.                              *)
Abort(w, how) ==
    /\ pc' = [pc EXCEPT ![w] = "idle"]
    /\ tx' = [tx EXCEPT ![w] = Idle]
    /\ outcome' = [outcome EXCEPT ![w] = how]
    /\ UNCHANGED <<tables, clock, acks, commits>>

(* BEGIN IMMEDIATE gives up after PRAGMA busy_timeout.                     *)
BusyTimeout(w) ==
    /\ Serialized /\ pc[w] = "idle"
    /\ \E v \in Others(w) : Active(v)
    /\ outcome' = [outcome EXCEPT ![w] = "busy"]
    /\ commits' = commits + 1
    /\ UNCHANGED <<tables, clock, pc, tx, acks>>

(* A call opens its transaction, or does not get to.                       *)
Call(w) ==
    /\ commits < MaxCommits
    /\ Begin(w) \/ BusyTimeout(w)

(* The transaction goes on as t, at the given statement.                   *)
Continue(w, t, at) ==
    /\ tx' = [tx EXCEPT ![w] = t]
    /\ pc' = [pc EXCEPT ![w] = at]
    /\ UNCHANGED <<tables, clock, outcome, acks, commits>>

(* _commit_one returns: the next request of the batch, or COMMIT.          *)
NextRequest(w, t) ==
    IF t.pos < Len(t.batch)
    THEN Continue(w, [t EXCEPT !.pos = @ + 1], "head")
    ELSE Continue(w, t, "commit")

Replay(w, t) == NextRequest(w, [t EXCEPT !.replays = @ \cup {t.pos}])

(* SELECT ... FOR UPDATE locks the row it finds; there is nothing to lock  *)
(* when there is no row.                                                   *)
SelectHead(w) ==
    LET k == Request(w).key
        row == VisibleHead(w, k)
    IN  /\ pc[w] = "head"
        /\ Blockers(w) = {}
        /\ Continue(w,
              IF row = NoRow
              THEN [tx[w] EXCEPT !.seen = NoRevision]
              ELSE [tx[w] EXCEPT !.seen = row.rev, !.locks = @ \cup {k}],
              "row")

(* The second SELECT and every decision made on the two rows.              *)
SelectRow(w) ==
    /\ pc[w] = "row"
    /\ \/ \E row \in Existing(w) :
             \/ /\ ~Identical(row, Request(w))
                /\ Abort(w, "conflict")
             \/ /\ Identical(row, Request(w))
                /\ HeadBehind(tx[w].seen, row)
                /\ Continue(w, tx[w], "repair")
             \/ /\ Identical(row, Request(w))
                /\ ~HeadBehind(tx[w].seen, row)
                /\ Replay(w, tx[w])
       \/ /\ Existing(w) = {}
          /\ IF CasHolds(tx[w].seen, Request(w).expected)
             THEN Continue(w, tx[w], "insert")
             ELSE Abort(w, "conflict")

(* uq_revision and the revision_id primary key.                            *)
NoUniqueIndex(w) == FALSE
RevisionTaken(w) == Existing(w) # {}

(* _is_revision_race turns the violation of these two into a               *)
(* RevisionConflict; any other IntegrityError is a StoreError.             *)
OpaqueUniqueViolation(w) == Abort(w, "integrity")
UniqueViolation(w) == Abort(w, "conflict")

(* INSERT INTO eventic_revision.                                           *)
InsertRow(w) ==
    /\ pc[w] = "insert"
    /\ Blockers(w) = {}
    /\ IF RevisionTaken(w)
       THEN UniqueViolation(w)
       ELSE Continue(w, [tx[w] EXCEPT !.rows = @ \cup {RowOf(w)}], "upsert")

PutHead(t, row) ==
    [t EXCEPT !.heads[row.key] = row, !.locks = @ \cup {row.key}]

(* The upsert of the head row, then one INSERT per intent: an empty queue  *)
(* name violates a check constraint.                                       *)
WriteHead(w) ==
    LET owed == IntentsFor(Request(w).key, Target(Request(w)))
    IN  /\ pc[w] = "upsert"
        /\ Blockers(w) = {}
        /\ IF \E i \in owed : i.sub \in InvalidQueue
           THEN Abort(w, "bad_intent")
           ELSE Continue(w,
                  [PutHead(tx[w], RowOf(w)) EXCEPT !.intents = @ \cup owed],
                  "ledger")

(* _upsert_head_from_row, on the replay path.                              *)
RepairHead(w) ==
    /\ pc[w] = "repair"
    /\ Blockers(w) = {}
    /\ \E row \in Existing(w) : Replay(w, PutHead(tx[w], row))

(* INSERT INTO eventic_schema ... ON CONFLICT DO NOTHING.                  *)
PerStream(w) ==
    LET s == Schema(Request(w))
    IN  IF \E e \in ledger \cup tx[w].ledger : e.schema[1] = s[1]
        THEN {}
        ELSE {[schema |-> s, fingerprint |-> FingerprintOf[w]]}
NewEntries(w) ==
    LET s == Schema(Request(w))
    IN  IF \E e \in ledger \cup tx[w].ledger : e.schema = s
        THEN {}
        ELSE {[schema |-> s, fingerprint |-> FingerprintOf[w]]}

UpsertFingerprint(w) ==
    /\ pc[w] = "ledger"
    /\ Blockers(w) = {}
    /\ NextRequest(w, [tx[w] EXCEPT !.ledger = @ \cup NewEntries(w)])

(* COMMIT: the writes are published and the locks released together.       *)
CommitTx(w) ==
    /\ pc[w] = "commit"
    /\ revisions' = revisions \cup tx[w].rows
    /\ head' = [k \in Keys |-> VisibleHead(w, k)]
    /\ intents' = intents \cup tx[w].intents
    /\ ledger' = ledger \cup tx[w].ledger
    /\ pc' = [pc EXCEPT ![w] = "ack"]
    /\ tx' = [tx EXCEPT ![w] = [Idle EXCEPT !.batch = tx[w].batch, !.now = tx[w].now,
                                           !.replays = tx[w].replays]]
    /\ UNCHANGED <<clock, outcome, acks, commits>>

(* The CommitResults of the call; a replay reports this call's now.        *)
ResultAt(t, i) ==
    [key |-> t.batch[i].key, rev |-> Target(t.batch[i]),
     content |-> t.batch[i].content, at |-> t.now, replayed |-> i \in t.replays]

Ack(w) ==
    /\ pc[w] = "ack"
    /\ acks' = acks \cup {ResultAt(tx[w], i) : i \in DOMAIN tx[w].batch}
    /\ pc' = [pc EXCEPT ![w] = "idle"]
    /\ tx' = [tx EXCEPT ![w] = Idle]
    /\ outcome' = [outcome EXCEPT ![w] = "ok"]
    /\ UNCHANGED <<tables, clock, commits>>

(* The caller dies or its connection does: before COMMIT the database      *)
(* rolls back, after it the caller never learns that it committed.         *)
Crash(w) ==
    /\ pc[w] # "idle"
    /\ Abort(w, "lost")

DeadlockVictim(w) ==
    /\ Deadlocked(w)
    /\ Abort(w, "deadlock")

Tick ==
    /\ clock < MaxClock
    /\ clock' = clock + 1
    /\ UNCHANGED <<tables, pc, tx, outcome, acks, commits>>

Statement(w) ==
    \/ SelectHead(w) \/ SelectRow(w) \/ InsertRow(w) \/ WriteHead(w)
    \/ RepairHead(w) \/ UpsertFingerprint(w) \/ CommitTx(w)

Next ==
    \/ \E w \in Writers :
          \/ Call(w) \/ SelectHead(w) \/ SelectRow(w) \/ InsertRow(w)
          \/ WriteHead(w) \/ RepairHead(w) \/ UpsertFingerprint(w) \/ CommitTx(w)
          \/ Ack(w) \/ Crash(w) \/ DeadlockVictim(w)
    \/ Tick

Spec == Init /\ [][Next]_vars

(* The database executes a statement that is not blocked and resolves a    *)
(* deadlock.  Nothing makes a caller begin, a client crash or time pass.   *)
Fairness == \A w \in Writers : WF_vars(Statement(w)) /\ WF_vars(DeadlockVictim(w))

FairSpec == Spec /\ Fairness

-----------------------------------------------------------------------------
(* Properties.                                                             *)

(* Every variable keeps its type.                                          *)
TypeOK ==
    /\ revisions \subseteq Rows
    /\ head \in [Keys -> Rows \cup {NoRow}]
    /\ intents \subseteq Intents
    /\ ledger \subseteq Entries
    /\ clock \in Nat
    /\ pc \in [Writers -> PCs]
    /\ tx \in [Writers -> Transactions]
    /\ outcome \in [Writers -> Outcomes]
    /\ acks \subseteq Results
    /\ commits \in Nat

(* The committed log of a key has no gap: a row of revision n > 0 has its  *)
(* predecessor, whatever the interleaving and whatever base callers name.  *)
LogContiguous ==
    \A r \in revisions :
        r.rev > 0 => \E p \in revisions : p.key = r.key /\ p.rev = r.rev - 1

(* Two racing writers never both get the same revision of a key.           *)
UniqueRevision ==
    \A r, s \in revisions : r.key = s.key /\ r.rev = s.rev => r = s

(* A CommitResult the caller holds names a durable row with the content it *)
(* asked for; when it is not a replay the row is the one this call wrote,  *)
(* at the time reported.                                                   *)
Backed(a) ==
    \E r \in revisions :
        /\ r.key = a.key /\ r.rev = a.rev /\ r.content = a.content
        /\ ~a.replayed => r.at = a.at

AckedDurable == \A a \in acks : Backed(a)

(* The head row of a key is one of its log rows, and is missing exactly    *)
(* when the key has none.                                                  *)
HeadMatchesLog ==
    \A k \in Keys :
        IF head[k] = NoRow
        THEN \A r \in revisions : r.key # k
        ELSE head[k] \in revisions /\ head[k].key = k

(* The head is the newest row of the log (I2).                             *)
HeadIsLatest ==
    \A r \in revisions : head[r.key].rev >= r.rev

(* "The head must never move backwards" (comment of _commit_one).          *)
HeadNeverRewinds == [][\A k \in Keys : head'[k].rev >= head[k].rev]_vars

(* On Postgres the replay of a create can move the head backwards, but no  *)
(* other request can: a head that loses ground is back at revision 0.      *)
RewindsOnlyToCreation ==
    [][\A k \in Keys : head'[k].rev < head[k].rev => head'[k].rev = 0]_vars

(* The revisions of the key are exactly those up to the base.              *)
NamesNewest(w) ==
    LET mine == {r \in VisibleRows(w) : r.key = Request(w).key}
    IN  {r.rev : r \in mine} = 0 .. Request(w).expected

(* A call that names the newest revision as its base is never refused with *)
(* a conflict, so the optimistic retry loop ends when nobody interferes.   *)
LatestBaseWins ==
    [][\A w \in Writers :
         outcome[w] # "conflict" /\ outcome'[w] = "conflict" => ~NamesNewest(w)]_vars

(* A batch is durable as a whole: whenever rows appear in the log, all of  *)
(* them belong to one call and every request of that call has its row.     *)
AllOrNothing ==
    [][revisions' # revisions =>
         \E w \in Writers :
            /\ \A i \in DOMAIN tx[w].batch : \E r \in revisions' :
                 SameTarget(r, tx[w].batch[i]) /\ r.content = tx[w].batch[i].content
            /\ \A r \in revisions' \ revisions :
                 \E i \in DOMAIN tx[w].batch : SameTarget(r, tx[w].batch[i])]_vars

(* A row of the log owes an intent to each Outbox subscription of its      *)
(* stream that wants its kind.                                             *)
Owed(i) ==
    /\ SubStream[i.sub] = StreamOf[i.key]
    /\ \E r \in revisions : r.key = i.key /\ r.rev = i.rev
    /\ Kind(i.rev) \in SubKinds[i.sub]

(* The outbox holds exactly the intents the log owes: a replay, a conflict *)
(* or a crash adds none and loses none (I8).                               *)
IntentsMatchRows == \A i \in Intents : i \in intents <=> Owed(i)

(* A schema version that a stream has rows of has exactly one recorded     *)
(* fingerprint: the first writer's, however many builds write such rows.   *)
BaselineRecorded ==
    \A r \in revisions :
        Cardinality({e \in ledger : e.schema = Schema(r)}) = 1

(* Head table, outbox and ledger say what the log says, at every moment a  *)
(* reader can look.                                                        *)
TablesAgree == TypeOK /\ HeadMatchesLog /\ IntentsMatchRows /\ BaselineRecorded

(* Along a key, commit times never decrease (I11), although a Postgres     *)
(* transaction takes its time long before it commits.                      *)
MonotoneTime ==
    \A r, s \in revisions : r.key = s.key /\ r.rev < s.rev => r.at <= s.at

(* "A lost race must surface as RevisionConflict, not as an opaque         *)
(* StoreError" (comment of commit).                                        *)
LostRaceIsConflict == \A w \in Writers : outcome[w] \notin {"integrity", "deadlock"}

(* Every call ends, also when batches wait for each other's rows.          *)
CommitsEnd == \A w \in Writers : Active(w) ~> ~Active(w)

-----------------------------------------------------------------------------
(* The committed rows are a VersionedLog.                                  *)

LogView ==
    [k \in Keys |->
       [n \in {r.rev : r \in {s \in revisions : s.key = k}} |->
          (CHOOSE r \in revisions : r.key = k /\ r.rev = n).content]]

Abstract == INSTANCE VersionedLog
    WITH log <- LogView, Bases <- NoRevision .. MaxRevision - 1

(* Whatever the interleaving of statements, the durable log behaves as if  *)
(* every batch had been committed in one step.                             *)
ImplementsLog == Abstract!Spec

=============================================================================
