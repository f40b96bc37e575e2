-------------------------- MODULE HeadRebuildProofs --------------------------
(* Proofs about rebuild_heads and verify on a live PostgreSQL store, for   *)
(* any number of callers, keys, contents and calls: no aggregate loses its *)
(* head, what was deleted comes back at the newest row, reports are true,  *)
(* and operator and callers never wait for each other.                     *)
(*                                                                         *)
(* The callers' steps are steps of SqlStore, whose invariant IInv is at    *)
(* hand; what is added is what the operator's deleted heads keep callers   *)
(* from doing: an aggregate whose head is deleted gets no new row.         *)
EXTENDS HeadRebuild, SqlStoreProofs

-----------------------------------------------------------------------------
(* The inductive invariant.                                                *)

(* A caller has one request, locks only its head, holds that lock for      *)
(* every head and every later revision it writes, and from when it has     *)
(* seen the head.                                                          *)
OwnLocks(p, t) ==
    /\ p # "idle" => Len(t.batch) = 1
    /\ t.locks \subseteq {At(t).key}
    /\ \A k \in Keys : t.heads[k] # NoRow => k \in t.locks
    /\ \A r \in t.rows : r.rev > 0 => r.key \in t.locks
    /\ p \in {"row", "insert"} /\ t.seen # NoRevision => At(t).key \in t.locks

(* No caller has a lock the operator has.                                  *)
Apart == \A k \in OpLocks, w \in Writers : k \notin tx[w].locks

CallersOK ==
    /\ \A w \in Writers : OwnLocks(pc[w], tx[w])
    /\ \A w \in waiting : Request(w).key \in op.gone

(* The call is at one of its statements.                                   *)
CallOK ==
    /\ op.kind = "none" <=> op.at = "idle"
    /\ op.at \in {"clear", "delete", "upsert"} => op.kind = "rebuild"
    /\ op.kind # "rebuild" => op.gone = {} /\ \A k \in Keys : op.heads[k] = NoRow
    /\ op.at \in {"clear", "delete"} => /\ op.read = {} /\ op.docs = {} /\ op.mismatches = {}
                                       /\ \A k \in Keys : op.heads[k] = NoRow
    /\ op.at = "clear" => op.gone = {} /\ op.doomed = {}
    /\ op.at = "scan" => op.docs = {}
    /\ op.at \in {"scan", "emit", "upsert"} => op.doomed = {}

(* A deleted head was one, and its aggregate is within the scope; the      *)
(* DELETE covers what the SELECT before it found.                          *)
GoneOK ==
    /\ op.gone \cup op.doomed \subseteq op.scope
    /\ \A k \in op.gone \cup op.doomed : head[k] # NoRow
    /\ op.at = "clear" => \A k \in op.found : k \in op.scope /\ head[k] # NoRow
    /\ op.at # "clear" => op.found \subseteq op.gone \cup op.doomed

(* What has been read of an aggregate whose head is deleted is its newest  *)
(* row, and it is on its way back.                                         *)
Current(row) == row \in revisions /\ (row.key \in op.gone => row = NewestRow(row.key))

ReadOK ==
    /\ op.read # {} => op.gone \subseteq op.due
    /\ op.kind = "rebuild" => \A d \in op.docs : Current(d)
    /\ op.at = "upsert" => Current(op.row)
    /\ \A k \in Keys : op.heads[k] # NoRow => Current(op.heads[k]) /\ op.heads[k].key = k
    /\ \A k \in op.gone \cap op.read :
          \/ op.heads[k] # NoRow
          \/ \E d \in op.docs : d.key = k
          \/ op.at = "upsert" /\ op.row.key = k

(* An aggregate that nothing has been committed to since verify began has  *)
(* its newest row for a head.                                              *)
VerifyOK ==
    op.kind = "verify" =>
        /\ \A k \in Keys \ op.moved : RowsOf(k) # {} => head[k] = NewestRow(k)
        /\ \A d \in op.docs : d \in revisions /\ (d.key \notin op.moved => d = NewestRow(d.key))

OpInv == Apart /\ CallOK /\ GoneOK /\ ReadOK /\ VerifyOK /\ MismatchHasCause

RInv == IInv /\ RebuildTypeOK /\ CallersOK /\ OpInv

-----------------------------------------------------------------------------
(* The newest and the first row of an aggregate.                           *)

LEMMA NewestIs ==
    ASSUME revisions \subseteq Rows, NEW k, RowsOf(k) # {}
    PROVE  /\ NewestRow(k) \in RowsOf(k)
           /\ \A s \in RowsOf(k) : NewestRow(k).rev >= s.rev
<1>. DEFINE T == {MaxRevision - r.rev : r \in RowsOf(k)}
<1>0. \A r \in RowsOf(k) : r.rev \in 0 .. MaxRevision
  BY DEF RowsOf, Rows
<1>1. T \subseteq Nat /\ T # {}
  BY <1>0, StoreAssumption
<1>2. PICK x \in T : \A y \in T : x <= y
  BY <1>1, LeastOf
<1>3. PICK r \in RowsOf(k) : x = MaxRevision - r.rev
  BY <1>2
<1>4. \A s \in RowsOf(k) : r.rev >= s.rev
  <2>. TAKE s \in RowsOf(k)
  <2>1. MaxRevision - r.rev <= MaxRevision - s.rev
    BY <1>2, <1>3
  <2>. QED  BY <1>0, <2>1, StoreAssumption
<1>. QED  BY <1>3, <1>4 DEF NewestRow

(* The first revision of an aggregate that has any is a create.            *)
LEMMA CreateExists ==
    ASSUME revisions \subseteq Rows, LogContiguous, NEW r \in revisions
    PROVE  \E p \in revisions : p.key = r.key /\ p.rev = 0
<1>. DEFINE T == {q.rev : q \in RowsOf(r.key)}
<1>0. \A q \in RowsOf(r.key) : q.rev \in Nat /\ q \in revisions /\ q.key = r.key
  BY DEF RowsOf, Rows
<1>1. T \subseteq Nat /\ T # {}
  BY <1>0 DEF RowsOf
<1>2. PICK x \in T : \A y \in T : x <= y
  BY <1>1, LeastOf
<1>3. PICK q \in RowsOf(r.key) : x = q.rev
  BY <1>2
<1>4. CASE q.rev > 0
  <2>1. PICK p \in revisions : p.key = q.key /\ p.rev = q.rev - 1
    BY <1>0, <1>4 DEF LogContiguous
  <2>2. p \in RowsOf(r.key)
    BY <1>0, <2>1 DEF RowsOf
  <2>3. q.rev <= p.rev /\ q.rev \in Nat
    BY <1>0, <1>2, <1>3, <2>2
  <2>. QED  BY <2>1, <2>3
<1>. QED  BY <1>0, <1>3, <1>4

-----------------------------------------------------------------------------
(* An aggregate whose head is deleted gets no new row.                     *)

LEMMA NoRowsForGone ==
    ASSUME RInv, NEW k \in op.gone, NEW w \in Writers, NEW r \in tx[w].rows, r.key = k
    PROVE  r \in revisions
<1>1. k \in Keys /\ r \in Rows /\ revisions \subseteq Rows
  BY DEF RInv, RebuildTypeOK, IInv, TypeInv, TypeOK, Transactions
<1>2. k \notin tx[w].locks
  BY DEF RInv, OpInv, Apart, OpLocks
<1>3. r.rev = 0
  BY <1>1, <1>2 DEF RInv, CallersOK, OwnLocks, Rows
<1>4. PICK h \in revisions : h.key = k
  BY <1>1 DEF RInv, OpInv, GoneOK, IInv, LogInv, HeadMatchesLog
<1>5. PICK p \in revisions : p.key = k /\ p.rev = 0
  BY <1>1, <1>4, CreateExists DEF RInv, IInv, LogInv
<1>6. r = p
  BY <1>3, <1>5 DEF RInv, IInv, Distinct, SameSlot
<1>. QED  BY <1>6

-----------------------------------------------------------------------------
(* The callers' statements.                                                *)

(* w goes on as t at p, and locks nothing the operator has locked.         *)
MovesClear(w, t, p) ==
    /\ tx' = [tx EXCEPT ![w] = t] /\ pc' = [pc EXCEPT ![w] = p]
    /\ UNCHANGED <<revisions, head>>
    /\ OwnLocks(p, t)
    /\ \A k \in t.locks : k \in tx[w].locks \/ k \notin OpLocks

StepsClear(w) == \E t, p : MovesClear(w, t, p)

LEMMA AtOnlyRequest ==
    ASSUME RInv, NEW w \in Writers, pc[w] # "idle"
    PROVE  /\ tx[w] \in Transactions /\ tx[w].pos = 1 /\ Len(tx[w].batch) = 1
           /\ tx[w].pos \in DOMAIN tx[w].batch
           /\ Request(w) = At(tx[w]) /\ Request(w).key \in Keys
           /\ OwnLocks(pc[w], tx[w])
           /\ RowOf(w) \in Rows /\ RowOf(w).key = Request(w).key
           /\ RowOf(w).rev = Target(Request(w))
           /\ Request(w).expected \in Int
<1>1. /\ tx[w] \in Transactions /\ Request(w) \in Requests /\ RowOf(w) \in Rows
      /\ tx[w].pos \in DOMAIN tx[w].batch /\ OwnLocks(pc[w], tx[w])
  BY RequestType DEF RInv, IInv, TypeInv, PosOK, CallersOK
<1>2. Len(tx[w].batch) = 1 /\ tx[w].batch \in Seq(Requests)
  BY <1>1 DEF OwnLocks, Transactions
<1>3. tx[w].pos = 1
  BY <1>1, <1>2
<1>4. Request(w).key \in Keys /\ Request(w).expected \in Int
  BY <1>1, StoreAssumption DEF Requests, NoRevision
<1>. QED  BY <1>1, <1>2, <1>3, <1>4 DEF Request, At, RowOf

LEMMA AbortClear ==
    ASSUME NEW w \in Writers, NEW how, Abort(w, how)
    PROVE  StepsClear(w)
<1>1. OwnLocks("idle", Idle) /\ Idle.locks = {}
  BY DEF OwnLocks, Idle
<1>2. MovesClear(w, Idle, "idle")
  BY <1>1 DEF Abort, tables, MovesClear
<1>. QED  BY <1>2 DEF StepsClear

LEMMA ContinueClear ==
    ASSUME NEW w \in Writers, NEW t, NEW p, Continue(w, t, p), OwnLocks(p, t),
           \A k \in t.locks : k \in tx[w].locks \/ k \notin OpLocks
    PROVE  StepsClear(w)
<1>1. MovesClear(w, t, p)
  BY DEF Continue, tables, MovesClear
<1>. QED  BY <1>1 DEF StepsClear

(* A caller's only request is dealt with.                                  *)
LEMMA ReplayClear ==
    ASSUME NEW w \in Writers, NEW t \in Transactions, Replay(w, t),
           t.pos = 1, Len(t.batch) = 1, OwnLocks("commit", t),
           \A k \in t.locks : k \in tx[w].locks \/ k \notin OpLocks
    PROVE  StepsClear(w)
<1>. DEFINE u == [t EXCEPT !.replays = @ \cup {t.pos}]
<1>1. /\ u.batch = t.batch /\ u.pos = t.pos /\ u.locks = t.locks /\ u.heads = t.heads
      /\ u.rows = t.rows /\ u.seen = t.seen
  BY DEF Transactions
<1>2. NextRequest(w, u)
  BY DEF Replay
<1>. HIDE DEF u
<1>3. Continue(w, u, "commit")
  <2>1. u.pos = 1 /\ Len(u.batch) = 1
    BY <1>1
  <2>2. ~(u.pos < Len(u.batch))
    BY <2>1
  <2>. QED  BY <1>2, <2>2 DEF NextRequest
<1>4. OwnLocks("commit", u)
  BY <1>1 DEF OwnLocks, At
<1>. QED  BY <1>1, <1>3, <1>4, ContinueClear

LEMMA BeginClear ==
    ASSUME RInv, NEW w \in Writers, Begin(w)
    PROVE  StepsClear(w)
<1>1. PICK n \in 1 .. MaxBatch : \E b \in [1 .. n -> Requests] :
         tx' = [tx EXCEPT ![w] = [Idle EXCEPT !.batch = b, !.now = clock]]
  BY DEF Begin
<1>2. PICK b \in [1 .. n -> Requests] :
         tx' = [tx EXCEPT ![w] = [Idle EXCEPT !.batch = b, !.now = clock]]
  BY <1>1
<1>. DEFINE t == [Idle EXCEPT !.batch = b, !.now = clock]
<1>3. t.rows = {} /\ t.batch = b /\ t.heads = [k \in Keys |-> NoRow] /\ t.locks = {}
  BY DEF Idle
<1>4. /\ tx' = [tx EXCEPT ![w] = t] /\ pc' = [pc EXCEPT ![w] = "head"]
      /\ UNCHANGED <<revisions, head>>
  BY <1>2 DEF Begin, tables
<1>. HIDE DEF t
<1>5. n = 1
  BY RebuildAssumption
<1>6. Len(b) = 1
  BY <1>5
<1>7. OwnLocks("head", t)
  BY <1>3, <1>6 DEF OwnLocks
<1>8. MovesClear(w, t, "head")
  BY <1>3, <1>4, <1>7 DEF MovesClear
<1>. QED  BY <1>8 DEF StepsClear

LEMMA SelectHeadClear ==
    ASSUME RInv, NEW w \in Writers, SelectHead(w), Clear(w)
    PROVE  StepsClear(w)
<1>. DEFINE k == Request(w).key
            row == VisibleHead(w, k)
            t == IF row = NoRow
                 THEN [tx[w] EXCEPT !.seen = NoRevision]
                 ELSE [tx[w] EXCEPT !.seen = row.rev, !.locks = @ \cup {k}]
<1>1. pc[w] = "head" /\ Continue(w, t, "row")
  BY DEF SelectHead
<1>2. /\ tx[w] \in Transactions /\ Len(tx[w].batch) = 1 /\ k = At(tx[w]).key
      /\ OwnLocks("head", tx[w])
  BY <1>1, AtOnlyRequest
<1>3. k \notin OpLocks
  BY DEF Clear
<1>. HIDE DEF row, k
<1>4. /\ t.batch = tx[w].batch /\ t.pos = tx[w].pos /\ t.rows = tx[w].rows
      /\ t.heads = tx[w].heads
      /\ \/ t.seen = NoRevision /\ t.locks = tx[w].locks
         \/ t.locks = tx[w].locks \cup {k}
  BY <1>2 DEF Transactions
<1>. HIDE DEF t
<1>5. OwnLocks("row", t)
  BY <1>2, <1>4 DEF OwnLocks, At
<1>. QED  BY <1>1, <1>3, <1>4, <1>5, ContinueClear

LEMMA SelectRowClear ==
    ASSUME RInv, NEW w \in Writers, SelectRow(w)
    PROVE  StepsClear(w)
<1>1. pc[w] = "row"
  BY DEF SelectRow
<1>2. /\ tx[w] \in Transactions /\ tx[w].pos = 1 /\ Len(tx[w].batch) = 1
      /\ OwnLocks("row", tx[w])
  BY <1>1, AtOnlyRequest
<1>3. /\ OwnLocks("commit", tx[w]) /\ OwnLocks("repair", tx[w]) /\ OwnLocks("insert", tx[w])
  BY <1>2 DEF OwnLocks
<1>4. \/ Abort(w, "conflict") \/ Replay(w, tx[w])
      \/ Continue(w, tx[w], "repair") \/ Continue(w, tx[w], "insert")
  BY DEF SelectRow
<1>. QED  BY <1>2, <1>3, <1>4, AbortClear, ReplayClear, ContinueClear

LEMMA InsertRowClear ==
    ASSUME RInv, NEW w \in Writers, InsertRow(w)
    PROVE  StepsClear(w)
<1>. DEFINE row == RowOf(w)
            t == [tx[w] EXCEPT !.rows = @ \cup {row}]
<1>1. pc[w] = "insert"
  BY DEF InsertRow
<1>2. /\ tx[w] \in Transactions /\ Len(tx[w].batch) = 1
      /\ OwnLocks("insert", tx[w]) /\ Request(w) = At(tx[w]) /\ Request(w).expected \in Int
      /\ row.key = Request(w).key /\ row.rev = Target(Request(w))
  BY <1>1, AtOnlyRequest
<1>3. tx[w].seen = Request(w).expected
  BY <1>1, <1>2 DEF RInv, IInv, WritersOK, WriterOK, CasDone
<1>4. row.rev > 0 => row.key \in tx[w].locks
  BY <1>2, <1>3 DEF OwnLocks, Target, NoRevision
<1>. HIDE DEF row
<1>5. /\ t.batch = tx[w].batch /\ t.pos = tx[w].pos /\ t.rows = tx[w].rows \cup {row}
      /\ t.heads = tx[w].heads /\ t.locks = tx[w].locks
  BY <1>2 DEF Transactions
<1>. HIDE DEF t
<1>6. OwnLocks("upsert", t)
  BY <1>2, <1>4, <1>5 DEF OwnLocks, At
<1>7. Abort(w, "conflict") \/ Continue(w, t, "upsert")
  BY DEF InsertRow, UniqueViolation, row, t
<1>. QED  BY <1>5, <1>6, <1>7, AbortClear, ContinueClear

LEMMA PutHeadLocks ==
    ASSUME NEW t \in Transactions, NEW r
    PROVE  PutHead(t, r).locks = t.locks \cup {r.key}
BY DEF PutHead, Transactions

(* Putting the row of its request in the head table, a caller locks only   *)
(* the head of its request.                                                *)
LEMMA PutHeadMoves ==
    ASSUME RInv, NEW w \in Writers, pc[w] \in {"upsert", "repair"}, Clear(w),
           NEW r \in Rows, r.key = Request(w).key, NEW u, u = PutHead(tx[w], r)
    PROVE  /\ u \in Transactions /\ u.pos = 1 /\ Len(u.batch) = 1
           /\ OwnLocks("ledger", u) /\ OwnLocks("commit", u)
           /\ \A k \in u.locks : k \in tx[w].locks \/ k \notin OpLocks
<1>1. /\ tx[w] \in Transactions /\ tx[w].pos = 1 /\ Len(tx[w].batch) = 1
      /\ OwnLocks(pc[w], tx[w]) /\ Request(w) = At(tx[w])
  BY AtOnlyRequest
<1>2. /\ u \in Transactions /\ u.pos = 1 /\ u.batch = tx[w].batch /\ u.rows = tx[w].rows
      /\ u.heads = [tx[w].heads EXCEPT ![r.key] = r] /\ u.locks = tx[w].locks \cup {r.key}
  BY <1>1, PutHeadType, PutHeadLocks
<1>3. tx[w].heads \in [Keys -> Rows \cup {NoRow}] /\ r.key = At(u).key
  BY <1>1, <1>2 DEF Transactions, At
<1>4. OwnLocks("ledger", u) /\ OwnLocks("commit", u)
  BY <1>1, <1>2, <1>3 DEF OwnLocks, At
<1>5. \A k \in u.locks : k \in tx[w].locks \/ k \notin OpLocks
  BY <1>2 DEF Clear
<1>. QED  BY <1>1, <1>2, <1>4, <1>5

LEMMA WriteHeadClear ==
    ASSUME RInv, NEW w \in Writers, WriteHead(w), Clear(w)
    PROVE  StepsClear(w)
<1>. DEFINE owed == IntentsFor(Request(w).key, Target(Request(w)))
            u == PutHead(tx[w], RowOf(w))
            t == [u EXCEPT !.intents = @ \cup owed]
<1>1. pc[w] = "upsert" /\ (Abort(w, "bad_intent") \/ Continue(w, t, "ledger"))
  BY DEF WriteHead
<1>2. RowOf(w) \in Rows /\ RowOf(w).key = Request(w).key
  BY <1>1, AtOnlyRequest
<1>3. /\ u \in Transactions /\ OwnLocks("ledger", u)
      /\ \A k \in u.locks : k \in tx[w].locks \/ k \notin OpLocks
  BY <1>1, <1>2, PutHeadMoves
<1>. HIDE DEF u, owed
<1>4. /\ t.batch = u.batch /\ t.pos = u.pos /\ t.rows = u.rows /\ t.heads = u.heads
      /\ t.locks = u.locks /\ t.seen = u.seen
  BY <1>3 DEF Transactions
<1>. HIDE DEF t
<1>5. OwnLocks("ledger", t)
  BY <1>3, <1>4 DEF OwnLocks, At
<1>. QED  BY <1>1, <1>3, <1>4, <1>5, AbortClear, ContinueClear

LEMMA RepairHeadClear ==
    ASSUME RInv, NEW w \in Writers, RepairHead(w), Clear(w)
    PROVE  StepsClear(w)
<1>1. pc[w] = "repair"
  BY DEF RepairHead
<1>2. PICK row \in Existing(w) : Replay(w, PutHead(tx[w], row))
  BY DEF RepairHead
<1>3. row \in Rows /\ row.key = Request(w).key
  <2>1. tx[w] \in Transactions /\ revisions \subseteq Rows
    BY <1>1, AtOnlyRequest DEF RInv, IInv, TypeInv, TypeOK
  <2>. QED  BY <2>1 DEF Existing, VisibleRows, SameTarget, Transactions
<1>. DEFINE u == PutHead(tx[w], row)
<1>4. /\ u \in Transactions /\ u.pos = 1 /\ Len(u.batch) = 1 /\ OwnLocks("commit", u)
      /\ \A k \in u.locks : k \in tx[w].locks \/ k \notin OpLocks
  BY <1>1, <1>3, PutHeadMoves
<1>5. Replay(w, u)
  BY <1>2
<1>. HIDE DEF u
<1>. QED  BY <1>4, <1>5, ReplayClear

LEMMA UpsertFingerprintClear ==
    ASSUME RInv, NEW w \in Writers, UpsertFingerprint(w)
    PROVE  StepsClear(w)
<1>. DEFINE t == [tx[w] EXCEPT !.ledger = @ \cup NewEntries(w)]
<1>1. pc[w] = "ledger" /\ NextRequest(w, t)
  BY DEF UpsertFingerprint
<1>2. /\ tx[w] \in Transactions /\ tx[w].pos = 1 /\ Len(tx[w].batch) = 1
      /\ OwnLocks("ledger", tx[w])
  BY <1>1, AtOnlyRequest
<1>3. /\ t.batch = tx[w].batch /\ t.pos = tx[w].pos /\ t.rows = tx[w].rows
      /\ t.heads = tx[w].heads /\ t.locks = tx[w].locks /\ t.seen = tx[w].seen
  BY <1>2 DEF Transactions
<1>. HIDE DEF t
<1>4. Continue(w, t, "commit")
  <2>1. t.pos = 1 /\ Len(t.batch) = 1
    BY <1>2, <1>3
  <2>2. ~(t.pos < Len(t.batch))
    BY <2>1
  <2>. QED  BY <1>1, <2>2 DEF NextRequest
<1>5. OwnLocks("commit", t)
  BY <1>2, <1>3 DEF OwnLocks, At
<1>. QED  BY <1>3, <1>4, <1>5, ContinueClear

LEMMA AckMoves ==
    ASSUME NEW w \in Writers, Ack(w)
    PROVE  StepsClear(w)
<1>1. OwnLocks("idle", Idle) /\ Idle.locks = {}
  BY DEF OwnLocks, Idle
<1>2. MovesClear(w, Idle, "idle")
  BY <1>1 DEF Ack, tables, MovesClear
<1>. QED  BY <1>2 DEF StepsClear

LEMMA CallerMoves ==
    ASSUME RInv, NEW w \in Writers, CallerStatement(w) \/ Begin(w) \/ Crash(w)
    PROVE  StepsClear(w)
BY SelectHeadClear, WriteHeadClear, RepairHeadClear, SelectRowClear, InsertRowClear,
   UpsertFingerprintClear, AckMoves, BeginClear, AbortClear DEF CallerStatement, Crash

(* A caller that waits for the operator does nothing but die.              *)
LEMMA WaitersWait ==
    ASSUME RInv, NEW w \in Writers, CallerStatement(w) \/ Begin(w) \/ CommitTx(w)
    PROVE  w \notin waiting
<1>. SUFFICES ASSUME w \in waiting PROVE FALSE
  OBVIOUS
<1>1. pc[w] = "head" /\ Request(w).key \in op.gone
  BY DEF RInv, RebuildTypeOK, CallersOK
<1>2. ~Clear(w)
  BY <1>1 DEF Clear, OpLocks
<1>. QED  BY <1>1, <1>2 DEF CallerStatement, Begin, CommitTx, SelectRow, InsertRow,
                           UpsertFingerprint, Ack

(* What only looks at the call and at the tables stays.                    *)
LEMMA OpKeeps ==
    ASSUME CallOK, GoneOK, ReadOK, VerifyOK, MismatchHasCause,
           UNCHANGED <<op, revisions, head>>
    PROVE  CallOK' /\ GoneOK' /\ ReadOK' /\ VerifyOK' /\ MismatchHasCause'
<1>1. \A k : RowsOf(k)' = RowsOf(k) /\ NewestRow(k)' = NewestRow(k)
  BY DEF RowsOf, NewestRow
<1>2. \A r : Current(r)' = Current(r)
  BY <1>1 DEF Current
<1>3. CallOK' /\ GoneOK' /\ MismatchHasCause'
  BY DEF CallOK, GoneOK, MismatchHasCause
<1>4. ReadOK'
  BY <1>2 DEF ReadOK
<1>5. VerifyOK'
  BY <1>1 DEF VerifyOK
<1>. QED  BY <1>3, <1>4, <1>5

(* A caller that publishes nothing disturbs no call of the operator.       *)
LEMMA CallerKeeps ==
    ASSUME RInv, NEW w \in Writers, StepsClear(w), IInv', UNCHANGED <<op, calls>>,
           w \notin waiting', waiting' \subseteq waiting
    PROVE  RInv'
<1>1. PICK t, p : MovesClear(w, t, p)
  BY DEF StepsClear
<1>2. /\ tx' = [tx EXCEPT ![w] = t] /\ pc' = [pc EXCEPT ![w] = p]
      /\ UNCHANGED <<revisions, head>> /\ OwnLocks(p, t)
      /\ \A k \in t.locks : k \in tx[w].locks \/ k \notin OpLocks
  BY <1>1 DEF MovesClear
<1>3. tx \in [Writers -> Transactions] /\ pc \in [Writers -> PCs]
  BY DEF RInv, IInv, TypeInv, TypeOK
<1>4. /\ tx'[w] = t /\ pc'[w] = p
      /\ \A v \in Writers : v # w => tx'[v] = tx[v] /\ pc'[v] = pc[v]
  BY <1>2, <1>3
<1>5. RebuildTypeOK'
  BY <1>4 DEF RInv, RebuildTypeOK
<1>6. CallersOK'
  <2>1. ASSUME NEW v \in Writers PROVE OwnLocks(pc'[v], tx'[v])
    <3>1. CASE v = w
      BY <1>2, <1>4, <3>1
    <3>2. CASE v # w
      BY <1>4, <3>2 DEF RInv, CallersOK
    <3>. QED  BY <3>1, <3>2
  <2>2. ASSUME NEW v \in waiting' PROVE Request(v).key' \in op'.gone
    <3>1. v \in Writers /\ v # w /\ v \in waiting
      BY DEF RInv, RebuildTypeOK
    <3>2. tx'[v] = tx[v]
      BY <1>4, <3>1
    <3>3. Request(v)' = Request(v)
      BY <3>2 DEF Request
    <3>. QED  BY <3>1, <3>3 DEF RInv, CallersOK
  <2>. QED  BY <2>1, <2>2 DEF CallersOK
<1>7. Apart'
  <2>1. OpLocks' = OpLocks
    BY DEF OpLocks
  <2>. QED  BY <1>2, <1>4, <2>1 DEF Apart, RInv, OpInv
<1>. QED  BY <1>2, <1>5, <1>6, <1>7, OpKeeps DEF RInv, OpInv

-----------------------------------------------------------------------------
(* COMMIT of a caller.                                                     *)

(* It changes the log and the head of its aggregate, whose head the        *)
(* operator has not deleted, and nothing else.                             *)
LEMMA PublishChanges ==
    ASSUME RInv, NEW w \in Writers, CommitTx(w), NEW k
    PROVE  /\ k # Request(w).key \/ k \in op.gone => RowsOf(k)' = RowsOf(k)
           /\ k \in Keys /\ (k # Request(w).key \/ k \in OpLocks) => head'[k] = head[k]
           /\ k \in Keys /\ head[k] # NoRow => head'[k] # NoRow
<1>1. /\ pc[w] = "commit" /\ revisions' = revisions \cup tx[w].rows
      /\ head' = [j \in Keys |-> VisibleHead(w, j)]
  BY DEF CommitTx
<1>2. /\ tx[w] \in Transactions /\ tx[w].pos = 1 /\ Len(tx[w].batch) = 1
      /\ OwnLocks("commit", tx[w]) /\ Request(w) = At(tx[w])
  BY <1>1, AtOnlyRequest
<1>3. ASSUME NEW r \in tx[w].rows PROVE r.key = Request(w).key
  <2>1. PICK i \in DOMAIN tx[w].batch : SameTarget(r, tx[w].batch[i])
    BY <1>1 DEF RInv, IInv, WritersOK, WriterOK, Asked
  <2>2. i = 1
    BY <1>2, <2>1 DEF Transactions
  <2>. QED  BY <1>2, <2>1, <2>2 DEF SameTarget, At
<1>4. k # Request(w).key \/ k \in op.gone => RowsOf(k)' = RowsOf(k)
  <2>1. k \in op.gone => \A r \in tx[w].rows : r.key = k => r \in revisions
    BY NoRowsForGone
  <2>. QED  BY <1>1, <1>3, <2>1 DEF RowsOf
<1>5. k \in Keys /\ (k # Request(w).key \/ k \in OpLocks) => tx[w].heads[k] = NoRow
  BY <1>2 DEF OwnLocks, RInv, OpInv, Apart
<1>. QED  BY <1>1, <1>4, <1>5 DEF VisibleHead

LEMMA PublishKeeps ==
    ASSUME RInv, NEW w \in Writers, Publish(w), IInv'
    PROVE  RInv'
<1>. DEFINE key == Request(w).key
            t == [Idle EXCEPT !.batch = tx[w].batch, !.now = tx[w].now,
                              !.replays = tx[w].replays]
<1>1. /\ CommitTx(w) /\ UNCHANGED <<waiting, calls>> /\ pc[w] = "commit"
      /\ tx' = [tx EXCEPT ![w] = t] /\ pc' = [pc EXCEPT ![w] = "ack"]
      /\ revisions \subseteq revisions'
      /\ op' = IF op.at = "idle" THEN op ELSE [op EXCEPT !.moved = @ \cup {key}]
  BY DEF Publish, CommitTx
<1>2. Len(tx[w].batch) = 1 /\ key \in Keys
  BY <1>1, AtOnlyRequest
<1>3. t.rows = {} /\ t.batch = tx[w].batch /\ t.heads = [k \in Keys |-> NoRow] /\ t.locks = {}
  BY DEF Idle
<1>. HIDE DEF t, key
<1>4. /\ op'.kind = op.kind /\ op'.at = op.at /\ op'.scope = op.scope /\ op'.found = op.found
      /\ op'.doomed = op.doomed /\ op'.gone = op.gone /\ op'.due = op.due
      /\ op'.read = op.read /\ op'.docs = op.docs /\ op'.row = op.row
      /\ op'.heads = op.heads /\ op'.mismatches = op.mismatches
      /\ op'.moved = IF op.at = "idle" THEN op.moved ELSE op.moved \cup {key}
  BY <1>1 DEF RInv, RebuildTypeOK
<1>5. /\ tx'[w] = t /\ pc'[w] = "ack" /\ w \notin waiting
      /\ \A v \in Writers : v # w => tx'[v] = tx[v] /\ pc'[v] = pc[v]
  BY <1>1, WaitersWait DEF RInv, IInv, TypeInv, TypeOK
<1>6. /\ \A k : k # key \/ k \in op.gone => RowsOf(k)' = RowsOf(k)
      /\ \A k \in Keys : k # key \/ k \in OpLocks => head'[k] = head[k]
      /\ \A k \in Keys : head[k] # NoRow => head'[k] # NoRow
  BY <1>1, PublishChanges DEF key
<1>7. \A k : k # key \/ k \in op.gone => NewestRow(k)' = NewestRow(k)
  BY <1>6 DEF NewestRow
<1>8. RebuildTypeOK'
  <2>1. op' \in [kind : {"none", "rebuild", "verify"},
                 at : {"idle", "clear", "delete", "scan", "emit", "upsert"},
                 scope : SUBSET Keys, found : SUBSET Keys, doomed : SUBSET Keys, gone : SUBSET Keys,
                 due : SUBSET Keys, read : SUBSET Keys, docs : SUBSET Rows,
                 row : Rows \cup {NoRow}, heads : [Keys -> Rows \cup {NoRow}],
                 mismatches : SUBSET Keys, moved : SUBSET Keys]
    BY <1>1, <1>2 DEF RInv, RebuildTypeOK
  <2>2. waiting' \subseteq {v \in Writers : pc'[v] = "head"} /\ calls' \in Nat
    BY <1>1, <1>5 DEF RInv, RebuildTypeOK
  <2>. QED  BY <2>1, <2>2 DEF RebuildTypeOK
<1>9. CallersOK'
  <2>1. OwnLocks("ack", t)
    BY <1>2, <1>3 DEF OwnLocks
  <2>2. \A v \in Writers : OwnLocks(pc'[v], tx'[v])
    BY <1>5, <2>1 DEF RInv, CallersOK
  <2>3. ASSUME NEW v \in waiting PROVE Request(v)' = Request(v)
    <3>1. v \in Writers /\ v # w
      BY <1>5 DEF RInv, RebuildTypeOK
    <3>. QED  BY <1>5, <3>1 DEF Request
  <2>. QED  BY <1>1, <1>4, <2>2, <2>3 DEF RInv, CallersOK
<1>10. Apart'
  <2>1. OpLocks' = OpLocks
    BY <1>4 DEF OpLocks
  <2>. QED  BY <1>3, <1>5, <2>1 DEF RInv, OpInv, Apart
<1>11. CallOK' /\ MismatchHasCause'
  BY <1>4 DEF RInv, OpInv, CallOK, MismatchHasCause
<1>12. GoneOK'
  BY <1>4, <1>6 DEF RInv, OpInv, GoneOK, RebuildTypeOK
<1>13. ReadOK'
  <2>1. \A r : Current(r) => Current(r)'
    BY <1>1, <1>4, <1>7 DEF Current
  <2>. QED  BY <1>4, <2>1 DEF RInv, OpInv, ReadOK
<1>14. VerifyOK'
  <2>. SUFFICES ASSUME op.kind = "verify" PROVE VerifyOK'
    BY <1>4 DEF VerifyOK
  <2>1. op'.moved = op.moved \cup {key}
    BY <1>4 DEF RInv, OpInv, CallOK
  <2>. QED  BY <1>1, <1>4, <1>6, <1>7, <2>1 DEF RInv, OpInv, VerifyOK
<1>. QED  BY <1>8, <1>9, <1>10, <1>11, <1>12, <1>13, <1>14 DEF RInv, OpInv

LEMMA AwaitKeeps ==
    ASSUME RInv, NEW w \in Writers, AwaitOperator(w), IInv'
    PROVE  RInv'
<1>1. /\ pc[w] = "head" /\ Request(w).key \in op.gone /\ waiting' = waiting \cup {w}
      /\ UNCHANGED <<vars, op, calls>> /\ UNCHANGED <<tx, pc, revisions, head>>
  BY DEF AwaitOperator, vars
<1>2. RebuildTypeOK'
  BY <1>1 DEF RInv, RebuildTypeOK
<1>3. \A v : Request(v)' = Request(v)
  BY <1>1 DEF Request
<1>4. CallersOK'
  BY <1>1, <1>3 DEF RInv, CallersOK
<1>5. Apart'
  BY <1>1 DEF RInv, OpInv, Apart, OpLocks
<1>. QED  BY <1>1, <1>2, <1>4, <1>5, OpKeeps DEF RInv, OpInv

-----------------------------------------------------------------------------
(* The operator's statements.                                              *)

OpType ==
    [kind : {"none", "rebuild", "verify"},
     at : {"idle", "clear", "delete", "scan", "emit", "upsert"},
     scope : SUBSET Keys, found : SUBSET Keys, doomed : SUBSET Keys, gone : SUBSET Keys,
     due : SUBSET Keys, read : SUBSET Keys, docs : SUBSET Rows,
     row : Rows \cup {NoRow}, heads : [Keys -> Rows \cup {NoRow}],
     mismatches : SUBSET Keys, moved : SUBSET Keys]

LEMMA OpHasType ==
    ASSUME RInv
    PROVE  /\ op \in OpType /\ waiting \subseteq {w \in Writers : pc[w] = "head"}
           /\ calls \in Nat /\ revisions \subseteq Rows /\ LogInv
           /\ head \in [Keys -> Rows \cup {NoRow}] /\ waiting \subseteq Writers
BY DEF RInv, RebuildTypeOK, OpType, IInv, TypeInv, TypeOK

LEMMA NoCallType == NoCall \in OpType
BY DEF NoCall, OpType

(* A statement of the operator that publishes nothing leaves the callers   *)
(* as they are.                                                            *)
LEMMA OperatorKeeps ==
    ASSUME RInv, UNCHANGED vars, waiting' \subseteq waiting, calls' \in Nat,
           op' \in OpType, op.gone \subseteq op'.gone \/ waiting' = {},
           \A k \in OpLocks' : k \in OpLocks \/ Free(k),
           CallOK', GoneOK', ReadOK', VerifyOK', MismatchHasCause'
    PROVE  RInv'
<1>1. /\ UNCHANGED <<tx, pc, revisions, head>> /\ IInv'
  <2>1. IInv'
    BY SafeStep DEF RInv
  <2>. QED  BY <2>1 DEF vars
<1>2. RebuildTypeOK'
  BY <1>1 DEF RInv, RebuildTypeOK, OpType
<1>3. \A v : Request(v)' = Request(v)
  BY <1>1 DEF Request
<1>4. CallersOK'
  BY <1>1, <1>3 DEF RInv, CallersOK
<1>5. Apart'
  BY <1>1 DEF RInv, OpInv, Apart, Free
<1>. QED  BY <1>1, <1>2, <1>4, <1>5 DEF RInv, OpInv

(* No operator's call, or a new one.                                       *)
LEMMA NothingHeld ==
    ASSUME RInv, op.at = "idle"
    PROVE  op.gone = {} /\ OpLocks = {}
<1>1. op.kind = "none"
  BY DEF RInv, OpInv, CallOK
<1>. QED  BY <1>1 DEF RInv, OpInv, CallOK, OpLocks

LEMMA CrashOperatorKeeps ==
    ASSUME RInv, CrashOperator
    PROVE  RInv'
<1>1. /\ op' = NoCall /\ waiting' = {} /\ UNCHANGED vars /\ calls' = calls
  BY DEF CrashOperator
<1>2. calls' \in Nat /\ op' \in OpType
  BY <1>1, OpHasType, NoCallType
<1>3. OpLocks' = {}
  BY <1>1 DEF OpLocks, NoCall
<1>4. CallOK' /\ GoneOK' /\ VerifyOK' /\ MismatchHasCause'
  BY <1>1 DEF CallOK, GoneOK, VerifyOK, MismatchHasCause, NoCall
<1>5. ReadOK'
  BY <1>1 DEF ReadOK, NoCall
<1>. QED  BY <1>1, <1>2, <1>3, <1>4, <1>5, OperatorKeeps

LEMMA StartKeeps ==
    ASSUME RInv, NEW S \in Scopes, StartRebuild(S) \/ StartVerify(S)
    PROVE  RInv'
<1>1. S \subseteq Keys
  BY RebuildAssumption
<1>2. op.at = "idle" /\ UNCHANGED vars /\ UNCHANGED <<waiting, revisions, head>> /\ calls' = calls + 1
  BY DEF StartRebuild, StartVerify, vars
<1>3. calls' \in Nat /\ op.gone = {}
  BY <1>2, OpHasType, NothingHeld
<1>4. /\ op'.gone = {} /\ op'.read = {} /\ op'.docs = {} /\ op'.mismatches = {} /\ op'.row = NoRow
      /\ op'.heads = [k \in Keys |-> NoRow] /\ op'.due = {} /\ op'.moved = Lagging
      /\ op'.scope = S
      /\ op'.doomed = {}
      /\ \/ op'.kind = "rebuild" /\ op'.found = Heads(S) /\ op'.at = "clear"
         \/ op'.kind = "verify" /\ op'.found = {} /\ op'.at = "scan"
  <2>1. CASE StartRebuild(S)
    BY <2>1 DEF StartRebuild, NoCall
  <2>2. CASE StartVerify(S)
    BY <2>2 DEF StartVerify, NoCall
  <2>. QED  BY <2>1, <2>2
<1>5. op' \in OpType
  <2>1. Lagging \subseteq Keys /\ Heads(S) \subseteq Keys
    BY <1>1 DEF Lagging, Heads
  <2>2. CASE StartRebuild(S)
    BY <1>1, <2>1, <2>2, NoCallType DEF StartRebuild, OpType
  <2>3. CASE StartVerify(S)
    BY <1>1, <2>1, <2>3, NoCallType DEF StartVerify, OpType
  <2>. QED  BY <2>2, <2>3
<1>6. OpLocks' = {}
  BY <1>4 DEF OpLocks
<1>7. CallOK' /\ MismatchHasCause'
  BY <1>4 DEF CallOK, MismatchHasCause
<1>8. GoneOK'
  BY <1>2, <1>4 DEF GoneOK, Heads
<1>9. ReadOK'
  BY <1>4 DEF ReadOK
<1>10. VerifyOK'
  <2>1. \A k : RowsOf(k)' = RowsOf(k) /\ NewestRow(k)' = NewestRow(k)
    BY <1>2 DEF RowsOf, NewestRow
  <2>. QED  BY <1>2, <1>4, <2>1 DEF VerifyOK, Lagging
<1>. QED  BY <1>2, <1>3, <1>5, <1>6, <1>7, <1>8, <1>9, <1>10, OperatorKeeps

LEMMA DeleteHeadsKeeps ==
    ASSUME RInv, DeleteHeads
    PROVE  RInv'
<1>. DEFINE doomed == Heads(op.scope)
<1>1. /\ op.at = "clear"
      /\ op' = [op EXCEPT !.doomed = doomed, !.at = IF doomed = {} THEN "scan" ELSE "delete"]
      /\ UNCHANGED vars /\ UNCHANGED <<waiting, calls, revisions, head>>
  BY DEF DeleteHeads, OperatorGoes, vars
<1>2. op \in OpType /\ calls' \in Nat
  BY <1>1, OpHasType
<1>3. doomed \subseteq op.scope /\ \A k \in op.scope : k \in doomed <=> head[k] # NoRow
  BY DEF Heads
<1>. HIDE DEF doomed
<1>4. op' \in OpType
  BY <1>1, <1>2, <1>3 DEF OpType
<1>5. /\ op'.doomed = doomed /\ op'.gone = op.gone
      /\ op'.at = IF doomed = {} THEN "scan" ELSE "delete"
      /\ op'.kind = op.kind /\ op'.scope = op.scope /\ op'.found = op.found
      /\ op'.due = op.due /\ op'.read = op.read /\ op'.docs = op.docs /\ op'.row = op.row
      /\ op'.heads = op.heads /\ op'.mismatches = op.mismatches /\ op'.moved = op.moved
  BY <1>1, <1>2 DEF OpType
<1>6. /\ op.kind = "rebuild" /\ op.read = {} /\ op.docs = {} /\ op.mismatches = {}
      /\ op.gone = {} /\ \A j \in Keys : op.heads[j] = NoRow
  BY <1>1 DEF RInv, OpInv, CallOK
<1>7. \A j \in OpLocks' : j \in OpLocks
  BY <1>5 DEF OpLocks
<1>8. CallOK' /\ MismatchHasCause' /\ VerifyOK'
  BY <1>5, <1>6 DEF CallOK, MismatchHasCause, VerifyOK
<1>9. GoneOK'
  BY <1>1, <1>3, <1>5, <1>6 DEF RInv, OpInv, GoneOK
<1>10. ReadOK'
  BY <1>5, <1>6 DEF ReadOK
<1>. QED  BY <1>1, <1>2, <1>4, <1>5, <1>7, <1>8, <1>9, <1>10, OperatorKeeps

LEMMA DeleteHeadKeeps ==
    ASSUME RInv, NEW k \in Keys, DeleteHead(k)
    PROVE  RInv'
<1>1. /\ op.at = "delete" /\ k \in op.doomed /\ Free(k)
      /\ op' = [op EXCEPT !.doomed = @ \ {k}, !.gone = @ \cup {k},
                          !.at = IF op.doomed = {k} THEN "scan" ELSE "delete"]
      /\ UNCHANGED vars /\ UNCHANGED <<waiting, calls, revisions, head>>
  BY DEF DeleteHead, OperatorGoes, vars
<1>2. op \in OpType /\ calls' \in Nat
  BY <1>1, OpHasType
<1>3. op' \in OpType
  BY <1>1, <1>2 DEF OpType
<1>4. /\ op'.doomed = op.doomed \ {k} /\ op'.gone = op.gone \cup {k}
      /\ op'.at = IF op.doomed = {k} THEN "scan" ELSE "delete"
      /\ op'.kind = op.kind /\ op'.scope = op.scope /\ op'.found = op.found /\ op'.due = op.due
      /\ op'.read = op.read /\ op'.docs = op.docs /\ op'.row = op.row
      /\ op'.heads = op.heads /\ op'.mismatches = op.mismatches /\ op'.moved = op.moved
  BY <1>1, <1>2 DEF OpType
<1>5. /\ op.kind = "rebuild" /\ op.read = {} /\ op.docs = {} /\ op.mismatches = {}
      /\ \A j \in Keys : op.heads[j] = NoRow
  BY <1>1 DEF RInv, OpInv, CallOK
<1>6. \A j \in OpLocks' : j \in OpLocks \/ Free(j)
  BY <1>1, <1>4 DEF OpLocks
<1>7. CallOK' /\ MismatchHasCause' /\ VerifyOK'
  BY <1>4, <1>5 DEF CallOK, MismatchHasCause, VerifyOK
<1>8. GoneOK'
  BY <1>1, <1>4 DEF RInv, OpInv, GoneOK
<1>9. ReadOK'
  BY <1>4, <1>5 DEF ReadOK
<1>. QED  BY <1>1, <1>2, <1>3, <1>4, <1>6, <1>7, <1>8, <1>9, OperatorKeeps

LEMMA ReadChunkKeeps ==
    ASSUME RInv, NEW S \in SUBSET Keys, ReadChunk(S)
    PROVE  RInv'
<1>. DEFINE found == {NewestRow(k) : k \in S}
<1>1. /\ op.at = "scan" /\ S \subseteq Unread
      /\ op' = [op EXCEPT !.read = @ \cup S, !.at = "emit", !.docs = found,
                          !.due = IF op.read = {} THEN Unread ELSE @]
      /\ UNCHANGED vars /\ UNCHANGED <<waiting, calls, revisions, head>>
  BY DEF ReadChunk, OperatorGoes, vars
<1>2. op \in OpType /\ calls' \in Nat /\ revisions \subseteq Rows
  BY <1>1, OpHasType
<1>3. ASSUME NEW k \in S
      PROVE  NewestRow(k) \in revisions /\ NewestRow(k).key = k
  <2>1. RowsOf(k) # {}
    BY <1>1 DEF Unread
  <2>. QED  BY <1>2, <2>1, NewestIs DEF RowsOf
<1>4. /\ found \subseteq revisions /\ (\A d \in found : d = NewestRow(d.key))
      /\ \A k \in S : \E d \in found : d.key = k
  BY <1>3
<1>. HIDE DEF found
<1>5. op' \in OpType
  <2>1. Unread \subseteq Keys /\ found \subseteq Rows
    BY <1>2, <1>4 DEF OpType, Unread
  <2>. QED  BY <1>1, <1>2, <2>1 DEF OpType
<1>6. /\ op'.read = op.read \cup S /\ op'.at = "emit" /\ op'.docs = found
      /\ op'.due = (IF op.read = {} THEN Unread ELSE op.due)
      /\ op'.kind = op.kind /\ op'.scope = op.scope /\ op'.found = op.found
      /\ op'.doomed = op.doomed
      /\ op'.gone = op.gone /\ op'.row = op.row
      /\ op'.heads = op.heads /\ op'.mismatches = op.mismatches /\ op'.moved = op.moved
  BY <1>1, <1>2 DEF OpType
<1>7. \A k : RowsOf(k)' = RowsOf(k) /\ NewestRow(k)' = NewestRow(k)
  BY <1>1 DEF RowsOf, NewestRow
<1>8. \A k \in OpLocks' : k \in OpLocks
  BY <1>6 DEF OpLocks
<1>9. CallOK' /\ MismatchHasCause'
  BY <1>1, <1>6 DEF RInv, OpInv, CallOK, MismatchHasCause
<1>10. GoneOK'
  BY <1>1, <1>6 DEF RInv, OpInv, GoneOK
<1>11. ReadOK'
  <2>1. \A r : Current(r)' = Current(r)
    BY <1>1, <1>6, <1>7 DEF Current
  <2>2. op.gone \subseteq op'.due
    <3>1. CASE op.read # {}
      BY <1>6, <3>1 DEF RInv, OpInv, ReadOK
    <3>2. CASE op.read = {}
      <4>1. ASSUME NEW k \in op.gone PROVE k \in Unread
        <5>1. k \in op.scope /\ k \in Keys /\ head[k] # NoRow
          BY <1>2 DEF RInv, OpInv, GoneOK, OpType
        <5>2. head[k] \in RowsOf(k)
          BY <5>1, OpHasType DEF LogInv, HeadMatchesLog, RowsOf
        <5>. QED  BY <3>2, <5>1, <5>2 DEF Unread
      <4>. QED  BY <1>6, <3>2, <4>1
    <3>. QED  BY <3>1, <3>2
  <2>3. \A d \in found : Current(d)
    BY <1>4 DEF Current
  <2>4. ASSUME NEW k \in op.gone \cap (op.read \cup S)
        PROVE  op.heads[k] # NoRow \/ \E d \in found : d.key = k
    BY <1>1, <1>4 DEF RInv, OpInv, ReadOK, CallOK
  <2>5. \A k \in Keys : op.heads[k] # NoRow => Current(op.heads[k]) /\ op.heads[k].key = k
    BY DEF RInv, OpInv, ReadOK
  <2>. QED  BY <1>6, <2>1, <2>2, <2>3, <2>4, <2>5 DEF ReadOK
<1>12. VerifyOK'
  BY <1>1, <1>4, <1>6, <1>7 DEF RInv, OpInv, VerifyOK
<1>. QED  BY <1>1, <1>2, <1>5, <1>6, <1>8, <1>9, <1>10, <1>11, <1>12, OperatorKeeps

LEMMA LastRowKeeps ==
    ASSUME RInv, NEW doc \in op.docs, LastRow(doc)
    PROVE  RInv'
<1>. DEFINE last == NewestRow(doc.key)
            rest == op.docs \ {doc}
<1>1. /\ op.at = "emit" /\ op.kind = "rebuild"
      /\ UNCHANGED vars /\ UNCHANGED <<waiting, calls, revisions, head>>
      /\ \/ /\ last.content = doc.content
            /\ op' = [op EXCEPT !.docs = rest, !.row = last, !.at = "upsert"]
         \/ /\ last.content # doc.content
            /\ op' = [op EXCEPT !.docs = rest, !.at = AfterEmit(rest),
                                !.mismatches = @ \cup {doc.key}]
  BY DEF LastRow, OperatorGoes, vars, LatestRevision
<1>2. op \in OpType /\ calls' \in Nat /\ revisions \subseteq Rows
  BY <1>1, OpHasType
<1>3. Current(doc) /\ doc \in revisions /\ doc.key \in Keys
  BY <1>1, <1>2 DEF RInv, OpInv, ReadOK, Current, Rows
<1>4. last \in revisions /\ last.key = doc.key
  <2>1. doc \in RowsOf(doc.key)
    BY <1>3 DEF RowsOf
  <2>. QED  BY <1>2, <2>1, NewestIs DEF RowsOf
<1>5. Current(last)
  BY <1>4 DEF Current
<1>. HIDE DEF last
<1>6. /\ op'.docs = rest /\ op'.kind = op.kind /\ op'.scope = op.scope /\ op'.found = op.found
      /\ op'.doomed = op.doomed /\ op'.gone = op.gone /\ op'.heads = op.heads
      /\ op'.due = op.due /\ op'.read = op.read /\ op'.moved = op.moved
      /\ \/ op'.at = "upsert" /\ op'.row = last /\ op'.mismatches = op.mismatches
         \/ /\ op'.at = AfterEmit(rest) /\ last.content # doc.content
            /\ op'.mismatches = op.mismatches \cup {doc.key}
  BY <1>1, <1>2 DEF OpType
<1>7. op' \in OpType
  <2>1. last \in Rows /\ rest \subseteq Rows /\ AfterEmit(rest) \in {"scan", "emit"}
    BY <1>2, <1>4 DEF OpType, AfterEmit
  <2>2. CASE op' = [op EXCEPT !.docs = rest, !.row = last, !.at = "upsert"]
    BY <1>2, <2>1, <2>2 DEF OpType
  <2>3. CASE op' = [op EXCEPT !.docs = rest, !.at = AfterEmit(rest),
                              !.mismatches = @ \cup {doc.key}]
    BY <1>2, <1>3, <2>1, <2>3 DEF OpType
  <2>. QED  BY <1>1, <2>2, <2>3
<1>8. \A k : RowsOf(k)' = RowsOf(k) /\ NewestRow(k)' = NewestRow(k)
  BY <1>1 DEF RowsOf, NewestRow
<1>9. \A k \in OpLocks' : k \in OpLocks
  BY <1>6 DEF OpLocks
<1>10. last.content # doc.content => doc.key \notin op.gone
  BY <1>3 DEF Current, last
<1>11. CallOK'
  BY <1>1, <1>6 DEF RInv, OpInv, CallOK, AfterEmit
<1>12. MismatchHasCause'
  BY <1>1, <1>3, <1>6, <1>10 DEF RInv, OpInv, MismatchHasCause
<1>13. GoneOK' /\ VerifyOK'
  BY <1>1, <1>6 DEF RInv, OpInv, GoneOK, VerifyOK, AfterEmit
<1>14. ReadOK'
  <2>1. \A r : Current(r)' = Current(r)
    BY <1>1, <1>6, <1>8 DEF Current
  <2>2. ASSUME NEW k \in op.gone \cap op.read
        PROVE  \/ op.heads[k] # NoRow
               \/ \E d \in rest : d.key = k
               \/ op'.at = "upsert" /\ op'.row.key = k
    <3>1. op.heads[k] # NoRow \/ \E d \in op.docs : d.key = k
      BY <1>1 DEF RInv, OpInv, ReadOK
    <3>2. CASE k = doc.key
      BY <1>4, <1>6, <1>10, <3>2
    <3>. QED  BY <3>1, <3>2
  <2>3. op'.at = "upsert" => Current(op'.row)
    BY <1>5, <1>6 DEF AfterEmit
  <2>4. /\ (op.read # {} => op.gone \subseteq op.due) /\ (\A d \in rest : Current(d))
        /\ \A k \in Keys : op.heads[k] # NoRow => Current(op.heads[k]) /\ op.heads[k].key = k
    BY <1>1 DEF RInv, OpInv, ReadOK
  <2>. QED  BY <1>6, <2>1, <2>2, <2>3, <2>4 DEF ReadOK
<1>. QED  BY <1>1, <1>2, <1>6, <1>7, <1>9, <1>11, <1>12, <1>13, <1>14, OperatorKeeps

LEMMA UpsertHeadKeeps ==
    ASSUME RInv, UpsertHead
    PROVE  RInv'
<1>. DEFINE key == op.row.key
<1>1. /\ op.at = "upsert" /\ Free(key)
      /\ UNCHANGED vars /\ UNCHANGED <<waiting, calls, revisions, head>>
      /\ op' = [op EXCEPT !.heads[key] = op.row, !.row = NoRow, !.at = AfterEmit(op.docs)]
  BY DEF UpsertHead, OperatorGoes, vars
<1>2. op \in OpType /\ calls' \in Nat /\ revisions \subseteq Rows
  BY <1>1, OpHasType
<1>3. Current(op.row) /\ op.row \in Rows /\ key \in Keys
  BY <1>1, <1>2 DEF RInv, OpInv, ReadOK, Current, Rows
<1>. HIDE DEF key
<1>4. /\ op'.heads = [op.heads EXCEPT ![key] = op.row] /\ op'.row = NoRow
      /\ op'.at = AfterEmit(op.docs) /\ op'.docs = op.docs
      /\ op'.kind = op.kind /\ op'.scope = op.scope /\ op'.found = op.found
      /\ op'.doomed = op.doomed /\ op'.gone = op.gone
      /\ op'.due = op.due /\ op'.read = op.read /\ op'.moved = op.moved
      /\ op'.mismatches = op.mismatches
  BY <1>1, <1>2 DEF OpType
<1>5. /\ op'.heads \in [Keys -> Rows \cup {NoRow}] /\ op'.heads[key] = op.row
      /\ \A k \in Keys : k # key => op'.heads[k] = op.heads[k]
  <2>1. op.heads \in [Keys -> Rows \cup {NoRow}]
    BY <1>2 DEF OpType
  <2>. QED  BY <1>3, <1>4, <2>1
<1>6. op' \in OpType
  <2>. DEFINE heads == [op.heads EXCEPT ![key] = op.row]
  <2>1. heads \in [Keys -> Rows \cup {NoRow}]
    BY <1>4, <1>5
  <2>2. op' = [op EXCEPT !.heads = heads, !.row = NoRow, !.at = AfterEmit(op.docs)]
    BY <1>1, <1>2 DEF OpType
  <2>. HIDE DEF heads
  <2>. QED  BY <1>2, <2>1, <2>2 DEF OpType, AfterEmit
<1>7. \A k : RowsOf(k)' = RowsOf(k) /\ NewestRow(k)' = NewestRow(k)
  BY <1>1 DEF RowsOf, NewestRow
<1>8. \A k \in OpLocks' : k \in OpLocks \/ Free(k)
  BY <1>1, <1>4, <1>5 DEF OpLocks
<1>9. op.kind = "rebuild"
  BY <1>1 DEF RInv, OpInv, CallOK
<1>10. CallOK' /\ MismatchHasCause'
  BY <1>1, <1>4, <1>9 DEF RInv, OpInv, CallOK, MismatchHasCause, AfterEmit
<1>11. GoneOK' /\ VerifyOK'
  BY <1>1, <1>4, <1>9 DEF RInv, OpInv, GoneOK, VerifyOK, AfterEmit
<1>12. ReadOK'
  <2>1. \A r : Current(r)' = Current(r)
    BY <1>1, <1>4, <1>7 DEF Current
  <2>2. op.row # NoRow
    BY <1>3, NoRowIsNoRow
  <2>3. \A k \in op.gone \cap op.read : op'.heads[k] # NoRow \/ \E d \in op.docs : d.key = k
    <3>1. \A k \in op.gone \cap op.read :
             op.heads[k] # NoRow \/ (\E d \in op.docs : d.key = k) \/ k = key
      BY DEF RInv, OpInv, ReadOK, key
    <3>2. op.gone \subseteq Keys
      BY <1>2 DEF OpType
    <3>. QED  BY <1>5, <2>2, <3>1, <3>2
  <2>4. \A k \in Keys : op'.heads[k] # NoRow => Current(op'.heads[k]) /\ op'.heads[k].key = k
    <3>1. \A k \in Keys : op.heads[k] # NoRow => Current(op.heads[k]) /\ op.heads[k].key = k
      BY DEF RInv, OpInv, ReadOK
    <3>. QED  BY <1>3, <1>5, <3>1 DEF key
  <2>5. (op.read # {} => op.gone \subseteq op.due) /\ (\A d \in op.docs : Current(d))
    BY <1>9 DEF RInv, OpInv, ReadOK
  <2>6. op'.at # "upsert"
    BY <1>4 DEF AfterEmit
  <2>. QED  BY <1>4, <2>1, <2>3, <2>4, <2>5, <2>6 DEF ReadOK
<1>. QED  BY <1>1, <1>2, <1>4, <1>6, <1>8, <1>10, <1>11, <1>12, OperatorKeeps

LEMMA CompareHeadKeeps ==
    ASSUME RInv, NEW doc \in op.docs, CompareHead(doc)
    PROVE  RInv'
<1>. DEFINE same == head[doc.key] # NoRow /\ head[doc.key].content = doc.content
            counted == IF same THEN op.mismatches ELSE op.mismatches \cup {doc.key}
            rest == op.docs \ {doc}
<1>1. /\ op.at = "emit" /\ op.kind = "verify"
      /\ UNCHANGED vars /\ UNCHANGED <<waiting, calls, revisions, head>>
      /\ op' = [op EXCEPT !.docs = rest, !.at = AfterEmit(rest), !.mismatches = counted]
  BY DEF CompareHead, OperatorGoes, vars
<1>2. op \in OpType /\ calls' \in Nat /\ revisions \subseteq Rows
  BY <1>1, OpHasType
<1>3. doc \in revisions /\ doc.key \in Keys /\ (doc.key \notin op.moved => doc = NewestRow(doc.key))
  BY <1>1, <1>2 DEF RInv, OpInv, VerifyOK, Rows
<1>4. doc.key \notin op.moved => same
  <2>1. doc \in RowsOf(doc.key)
    BY <1>3 DEF RowsOf
  <2>2. doc \in Rows /\ doc # NoRow
    BY <1>2, <1>3, NoRowIsNoRow
  <2>. QED  BY <1>1, <1>3, <2>1, <2>2 DEF RInv, OpInv, VerifyOK
<1>5. counted \subseteq op.moved /\ counted \subseteq Keys
  <2>1. op.mismatches \subseteq op.moved /\ op.mismatches \subseteq Keys
    BY <1>1, <1>2 DEF RInv, OpInv, MismatchHasCause, OpType
  <2>. QED  BY <1>3, <1>4, <2>1
<1>. HIDE DEF counted
<1>6. /\ op'.docs = rest /\ op'.at = AfterEmit(rest) /\ op'.mismatches = counted
      /\ op'.kind = op.kind /\ op'.scope = op.scope /\ op'.found = op.found /\ op'.row = op.row
      /\ op'.doomed = op.doomed /\ op'.gone = op.gone /\ op'.heads = op.heads
      /\ op'.due = op.due /\ op'.read = op.read /\ op'.moved = op.moved
  BY <1>1, <1>2 DEF OpType
<1>7. op' \in OpType
  BY <1>1, <1>2, <1>5 DEF OpType, AfterEmit
<1>8. \A k : RowsOf(k)' = RowsOf(k) /\ NewestRow(k)' = NewestRow(k)
  BY <1>1 DEF RowsOf, NewestRow
<1>9. \A k \in OpLocks' : k \in OpLocks
  BY <1>6 DEF OpLocks
<1>10. op.gone = {} /\ \A k \in Keys : op.heads[k] = NoRow
  BY <1>1 DEF RInv, OpInv, CallOK
<1>11. CallOK' /\ MismatchHasCause'
  BY <1>1, <1>5, <1>6 DEF RInv, OpInv, CallOK, MismatchHasCause, AfterEmit
<1>12. GoneOK'
  BY <1>1, <1>6 DEF RInv, OpInv, GoneOK, AfterEmit
<1>13. VerifyOK'
  BY <1>1, <1>6, <1>8 DEF RInv, OpInv, VerifyOK
<1>14. ReadOK'
  BY <1>1, <1>6, <1>10 DEF ReadOK, AfterEmit
<1>. QED  BY <1>1, <1>2, <1>6, <1>7, <1>9, <1>11, <1>12, <1>13, <1>14, OperatorKeeps

LEMMA FinishVerifyKeeps ==
    ASSUME RInv, FinishVerify
    PROVE  RInv'
<1>1. /\ op.kind = "verify" /\ op' = NoCall
      /\ UNCHANGED vars /\ UNCHANGED <<waiting, calls>>
  BY DEF FinishVerify, OperatorGoes
<1>2. op.gone = {} /\ calls' \in Nat /\ op' \in OpType
  BY <1>1, OpHasType, NoCallType DEF RInv, OpInv, CallOK
<1>3. OpLocks' = {}
  BY <1>1 DEF OpLocks, NoCall
<1>4. CallOK' /\ GoneOK' /\ VerifyOK' /\ MismatchHasCause'
  BY <1>1 DEF CallOK, GoneOK, VerifyOK, MismatchHasCause, NoCall
<1>5. ReadOK'
  BY <1>1 DEF ReadOK, NoCall
<1>. QED  BY <1>1, <1>2, <1>3, <1>4, <1>5, OperatorKeeps

-----------------------------------------------------------------------------
(* COMMIT of the operator.                                                 *)

(* When the log has been read to its end, every deleted head is back.      *)
LEMMA AllBack ==
    ASSUME RInv, Exhausted, NEW k \in op.gone
    PROVE  k \in Keys /\ k \in op.read /\ op.heads[k] # NoRow /\ op.heads[k] = NewestRow(k)
<1>1. op.at = "scan" /\ op.due \subseteq op.read /\ (op.read = {} => Unread = {})
  BY DEF Exhausted
<1>2. k \in Keys /\ k \in op.scope /\ head[k] # NoRow
  BY OpHasType DEF RInv, OpInv, GoneOK, OpType
<1>3. op.read # {}
  <2>1. head[k] \in RowsOf(k)
    BY <1>2, OpHasType DEF LogInv, HeadMatchesLog, RowsOf
  <2>. QED  BY <1>1, <1>2, <2>1 DEF Unread
<1>4. k \in op.read /\ op.heads[k] # NoRow
  BY <1>1, <1>3 DEF RInv, OpInv, ReadOK, CallOK
<1>. QED  BY <1>2, <1>4 DEF RInv, OpInv, ReadOK, Current

Resumed(t) == [t EXCEPT !.seen = NoRevision]

LEMMA ResumedIs ==
    ASSUME NEW t \in Transactions
    PROVE  /\ Resumed(t) \in Transactions /\ Resumed(t).seen = NoRevision
           /\ Resumed(t).batch = t.batch /\ Resumed(t).pos = t.pos /\ Resumed(t).now = t.now
           /\ Resumed(t).rows = t.rows /\ Resumed(t).heads = t.heads
           /\ Resumed(t).locks = t.locks /\ Resumed(t).replays = t.replays
BY DEF Resumed, Transactions

LEMMA FinishRebuildKeeps ==
    ASSUME RInv, FinishRebuild
    PROVE  RInv'
<1>1. /\ op.kind = "rebuild" /\ Exhausted /\ waiting' = {} /\ op' = NoCall
      /\ head' = [k \in Keys |-> IF op.heads[k] # NoRow THEN op.heads[k]
                                 ELSE IF k \in op.gone THEN NoRow ELSE head[k]]
      /\ tx' = [w \in Writers |-> IF w \in waiting THEN Resumed(tx[w]) ELSE tx[w]]
      /\ pc' = [w \in Writers |-> IF w \in waiting THEN "row" ELSE pc[w]]
      /\ UNCHANGED <<revisions, intents, ledger, clock, outcome, acks, commits, calls>>
  BY DEF FinishRebuild, Resumed
<1>2. /\ op \in OpType /\ calls \in Nat /\ LogInv /\ TypeInv
      /\ revisions \subseteq Rows /\ head \in [Keys -> Rows \cup {NoRow}]
  BY OpHasType DEF RInv, IInv
<1>3. ASSUME NEW w \in waiting
      PROVE  /\ w \in Writers /\ pc[w] = "head" /\ tx[w] \in Transactions
             /\ tx'[w] = Resumed(tx[w]) /\ pc'[w] = "row"
  BY <1>1, OpHasType DEF RInv, IInv, TypeInv, TypeOK
<1>4. ASSUME NEW w \in Writers, w \notin waiting PROVE tx'[w] = tx[w] /\ pc'[w] = pc[w]
  BY <1>1, <1>4
<1>5. \A k \in Keys :
         \/ head'[k] = op.heads[k] /\ op.heads[k] \in revisions /\ op.heads[k].key = k
         \/ head'[k] = head[k]
  <2>1. \A k \in Keys : op.heads[k] # NoRow => op.heads[k] \in revisions /\ op.heads[k].key = k
    BY DEF RInv, OpInv, ReadOK, Current
  <2>. QED  BY <1>1, <2>1, AllBack
<1>6. TypeInv'
  <2>1. head' \in [Keys -> Rows \cup {NoRow}]
    <3>1. op.heads \in [Keys -> Rows \cup {NoRow}]
      BY <1>2 DEF OpType
    <3>. QED  BY <1>1, <1>2, <3>1
  <2>2. tx' \in [Writers -> Transactions]
    <3>1. \A w \in Writers : tx'[w] \in Transactions
      BY <1>2, <1>3, <1>4, ResumedIs DEF TypeInv, TypeOK
    <3>. QED  BY <1>1, <3>1
  <2>3. pc' \in [Writers -> PCs]
    <3>1. \A w \in Writers : pc'[w] \in PCs
      BY <1>2, <1>3, <1>4 DEF TypeInv, TypeOK, PCs
    <3>. QED  BY <1>1, <3>1
  <2>4. PosOK'
    BY <1>2, <1>3, <1>4, ResumedIs DEF TypeInv, PosOK
  <2>. QED  BY <1>1, <1>2, <2>1, <2>2, <2>3, <2>4 DEF TypeInv, TypeOK
<1>7. WritersOK'
  <2>. SUFFICES ASSUME NEW w \in Writers PROVE WriterOK(revisions, pc'[w], tx'[w])
    BY <1>1 DEF WritersOK
  <2>1. CASE w \in waiting
    <3>. DEFINE u == Resumed(tx[w])
    <3>1. /\ u.batch = tx[w].batch /\ u.pos = tx[w].pos /\ u.now = tx[w].now
          /\ u.rows = tx[w].rows /\ u.heads = tx[w].heads /\ u.replays = tx[w].replays
          /\ u.seen = NoRevision
      BY <1>3, <2>1, ResumedIs
    <3>2. WriterOK(revisions, "head", tx[w])
      BY <1>3, <2>1 DEF RInv, IInv, WritersOK
    <3>. HIDE DEF u
    <3>3. Chained(revisions, u) /\ HeadsKnown(revisions, u) /\ Headed("row", u) /\ Asked(u)
      BY <3>1, <3>2 DEF WriterOK, Chained, HeadsKnown, Headed, Asked
    <3>4. Answered(revisions, "row", u)
      BY <3>1, <3>2 DEF WriterOK, Answered, Served
    <3>5. WriterOK(revisions, "row", u)
      BY <3>1, <3>3, <3>4 DEF WriterOK, SeenKnown, CasDone, Written, Found, Published
    <3>. QED  BY <1>3, <2>1, <3>5 DEF u
  <2>2. CASE w \notin waiting
    BY <1>4, <2>2 DEF RInv, IInv, WritersOK
  <2>. QED  BY <2>1, <2>2
<1>8. Distinct'
  <2>1. \A w \in Writers : tx'[w].rows = tx[w].rows
    BY <1>3, <1>4, ResumedIs
  <2>. QED  BY <1>1, <2>1 DEF RInv, IInv, Distinct
<1>9. LogInv'
  <2>1. HeadMatchesLog'
    BY <1>1, <1>2, <1>5, NoRowIsNoRow DEF LogInv, HeadMatchesLog
  <2>. QED  BY <1>1, <1>2, <2>1 DEF LogInv, LogContiguous, UniqueRevision, AckedDurable, Backed
<1>10. RebuildTypeOK'
  BY <1>1, <1>2, NoCallType DEF RebuildTypeOK, OpType
<1>11. CallersOK'
  <2>. SUFFICES ASSUME NEW w \in Writers PROVE OwnLocks(pc'[w], tx'[w])
    BY <1>1 DEF CallersOK
  <2>1. CASE w \in waiting
    <3>. DEFINE u == Resumed(tx[w])
    <3>1. /\ u.batch = tx[w].batch /\ u.pos = tx[w].pos /\ u.rows = tx[w].rows
          /\ u.heads = tx[w].heads /\ u.locks = tx[w].locks /\ u.seen = NoRevision
      BY <1>3, <2>1, ResumedIs
    <3>2. OwnLocks("head", tx[w])
      BY <1>3, <2>1 DEF RInv, CallersOK
    <3>. HIDE DEF u
    <3>3. OwnLocks("row", u)
      BY <3>1, <3>2 DEF OwnLocks, At
    <3>. QED  BY <1>3, <2>1, <3>3 DEF u
  <2>2. CASE w \notin waiting
    BY <1>4, <2>2 DEF RInv, CallersOK
  <2>. QED  BY <2>1, <2>2
<1>12. Apart'
  <2>1. OpLocks' = {}
    BY <1>1 DEF OpLocks, NoCall
  <2>. QED  BY <2>1 DEF Apart
<1>13. CallOK' /\ GoneOK' /\ VerifyOK' /\ MismatchHasCause'
  BY <1>1 DEF CallOK, GoneOK, VerifyOK, MismatchHasCause, NoCall
<1>14. ReadOK'
  BY <1>1 DEF ReadOK, NoCall
<1>. QED  BY <1>6, <1>7, <1>8, <1>9, <1>10, <1>11, <1>12, <1>13, <1>14 DEF RInv, IInv, OpInv

-----------------------------------------------------------------------------
(* The invariant is inductive.                                             *)

LEMMA RebuildStarts == RebuildInit => RInv
<1>. SUFFICES ASSUME RebuildInit PROVE RInv
  OBVIOUS
<1>1. IInv
  BY SafeInit DEF RebuildInit
<1>2. op = NoCall /\ waiting = {} /\ calls = 0 /\ OpLocks = {}
  BY DEF RebuildInit, OpLocks, NoCall
<1>3. RebuildTypeOK
  BY <1>2, NoCallType DEF RebuildTypeOK, OpType
<1>4. CallersOK
  BY <1>2 DEF RebuildInit, Init, CallersOK, OwnLocks, Idle
<1>5. CallOK /\ GoneOK /\ VerifyOK /\ MismatchHasCause /\ ReadOK /\ Apart
  BY <1>2 DEF CallOK, GoneOK, VerifyOK, MismatchHasCause, ReadOK, Apart, NoCall
<1>. QED  BY <1>1, <1>3, <1>4, <1>5 DEF RInv, OpInv

(* What callers do to the tables is what they do without an operator.      *)
LEMMA CallersSafe ==
    ASSUME IInv, NEW w \in Writers, CallerStatement(w) \/ Begin(w) \/ CommitTx(w) \/ Crash(w)
    PROVE  IInv'
<1>1. Next
  BY DEF CallerStatement, Next, Call, Begin
<1>. QED  BY <1>1, SafeStep

LEMMA RebuildSteps == RInv /\ [RebuildNext]_allVars => RInv'
<1>. SUFFICES ASSUME RInv, [RebuildNext]_allVars PROVE RInv'
  OBVIOUS
<1>0. IInv
  BY DEF RInv
<1>1. ASSUME NEW w \in Writers, StartCaller(w) \/ Caller(w) PROVE RInv'
  <2>1. (Begin(w) \/ CallerStatement(w)) /\ UNCHANGED <<op, waiting, calls>>
    BY <1>1 DEF StartCaller, Caller
  <2>2. w \notin waiting
    BY <2>1, WaitersWait
  <2>3. StepsClear(w) /\ IInv'
    BY <1>0, <2>1, CallerMoves, CallersSafe
  <2>. QED  BY <2>1, <2>2, <2>3, CallerKeeps
<1>2. ASSUME NEW w \in Writers, CrashCaller(w) PROVE RInv'
  <2>1. Crash(w) /\ waiting' = waiting \ {w} /\ UNCHANGED <<op, calls>>
    BY <1>2 DEF CrashCaller
  <2>2. StepsClear(w) /\ IInv'
    BY <1>0, <2>1, CallerMoves, CallersSafe
  <2>. QED  BY <2>1, <2>2, CallerKeeps
<1>3. ASSUME NEW w \in Writers, Publish(w) PROVE RInv'
  <2>1. IInv'
    BY <1>0, <1>3, CallersSafe DEF Publish
  <2>. QED  BY <1>3, <2>1, PublishKeeps
<1>4. ASSUME NEW w \in Writers, AwaitOperator(w) PROVE RInv'
  <2>1. IInv'
    BY <1>0, <1>4, SafeStep DEF AwaitOperator
  <2>. QED  BY <1>4, <2>1, AwaitKeeps
<1>5. ASSUME Operator PROVE RInv'
  BY <1>5, DeleteHeadsKeeps, DeleteHeadKeeps, ReadChunkKeeps, LastRowKeeps, CompareHeadKeeps,
     UpsertHeadKeeps, FinishRebuildKeeps, FinishVerifyKeeps DEF Operator
<1>6. CASE UNCHANGED allVars
  <2>1. UNCHANGED vars /\ UNCHANGED <<op, waiting, calls, revisions, head, tx, pc>>
    BY <1>6 DEF allVars, vars
  <2>2. IInv'
    BY <1>0, <2>1, SafeStep
  <2>3. RebuildTypeOK' /\ Apart'
    BY <2>1 DEF RInv, RebuildTypeOK, OpInv, Apart, OpLocks
  <2>4. CallersOK'
    BY <2>1 DEF RInv, CallersOK, Request
  <2>. QED  BY <2>1, <2>2, <2>3, <2>4, OpKeeps DEF RInv, OpInv
<1>. QED  BY <1>1, <1>2, <1>3, <1>4, <1>5, <1>6, StartKeeps, CrashOperatorKeeps DEF RebuildNext

LEMMA Rebuilding == RebuildSpec => []RInv
BY RebuildStarts, RebuildSteps, PTL DEF RebuildSpec

-----------------------------------------------------------------------------

(* Whatever callers do during a rebuild, and wherever it dies, no          *)
(* aggregate is without a head and no head is without its log row.         *)
THEOREM HeadStaysDuringRebuild == RebuildSpec => []HeadMatchesLog
<1>1. RInv => HeadMatchesLog
  BY DEF RInv, IInv, LogInv
<1>. QED  BY <1>1, Rebuilding, PTL

(* What rebuild_heads and verify count as mismatched has a cause in the    *)
(* store, and rebuild_heads counts no head that it found as an orphan.     *)
THEOREM ReportsStayTrue == RebuildSpec => []ReportsAreTrue
<1>1. RInv => FoundAreRebuilt
  <2>. SUFFICES ASSUME RInv, Exhausted, NEW k \in op.found
                PROVE  k \in op.read /\ op.heads[k] # NoRow
    BY DEF FoundAreRebuilt
  <2>1. op.at = "scan" /\ op.doomed = {}
    BY DEF Exhausted, RInv, OpInv, CallOK
  <2>2. k \in op.gone
    BY <2>1 DEF RInv, OpInv, GoneOK
  <2>. QED  BY <2>2, AllBack
<1>2. RInv => ReportsAreTrue
  BY <1>1 DEF RInv, OpInv, ReportsAreTrue
<1>. QED  BY <1>2, Rebuilding, PTL

(* When rebuild_heads commits, what it deleted is back at the newest row.  *)
THEOREM RebuildMends == RebuildSpec => RebuildRepairs
<1>1. RInv /\ [RebuildNext]_allVars =>
         [FinishRebuild => \A k \in op.gone : head'[k] = NewestRow(k)]_allVars
  <2>. SUFFICES ASSUME RInv, FinishRebuild, NEW k \in op.gone PROVE head'[k] = NewestRow(k)
    OBVIOUS
  <2>1. Exhausted /\ (k \in Keys /\ op.heads[k] # NoRow => head'[k] = op.heads[k])
    BY DEF FinishRebuild
  <2>. QED  BY <2>1, AllBack
<1>. QED  BY <1>1, Rebuilding, PTL DEF RebuildSpec, RebuildRepairs

=============================================================================
