--------------------------- MODULE SqlStoreProofs ---------------------------
(* What holds of the SQL store for every number of writers, keys, contents *)
(* and subscriptions, whatever base revisions callers name.                *)
(*                                                                         *)
(* The first part is about the write path, on SQLite and on Postgres, and  *)
(* that it implements VersionedLog.  The second is what the tables say of  *)
(* each other beyond the log itself: the outbox owes what the log owes,    *)
(* streams have one fingerprint, commit times follow the revisions, a head *)
(* loses ground only to a create, and single requests never wait for each  *)
(* other in a circle; and what is true on SQLite alone, over a file and in *)
(* memory.                                                                 *)
EXTENDS SqliteStore, FiniteSetTheorems, NaturalsInduction, WellFoundedInduction, TLAPS

-----------------------------------------------------------------------------
(* Types.                                                                  *)

(* An open call is at one of its requests.                                 *)
PosOK == \A w \in Writers : pc[w] # "idle" => tx[w].pos \in DOMAIN tx[w].batch

TypeInv == TypeOK /\ PosOK

LEMMA IdleType == Idle \in Transactions
BY DEF Idle, Transactions

LEMMA NoRowIsNoRow == NoRow \notin Rows
BY DEF NoRow, Rows, NoRevision

(* The request at hand is a request, and its row is a row.                 *)
LEMMA RequestType ==
    ASSUME TypeInv, NEW w \in Writers, pc[w] # "idle"
    PROVE  /\ tx[w] \in Transactions
           /\ Request(w) \in Requests
           /\ Target(Request(w)) \in 0 .. MaxRevision
           /\ RowOf(w) \in Rows
<1>1. tx[w] \in Transactions /\ tx[w].pos \in DOMAIN tx[w].batch
  BY DEF TypeInv, TypeOK, PosOK
<1>2. tx[w].batch \in Seq(Requests) /\ tx[w].now \in Nat
  BY <1>1 DEF Transactions
<1>3. Request(w) \in Requests
  BY <1>1, <1>2 DEF Request
<1>4. Target(Request(w)) \in 0 .. MaxRevision
  BY <1>3, StoreAssumption DEF Target, Requests, NoRevision
<1>5. RowOf(w) \in Rows
  BY <1>2, <1>3, <1>4 DEF RowOf, Rows, Requests
<1>. QED  BY <1>1, <1>3, <1>4, <1>5

(* A statement that leaves the transaction as a well-typed t keeps the     *)
(* types.                                                                  *)
LEMMA ContinueType ==
    ASSUME TypeInv, NEW w \in Writers, NEW t \in Transactions, NEW at \in PCs,
           t.pos \in DOMAIN t.batch, Continue(w, t, at)
    PROVE  TypeInv'
<1>1. /\ tx' = [tx EXCEPT ![w] = t] /\ pc' = [pc EXCEPT ![w] = at]
      /\ UNCHANGED <<revisions, head, intents, ledger, clock, outcome, acks, commits>>
  BY DEF Continue, tables
<1>2. TypeOK'
  BY <1>1 DEF TypeInv, TypeOK
<1>3. PosOK'
  BY <1>1 DEF TypeInv, TypeOK, PosOK
<1>. QED  BY <1>2, <1>3 DEF TypeInv

LEMMA NextRequestType ==
    ASSUME TypeInv, NEW w \in Writers, NEW t \in Transactions,
           t.pos \in DOMAIN t.batch, NextRequest(w, t)
    PROVE  TypeInv'
<1>1. CASE t.pos < Len(t.batch)
  <2>. DEFINE u == [t EXCEPT !.pos = @ + 1]
  <2>1. t.batch \in Seq(Requests) /\ t.pos \in Nat \ {0}
    BY DEF Transactions
  <2>2. u \in Transactions
    BY <2>1 DEF Transactions
  <2>3. u.batch = t.batch /\ u.pos = t.pos + 1
    BY DEF Transactions
  <2>4. u.pos \in DOMAIN u.batch
    BY <1>1, <2>1, <2>3
  <2>5. Continue(w, u, "head")
    BY <1>1 DEF NextRequest
  <2>. HIDE DEF u
  <2>. QED  BY <2>2, <2>4, <2>5, ContinueType DEF PCs
<1>2. CASE ~(t.pos < Len(t.batch))
  <2>1. Continue(w, t, "commit")
    BY <1>2 DEF NextRequest
  <2>. QED  BY <2>1, ContinueType DEF PCs
<1>. QED  BY <1>1, <1>2

LEMMA ReplayType ==
    ASSUME TypeInv, NEW w \in Writers, NEW t \in Transactions,
           t.pos \in DOMAIN t.batch, Replay(w, t)
    PROVE  TypeInv'
<1>. DEFINE u == [t EXCEPT !.replays = @ \cup {t.pos}]
<1>1. u \in Transactions /\ u.pos = t.pos /\ u.batch = t.batch
  BY DEF Transactions
<1>2. NextRequest(w, u)
  BY DEF Replay
<1>. HIDE DEF u
<1>. QED  BY <1>1, <1>2, NextRequestType

LEMMA AbortType ==
    ASSUME TypeInv, NEW w \in Writers, NEW how \in Outcomes, Abort(w, how)
    PROVE  TypeInv'
<1>1. /\ tx' = [tx EXCEPT ![w] = Idle] /\ pc' = [pc EXCEPT ![w] = "idle"]
      /\ outcome' = [outcome EXCEPT ![w] = how]
      /\ UNCHANGED <<revisions, head, intents, ledger, clock, acks, commits>>
  BY DEF Abort, tables
<1>2. TypeOK'
  BY <1>1, IdleType DEF TypeInv, TypeOK, PCs
<1>3. PosOK'
  BY <1>1 DEF TypeInv, TypeOK, PosOK
<1>. QED  BY <1>2, <1>3 DEF TypeInv

(* Putting a row in the head table.                                        *)
LEMMA PutHeadType ==
    ASSUME NEW t \in Transactions, NEW r \in Rows
    PROVE  /\ PutHead(t, r) \in Transactions
           /\ PutHead(t, r).pos = t.pos /\ PutHead(t, r).batch = t.batch
           /\ PutHead(t, r).now = t.now /\ PutHead(t, r).rows = t.rows
           /\ PutHead(t, r).replays = t.replays /\ PutHead(t, r).seen = t.seen
           /\ PutHead(t, r).intents = t.intents
           /\ PutHead(t, r).heads = [t.heads EXCEPT ![r.key] = r]
<1>1. r.key \in Keys
  BY DEF Rows
<1>2. t.heads \in [Keys -> Rows \cup {NoRow}] /\ t.locks \in SUBSET Keys
  BY DEF Transactions
<1>3. [t.heads EXCEPT ![r.key] = r] \in [Keys -> Rows \cup {NoRow}]
  BY <1>2
<1>. QED  BY <1>1, <1>2, <1>3 DEF PutHead, Transactions

(* Intents and ledger entries a statement adds.                            *)
LEMMA IntentsType ==
    ASSUME NEW k \in Keys, NEW n \in 0 .. MaxRevision
    PROVE  IntentsFor(k, n) \subseteq Intents
BY DEF IntentsFor, Intents

LEMMA NewEntriesType ==
    ASSUME TypeInv, NEW w \in Writers, pc[w] # "idle"
    PROVE  NewEntries(w) \subseteq Entries
<1>1. Request(w).key \in Keys /\ Request(w).content \in Contents
  BY RequestType DEF Requests
<1>2. Schema(Request(w)) \in Streams \X Versions /\ FingerprintOf[w] \in Fingerprints
  BY <1>1, StoreAssumption DEF Schema
<1>. QED  BY <1>2 DEF NewEntries, Entries

LEMMA BeginType ==
    ASSUME TypeInv, NEW w \in Writers, Begin(w)
    PROVE  TypeInv'
<1>1. PICK n \in 1 .. MaxBatch : \E b \in [1 .. n -> Requests] :
         tx' = [tx EXCEPT ![w] = [Idle EXCEPT !.batch = b, !.now = clock]]
  BY DEF Begin
<1>2. PICK b \in [1 .. n -> Requests] :
         tx' = [tx EXCEPT ![w] = [Idle EXCEPT !.batch = b, !.now = clock]]
  BY <1>1
<1>. DEFINE t == [Idle EXCEPT !.batch = b, !.now = clock]
<1>3. n \in Nat /\ n >= 1
  BY StoreAssumption
<1>4. b \in Seq(Requests)
  BY <1>3
<1>5. clock \in Nat
  BY DEF TypeInv, TypeOK
<1>6. t \in Transactions /\ t.pos = 1 /\ t.batch = b
  BY <1>4, <1>5, IdleType DEF Transactions, Idle
<1>7. t.pos \in DOMAIN t.batch
  BY <1>3, <1>6
<1>8. tx' = [tx EXCEPT ![w] = t]
  BY <1>2
<1>9. /\ pc' = [pc EXCEPT ![w] = "head"] /\ outcome' = [outcome EXCEPT ![w] = "running"]
      /\ commits' = commits + 1
      /\ UNCHANGED <<revisions, head, intents, ledger, clock, acks>>
  BY DEF Begin, tables
<1>. HIDE DEF t
<1>10. TypeOK'
  BY <1>6, <1>8, <1>9 DEF TypeInv, TypeOK, PCs, Outcomes
<1>11. PosOK'
  BY <1>7, <1>8, <1>9 DEF TypeInv, TypeOK, PosOK
<1>. QED  BY <1>10, <1>11 DEF TypeInv

LEMMA SelectHeadType ==
    ASSUME TypeInv, NEW w \in Writers, SelectHead(w)
    PROVE  TypeInv'
<1>. DEFINE k == Request(w).key
            row == VisibleHead(w, k)
            t == IF row = NoRow
                 THEN [tx[w] EXCEPT !.seen = NoRevision]
                 ELSE [tx[w] EXCEPT !.seen = row.rev, !.locks = @ \cup {k}]
<1>1. pc[w] # "idle" /\ Continue(w, t, "row")
  BY DEF SelectHead
<1>2. tx[w] \in Transactions /\ k \in Keys /\ tx[w].pos \in DOMAIN tx[w].batch
  BY <1>1, RequestType DEF Requests, TypeInv, PosOK
<1>3. row \in Rows \cup {NoRow}
  BY <1>2 DEF VisibleHead, Transactions, TypeInv, TypeOK
<1>4. row # NoRow => row.rev \in Nat
  BY <1>3, StoreAssumption DEF Rows
<1>. HIDE DEF row, k
<1>5. t \in Transactions /\ t.pos = tx[w].pos /\ t.batch = tx[w].batch
  BY <1>2, <1>4 DEF Transactions
<1>. HIDE DEF t
<1>. QED  BY <1>1, <1>2, <1>5, ContinueType DEF PCs

LEMMA SelectRowType ==
    ASSUME TypeInv, NEW w \in Writers, SelectRow(w)
    PROVE  TypeInv'
<1>1. pc[w] # "idle"
  BY DEF SelectRow
<1>2. tx[w] \in Transactions /\ tx[w].pos \in DOMAIN tx[w].batch
  BY <1>1 DEF TypeInv, TypeOK, PosOK
<1>3. \/ Abort(w, "conflict")
      \/ Continue(w, tx[w], "repair")
      \/ Continue(w, tx[w], "insert")
      \/ Replay(w, tx[w])
  BY DEF SelectRow
<1>. QED  BY <1>2, <1>3, AbortType, ContinueType, ReplayType DEF PCs, Outcomes

LEMMA InsertRowType ==
    ASSUME TypeInv, NEW w \in Writers, InsertRow(w)
    PROVE  TypeInv'
<1>. DEFINE t == [tx[w] EXCEPT !.rows = @ \cup {RowOf(w)}]
<1>1. pc[w] # "idle"
  BY DEF InsertRow
<1>2. tx[w] \in Transactions /\ tx[w].pos \in DOMAIN tx[w].batch /\ RowOf(w) \in Rows
  BY <1>1, RequestType DEF TypeInv, PosOK
<1>3. t \in Transactions /\ t.pos = tx[w].pos /\ t.batch = tx[w].batch
  BY <1>2 DEF Transactions
<1>4. Abort(w, "conflict") \/ Continue(w, t, "upsert")
  BY DEF InsertRow, UniqueViolation
<1>. HIDE DEF t
<1>. QED  BY <1>2, <1>3, <1>4, AbortType, ContinueType DEF PCs, Outcomes

LEMMA WriteHeadType ==
    ASSUME TypeInv, NEW w \in Writers, WriteHead(w)
    PROVE  TypeInv'
<1>. DEFINE owed == IntentsFor(Request(w).key, Target(Request(w)))
            u == PutHead(tx[w], RowOf(w))
            t == [u EXCEPT !.intents = @ \cup owed]
<1>1. pc[w] # "idle"
  BY DEF WriteHead
<1>2. tx[w] \in Transactions /\ tx[w].pos \in DOMAIN tx[w].batch /\ RowOf(w) \in Rows
  BY <1>1, RequestType DEF TypeInv, PosOK
<1>3. owed \subseteq Intents
  BY <1>1, RequestType, IntentsType DEF Requests
<1>4. u \in Transactions /\ u.pos = tx[w].pos /\ u.batch = tx[w].batch
  BY <1>2, PutHeadType
<1>5. Abort(w, "bad_intent") \/ Continue(w, t, "ledger")
  BY DEF WriteHead
<1>. HIDE DEF u, owed
<1>6. t \in Transactions /\ t.pos = tx[w].pos /\ t.batch = tx[w].batch
  BY <1>3, <1>4 DEF Transactions
<1>. HIDE DEF t
<1>. QED  BY <1>2, <1>5, <1>6, AbortType, ContinueType DEF PCs, Outcomes

LEMMA RepairHeadType ==
    ASSUME TypeInv, NEW w \in Writers, RepairHead(w)
    PROVE  TypeInv'
<1>1. pc[w] # "idle"
  BY DEF RepairHead
<1>2. tx[w] \in Transactions /\ tx[w].pos \in DOMAIN tx[w].batch
  BY <1>1 DEF TypeInv, TypeOK, PosOK
<1>3. PICK row \in Existing(w) : Replay(w, PutHead(tx[w], row))
  BY DEF RepairHead
<1>4. row \in Rows
  BY <1>2 DEF Existing, VisibleRows, Transactions, TypeInv, TypeOK
<1>. QED  BY <1>2, <1>3, <1>4, PutHeadType, ReplayType

LEMMA UpsertFingerprintType ==
    ASSUME TypeInv, NEW w \in Writers, UpsertFingerprint(w)
    PROVE  TypeInv'
<1>. DEFINE t == [tx[w] EXCEPT !.ledger = @ \cup NewEntries(w)]
<1>1. pc[w] # "idle" /\ NextRequest(w, t)
  BY DEF UpsertFingerprint
<1>2. tx[w] \in Transactions /\ tx[w].pos \in DOMAIN tx[w].batch
  BY <1>1 DEF TypeInv, TypeOK, PosOK
<1>3. t \in Transactions /\ t.pos = tx[w].pos /\ t.batch = tx[w].batch
  BY <1>1, <1>2, NewEntriesType DEF Transactions
<1>. HIDE DEF t
<1>. QED  BY <1>1, <1>2, <1>3, NextRequestType

LEMMA CommitTxType ==
    ASSUME TypeInv, NEW w \in Writers, CommitTx(w)
    PROVE  TypeInv'
<1>. DEFINE t == [Idle EXCEPT !.batch = tx[w].batch, !.now = tx[w].now,
                              !.replays = tx[w].replays]
<1>1. /\ pc[w] = "commit"
      /\ revisions' = revisions \cup tx[w].rows
      /\ head' = [k \in Keys |-> VisibleHead(w, k)]
      /\ intents' = intents \cup tx[w].intents
      /\ ledger' = ledger \cup tx[w].ledger
      /\ pc' = [pc EXCEPT ![w] = "ack"]
      /\ tx' = [tx EXCEPT ![w] = t]
      /\ UNCHANGED <<clock, outcome, acks, commits>>
  BY DEF CommitTx
<1>2. tx[w] \in Transactions /\ tx[w].pos \in DOMAIN tx[w].batch
  BY <1>1 DEF TypeInv, TypeOK, PosOK
<1>3. t \in Transactions /\ t.pos = 1 /\ t.batch = tx[w].batch
  BY <1>2, IdleType DEF Transactions, Idle
<1>4. t.pos \in DOMAIN t.batch
  BY <1>2, <1>3 DEF Transactions
<1>5. \A k \in Keys : VisibleHead(w, k) \in Rows \cup {NoRow}
  BY <1>2 DEF VisibleHead, Transactions, TypeInv, TypeOK
<1>6. /\ tx[w].rows \subseteq Rows /\ tx[w].intents \subseteq Intents
      /\ tx[w].ledger \subseteq Entries
  BY <1>2 DEF Transactions
<1>. HIDE DEF t
<1>7. TypeOK'
  BY <1>1, <1>3, <1>5, <1>6 DEF TypeInv, TypeOK, PCs
<1>8. PosOK'
  BY <1>1, <1>4 DEF TypeInv, TypeOK, PosOK
<1>. QED  BY <1>7, <1>8 DEF TypeInv

LEMMA AckType ==
    ASSUME TypeInv, NEW w \in Writers, Ack(w)
    PROVE  TypeInv'
<1>1. /\ pc[w] = "ack"
      /\ acks' = acks \cup {ResultAt(tx[w], i) : i \in DOMAIN tx[w].batch}
      /\ pc' = [pc EXCEPT ![w] = "idle"] /\ tx' = [tx EXCEPT ![w] = Idle]
      /\ outcome' = [outcome EXCEPT ![w] = "ok"]
      /\ UNCHANGED <<revisions, head, intents, ledger, clock, commits>>
  BY DEF Ack, tables
<1>2. tx[w].batch \in Seq(Requests) /\ tx[w].now \in Nat
  BY DEF TypeInv, TypeOK, Transactions
<1>3. ASSUME NEW i \in DOMAIN tx[w].batch
      PROVE  ResultAt(tx[w], i) \in Results
  <2>1. tx[w].batch[i] \in Requests
    BY <1>2
  <2>2. Target(tx[w].batch[i]) \in 0 .. MaxRevision
    BY <2>1, StoreAssumption DEF Target, Requests, NoRevision
  <2>3. tx[w].batch[i].key \in Keys /\ tx[w].batch[i].content \in Contents
    BY <2>1 DEF Requests
  <2>4. (i \in tx[w].replays) \in BOOLEAN
    OBVIOUS
  <2>. QED  BY <1>2, <2>2, <2>3, <2>4 DEF ResultAt, Results
<1>4. acks' \subseteq Results
  BY <1>1, <1>3 DEF TypeInv, TypeOK
<1>5. TypeOK'
  BY <1>1, <1>4, IdleType DEF TypeInv, TypeOK, PCs, Outcomes
<1>6. PosOK'
  BY <1>1 DEF TypeInv, TypeOK, PosOK
<1>. QED  BY <1>5, <1>6 DEF TypeInv

LEMMA TypeStep == TypeInv /\ [Next]_vars => TypeInv'
<1>. SUFFICES ASSUME TypeInv, [Next]_vars PROVE TypeInv'
  OBVIOUS
<1>1. ASSUME NEW w \in Writers, Begin(w) PROVE TypeInv'
  BY <1>1, BeginType
<1>2. ASSUME NEW w \in Writers, BusyTimeout(w) PROVE TypeInv'
  BY <1>2 DEF BusyTimeout, TypeInv, TypeOK, PosOK, Outcomes, tables
<1>3. ASSUME NEW w \in Writers, Statement(w) PROVE TypeInv'
  BY <1>3, SelectHeadType, SelectRowType, InsertRowType, WriteHeadType, RepairHeadType,
     UpsertFingerprintType, CommitTxType DEF Statement
<1>4. ASSUME NEW w \in Writers, Ack(w) PROVE TypeInv'
  BY <1>4, AckType
<1>5. ASSUME NEW w \in Writers, Crash(w) \/ DeadlockVictim(w) PROVE TypeInv'
  BY <1>5, AbortType DEF Crash, DeadlockVictim, Outcomes
<1>6. CASE Tick
  BY <1>6 DEF Tick, TypeInv, TypeOK, PosOK, tables
<1>7. CASE UNCHANGED vars
  BY <1>7 DEF vars, TypeInv, TypeOK, PosOK
<1>. QED  BY <1>1, <1>2, <1>3, <1>4, <1>5, <1>6, <1>7 DEF Next, Call, Statement

LEMMA TypeInit == Init => TypeInv
<1>. SUFFICES ASSUME Init PROVE TypeInv
  OBVIOUS
<1>1. TypeOK
  BY IdleType DEF Init, TypeOK, PCs, Outcomes
<1>2. PosOK
  BY DEF Init, PosOK
<1>. QED  BY <1>1, <1>2 DEF TypeInv

(* Type correctness.                                                       *)
THEOREM TypeCorrect == Spec => []TypeOK
<1>1. TypeInv => TypeOK
  BY DEF TypeInv
<1>. QED  BY <1>1, TypeInit, TypeStep, PTL DEF Spec

-----------------------------------------------------------------------------
(* The inductive invariant.  What an open transaction t, about to execute  *)
(* statement p, has established relative to the committed rows R; every    *)
(* part survives the commits of other writers, which only add rows.        *)

At(t) == t.batch[t.pos]
RowFor(t) ==
    [key |-> At(t).key, rev |-> Target(At(t)), content |-> At(t).content, at |-> t.now]

(* Its rows continue the log.                                              *)
Chained(R, t) ==
    \A r \in t.rows :
        r.rev > 0 => \E q \in R \cup t.rows : q.key = r.key /\ q.rev = r.rev - 1

(* The heads it wrote are rows of the log.                                 *)
HeadsKnown(R, t) ==
    \A k \in Keys :
        t.heads[k] # NoRow => t.heads[k] \in R \cup t.rows /\ t.heads[k].key = k

(* The head revision it read is still the revision of some row, and past   *)
(* the CAS it is the base of the request.                                  *)
SeenKnown(R, p, t) ==
    p \in {"row", "insert"} /\ t.seen # NoRevision =>
        \E q \in R \cup t.rows : q.key = At(t).key /\ q.rev = t.seen
CasDone(p, t) == p = "insert" => t.seen = At(t).expected

(* Past the INSERT the row is there, past the check for a replay the       *)
(* identical row is.                                                       *)
Written(p, t) == p \in {"upsert", "ledger"} => RowFor(t) \in t.rows
Found(R, p, t) ==
    p = "repair" => \E r \in R \cup t.rows :
        SameTarget(r, At(t)) /\ r.content = At(t).content

(* Every row written has its head written, but for the one just inserted.  *)
Headed(p, t) ==
    \A r \in t.rows : t.heads[r.key] = NoRow => p = "upsert" /\ r.key = At(t).key

(* The requests dealt with have their rows, and only requests have rows.   *)
Served(R, t, i) ==
    \E r \in R \cup t.rows :
        /\ SameTarget(r, t.batch[i]) /\ r.content = t.batch[i].content
        /\ i \notin t.replays => r.at = t.now
Answered(R, p, t) ==
    \A i \in DOMAIN t.batch : i < t.pos \/ p \in {"commit", "ack"} => Served(R, t, i)
Asked(t) == \A r \in t.rows : \E i \in DOMAIN t.batch : SameTarget(r, t.batch[i])

(* After COMMIT nothing is left to publish.                                *)
Published(p, t) == p = "ack" => t.rows = {}

WriterOK(R, p, t) ==
    /\ Chained(R, t) /\ HeadsKnown(R, t)
    /\ SeenKnown(R, p, t) /\ CasDone(p, t)
    /\ Written(p, t) /\ Found(R, p, t) /\ Headed(p, t)
    /\ Answered(R, p, t) /\ Asked(t) /\ Published(p, t)

WritersOK == \A w \in Writers : WriterOK(revisions, pc[w], tx[w])

(* Uncommitted rows clash neither with the log nor with each other: the    *)
(* unique index refuses the first, and makes an INSERT wait for the second.*)
SameSlot(r, s) == r.key = s.key /\ r.rev = s.rev
Distinct ==
    /\ \A w \in Writers : \A r \in tx[w].rows, s \in revisions \cup tx[w].rows :
          SameSlot(r, s) => r = s
    /\ \A v, w \in Writers : v # w =>
          \A r \in tx[v].rows, s \in tx[w].rows : ~SameSlot(r, s)

LogInv == LogContiguous /\ UniqueRevision /\ HeadMatchesLog /\ AckedDurable

IInv == TypeInv /\ WritersOK /\ Distinct /\ LogInv

-----------------------------------------------------------------------------
(* Lemmas about the parts.                                                 *)

LEMMA Monotone ==
    ASSUME NEW R, NEW S, R \subseteq S, NEW p, NEW t, WriterOK(R, p, t)
    PROVE  WriterOK(S, p, t)
<1>1. Chained(S, t)
  BY DEF WriterOK, Chained
<1>2. HeadsKnown(S, t)
  BY DEF WriterOK, HeadsKnown
<1>3. SeenKnown(S, p, t) /\ Found(S, p, t)
  BY DEF WriterOK, Published, SeenKnown, Found
<1>4. Answered(S, p, t)
  BY DEF WriterOK, Answered, Served
<1>. QED  BY <1>1, <1>2, <1>3, <1>4 DEF WriterOK

LEMMA IdleOK == ASSUME NEW R PROVE WriterOK(R, "idle", Idle)
BY DEF WriterOK, Published, Idle, Chained, HeadsKnown, SeenKnown, CasDone, Written, Found, Headed,
       Answered, Asked

(* One writer moves on to p with t; the log grows or stays.                *)
LEMMA WriterMoves ==
    ASSUME TypeInv, WritersOK, NEW w \in Writers, NEW p, NEW t,
           tx' = [tx EXCEPT ![w] = t], pc' = [pc EXCEPT ![w] = p],
           revisions \subseteq revisions', WriterOK(revisions', p, t)
    PROVE  WritersOK'
<1>. SUFFICES ASSUME NEW v \in Writers
              PROVE  WriterOK(revisions', pc'[v], tx'[v])
  BY DEF WritersOK
<1>1. CASE v = w
  <2>1. pc'[v] = p /\ tx'[v] = t
    BY <1>1 DEF TypeInv, TypeOK
  <2>. QED  BY <2>1
<1>2. CASE v # w
  <2>1. pc'[v] = pc[v] /\ tx'[v] = tx[v]
    BY <1>2 DEF TypeInv, TypeOK
  <2>2. WriterOK(revisions, pc[v], tx[v])
    BY DEF WritersOK
  <2>. QED  BY <2>1, <2>2, Monotone
<1>. QED  BY <1>1, <1>2

(* A step that writes no log row keeps them distinct.                      *)
LEMMA NoNewRows ==
    ASSUME TypeInv, Distinct, NEW w \in Writers, NEW t, t.rows \subseteq tx[w].rows,
           tx' = [tx EXCEPT ![w] = t], revisions' = revisions
    PROVE  Distinct'
<1>1. \A v \in Writers : tx'[v].rows \subseteq tx[v].rows
  BY DEF TypeInv, TypeOK
<1>. QED  BY <1>1 DEF Distinct

LEMMA LogUnchanged ==
    ASSUME LogInv, UNCHANGED <<revisions, head, acks>>
    PROVE  LogInv'
BY DEF LogInv, LogContiguous, UniqueRevision, HeadMatchesLog, AckedDurable, Backed

LEMMA ContinueSafe ==
    ASSUME IInv, NEW w \in Writers, NEW t, NEW p, Continue(w, t, p),
           t.rows \subseteq tx[w].rows, WriterOK(revisions, p, t)
    PROVE  WritersOK' /\ Distinct' /\ LogInv'
<1>1. /\ tx' = [tx EXCEPT ![w] = t] /\ pc' = [pc EXCEPT ![w] = p]
      /\ UNCHANGED <<revisions, head, acks>>
  BY DEF Continue, tables
<1>2. WritersOK'
  BY <1>1, WriterMoves DEF IInv
<1>. QED  BY <1>1, <1>2, NoNewRows, LogUnchanged DEF IInv

LEMMA AbortSafe ==
    ASSUME IInv, NEW w \in Writers, NEW how, Abort(w, how)
    PROVE  WritersOK' /\ Distinct' /\ LogInv'
<1>1. /\ tx' = [tx EXCEPT ![w] = Idle] /\ pc' = [pc EXCEPT ![w] = "idle"]
      /\ UNCHANGED <<revisions, head, acks>>
  BY DEF Abort, tables
<1>2. WritersOK'
  BY <1>1, IdleOK, WriterMoves DEF IInv
<1>3. Idle.rows \subseteq tx[w].rows
  BY DEF Idle
<1>. QED  BY <1>1, <1>2, <1>3, NoNewRows, LogUnchanged DEF IInv

(* A request is dealt with: the next one starts, or COMMIT is next.        *)
LEMMA NextRequestSafe ==
    ASSUME IInv, NEW w \in Writers, NEW t \in Transactions, NextRequest(w, t),
           t.rows = tx[w].rows, t.pos \in DOMAIN t.batch,
           Chained(revisions, t), HeadsKnown(revisions, t), Headed("head", t),
           Answered(revisions, "head", t), Served(revisions, t, t.pos), Asked(t)
    PROVE  WritersOK' /\ Distinct' /\ LogInv'
<1>1. t.batch \in Seq(Requests) /\ t.pos \in Nat \ {0}
  BY DEF Transactions
<1>2. CASE t.pos < Len(t.batch)
  <2>. DEFINE u == [t EXCEPT !.pos = @ + 1]
  <2>1. /\ u.batch = t.batch /\ u.pos = t.pos + 1 /\ u.rows = t.rows /\ u.heads = t.heads
        /\ u.replays = t.replays /\ u.now = t.now /\ u.seen = t.seen
    BY DEF Transactions
  <2>2. Continue(w, u, "head")
    BY <1>2 DEF NextRequest
  <2>. HIDE DEF u
  <2>3. Chained(revisions, u) /\ HeadsKnown(revisions, u) /\ Asked(u)
    BY <2>1 DEF Chained, HeadsKnown, Asked
  <2>4. Headed("head", u)
    BY <2>1 DEF Headed
  <2>5. Answered(revisions, "head", u)
    <3>1. \A i \in DOMAIN t.batch : i < t.pos + 1 => i < t.pos \/ i = t.pos
      BY <1>1
    <3>. QED  BY <2>1, <3>1 DEF Answered, Served
  <2>6. WriterOK(revisions, "head", u)
    BY <2>3, <2>4, <2>5 DEF WriterOK, Published, SeenKnown, CasDone, Written, Found
  <2>. QED  BY <2>1, <2>2, <2>6, ContinueSafe
<1>3. CASE ~(t.pos < Len(t.batch))
  <2>1. Continue(w, t, "commit")
    BY <1>3 DEF NextRequest
  <2>2. \A i \in DOMAIN t.batch : i < t.pos \/ i = t.pos
    BY <1>1, <1>3
  <2>3. Answered(revisions, "commit", t)
    BY <2>2 DEF Answered
  <2>4. Headed("commit", t)
    BY DEF Headed
  <2>5. WriterOK(revisions, "commit", t)
    BY <2>3, <2>4 DEF WriterOK, Published, SeenKnown, CasDone, Written, Found
  <2>. QED  BY <2>1, <2>5, ContinueSafe
<1>. QED  BY <1>2, <1>3

LEMMA ReplaySafe ==
    ASSUME IInv, NEW w \in Writers, NEW t \in Transactions, Replay(w, t),
           t.rows = tx[w].rows, t.pos \in DOMAIN t.batch,
           Chained(revisions, t), HeadsKnown(revisions, t), Headed("head", t),
           Answered(revisions, "head", t), Asked(t), Found(revisions, "repair", t)
    PROVE  WritersOK' /\ Distinct' /\ LogInv'
<1>. DEFINE u == [t EXCEPT !.replays = @ \cup {t.pos}]
<1>1. /\ u \in Transactions /\ u.batch = t.batch /\ u.pos = t.pos /\ u.rows = t.rows
      /\ u.heads = t.heads /\ u.replays = t.replays \cup {t.pos} /\ u.now = t.now
  BY DEF Transactions
<1>2. NextRequest(w, u)
  BY DEF Replay
<1>. HIDE DEF u
<1>3. Chained(revisions, u) /\ HeadsKnown(revisions, u) /\ Headed("head", u) /\ Asked(u)
  BY <1>1 DEF Chained, HeadsKnown, Headed, Asked
<1>4. Answered(revisions, "head", u)
  BY <1>1 DEF Answered, Served
<1>5. Served(revisions, u, u.pos)
  BY <1>1 DEF Found, Served, At
<1>. QED  BY <1>1, <1>2, <1>3, <1>4, <1>5, NextRequestSafe

-----------------------------------------------------------------------------
(* One lemma per action.                                                   *)

LEMMA BeginSafe ==
    ASSUME IInv, NEW w \in Writers, Begin(w)
    PROVE  WritersOK' /\ Distinct' /\ LogInv'
<1>1. PICK n \in 1 .. MaxBatch : \E b \in [1 .. n -> Requests] :
         tx' = [tx EXCEPT ![w] = [Idle EXCEPT !.batch = b, !.now = clock]]
  BY DEF Begin
<1>2. PICK b \in [1 .. n -> Requests] :
         tx' = [tx EXCEPT ![w] = [Idle EXCEPT !.batch = b, !.now = clock]]
  BY <1>1
<1>. DEFINE t == [Idle EXCEPT !.batch = b, !.now = clock]
<1>3. t.rows = {} /\ t.pos = 1 /\ t.batch = b /\ t.heads = [k \in Keys |-> NoRow]
  BY DEF Idle
<1>4. /\ tx' = [tx EXCEPT ![w] = t] /\ pc' = [pc EXCEPT ![w] = "head"]
      /\ UNCHANGED <<revisions, head, acks>>
  BY <1>2 DEF Begin, tables
<1>. HIDE DEF t
<1>5. \A i \in DOMAIN b : ~(i < 1)
  OBVIOUS
<1>6. WriterOK(revisions, "head", t)
  BY <1>3, <1>5 DEF WriterOK, Published, Chained, HeadsKnown, SeenKnown, CasDone, Written, Found,
                    Headed, Answered, Asked
<1>7. WritersOK'
  BY <1>4, <1>6, WriterMoves DEF IInv
<1>. QED  BY <1>3, <1>4, <1>7, NoNewRows, LogUnchanged DEF IInv

(* A visible head is a row the transaction can see.                        *)
LEMMA VisibleHeadKnown ==
    ASSUME IInv, NEW w \in Writers, NEW k \in Keys, VisibleHead(w, k) # NoRow
    PROVE  VisibleHead(w, k) \in revisions \cup tx[w].rows /\ VisibleHead(w, k).key = k
<1>1. HeadsKnown(revisions, tx[w])
  BY DEF IInv, WritersOK, WriterOK
<1>2. head[k] # NoRow => head[k] \in revisions /\ head[k].key = k
  BY DEF IInv, LogInv, HeadMatchesLog
<1>. QED  BY <1>1, <1>2 DEF VisibleHead, HeadsKnown

LEMMA SelectHeadSafe ==
    ASSUME IInv, NEW w \in Writers, SelectHead(w)
    PROVE  WritersOK' /\ Distinct' /\ LogInv'
<1>. DEFINE k == Request(w).key
            row == VisibleHead(w, k)
            t == IF row = NoRow
                 THEN [tx[w] EXCEPT !.seen = NoRevision]
                 ELSE [tx[w] EXCEPT !.seen = row.rev, !.locks = @ \cup {k}]
<1>1. pc[w] = "head" /\ Continue(w, t, "row")
  BY DEF SelectHead
<1>2. tx[w] \in Transactions /\ k \in Keys
  BY <1>1, RequestType DEF Requests, IInv
<1>3. row # NoRow => row \in revisions \cup tx[w].rows /\ row.key = k
  BY <1>2, VisibleHeadKnown
<1>4. WriterOK(revisions, "head", tx[w])
  BY <1>1 DEF IInv, WritersOK
<1>5. k = At(tx[w]).key
  BY DEF Request, At
<1>. HIDE DEF row, k
<1>6. /\ t.batch = tx[w].batch /\ t.pos = tx[w].pos /\ t.rows = tx[w].rows
      /\ t.heads = tx[w].heads /\ t.replays = tx[w].replays /\ t.now = tx[w].now
      /\ t.seen = IF row = NoRow THEN NoRevision ELSE row.rev
  BY <1>2 DEF Transactions
<1>. HIDE DEF t
<1>7. At(t) = At(tx[w])
  BY <1>6 DEF At
<1>8. Chained(revisions, t) /\ HeadsKnown(revisions, t) /\ Asked(t)
  BY <1>4, <1>6 DEF WriterOK, Chained, HeadsKnown, Asked
<1>9. SeenKnown(revisions, "row", t)
  BY <1>3, <1>5, <1>6, <1>7 DEF SeenKnown
<1>10. Headed("row", t)
  BY <1>4, <1>6 DEF WriterOK, Headed
<1>11. Answered(revisions, "row", t)
  BY <1>4, <1>6 DEF WriterOK, Answered, Served
<1>12. WriterOK(revisions, "row", t)
  BY <1>8, <1>9, <1>10, <1>11 DEF WriterOK, Published, CasDone, Written, Found
<1>. QED  BY <1>1, <1>6, <1>12, ContinueSafe

LEMMA SelectRowSafe ==
    ASSUME IInv, NEW w \in Writers, SelectRow(w)
    PROVE  WritersOK' /\ Distinct' /\ LogInv'
<1>. DEFINE t == tx[w]
<1>1. pc[w] = "row" /\ t \in Transactions /\ t.pos \in DOMAIN t.batch
  BY DEF SelectRow, IInv, TypeInv, TypeOK, PosOK
<1>2. WriterOK(revisions, "row", t)
  BY <1>1 DEF IInv, WritersOK
<1>3. Chained(revisions, t) /\ HeadsKnown(revisions, t) /\ Asked(t)
  BY <1>2 DEF WriterOK
<1>4. \A p : Headed(p, t)
  BY <1>2 DEF WriterOK, Headed
<1>5. Answered(revisions, "head", t) /\ Answered(revisions, "repair", t)
      /\ Answered(revisions, "insert", t)
  BY <1>2 DEF WriterOK, Answered
<1>6. CASE \E row \in Existing(w) : Identical(row, Request(w))
  <2>1. Found(revisions, "repair", t)
    BY <1>6 DEF Existing, VisibleRows, Identical, Request, Found, At
  <2>2. CASE Replay(w, tx[w])
    BY <1>1, <1>3, <1>4, <1>5, <2>1, <2>2, ReplaySafe
  <2>3. CASE Continue(w, tx[w], "repair")
    <3>1. WriterOK(revisions, "repair", t)
      BY <1>3, <1>4, <1>5, <2>1 DEF WriterOK, Published, SeenKnown, CasDone, Written
    <3>. QED  BY <2>3, <3>1, ContinueSafe
  <2>4. CASE Abort(w, "conflict")
    BY <2>4, AbortSafe
  <2>. QED  BY <1>6, <2>2, <2>3, <2>4 DEF SelectRow
<1>7. CASE ~\E row \in Existing(w) : Identical(row, Request(w))
  <2>1. CASE Abort(w, "conflict")
    BY <2>1, AbortSafe
  <2>2. CASE CasHolds(tx[w].seen, Request(w).expected) /\ Continue(w, tx[w], "insert")
    <3>1. CasDone("insert", t)
      BY <2>2 DEF CasDone, CasHolds, Request, At
    <3>2. SeenKnown(revisions, "insert", t)
      BY <1>2 DEF WriterOK, Published, SeenKnown
    <3>3. WriterOK(revisions, "insert", t)
      BY <1>3, <1>4, <1>5, <3>1, <3>2 DEF WriterOK, Published, Written, Found
    <3>. QED  BY <2>2, <3>3, ContinueSafe
  <2>. QED  BY <1>7, <2>1, <2>2 DEF SelectRow
<1>. QED  BY <1>6, <1>7

(* The unique index at work: the row is new to the log, to the transaction *)
(* and to every other open transaction.                                    *)
LEMMA InsertRowSafe ==
    ASSUME IInv, NEW w \in Writers, InsertRow(w)
    PROVE  WritersOK' /\ Distinct' /\ LogInv'
<1>. DEFINE row == RowOf(w)
            t == [tx[w] EXCEPT !.rows = @ \cup {row}]
<1>1. pc[w] = "insert" /\ tx[w] \in Transactions /\ tx[w].pos \in DOMAIN tx[w].batch
  BY DEF InsertRow, IInv, TypeInv, TypeOK, PosOK
<1>2. /\ Request(w) \in Requests /\ row \in Rows /\ Request(w) = At(tx[w])
      /\ row = RowFor(tx[w])
  BY <1>1, RequestType DEF IInv, Request, At, RowOf, RowFor
<1>3. CASE Abort(w, "conflict")
  BY <1>3, AbortSafe
<1>4. CASE ~RevisionTaken(w) /\ Continue(w, t, "upsert")
  <2>1. /\ t.batch = tx[w].batch /\ t.pos = tx[w].pos /\ t.rows = tx[w].rows \cup {row}
        /\ t.heads = tx[w].heads /\ t.replays = tx[w].replays /\ t.now = tx[w].now
    BY <1>1 DEF Transactions
  <2>2. WriterOK(revisions, "insert", tx[w])
    BY <1>1 DEF IInv, WritersOK
  <2>3. row.key = Request(w).key /\ row.rev = Target(Request(w)) /\ row.rev \in Nat
        /\ row.content = Request(w).content
    BY <1>2 DEF RowOf, Rows
  <2>. HIDE DEF row, t
  <2>4. At(t) = Request(w) /\ RowFor(t) = row
    BY <1>2, <2>1 DEF At, RowFor
  <2>5. \A s \in revisions \cup tx[w].rows : ~SameSlot(row, s)
    BY <1>4, <2>3 DEF RevisionTaken, Existing, VisibleRows, SameTarget, SameSlot
  <2>6. \A v \in Writers : v # w => \A s \in tx[v].rows : ~SameSlot(row, s)
    <3>1. Blockers(w) = {}
      BY DEF InsertRow
    <3>2. RowHolders(w) = {}
      BY <1>1, <3>1 DEF Blockers
    <3>. QED  BY <2>3, <3>2 DEF RowHolders, Others, SameTarget, SameSlot
  <2>7. Chained(revisions, t)
    <3>1. row.rev > 0 => \E q \in revisions \cup tx[w].rows :
                            q.key = row.key /\ q.rev = row.rev - 1
      BY <1>2, <2>2, <2>3, StoreAssumption
      DEF WriterOK, Published, SeenKnown, CasDone, Target, NoRevision, Requests
    <3>. QED  BY <2>1, <2>2, <3>1 DEF WriterOK, Chained
  <2>8. HeadsKnown(revisions, t)
    BY <2>1, <2>2 DEF WriterOK, HeadsKnown
  <2>9. Headed("upsert", t)
    BY <2>1, <2>2, <2>3, <2>4 DEF WriterOK, Headed
  <2>10. Answered(revisions, "upsert", t)
    BY <2>1, <2>2 DEF WriterOK, Answered, Served
  <2>11. Asked(t)
    BY <1>1, <1>2, <2>1, <2>2, <2>3 DEF WriterOK, Asked, SameTarget, At
  <2>12. Written("upsert", t)
    BY <2>1, <2>4 DEF Written
  <2>13. WriterOK(revisions, "upsert", t)
    BY <2>7, <2>8, <2>9, <2>10, <2>11, <2>12 DEF WriterOK, Published, SeenKnown, CasDone, Found
  <2>14. /\ tx' = [tx EXCEPT ![w] = t] /\ pc' = [pc EXCEPT ![w] = "upsert"]
         /\ UNCHANGED <<revisions, head, acks>>
    BY <1>4 DEF Continue, tables
  <2>15. WritersOK'
    BY <2>13, <2>14, WriterMoves DEF IInv
  <2>16. Distinct'
    <3>1. /\ tx'[w].rows = tx[w].rows \cup {row}
          /\ \A v \in Writers : v # w => tx'[v].rows = tx[v].rows
      BY <2>1, <2>14 DEF IInv, TypeInv, TypeOK
    <3>2. \A r, s : SameSlot(r, s) => SameSlot(s, r)
      BY DEF SameSlot
    <3>3. ASSUME NEW v \in Writers, NEW r \in tx'[v].rows, NEW s \in revisions' \cup tx'[v].rows,
                 SameSlot(r, s)
          PROVE  r = s
      <4>1. revisions' = revisions
        BY <2>14
      <4>2. CASE v # w
        BY <3>1, <3>3, <4>1, <4>2 DEF IInv, Distinct
      <4>3. CASE v = w /\ r \in tx[w].rows /\ s \in revisions \cup tx[w].rows
        BY <3>3, <4>3 DEF IInv, Distinct
      <4>4. CASE v = w /\ r = row /\ s \in revisions \cup tx[w].rows
        BY <2>5, <3>3, <4>4
      <4>5. CASE v = w /\ r \in tx[w].rows /\ s = row
        BY <2>5, <3>2, <3>3, <4>5
      <4>. QED  BY <3>1, <3>3, <4>1, <4>2, <4>3, <4>4, <4>5
    <3>4. ASSUME NEW u \in Writers, NEW v \in Writers, u # v,
                 NEW r \in tx'[u].rows, NEW s \in tx'[v].rows
          PROVE  ~SameSlot(r, s)
      <4>1. CASE r \in tx[u].rows /\ s \in tx[v].rows
        BY <3>4, <4>1 DEF IInv, Distinct
      <4>2. CASE u = w /\ r = row
        BY <2>6, <3>1, <3>4, <4>2
      <4>3. CASE v = w /\ s = row
        BY <2>6, <3>1, <3>2, <3>4, <4>3
      <4>. QED  BY <3>1, <3>4, <4>1, <4>2, <4>3
    <3>. QED  BY <3>3, <3>4 DEF Distinct
  <2>. QED  BY <2>14, <2>15, <2>16, LogUnchanged DEF IInv
<1>. QED  BY <1>3, <1>4 DEF InsertRow, UniqueViolation

(* Putting a visible row in the head table.                                *)
LEMMA PutHeadSafe ==
    ASSUME NEW t \in Transactions, NEW r \in revisions \cup t.rows, NEW R, R = revisions,
           r \in Rows, WriterOK(R, "upsert", t) \/ WriterOK(R, "repair", t),
           NEW u, u = PutHead(t, r), SameTarget(r, At(t))
    PROVE  /\ Chained(R, u) /\ HeadsKnown(R, u) /\ Headed("ledger", u)
           /\ Headed("head", u) /\ Answered(R, "head", u) /\ Asked(u)
<1>1. /\ u.batch = t.batch /\ u.pos = t.pos /\ u.rows = t.rows /\ u.replays = t.replays
      /\ u.now = t.now /\ u.heads = [t.heads EXCEPT ![r.key] = r]
  BY PutHeadType
<1>2. Chained(R, t) /\ HeadsKnown(R, t) /\ Asked(t) /\ Headed("upsert", t)
      /\ Answered(R, "head", t)
  BY DEF WriterOK, Headed, Answered
<1>3. t.heads \in [Keys -> Rows \cup {NoRow}] /\ t.rows \subseteq Rows /\ r.key \in Keys
  BY DEF Transactions, Rows
<1>4. Chained(R, u) /\ Asked(u)
  BY <1>1, <1>2 DEF Chained, Asked
<1>5. HeadsKnown(R, u)
  BY <1>1, <1>2, <1>3 DEF HeadsKnown
<1>6. \A s \in u.rows : u.heads[s.key] # NoRow
  <2>1. \A s \in t.rows : s.key \in Keys
    BY <1>3 DEF Rows
  <2>. QED  BY <1>1, <1>2, <1>3, <2>1, NoRowIsNoRow DEF Headed, SameTarget
<1>7. Headed("ledger", u) /\ Headed("head", u)
  BY <1>6 DEF Headed
<1>8. Answered(R, "head", u)
  BY <1>1, <1>2 DEF Answered, Served
<1>. QED  BY <1>4, <1>5, <1>7, <1>8

LEMMA WriteHeadSafe ==
    ASSUME IInv, NEW w \in Writers, WriteHead(w)
    PROVE  WritersOK' /\ Distinct' /\ LogInv'
<1>. DEFINE owed == IntentsFor(Request(w).key, Target(Request(w)))
            u == PutHead(tx[w], RowOf(w))
            t == [u EXCEPT !.intents = @ \cup owed]
<1>1. pc[w] = "upsert" /\ tx[w] \in Transactions
  BY DEF WriteHead, IInv, TypeInv, TypeOK
<1>2. RowOf(w) \in Rows /\ RowOf(w) = RowFor(tx[w]) /\ SameTarget(RowOf(w), At(tx[w]))
  BY <1>1, RequestType DEF IInv, RowOf, RowFor, Request, At, SameTarget
<1>3. WriterOK(revisions, "upsert", tx[w])
  BY <1>1 DEF IInv, WritersOK
<1>4. RowOf(w) \in tx[w].rows
  BY <1>2, <1>3 DEF WriterOK, Written
<1>5. Abort(w, "bad_intent") \/ Continue(w, t, "ledger")
  BY DEF WriteHead
<1>6. /\ u \in Transactions /\ u.batch = tx[w].batch /\ u.pos = tx[w].pos
      /\ u.rows = tx[w].rows /\ u.now = tx[w].now
  BY <1>1, <1>2, PutHeadType
<1>7. /\ Chained(revisions, u) /\ HeadsKnown(revisions, u) /\ Headed("ledger", u)
      /\ Answered(revisions, "head", u) /\ Asked(u)
  BY <1>1, <1>2, <1>3, <1>4, PutHeadSafe
<1>. HIDE DEF u, owed
<1>8. /\ t.batch = u.batch /\ t.pos = u.pos /\ t.rows = u.rows /\ t.heads = u.heads
      /\ t.replays = u.replays /\ t.now = u.now
  BY <1>6 DEF Transactions
<1>. HIDE DEF t
<1>9. Chained(revisions, t) /\ HeadsKnown(revisions, t) /\ Headed("ledger", t) /\ Asked(t)
  BY <1>7, <1>8 DEF Chained, HeadsKnown, Headed, Asked
<1>10. Answered(revisions, "ledger", t)
  BY <1>7, <1>8 DEF Answered, Served
<1>11. Written("ledger", t)
  BY <1>2, <1>4, <1>6, <1>8 DEF Written, RowFor, At
<1>12. WriterOK(revisions, "ledger", t)
  BY <1>9, <1>10, <1>11 DEF WriterOK, Published, SeenKnown, CasDone, Found
<1>. QED  BY <1>5, <1>6, <1>8, <1>12, AbortSafe, ContinueSafe

LEMMA RepairHeadSafe ==
    ASSUME IInv, NEW w \in Writers, RepairHead(w)
    PROVE  WritersOK' /\ Distinct' /\ LogInv'
<1>1. pc[w] = "repair" /\ tx[w] \in Transactions /\ tx[w].pos \in DOMAIN tx[w].batch
  BY DEF RepairHead, IInv, TypeInv, TypeOK, PosOK
<1>2. PICK row \in Existing(w) : Replay(w, PutHead(tx[w], row))
  BY DEF RepairHead
<1>3. /\ row \in revisions \cup tx[w].rows /\ row \in Rows
      /\ SameTarget(row, At(tx[w]))
  BY <1>1 DEF Existing, VisibleRows, Transactions, Request, At, IInv, TypeInv, TypeOK
<1>4. WriterOK(revisions, "repair", tx[w])
  BY <1>1 DEF IInv, WritersOK
<1>. DEFINE u == PutHead(tx[w], row)
<1>5. /\ u \in Transactions /\ u.batch = tx[w].batch /\ u.pos = tx[w].pos
      /\ u.rows = tx[w].rows
  BY <1>1, <1>3, PutHeadType
<1>6. /\ Chained(revisions, u) /\ HeadsKnown(revisions, u) /\ Headed("head", u)
      /\ Answered(revisions, "head", u) /\ Asked(u)
  BY <1>1, <1>3, <1>4, PutHeadSafe
<1>. HIDE DEF u
<1>7. Found(revisions, "repair", u)
  BY <1>4, <1>5 DEF WriterOK, Found, At
<1>8. Replay(w, u)
  BY <1>2 DEF u
<1>. QED  BY <1>1, <1>5, <1>6, <1>7, <1>8, ReplaySafe

LEMMA UpsertFingerprintSafe ==
    ASSUME IInv, NEW w \in Writers, UpsertFingerprint(w)
    PROVE  WritersOK' /\ Distinct' /\ LogInv'
<1>. DEFINE t == [tx[w] EXCEPT !.ledger = @ \cup NewEntries(w)]
<1>1. pc[w] = "ledger" /\ NextRequest(w, t)
  BY DEF UpsertFingerprint
<1>2. tx[w] \in Transactions /\ tx[w].pos \in DOMAIN tx[w].batch
  BY <1>1 DEF IInv, TypeInv, TypeOK, PosOK
<1>3. WriterOK(revisions, "ledger", tx[w])
  BY <1>1 DEF IInv, WritersOK
<1>4. /\ t \in Transactions /\ t.batch = tx[w].batch /\ t.pos = tx[w].pos
      /\ t.rows = tx[w].rows /\ t.heads = tx[w].heads /\ t.replays = tx[w].replays
      /\ t.now = tx[w].now
  BY <1>1, <1>2, NewEntriesType DEF Transactions, IInv
<1>. HIDE DEF t
<1>5. /\ Chained(revisions, t) /\ HeadsKnown(revisions, t) /\ Headed("head", t) /\ Asked(t)
  BY <1>3, <1>4 DEF WriterOK, Chained, HeadsKnown, Headed, Asked
<1>6. Answered(revisions, "head", t)
  BY <1>3, <1>4 DEF WriterOK, Answered, Served
<1>7. Served(revisions, t, t.pos)
  <2>1. RowFor(tx[w]) \in t.rows
    BY <1>3, <1>4 DEF WriterOK, Written
  <2>. QED  BY <1>4, <2>1 DEF Served, SameTarget, RowFor, At
<1>. QED  BY <1>1, <1>2, <1>4, <1>5, <1>6, <1>7, NextRequestSafe

(* COMMIT: what the transaction had established is now true of the log.    *)
LEMMA CommitTxSafe ==
    ASSUME IInv, NEW w \in Writers, CommitTx(w)
    PROVE  WritersOK' /\ Distinct' /\ LogInv'
<1>. DEFINE t == [Idle EXCEPT !.batch = tx[w].batch, !.now = tx[w].now,
                              !.replays = tx[w].replays]
<1>1. /\ pc[w] = "commit"
      /\ revisions' = revisions \cup tx[w].rows
      /\ head' = [k \in Keys |-> VisibleHead(w, k)]
      /\ pc' = [pc EXCEPT ![w] = "ack"]
      /\ tx' = [tx EXCEPT ![w] = t]
      /\ acks' = acks
  BY DEF CommitTx
<1>2. tx[w] \in Transactions /\ WriterOK(revisions, "commit", tx[w])
  BY <1>1 DEF IInv, TypeInv, TypeOK, WritersOK
<1>3. /\ t.rows = {} /\ t.pos = 1 /\ t.heads = [k \in Keys |-> NoRow]
      /\ t.batch = tx[w].batch /\ t.now = tx[w].now /\ t.replays = tx[w].replays
  BY DEF Idle
<1>. HIDE DEF t
<1>4. WritersOK'
  <2>1. Answered(revisions', "ack", t)
    BY <1>1, <1>2, <1>3 DEF WriterOK, Answered, Served
  <2>2. WriterOK(revisions', "ack", t)
    BY <1>3, <2>1 DEF WriterOK, Published, Chained, HeadsKnown, SeenKnown, CasDone, Written, Found,
                      Headed, Asked
  <2>. QED  BY <1>1, <2>2, WriterMoves DEF IInv
<1>5. Distinct'
  <2>1. tx'[w].rows = {} /\ \A v \in Writers : v # w => tx'[v].rows = tx[v].rows
    BY <1>1, <1>3 DEF IInv, TypeInv, TypeOK
  <2>2. ASSUME NEW v \in Writers, NEW r \in tx'[v].rows, NEW s \in revisions' \cup tx'[v].rows,
               SameSlot(r, s)
        PROVE  r = s
    <3>1. v # w /\ r \in tx[v].rows
      BY <2>1, <2>2
    <3>2. CASE s \in tx[w].rows
      BY <2>2, <3>1, <3>2 DEF IInv, Distinct
    <3>3. CASE s \in revisions \cup tx[v].rows
      BY <2>2, <3>1, <3>3 DEF IInv, Distinct
    <3>. QED  BY <1>1, <2>1, <2>2, <3>1, <3>2, <3>3
  <2>3. ASSUME NEW u \in Writers, NEW v \in Writers, u # v,
               NEW r \in tx'[u].rows, NEW s \in tx'[v].rows
        PROVE  ~SameSlot(r, s)
    <3>1. r \in tx[u].rows /\ s \in tx[v].rows
      BY <2>1, <2>3
    <3>. QED  BY <2>3, <3>1 DEF IInv, Distinct
  <2>. QED  BY <2>2, <2>3 DEF Distinct
<1>6. LogContiguous'
  BY <1>1, <1>2 DEF IInv, LogInv, LogContiguous, WriterOK, Chained
<1>7. UniqueRevision'
  <2>1. ASSUME NEW r \in revisions', NEW s \in revisions', SameSlot(r, s) PROVE r = s
    <3>1. CASE r \in tx[w].rows
      BY <1>1, <2>1, <3>1 DEF IInv, Distinct
    <3>2. CASE s \in tx[w].rows
      <4>1. SameSlot(s, r)
        BY <2>1 DEF SameSlot
      <4>. QED  BY <1>1, <3>2, <4>1 DEF IInv, Distinct
    <3>3. CASE r \in revisions /\ s \in revisions
      BY <2>1, <3>3 DEF IInv, LogInv, UniqueRevision, SameSlot
    <3>. QED  BY <1>1, <3>1, <3>2, <3>3
  <2>. QED  BY <2>1 DEF UniqueRevision, SameSlot
<1>8. HeadMatchesLog'
  <2>. SUFFICES ASSUME NEW k \in Keys
                PROVE  IF head'[k] = NoRow
                       THEN \A r \in revisions' : r.key # k
                       ELSE head'[k] \in revisions' /\ head'[k].key = k
    BY DEF HeadMatchesLog
  <2>1. head'[k] = VisibleHead(w, k)
    BY <1>1
  <2>2. CASE head'[k] = NoRow
    <3>1. head[k] = NoRow /\ tx[w].heads[k] = NoRow
      BY <2>1, <2>2 DEF VisibleHead
    <3>2. \A r \in revisions : r.key # k
      BY <3>1 DEF IInv, LogInv, HeadMatchesLog
    <3>3. \A r \in tx[w].rows : r.key # k
      BY <1>2, <3>1 DEF WriterOK, Headed
    <3>. QED  BY <1>1, <2>2, <3>2, <3>3
  <2>3. CASE head'[k] # NoRow
    BY <1>1, <2>1, <2>3, VisibleHeadKnown
  <2>. QED  BY <2>2, <2>3
<1>9. AckedDurable'
  BY <1>1 DEF IInv, LogInv, AckedDurable, Backed
<1>. QED  BY <1>4, <1>5, <1>6, <1>7, <1>8, <1>9 DEF LogInv

LEMMA AckSafe ==
    ASSUME IInv, NEW w \in Writers, Ack(w)
    PROVE  WritersOK' /\ Distinct' /\ LogInv'
<1>1. /\ pc[w] = "ack"
      /\ acks' = acks \cup {ResultAt(tx[w], i) : i \in DOMAIN tx[w].batch}
      /\ pc' = [pc EXCEPT ![w] = "idle"] /\ tx' = [tx EXCEPT ![w] = Idle]
      /\ UNCHANGED <<revisions, head>>
  BY DEF Ack, tables
<1>2. WritersOK'
  BY <1>1, IdleOK, WriterMoves DEF IInv
<1>3. Distinct'
  <2>1. Idle.rows \subseteq tx[w].rows
    BY DEF Idle
  <2>. QED  BY <1>1, <2>1, NoNewRows DEF IInv
<1>4. AckedDurable'
  <2>. SUFFICES ASSUME NEW a \in acks' PROVE Backed(a)'
    BY DEF AckedDurable
  <2>1. CASE a \in acks
    BY <1>1, <2>1 DEF IInv, LogInv, AckedDurable, Backed
  <2>2. CASE a \notin acks
    <3>1. PICK i \in DOMAIN tx[w].batch : a = ResultAt(tx[w], i)
      BY <1>1, <2>2
    <3>2. Served(revisions, tx[w], i)
      BY <1>1 DEF IInv, WritersOK, WriterOK, Answered
    <3>3. tx[w].rows = {}
      BY <1>1 DEF IInv, WritersOK, WriterOK, Published
    <3>. QED  BY <1>1, <3>1, <3>2, <3>3 DEF Served, Backed, ResultAt, SameTarget
  <2>. QED  BY <2>1, <2>2
<1>5. LogContiguous' /\ UniqueRevision' /\ HeadMatchesLog'
  BY <1>1 DEF IInv, LogInv, LogContiguous, UniqueRevision, HeadMatchesLog
<1>. QED  BY <1>2, <1>3, <1>4, <1>5 DEF LogInv

-----------------------------------------------------------------------------
(* The invariant is inductive.                                             *)

LEMMA SafeInit == Init => IInv
<1>. SUFFICES ASSUME Init PROVE IInv
  OBVIOUS
<1>1. TypeInv
  BY TypeInit
<1>2. WritersOK
  BY IdleOK DEF Init, WritersOK
<1>3. Distinct
  BY DEF Init, Distinct, Idle
<1>4. LogInv
  BY DEF Init, LogInv, LogContiguous, UniqueRevision, HeadMatchesLog, AckedDurable
<1>. QED  BY <1>1, <1>2, <1>3, <1>4 DEF IInv

LEMMA SafeStep == IInv /\ [Next]_vars => IInv'
<1>. SUFFICES ASSUME IInv, [Next]_vars PROVE IInv'
  OBVIOUS
<1>0. TypeInv'
  BY TypeStep DEF IInv
<1>1. ASSUME NEW w \in Writers, Begin(w) PROVE IInv'
  BY <1>0, <1>1, BeginSafe DEF IInv
<1>2. ASSUME NEW w \in Writers, BusyTimeout(w) PROVE IInv'
  <2>1. UNCHANGED <<revisions, head, acks, pc, tx>>
    BY <1>2 DEF BusyTimeout, tables
  <2>. QED  BY <1>0, <2>1, LogUnchanged DEF IInv, WritersOK, Distinct
<1>3. ASSUME NEW w \in Writers, Statement(w) PROVE IInv'
  BY <1>0, <1>3, SelectHeadSafe, SelectRowSafe, InsertRowSafe, WriteHeadSafe,
     RepairHeadSafe, UpsertFingerprintSafe, CommitTxSafe DEF Statement, IInv
<1>4. ASSUME NEW w \in Writers, Ack(w) PROVE IInv'
  BY <1>0, <1>4, AckSafe DEF IInv
<1>5. ASSUME NEW w \in Writers, Crash(w) \/ DeadlockVictim(w) PROVE IInv'
  BY <1>0, <1>5, AbortSafe DEF Crash, DeadlockVictim, IInv
<1>6. CASE Tick \/ UNCHANGED vars
  <2>1. UNCHANGED <<revisions, head, acks, pc, tx>>
    BY <1>6 DEF Tick, tables, vars
  <2>. QED  BY <1>0, <2>1, LogUnchanged DEF IInv, WritersOK, Distinct
<1>. QED  BY <1>1, <1>2, <1>3, <1>4, <1>5, <1>6 DEF Next, Call, Statement

LEMMA Safe == Spec => []IInv
BY SafeInit, SafeStep, PTL DEF Spec

(* The log of a key has no gaps.                                           *)
THEOREM LogStaysContiguous == Spec => []LogContiguous
<1>1. IInv => LogContiguous
  BY DEF IInv, LogInv
<1>. QED  BY <1>1, Safe, PTL

(* Two writers never both get a revision of a key, although on Postgres    *)
(* both can pass the CAS of a create.                                      *)
THEOREM RevisionsStayUnique == Spec => []UniqueRevision
<1>1. IInv => UniqueRevision
  BY DEF IInv, LogInv
<1>. QED  BY <1>1, Safe, PTL

(* The head table never names a revision the log does not have, and never  *)
(* misses an aggregate, even where a replay has moved it backwards.        *)
THEOREM HeadStaysInLog == Spec => []HeadMatchesLog
<1>1. IInv => HeadMatchesLog
  BY DEF IInv, LogInv
<1>. QED  BY <1>1, Safe, PTL

(* Whatever a caller was told is durable, with its content; when it is not *)
(* a replay it is this call's own row.                                     *)
THEOREM AcksStayDurable == Spec => []AckedDurable
<1>1. IInv => AckedDurable
  BY DEF IInv, LogInv
<1>. QED  BY <1>1, Safe, PTL

(* A batch becomes durable as a whole, and nothing else ever adds a row.   *)
THEOREM BatchesAreAtomic == Spec => AllOrNothing
<1>. DEFINE Step == revisions' # revisions =>
         \E w \in Writers :
            /\ \A i \in DOMAIN tx[w].batch : \E r \in revisions' :
                 SameTarget(r, tx[w].batch[i]) /\ r.content = tx[w].batch[i].content
            /\ \A r \in revisions' \ revisions :
                 \E i \in DOMAIN tx[w].batch : SameTarget(r, tx[w].batch[i])
<1>1. IInv /\ [Next]_vars => Step
  <2>. SUFFICES ASSUME IInv, [Next]_vars, revisions' # revisions PROVE Step
    OBVIOUS
  <2>1. PICK w \in Writers : CommitTx(w)
    BY DEF Next, Call, vars, tables, Begin, BusyTimeout, SelectHead, SelectRow, InsertRow,
           WriteHead, RepairHead, UpsertFingerprint, Ack, Crash, DeadlockVictim, Tick,
           Abort, Continue, NextRequest, Replay, UniqueViolation
  <2>2. WriterOK(revisions, "commit", tx[w])
    BY <2>1 DEF CommitTx, IInv, WritersOK
  <2>3. revisions' = revisions \cup tx[w].rows
    BY <2>1 DEF CommitTx
  <2>4. \A i \in DOMAIN tx[w].batch : \E r \in revisions' :
           SameTarget(r, tx[w].batch[i]) /\ r.content = tx[w].batch[i].content
    BY <2>2, <2>3 DEF WriterOK, Answered, Served
  <2>5. \A r \in revisions' \ revisions :
           \E i \in DOMAIN tx[w].batch : SameTarget(r, tx[w].batch[i])
    BY <2>2, <2>3 DEF WriterOK, Asked
  <2>. QED  BY <2>4, <2>5
<1>. QED  BY <1>1, Safe, PTL DEF Spec, AllOrNothing

-----------------------------------------------------------------------------
(* The log of each aggregate, seen as VersionedLog has it.                 *)


LEMMA ViewDomain ==
    ASSUME NEW k \in Keys
    PROVE  DOMAIN LogView[k] = {r.rev : r \in {s \in revisions : s.key = k}}
BY DEF LogView

(* The abstract log shows the content of every row.                        *)
LEMMA ViewShows ==
    ASSUME UniqueRevision, NEW r \in revisions, r.key \in Keys
    PROVE  r.rev \in DOMAIN LogView[r.key] /\ LogView[r.key][r.rev] = r.content
<1>1. r.rev \in DOMAIN LogView[r.key]
  BY ViewDomain
<1>2. r = CHOOSE s \in revisions : s.key = r.key /\ s.rev = r.rev
  BY DEF UniqueRevision
<1>. QED  BY <1>1, <1>2 DEF LogView

(* No rows, empty logs.                                                    *)
LEMMA ViewStarts == Init => Abstract!Init
<1>. SUFFICES ASSUME Init PROVE Abstract!Init
  OBVIOUS
<1>1. ASSUME NEW k \in Keys PROVE LogView[k] = [n \in {} |-> n]
  BY DEF Init, LogView
<1>. QED  BY <1>1 DEF Abstract!Init, LogView

(* Rows appear only as one call's batch: the abstract commit of it.        *)
LEMMA ViewSteps ==
    ASSUME IInv, IInv', [Next]_vars, revisions' # revisions
    PROVE  Abstract!Next
<1>1. PICK w \in Writers : CommitTx(w)
  BY DEF Next, Call, vars, tables, Begin, BusyTimeout, SelectHead, SelectRow, InsertRow,
         WriteHead, RepairHead, UpsertFingerprint, Ack, Crash, DeadlockVictim, Tick,
         Abort, Continue, NextRequest, Replay, UniqueViolation
<1>2. WriterOK(revisions, "commit", tx[w])
  BY <1>1 DEF CommitTx, IInv, WritersOK
<1>3. revisions' = revisions \cup tx[w].rows
  BY <1>1 DEF CommitTx
<1>4. /\ UniqueRevision /\ UniqueRevision' /\ LogContiguous'
      /\ revisions \subseteq Rows /\ revisions' \subseteq Rows
      /\ tx[w].batch \in Seq(Requests)
  BY DEF IInv, LogInv, TypeInv, TypeOK, Transactions
<1>. DEFINE batch == {tx[w].batch[i] : i \in DOMAIN tx[w].batch}
<1>5. batch \in SUBSET Abstract!Requests
  <2>1. \A i \in DOMAIN tx[w].batch : tx[w].batch[i] \in Requests
    BY <1>4
  <2>2. Abstract!Requests = Requests
    BY DEF Requests, Abstract!Requests
  <2>. QED  BY <2>1, <2>2
<1>6. \A q \in batch : \E r \in revisions' :
         r.key = q.key /\ r.rev = Abstract!Position(q) /\ r.content = q.content
  BY <1>2, <1>3 DEF WriterOK, Answered, Served, SameTarget, Target, Abstract!Position
<1>7. \A r \in revisions' \ revisions :
         \E q \in batch : r.key = q.key /\ r.rev = Abstract!Position(q)
  BY <1>2, <1>3 DEF WriterOK, Asked, SameTarget, Target, Abstract!Position
<1>8. \A r \in revisions' :
         /\ r.key \in Keys /\ r.rev \in Nat
         /\ r.rev \in DOMAIN LogView'[r.key] /\ LogView'[r.key][r.rev] = r.content
  <2>. SUFFICES ASSUME NEW r \in revisions'
                PROVE  /\ r.key \in Keys /\ r.rev \in Nat
                       /\ r.rev \in DOMAIN LogView'[r.key]
                       /\ LogView'[r.key][r.rev] = r.content
    OBVIOUS
  <2>1. r.key \in Keys /\ r.rev \in Nat
    BY <1>4 DEF Rows
  <2>2. r = CHOOSE s \in revisions' : s.key = r.key /\ s.rev = r.rev
    BY <1>4 DEF UniqueRevision
  <2>. QED  BY <2>1, <2>2 DEF LogView
<1>. HIDE DEF batch
<1>9. ASSUME NEW k \in Keys
      PROVE  /\ DOMAIN LogView'[k] = DOMAIN LogView[k]
                  \cup {Abstract!Position(q) : q \in {p \in batch : p.key = k}}
             /\ \A n \in DOMAIN LogView[k] : LogView'[k][n] = LogView[k][n]
             /\ \A n \in DOMAIN LogView'[k] : n > 0 => n - 1 \in DOMAIN LogView'[k]
  <2>1. DOMAIN LogView[k] = {r.rev : r \in {s \in revisions : s.key = k}}
    BY ViewDomain
  <2>2. DOMAIN LogView'[k] = {r.rev : r \in {s \in revisions' : s.key = k}}
    BY DEF LogView
  <2>3. DOMAIN LogView'[k] = DOMAIN LogView[k]
                  \cup {Abstract!Position(q) : q \in {p \in batch : p.key = k}}
    BY <1>3, <1>6, <1>7, <2>1, <2>2
  <2>4. ASSUME NEW n \in DOMAIN LogView[k] PROVE LogView'[k][n] = LogView[k][n]
    <3>1. PICK r \in revisions : r.key = k /\ r.rev = n
      BY <2>1
    <3>2. LogView[k][n] = r.content
      BY <1>4, <3>1, ViewShows
    <3>3. LogView'[k][n] = r.content
      BY <1>3, <1>8, <3>1
    <3>. QED  BY <3>2, <3>3
  <2>5. ASSUME NEW n \in DOMAIN LogView'[k], n > 0 PROVE n - 1 \in DOMAIN LogView'[k]
    <3>1. PICK r \in revisions' : r.key = k /\ r.rev = n
      BY <2>2
    <3>2. PICK p \in revisions' : p.key = r.key /\ p.rev = r.rev - 1
      BY <1>4, <2>5, <3>1 DEF LogContiguous
    <3>. QED  BY <2>2, <3>1, <3>2
  <2>. QED  BY <2>3, <2>4, <2>5
<1>10. \A q \in batch : LogView'[q.key][Abstract!Position(q)] = q.content
  BY <1>6, <1>8
<1>11. Abstract!Commit(batch)
  BY <1>9, <1>10 DEF Abstract!Commit
<1>. QED  BY <1>5, <1>11 DEF Abstract!Next

(* Whatever the interleaving of statements on either backend, the durable  *)
(* logs behave as if each batch had been committed in one atomic step at   *)
(* the bases it names, and never change otherwise.                         *)
THEOREM StoreImplementsLog == Spec => ImplementsLog
<1>1. IInv /\ IInv' /\ [Next]_vars => [Abstract!Next]_LogView
  <2>. SUFFICES ASSUME IInv, IInv', [Next]_vars PROVE [Abstract!Next]_LogView
    OBVIOUS
  <2>1. CASE revisions' = revisions
    BY <2>1 DEF LogView
  <2>2. CASE revisions' # revisions
    BY <2>2, ViewSteps
  <2>. QED  BY <2>1, <2>2
<1>. QED  BY <1>1, ViewStarts, Safe, PTL DEF Spec, ImplementsLog, Abstract!Spec

-----------------------------------------------------------------------------
(* What a call does to its own transaction.  All but COMMIT leave the      *)
(* tables alone, so an invariant only needs to look at these cases.        *)

(* w goes on at statement p, with its transaction as t.                    *)
Moves(w, p, t) ==
    /\ tx' = [tx EXCEPT ![w] = t] /\ pc' = [pc EXCEPT ![w] = p]
    /\ UNCHANGED <<revisions, head, intents, ledger, clock>>

SameCall(w, t) == t.batch = tx[w].batch /\ t.now = tx[w].now
SamePlace(w, t) == SameCall(w, t) /\ t.pos = tx[w].pos
SameTables(w, t) ==
    t.rows = tx[w].rows /\ t.heads = tx[w].heads /\ t.intents = tx[w].intents
    /\ t.ledger = tx[w].ledger

(* The request at hand is dealt with.                                      *)
OnToNext(w, p, t) ==
    /\ SameCall(w, t)
    /\ IF tx[w].pos < Len(tx[w].batch)
       THEN p = "head" /\ t.pos = tx[w].pos + 1
       ELSE p = "commit" /\ t.pos = tx[w].pos

Starts(w, p, t) ==
    /\ pc[w] = "idle" /\ p = "head" /\ t.pos = 1 /\ t.now = clock
    /\ Len(t.batch) \in 1 .. MaxBatch
    /\ \A i \in DOMAIN t.batch : Plannable(t.batch[i])
    /\ t.rows = {} /\ t.heads = [k \in Keys |-> NoRow]
    /\ t.intents = {} /\ t.ledger = {} /\ t.locks = {}

ReadsHead(w, p, t) ==
    LET row == VisibleHead(w, Request(w).key)
    IN  /\ pc[w] = "head" /\ p = "row"
        /\ SamePlace(w, t) /\ SameTables(w, t)
        /\ IF row = NoRow
           THEN t.seen = NoRevision /\ t.locks = tx[w].locks
           ELSE /\ t.seen = row.rev /\ t.locks = tx[w].locks \cup {Request(w).key}
                /\ HeadHolders(w) = {}

Decides(w, p, t) ==
    /\ pc[w] = "row" /\ t = tx[w]
    /\ \/ p = "insert" /\ CasHolds(tx[w].seen, Request(w).expected)
       \/ p = "repair" /\ \E row \in Existing(w) : HeadBehind(tx[w].seen, row)

FindsReplay(w, p, t) ==
    pc[w] = "row" /\ OnToNext(w, p, t) /\ SameTables(w, t) /\ t.locks = tx[w].locks

Inserts(w, p, t) ==
    /\ pc[w] = "insert" /\ p = "upsert" /\ Existing(w) = {}
    /\ SamePlace(w, t) /\ t.seen = tx[w].seen
    /\ t.rows = tx[w].rows \cup {RowOf(w)} /\ t.heads = tx[w].heads
    /\ t.intents = tx[w].intents /\ t.ledger = tx[w].ledger /\ t.locks = tx[w].locks

PutsHead(w, t, row) ==
    /\ HeadHolders(w) = {}
    /\ t.heads = [tx[w].heads EXCEPT ![Request(w).key] = row]
    /\ t.locks = tx[w].locks \cup {Request(w).key}
    /\ t.rows = tx[w].rows /\ t.ledger = tx[w].ledger

Upserts(w, p, t) ==
    /\ pc[w] = "upsert" /\ p = "ledger"
    /\ SamePlace(w, t) /\ PutsHead(w, t, RowOf(w))
    /\ t.intents = tx[w].intents \cup IntentsFor(Request(w).key, Target(Request(w)))

Repairs(w, p, t) ==
    /\ pc[w] = "repair" /\ OnToNext(w, p, t)
    /\ \E row \in Existing(w) : PutsHead(w, t, row)
    /\ t.intents = tx[w].intents

Records(w, p, t) ==
    /\ pc[w] = "ledger" /\ OnToNext(w, p, t) /\ LedgerHolders(w) = {}
    /\ t.rows = tx[w].rows /\ t.heads = tx[w].heads /\ t.intents = tx[w].intents
    /\ t.ledger = tx[w].ledger \cup NewEntries(w) /\ t.locks = tx[w].locks

Ends(w, p, t) == p = "idle" /\ t = Idle

Goes(w, p, t) ==
    \/ Starts(w, p, t) \/ ReadsHead(w, p, t) \/ Decides(w, p, t) \/ FindsReplay(w, p, t)
    \/ Inserts(w, p, t) \/ Upserts(w, p, t) \/ Repairs(w, p, t) \/ Records(w, p, t)
    \/ Ends(w, p, t)

MovesOn(w) == \E p \in PCs, t \in Transactions : Moves(w, p, t) /\ Goes(w, p, t)

LEMMA ContinueMoves ==
    ASSUME NEW w \in Writers, NEW p \in PCs, NEW t \in Transactions, Continue(w, t, p),
           Goes(w, p, t)
    PROVE  MovesOn(w)
<1>1. Moves(w, p, t)
  BY DEF Continue, tables, Moves
<1>. QED  BY <1>1 DEF MovesOn

LEMMA AbortMoves ==
    ASSUME NEW w \in Writers, NEW how, Abort(w, how)
    PROVE  MovesOn(w)
<1>1. Moves(w, "idle", Idle)
  BY DEF Abort, tables, Moves
<1>. QED  BY <1>1, IdleType DEF MovesOn, Goes, Ends, PCs

(* What follows the end of a request.                                      *)
LEMMA NextRequestMoves ==
    ASSUME NEW w \in Writers, NEW t \in Transactions, NextRequest(w, t),
           t.batch = tx[w].batch, t.pos = tx[w].pos, t.now = tx[w].now
    PROVE  \E p \in PCs, u \in Transactions :
              /\ Moves(w, p, u) /\ OnToNext(w, p, u)
              /\ u.rows = t.rows /\ u.heads = t.heads /\ u.intents = t.intents
              /\ u.ledger = t.ledger /\ u.locks = t.locks
<1>1. CASE t.pos < Len(t.batch)
  <2>. DEFINE u == [t EXCEPT !.pos = @ + 1]
  <2>1. Continue(w, u, "head")
    BY <1>1 DEF NextRequest
  <2>2. /\ u \in Transactions /\ u.batch = t.batch /\ u.pos = t.pos + 1 /\ u.now = t.now
        /\ u.rows = t.rows /\ u.heads = t.heads /\ u.intents = t.intents
        /\ u.ledger = t.ledger /\ u.locks = t.locks
    BY DEF Transactions
  <2>3. Moves(w, "head", u)
    BY <2>1 DEF Continue, tables, Moves
  <2>. HIDE DEF u
  <2>4. OnToNext(w, "head", u)
    BY <1>1, <2>2 DEF OnToNext, SameCall
  <2>. QED  BY <2>2, <2>3, <2>4 DEF PCs
<1>2. CASE ~(t.pos < Len(t.batch))
  <2>1. Moves(w, "commit", t)
    BY <1>2 DEF NextRequest, Continue, tables, Moves
  <2>2. OnToNext(w, "commit", t)
    BY <1>2 DEF OnToNext, SameCall
  <2>. QED  BY <2>1, <2>2 DEF PCs
<1>. QED  BY <1>1, <1>2

LEMMA ReplayMoves ==
    ASSUME NEW w \in Writers, NEW t \in Transactions, Replay(w, t),
           t.batch = tx[w].batch, t.pos = tx[w].pos, t.now = tx[w].now
    PROVE  \E p \in PCs, u \in Transactions :
              /\ Moves(w, p, u) /\ OnToNext(w, p, u)
              /\ u.rows = t.rows /\ u.heads = t.heads /\ u.intents = t.intents
              /\ u.ledger = t.ledger /\ u.locks = t.locks
<1>. DEFINE u == [t EXCEPT !.replays = @ \cup {t.pos}]
<1>1. /\ u \in Transactions /\ u.batch = t.batch /\ u.pos = t.pos /\ u.now = t.now
      /\ u.rows = t.rows /\ u.heads = t.heads /\ u.intents = t.intents
      /\ u.ledger = t.ledger /\ u.locks = t.locks
  BY DEF Transactions
<1>2. NextRequest(w, u)
  BY DEF Replay
<1>. HIDE DEF u
<1>3. PICK p \in PCs, v \in Transactions :
        /\ Moves(w, p, v) /\ OnToNext(w, p, v)
        /\ v.rows = u.rows /\ v.heads = u.heads /\ v.intents = u.intents
        /\ v.ledger = u.ledger /\ v.locks = u.locks
  BY <1>1, <1>2, NextRequestMoves
<1>. QED  BY <1>1, <1>3

LEMMA AtRequest ==
    ASSUME IInv, NEW w \in Writers, pc[w] # "idle"
    PROVE  /\ tx[w] \in Transactions /\ tx[w].batch \in Seq(Requests)
           /\ tx[w].pos \in DOMAIN tx[w].batch /\ tx[w].pos \in Nat \ {0}
           /\ Request(w) = At(tx[w]) /\ Request(w) \in Requests /\ Request(w).key \in Keys
           /\ Target(Request(w)) \in 0 .. MaxRevision /\ Request(w).expected \in Int
           /\ Target(Request(w)) = Request(w).expected + 1
           /\ RowOf(w) \in Rows /\ RowOf(w).key = Request(w).key
           /\ RowOf(w).rev = Target(Request(w)) /\ RowOf(w).at = tx[w].now
           /\ tx[w].heads \in [Keys -> Rows \cup {NoRow}] /\ tx[w].rows \subseteq Rows
<1>1. /\ tx[w] \in Transactions /\ Request(w) \in Requests /\ RowOf(w) \in Rows
      /\ Target(Request(w)) \in 0 .. MaxRevision /\ tx[w].pos \in DOMAIN tx[w].batch
  BY RequestType DEF IInv, TypeInv, PosOK
<1>2. /\ Request(w).key \in Keys /\ Request(w).expected \in Int
  BY <1>1, StoreAssumption DEF Requests, NoRevision
<1>. QED  BY <1>1, <1>2 DEF Transactions, Request, At, RowOf, Target

-----------------------------------------------------------------------------
(* One lemma per statement.                                                *)

LEMMA BeginMoves ==
    ASSUME IInv, NEW w \in Writers, Begin(w)
    PROVE  MovesOn(w)
<1>1. PICK n \in 1 .. MaxBatch : \E b \in [1 .. n -> Requests] :
         /\ \A i \in 1 .. n : Plannable(b[i])
         /\ tx' = [tx EXCEPT ![w] = [Idle EXCEPT !.batch = b, !.now = clock]]
  BY DEF Begin
<1>2. PICK b \in [1 .. n -> Requests] :
         /\ \A i \in 1 .. n : Plannable(b[i])
         /\ tx' = [tx EXCEPT ![w] = [Idle EXCEPT !.batch = b, !.now = clock]]
  BY <1>1
<1>. DEFINE t == [Idle EXCEPT !.batch = b, !.now = clock]
<1>3. b \in Seq(Requests) /\ Len(b) = n /\ DOMAIN b = 1 .. n /\ clock \in Nat
  BY StoreAssumption DEF IInv, TypeInv, TypeOK
<1>4. /\ t \in Transactions /\ t.batch = b /\ t.now = clock /\ t.pos = 1 /\ t.rows = {}
      /\ t.heads = [k \in Keys |-> NoRow] /\ t.intents = {} /\ t.ledger = {} /\ t.locks = {}
  BY <1>3, IdleType DEF Transactions, Idle
<1>5. Moves(w, "head", t)
  BY <1>2 DEF Begin, tables, Moves
<1>. HIDE DEF t
<1>6. pc[w] = "idle"
  BY DEF Begin
<1>7. Starts(w, "head", t)
  BY <1>2, <1>3, <1>4, <1>6 DEF Starts
<1>. QED  BY <1>4, <1>5, <1>7 DEF MovesOn, Goes, PCs

LEMMA SelectHeadMoves ==
    ASSUME IInv, NEW w \in Writers, SelectHead(w)
    PROVE  MovesOn(w)
<1>. DEFINE k == Request(w).key
            row == VisibleHead(w, k)
            t == IF row = NoRow
                 THEN [tx[w] EXCEPT !.seen = NoRevision]
                 ELSE [tx[w] EXCEPT !.seen = row.rev, !.locks = @ \cup {k}]
<1>1. pc[w] = "head" /\ Continue(w, t, "row") /\ Blockers(w) = {}
  BY DEF SelectHead
<1>2. tx[w] \in Transactions /\ k \in Keys
  BY <1>1, AtRequest
<1>3. row # NoRow => row.rev \in Nat
  <2>1. row \in Rows \cup {NoRow}
    BY <1>2 DEF VisibleHead, Transactions, IInv, TypeInv, TypeOK
  <2>. QED  BY <2>1, StoreAssumption DEF Rows
<1>4. row # NoRow => HeadHolders(w) = {}
  BY <1>1 DEF Blockers
<1>. HIDE DEF row
<1>5. /\ t \in Transactions /\ t.batch = tx[w].batch /\ t.pos = tx[w].pos
      /\ t.now = tx[w].now /\ t.rows = tx[w].rows /\ t.heads = tx[w].heads
      /\ t.intents = tx[w].intents /\ t.ledger = tx[w].ledger
      /\ IF row = NoRow THEN t.seen = NoRevision /\ t.locks = tx[w].locks
                        ELSE t.seen = row.rev /\ t.locks = tx[w].locks \cup {k}
  BY <1>2, <1>3 DEF Transactions
<1>. HIDE DEF t
<1>6. ReadsHead(w, "row", t)
  BY <1>1, <1>4, <1>5 DEF ReadsHead, SamePlace, SameCall, SameTables, row
<1>. QED  BY <1>1, <1>5, <1>6, ContinueMoves DEF Goes, PCs

LEMMA SelectRowMoves ==
    ASSUME IInv, NEW w \in Writers, SelectRow(w)
    PROVE  MovesOn(w)
<1>1. pc[w] = "row" /\ tx[w] \in Transactions
  BY DEF SelectRow, IInv, TypeInv, TypeOK
<1>2. CASE Abort(w, "conflict")
  BY <1>2, AbortMoves
<1>3. CASE Continue(w, tx[w], "insert") /\ CasHolds(tx[w].seen, Request(w).expected)
  <2>1. Decides(w, "insert", tx[w])
    BY <1>1, <1>3 DEF Decides
  <2>. QED  BY <1>1, <1>3, <2>1, ContinueMoves DEF Goes, PCs
<1>4. CASE Continue(w, tx[w], "repair") /\ \E row \in Existing(w) : HeadBehind(tx[w].seen, row)
  <2>1. Decides(w, "repair", tx[w])
    BY <1>1, <1>4 DEF Decides
  <2>. QED  BY <1>1, <1>4, <2>1, ContinueMoves DEF Goes, PCs
<1>5. CASE Replay(w, tx[w])
  <2>1. PICK p \in PCs, u \in Transactions :
              /\ Moves(w, p, u) /\ OnToNext(w, p, u)
              /\ u.rows = tx[w].rows /\ u.heads = tx[w].heads /\ u.intents = tx[w].intents
              /\ u.ledger = tx[w].ledger /\ u.locks = tx[w].locks
    BY <1>1, <1>5, ReplayMoves
  <2>2. FindsReplay(w, p, u)
    BY <1>1, <2>1 DEF FindsReplay, SameTables
  <2>. QED  BY <2>1, <2>2 DEF MovesOn, Goes
<1>. QED  BY <1>2, <1>3, <1>4, <1>5 DEF SelectRow

LEMMA InsertRowMoves ==
    ASSUME IInv, NEW w \in Writers, InsertRow(w)
    PROVE  MovesOn(w)
<1>. DEFINE t == [tx[w] EXCEPT !.rows = @ \cup {RowOf(w)}]
<1>1. pc[w] = "insert" /\ tx[w] \in Transactions
  BY DEF InsertRow, IInv, TypeInv, TypeOK
<1>2. RowOf(w) \in Rows
  BY <1>1, AtRequest
<1>3. CASE Abort(w, "conflict")
  BY <1>3, AbortMoves
<1>4. CASE ~RevisionTaken(w) /\ Continue(w, t, "upsert")
  <2>1. /\ t \in Transactions /\ t.batch = tx[w].batch /\ t.pos = tx[w].pos
        /\ t.now = tx[w].now /\ t.rows = tx[w].rows \cup {RowOf(w)} /\ t.heads = tx[w].heads
        /\ t.intents = tx[w].intents /\ t.ledger = tx[w].ledger
        /\ t.seen = tx[w].seen /\ t.locks = tx[w].locks
    BY <1>1, <1>2 DEF Transactions
  <2>. HIDE DEF t
  <2>2. Inserts(w, "upsert", t)
    BY <1>1, <1>4, <2>1 DEF Inserts, SamePlace, SameCall, RevisionTaken
  <2>. QED  BY <1>4, <2>1, <2>2, ContinueMoves DEF Goes, PCs
<1>. QED  BY <1>3, <1>4 DEF InsertRow, UniqueViolation

LEMMA PutHeadPuts ==
    ASSUME NEW w \in Writers, tx[w] \in Transactions, NEW row \in Rows,
           row.key = Request(w).key, HeadHolders(w) = {}, NEW u, u = PutHead(tx[w], row)
    PROVE  /\ u \in Transactions /\ PutsHead(w, u, row) /\ SamePlace(w, u)
           /\ u.intents = tx[w].intents
<1>1. u.locks = tx[w].locks \cup {row.key} /\ u.ledger = tx[w].ledger
  BY DEF PutHead, Transactions
<1>. QED  BY <1>1, PutHeadType DEF PutsHead, SamePlace, SameCall

LEMMA WriteHeadMoves ==
    ASSUME IInv, NEW w \in Writers, WriteHead(w)
    PROVE  MovesOn(w)
<1>. DEFINE owed == IntentsFor(Request(w).key, Target(Request(w)))
            u == PutHead(tx[w], RowOf(w))
            t == [u EXCEPT !.intents = @ \cup owed]
<1>1. pc[w] = "upsert" /\ tx[w] \in Transactions
  BY DEF WriteHead, IInv, TypeInv, TypeOK
<1>2. RowOf(w) \in Rows /\ RowOf(w).key = Request(w).key /\ owed \subseteq Intents
  BY <1>1, AtRequest, IntentsType
<1>3. CASE Abort(w, "bad_intent")
  BY <1>3, AbortMoves
<1>4. CASE Continue(w, t, "ledger")
  <2>1. HeadHolders(w) = {}
    BY <1>1 DEF WriteHead, Blockers
  <2>2. u \in Transactions /\ PutsHead(w, u, RowOf(w)) /\ SamePlace(w, u)
        /\ u.intents = tx[w].intents
    BY <1>1, <1>2, <2>1, PutHeadPuts
  <2>. HIDE DEF u, owed
  <2>3. /\ t \in Transactions /\ t.batch = u.batch /\ t.pos = u.pos /\ t.now = u.now
        /\ t.rows = u.rows /\ t.heads = u.heads /\ t.ledger = u.ledger /\ t.locks = u.locks
        /\ t.intents = u.intents \cup owed
    BY <1>2, <2>2 DEF Transactions
  <2>. HIDE DEF t
  <2>4. Upserts(w, "ledger", t)
    BY <1>1, <2>2, <2>3 DEF Upserts, PutsHead, SamePlace, SameCall, owed
  <2>. QED  BY <1>4, <2>3, <2>4, ContinueMoves DEF Goes, PCs
<1>. QED  BY <1>3, <1>4 DEF WriteHead

LEMMA RepairHeadMoves ==
    ASSUME IInv, NEW w \in Writers, RepairHead(w)
    PROVE  MovesOn(w)
<1>1. pc[w] = "repair" /\ tx[w] \in Transactions /\ HeadHolders(w) = {}
  BY DEF RepairHead, IInv, TypeInv, TypeOK, Blockers
<1>2. PICK row \in Existing(w) : Replay(w, PutHead(tx[w], row))
  BY DEF RepairHead
<1>3. row \in Rows /\ row.key = Request(w).key
  BY <1>1 DEF Existing, VisibleRows, SameTarget, Transactions, IInv, TypeInv, TypeOK
<1>. DEFINE u == PutHead(tx[w], row)
<1>4. u \in Transactions /\ PutsHead(w, u, row) /\ SamePlace(w, u) /\ u.intents = tx[w].intents
  BY <1>1, <1>3, PutHeadPuts
<1>5. Replay(w, u)
  BY <1>2
<1>. HIDE DEF u
<1>6. PICK p \in PCs, t \in Transactions :
        /\ Moves(w, p, t) /\ OnToNext(w, p, t)
        /\ t.rows = u.rows /\ t.heads = u.heads /\ t.intents = u.intents
        /\ t.ledger = u.ledger /\ t.locks = u.locks
  BY <1>4, <1>5, ReplayMoves DEF SamePlace, SameCall
<1>7. Repairs(w, p, t)
  BY <1>1, <1>4, <1>6 DEF Repairs, PutsHead
<1>. QED  BY <1>6, <1>7 DEF MovesOn, Goes

LEMMA UpsertFingerprintMoves ==
    ASSUME IInv, NEW w \in Writers, UpsertFingerprint(w)
    PROVE  MovesOn(w)
<1>. DEFINE u == [tx[w] EXCEPT !.ledger = @ \cup NewEntries(w)]
<1>1. pc[w] = "ledger" /\ tx[w] \in Transactions /\ NextRequest(w, u) /\ LedgerHolders(w) = {}
  BY DEF UpsertFingerprint, IInv, TypeInv, TypeOK, Blockers
<1>2. NewEntries(w) \subseteq Entries
  BY <1>1, NewEntriesType DEF IInv
<1>3. /\ u \in Transactions /\ u.batch = tx[w].batch /\ u.pos = tx[w].pos /\ u.now = tx[w].now
      /\ u.rows = tx[w].rows /\ u.heads = tx[w].heads /\ u.intents = tx[w].intents
      /\ u.ledger = tx[w].ledger \cup NewEntries(w) /\ u.locks = tx[w].locks
  BY <1>1, <1>2 DEF Transactions
<1>. HIDE DEF u
<1>4. PICK p \in PCs, t \in Transactions :
        /\ Moves(w, p, t) /\ OnToNext(w, p, t)
        /\ t.rows = u.rows /\ t.heads = u.heads /\ t.intents = u.intents
        /\ t.ledger = u.ledger /\ t.locks = u.locks
  BY <1>1, <1>3, NextRequestMoves
<1>5. Records(w, p, t)
  BY <1>1, <1>3, <1>4 DEF Records
<1>. QED  BY <1>4, <1>5 DEF MovesOn, Goes

(* Whatever happens is COMMIT, or moves one call on, or leaves all of the  *)
(* calls alone; the clock never goes back.                                 *)
LEMMA StepIs ==
    ASSUME IInv, [Next]_vars
    PROVE  \/ \E w \in Writers : MovesOn(w) \/ CommitTx(w)
           \/ /\ UNCHANGED <<revisions, head, intents, ledger, pc, tx>>
              /\ clock \in Nat /\ clock' \in Nat /\ clock' >= clock
<1>0. clock \in Nat
  BY DEF IInv, TypeInv, TypeOK
<1>1. ASSUME NEW w \in Writers, Begin(w) \/ Crash(w) \/ DeadlockVictim(w) PROVE MovesOn(w)
  BY <1>1, BeginMoves, AbortMoves DEF Crash, DeadlockVictim
<1>2. ASSUME NEW w \in Writers, Statement(w) PROVE MovesOn(w) \/ CommitTx(w)
  BY <1>2, SelectHeadMoves, SelectRowMoves, InsertRowMoves, WriteHeadMoves, RepairHeadMoves,
     UpsertFingerprintMoves DEF Statement
<1>3. ASSUME NEW w \in Writers, Ack(w) PROVE MovesOn(w)
  <2>1. Moves(w, "idle", Idle)
    BY <1>3 DEF Ack, tables, Moves
  <2>. QED  BY <2>1, IdleType DEF MovesOn, Goes, Ends, PCs
<1>4. ASSUME NEW w \in Writers, BusyTimeout(w)
      PROVE  UNCHANGED <<revisions, head, intents, ledger, pc, tx, clock>>
  BY <1>4 DEF BusyTimeout, tables
<1>5. CASE Tick
  BY <1>0, <1>5 DEF Tick, tables
<1>6. CASE UNCHANGED vars
  BY <1>0, <1>6 DEF vars
<1>. QED  BY <1>0, <1>1, <1>2, <1>3, <1>4, <1>5, <1>6 DEF Next, Call, Statement

(* The other writers are where they were.                                  *)
LEMMA MovesAlone ==
    ASSUME IInv, NEW w \in Writers, NEW p, NEW t, Moves(w, p, t)
    PROVE  /\ tx'[w] = t /\ pc'[w] = p
           /\ \A v \in Writers : v # w => tx'[v] = tx[v] /\ pc'[v] = pc[v]
           /\ UNCHANGED <<revisions, head, intents, ledger, clock>>
BY DEF Moves, IInv, TypeInv, TypeOK

LEMMA CommitIs ==
    ASSUME IInv, NEW w \in Writers, CommitTx(w)
    PROVE  /\ pc[w] = "commit" /\ pc'[w] = "ack" /\ tx[w] \in Transactions
           /\ revisions' = revisions \cup tx[w].rows
           /\ head' = [k \in Keys |-> VisibleHead(w, k)]
           /\ intents' = intents \cup tx[w].intents
           /\ ledger' = ledger \cup tx[w].ledger /\ clock' = clock
           /\ tx'[w].rows = {} /\ tx'[w].heads = [k \in Keys |-> NoRow]
           /\ tx'[w].intents = {} /\ tx'[w].ledger = {} /\ tx'[w].locks = {}
           /\ tx'[w].batch = tx[w].batch /\ tx'[w].now = tx[w].now
           /\ \A v \in Writers : v # w => tx'[v] = tx[v] /\ pc'[v] = pc[v]
<1>. DEFINE t == [Idle EXCEPT !.batch = tx[w].batch, !.now = tx[w].now,
                              !.replays = tx[w].replays]
<1>1. tx' = [tx EXCEPT ![w] = t] /\ pc' = [pc EXCEPT ![w] = "ack"]
  BY DEF CommitTx
<1>2. /\ t.rows = {} /\ t.heads = [k \in Keys |-> NoRow] /\ t.intents = {} /\ t.ledger = {}
      /\ t.locks = {} /\ t.batch = tx[w].batch /\ t.now = tx[w].now
  BY DEF Idle
<1>. HIDE DEF t
<1>3. /\ tx'[w] = t /\ pc'[w] = "ack"
      /\ \A v \in Writers : v # w => tx'[v] = tx[v] /\ pc'[v] = pc[v]
  BY <1>1 DEF IInv, TypeInv, TypeOK
<1>. QED  BY <1>2, <1>3 DEF CommitTx, IInv, TypeInv, TypeOK

-----------------------------------------------------------------------------
(* The outbox and the ledger.  What an open transaction t, at statement p, *)
(* will publish agrees already, but for the request it is working on.      *)

Wants(i) == SubStream[i.sub] = StreamOf[i.key] /\ Kind(i.rev) \in SubKinds[i.sub]
RowOfIntent(i, r) == r.key = i.key /\ r.rev = i.rev

(* The intents are those of the rows; after the INSERT the row is a step   *)
(* ahead.                                                                  *)
Staged(p, t) ==
    \A i \in Intents : i \in t.intents <=>
        /\ Wants(i)
        /\ \E r \in t.rows : RowOfIntent(i, r)
        /\ ~(p = "upsert" /\ RowOfIntent(i, RowFor(t)))

(* The schema of each row has an entry; the row at hand gets its own last. *)
Recorded(L, p, t) ==
    \A r \in t.rows :
        \/ \E e \in L \cup t.ledger : e.schema = Schema(r)
        \/ p \in {"upsert", "ledger"} /\ r = RowFor(t)

OneEntry(S) == \A e, f \in S : e.schema = f.schema => e = f

WriterTables(L, p, t) == Staged(p, t) /\ Recorded(L, p, t) /\ OneEntry(L \cup t.ledger)

(* Two open transactions never hold entries of the same schema: the upsert *)
(* of the second one waits.                                                *)
EntriesApart ==
    \A v, w \in Writers : v # w =>
        \A e \in tx[v].ledger, f \in tx[w].ledger : e.schema # f.schema

TablesInv ==
    /\ \A w \in Writers : WriterTables(ledger, pc[w], tx[w])
    /\ EntriesApart
    /\ IntentsMatchRows
    /\ OneEntry(ledger)
    /\ \A r \in revisions : \E e \in ledger : e.schema = Schema(r)

LEMMA IdleTables ==
    ASSUME OneEntry(ledger) PROVE WriterTables(ledger, "idle", Idle)
BY DEF WriterTables, Staged, Recorded, OneEntry, Idle

LEMMA StagedMoves ==
    ASSUME IInv, NEW w \in Writers, NEW p \in PCs, NEW t \in Transactions, Goes(w, p, t),
           Staged(pc[w], tx[w])
    PROVE  Staged(p, t)
<1>1. CASE Starts(w, p, t) \/ Ends(w, p, t)
  BY <1>1 DEF Starts, Ends, Staged, Idle
<1>2. CASE ReadsHead(w, p, t) \/ Decides(w, p, t) \/ FindsReplay(w, p, t)
  <2>1. /\ pc[w] # "upsert" /\ p # "upsert" /\ t.rows = tx[w].rows /\ t.intents = tx[w].intents
    BY <1>2 DEF ReadsHead, Decides, FindsReplay, SameTables, OnToNext
  <2>. QED  BY <2>1 DEF Staged
<1>3. CASE Repairs(w, p, t) \/ Records(w, p, t)
  <2>1. /\ pc[w] # "upsert" /\ p # "upsert" /\ t.rows = tx[w].rows /\ t.intents = tx[w].intents
    BY <1>3 DEF Repairs, Records, PutsHead, OnToNext
  <2>. QED  BY <2>1 DEF Staged
<1>4. CASE Inserts(w, p, t)
  <2>1. /\ Request(w) = At(tx[w]) /\ RowOf(w).key = Request(w).key
        /\ RowOf(w).rev = Target(Request(w))
    BY <1>4, AtRequest DEF Inserts
  <2>2. At(t) = At(tx[w]) /\ t.now = tx[w].now
    BY <1>4 DEF Inserts, SamePlace, SameCall, At
  <2>3. RowFor(t).key = RowOf(w).key /\ RowFor(t).rev = RowOf(w).rev
    BY <2>1, <2>2 DEF RowFor
  <2>4. \A r \in tx[w].rows : ~(r.key = RowOf(w).key /\ r.rev = RowOf(w).rev)
    BY <1>4, <2>1 DEF Inserts, Existing, VisibleRows, SameTarget
  <2>5. /\ p = "upsert" /\ pc[w] = "insert" /\ t.intents = tx[w].intents
        /\ t.rows = tx[w].rows \cup {RowOf(w)}
    BY <1>4 DEF Inserts
  <2>. QED  BY <2>3, <2>4, <2>5 DEF Staged, RowOfIntent
<1>5. CASE Upserts(w, p, t)
  <2>1. /\ Request(w) = At(tx[w]) /\ RowOf(w).key = Request(w).key
        /\ RowOf(w).rev = Target(Request(w))
    BY <1>5, AtRequest DEF Upserts
  <2>2. /\ p = "ledger" /\ pc[w] = "upsert" /\ t.rows = tx[w].rows
        /\ t.intents = tx[w].intents \cup IntentsFor(Request(w).key, Target(Request(w)))
    BY <1>5 DEF Upserts, PutsHead
  <2>3. RowFor(tx[w]) \in tx[w].rows
    BY <2>2 DEF IInv, WritersOK, WriterOK, Written
  <2>4. RowFor(tx[w]).key = Request(w).key /\ RowFor(tx[w]).rev = Target(Request(w))
    BY <2>1 DEF RowFor
  <2>5. \A i \in Intents : i \in IntentsFor(Request(w).key, Target(Request(w))) <=>
                             Wants(i) /\ RowOfIntent(i, RowFor(tx[w]))
    BY <2>4 DEF IntentsFor, Intents, Wants, RowOfIntent
  <2>. QED  BY <2>2, <2>3, <2>5 DEF Staged
<1>. QED  BY <1>1, <1>2, <1>3, <1>4, <1>5 DEF Goes

LEMMA RecordedMoves ==
    ASSUME IInv, NEW w \in Writers, NEW p \in PCs, NEW t \in Transactions, Goes(w, p, t),
           Recorded(ledger, pc[w], tx[w])
    PROVE  Recorded(ledger, p, t)
<1>1. CASE Starts(w, p, t) \/ Ends(w, p, t)
  BY <1>1 DEF Starts, Ends, Recorded, Idle
<1>2. CASE ReadsHead(w, p, t) \/ Decides(w, p, t) \/ FindsReplay(w, p, t) \/ Repairs(w, p, t)
  <2>1. /\ pc[w] \notin {"upsert", "ledger"} /\ t.rows = tx[w].rows /\ t.ledger = tx[w].ledger
    BY <1>2 DEF ReadsHead, Decides, FindsReplay, SameTables, Repairs, PutsHead
  <2>. QED  BY <2>1 DEF Recorded
<1>3. CASE Inserts(w, p, t)
  <2>1. /\ Request(w) = At(tx[w]) /\ RowOf(w).key = Request(w).key
        /\ RowOf(w).rev = Target(Request(w))
    BY <1>3, AtRequest DEF Inserts
  <2>2. RowOf(w) = RowFor(t)
    <3>1. At(t) = At(tx[w]) /\ t.now = tx[w].now
      BY <1>3 DEF Inserts, SamePlace, SameCall, At
    <3>. QED  BY <2>1, <3>1 DEF RowFor, RowOf
  <2>3. /\ pc[w] = "insert" /\ p = "upsert" /\ t.rows = tx[w].rows \cup {RowOf(w)}
        /\ t.ledger = tx[w].ledger
    BY <1>3 DEF Inserts
  <2>. QED  BY <2>2, <2>3 DEF Recorded
<1>4. CASE Upserts(w, p, t)
  <2>1. /\ RowFor(t) = RowFor(tx[w]) /\ p = "ledger" /\ pc[w] = "upsert"
        /\ t.rows = tx[w].rows /\ t.ledger = tx[w].ledger
    BY <1>4 DEF Upserts, PutsHead, SamePlace, SameCall, At, RowFor
  <2>. QED  BY <2>1 DEF Recorded
<1>5. CASE Records(w, p, t)
  <2>1. Request(w) = At(tx[w]) /\ t.rows = tx[w].rows /\ pc[w] = "ledger"
        /\ t.ledger = tx[w].ledger \cup NewEntries(w)
    BY <1>5, AtRequest DEF Records
  <2>2. \E e \in ledger \cup t.ledger : e.schema = Schema(Request(w))
    <3>. DEFINE s == Schema(Request(w))
                new == [schema |-> s, fingerprint |-> FingerprintOf[w]]
    <3>1. CASE \E e \in ledger \cup tx[w].ledger : e.schema = s
      BY <2>1, <3>1
    <3>2. CASE ~\E e \in ledger \cup tx[w].ledger : e.schema = s
      <4>1. new \in NewEntries(w) /\ new.schema = s
        BY <3>2 DEF NewEntries
      <4>. QED  BY <2>1, <4>1
    <3>. QED  BY <3>1, <3>2
  <2>3. Schema(RowFor(tx[w])) = Schema(Request(w))
    BY <2>1 DEF Schema, RowFor
  <2>. QED  BY <2>1, <2>2, <2>3 DEF Recorded
<1>. QED  BY <1>1, <1>2, <1>3, <1>4, <1>5 DEF Goes

(* Only the upsert of a fingerprint adds an entry, when there is none.     *)
LEMMA EntriesMove ==
    ASSUME IInv, NEW w \in Writers, NEW p \in PCs, NEW t \in Transactions, Goes(w, p, t),
           OneEntry(ledger), OneEntry(ledger \cup tx[w].ledger)
    PROVE  /\ OneEntry(ledger \cup t.ledger)
           /\ \A e \in t.ledger : e \in tx[w].ledger \/
                 \A v \in Writers : v # w => \A f \in tx[v].ledger : f.schema # e.schema
<1>1. CASE Starts(w, p, t) \/ Ends(w, p, t)
  BY <1>1 DEF Starts, Ends, OneEntry, Idle
<1>2. CASE Records(w, p, t)
  <2>1. t.ledger = tx[w].ledger \cup NewEntries(w) /\ LedgerHolders(w) = {}
    BY <1>2 DEF Records
  <2>2. \A e \in NewEntries(w) :
           /\ e.schema = Schema(Request(w))
           /\ \A f \in ledger \cup tx[w].ledger : f.schema # e.schema
           /\ \A f \in NewEntries(w) : f = e
    BY DEF NewEntries
  <2>3. OneEntry(ledger \cup t.ledger)
    BY <2>1, <2>2 DEF OneEntry
  <2>4. \A v \in Writers : v # w => \A f \in tx[v].ledger : f.schema # Schema(Request(w))
    BY <2>1 DEF LedgerHolders, Others
  <2>. QED  BY <2>1, <2>2, <2>3, <2>4
<1>3. CASE \/ ReadsHead(w, p, t) \/ Decides(w, p, t) \/ FindsReplay(w, p, t)
           \/ Inserts(w, p, t) \/ Upserts(w, p, t) \/ Repairs(w, p, t)
  <2>1. t.ledger = tx[w].ledger
    BY <1>3 DEF ReadsHead, Decides, FindsReplay, SameTables, Inserts, Upserts, Repairs, PutsHead
  <2>. QED  BY <2>1
<1>. QED  BY <1>1, <1>2, <1>3 DEF Goes

LEMMA TablesMove ==
    ASSUME IInv, TablesInv, NEW w \in Writers, MovesOn(w)
    PROVE  TablesInv'
<1>1. PICK p \in PCs, t \in Transactions : Moves(w, p, t) /\ Goes(w, p, t)
  BY DEF MovesOn
<1>2. /\ tx'[w] = t /\ pc'[w] = p
      /\ \A v \in Writers : v # w => tx'[v] = tx[v] /\ pc'[v] = pc[v]
      /\ UNCHANGED <<revisions, head, intents, ledger, clock>>
  BY <1>1, MovesAlone
<1>3. WriterTables(ledger, pc[w], tx[w]) /\ OneEntry(ledger)
  BY DEF TablesInv
<1>4. Staged(p, t) /\ Recorded(ledger, p, t)
  BY <1>1, <1>3, StagedMoves, RecordedMoves DEF WriterTables
<1>5. /\ OneEntry(ledger \cup t.ledger)
      /\ \A e \in t.ledger : e \in tx[w].ledger \/
            \A v \in Writers : v # w => \A f \in tx[v].ledger : f.schema # e.schema
  BY <1>1, <1>3, EntriesMove DEF WriterTables
<1>6. \A v \in Writers : WriterTables(ledger', pc'[v], tx'[v])
  BY <1>2, <1>4, <1>5 DEF WriterTables, TablesInv
<1>7. EntriesApart'
  <2>. SUFFICES ASSUME NEW u \in Writers, NEW v \in Writers, u # v,
                       NEW e \in tx'[u].ledger, NEW f \in tx'[v].ledger
                PROVE  e.schema # f.schema
    BY DEF EntriesApart
  <2>1. CASE u = w
    BY <1>2, <1>5, <2>1 DEF TablesInv, EntriesApart
  <2>2. CASE v = w
    BY <1>2, <1>5, <2>2 DEF TablesInv, EntriesApart
  <2>3. CASE u # w /\ v # w
    BY <1>2, <2>3 DEF TablesInv, EntriesApart
  <2>. QED  BY <2>1, <2>2, <2>3
<1>8. IntentsMatchRows'
  BY <1>2 DEF TablesInv, IntentsMatchRows, Owed
<1>. QED  BY <1>2, <1>6, <1>7, <1>8 DEF TablesInv, OneEntry

LEMMA TablesCommit ==
    ASSUME IInv, TablesInv, NEW w \in Writers, CommitTx(w)
    PROVE  TablesInv'
<1>1. /\ pc[w] = "commit" /\ pc'[w] = "ack"
      /\ revisions' = revisions \cup tx[w].rows
      /\ intents' = intents \cup tx[w].intents
      /\ ledger' = ledger \cup tx[w].ledger
      /\ tx'[w].rows = {} /\ tx'[w].intents = {} /\ tx'[w].ledger = {}
      /\ \A v \in Writers : v # w => tx'[v] = tx[v] /\ pc'[v] = pc[v]
  BY CommitIs
<1>2. WriterTables(ledger, "commit", tx[w])
  BY <1>1 DEF TablesInv
<1>3. OneEntry(ledger')
  BY <1>1, <1>2 DEF WriterTables
<1>4. ASSUME NEW v \in Writers PROVE WriterTables(ledger', pc'[v], tx'[v])
  <2>1. CASE v = w
    BY <1>1, <1>3, <2>1 DEF WriterTables, Staged, Recorded, OneEntry
  <2>2. CASE v # w
    <3>1. WriterTables(ledger, pc[v], tx[v])
      BY DEF TablesInv
    <3>2. \A e \in tx[w].ledger, f \in tx[v].ledger : e.schema # f.schema
      BY <2>2 DEF TablesInv, EntriesApart
    <3>3. OneEntry(ledger' \cup tx[v].ledger)
      BY <1>1, <1>2, <3>1, <3>2 DEF WriterTables, OneEntry
    <3>4. Recorded(ledger', pc[v], tx[v])
      BY <1>1, <3>1 DEF WriterTables, Recorded
    <3>. QED  BY <1>1, <2>2, <3>1, <3>3, <3>4 DEF WriterTables
  <2>. QED  BY <2>1, <2>2
<1>5. EntriesApart'
  BY <1>1 DEF TablesInv, EntriesApart
<1>6. IntentsMatchRows'
  <2>. SUFFICES ASSUME NEW i \in Intents PROVE i \in intents' <=> Owed(i)'
    BY DEF IntentsMatchRows
  <2>1. i \in intents <=> Wants(i) /\ \E r \in revisions : RowOfIntent(i, r)
    BY DEF TablesInv, IntentsMatchRows, Owed, Wants, RowOfIntent
  <2>2. i \in tx[w].intents <=> Wants(i) /\ \E r \in tx[w].rows : RowOfIntent(i, r)
    BY <1>2 DEF WriterTables, Staged
  <2>3. Owed(i)' <=> Wants(i) /\ \E r \in revisions' : RowOfIntent(i, r)
    BY DEF Owed, Wants, RowOfIntent
  <2>. QED  BY <1>1, <2>1, <2>2, <2>3
<1>7. \A r \in revisions' : \E e \in ledger' : e.schema = Schema(r)
  BY <1>1, <1>2 DEF TablesInv, WriterTables, Recorded
<1>. QED  BY <1>3, <1>4, <1>5, <1>6, <1>7 DEF TablesInv

LEMMA TablesStay ==
    ASSUME TablesInv, UNCHANGED <<revisions, head, intents, ledger, pc, tx>>
    PROVE  TablesInv'
<1>1. IntentsMatchRows' /\ EntriesApart'
  BY DEF TablesInv, IntentsMatchRows, Owed, EntriesApart
<1>2. \A w \in Writers : WriterTables(ledger', pc'[w], tx'[w])
  BY DEF TablesInv
<1>. QED  BY <1>1, <1>2 DEF TablesInv, OneEntry

LEMMA TablesInit == Init => TablesInv
<1>. SUFFICES ASSUME Init PROVE TablesInv
  OBVIOUS
<1>1. ledger = {} /\ intents = {} /\ revisions = {} /\ OneEntry(ledger)
  BY DEF Init, OneEntry
<1>2. \A w \in Writers : pc[w] = "idle" /\ tx[w] = Idle
  BY DEF Init
<1>3. \A w \in Writers : WriterTables(ledger, pc[w], tx[w])
  BY <1>1, <1>2, IdleTables
<1>4. EntriesApart
  BY <1>2 DEF EntriesApart, Idle
<1>. QED  BY <1>1, <1>3, <1>4 DEF TablesInv, IntentsMatchRows, Owed

LEMMA TablesStep == IInv /\ TablesInv /\ [Next]_vars => TablesInv'
BY StepIs, TablesMove, TablesCommit, TablesStay

(* At every moment the head table names rows of the log, the outbox holds  *)
(* exactly the intents the log owes its subscriptions, and each schema     *)
(* version that a stream has rows of has one fingerprint.                  *)
THEOREM TablesAlwaysAgree == Spec => []TablesAgree
<1>1. IInv /\ TablesInv => TablesAgree
  <2>. SUFFICES ASSUME IInv, TablesInv PROVE BaselineRecorded
    BY DEF TablesAgree, IInv, TypeInv, LogInv, TablesInv
  <2>. SUFFICES ASSUME NEW r \in revisions
                PROVE  Cardinality({e \in ledger : e.schema = Schema(r)}) = 1
    BY DEF BaselineRecorded
  <2>1. PICK e \in ledger : e.schema = Schema(r)
    BY DEF TablesInv
  <2>2. {f \in ledger : f.schema = Schema(r)} = {e}
    BY <2>1 DEF TablesInv, OneEntry
  <2>. QED  BY <2>2, FS_Singleton
<1>. QED  BY <1>1, TablesInit, TablesStep, Safe, PTL DEF Spec

-----------------------------------------------------------------------------
(* Time.  A caller names a base that somebody has committed, before its    *)
(* own call takes its time.                                                *)

LEMMA LeastOf ==
    ASSUME NEW T, T \subseteq Nat, T # {}
    PROVE  \E x \in T : \A y \in T : x <= y
<1>1. PICK x \in T : \A y \in T : ~(<<y, x>> \in OpToRel(<, Nat))
  BY NatLessThanWellFounded, WFMin
<1>2. \A y \in T : ~(y < x)
  BY <1>1 DEF OpToRel
<1>. QED  BY <1>2

(* A log without gaps has every revision below one it has.                 *)
LEMMA NoGaps ==
    ASSUME revisions \subseteq Rows, LogContiguous, NEW s \in revisions, NEW n \in 0 .. s.rev
    PROVE  \E q \in revisions : q.key = s.key /\ q.rev = n
<1>. DEFINE above == {q \in revisions : q.key = s.key /\ q.rev >= n}
            T == {q.rev : q \in above}
<1>0. \A q \in revisions : q.rev \in Nat
  BY DEF Rows
<1>1. T \subseteq Nat /\ T # {}
  BY <1>0
<1>2. PICK x \in T : \A y \in T : x <= y
  BY <1>1, LeastOf
<1>3. PICK q \in above : x = q.rev
  BY <1>2
<1>4. CASE q.rev > n
  <2>1. PICK b \in revisions : b.key = q.key /\ b.rev = q.rev - 1
    BY <1>0, <1>3, <1>4 DEF LogContiguous
  <2>2. b \in above
    BY <1>0, <1>3, <1>4, <2>1
  <2>. QED  BY <1>0, <1>2, <1>3, <2>1, <2>2
<1>. QED  BY <1>0, <1>3, <1>4

Stamped(t) == \A r \in t.rows : r.at = t.now

Past(R, q, now) == \A r \in R : r.key = q.key /\ r.rev <= q.expected => r.at <= now
BaseKnown(R, q) == \E r \in R : r.key = q.key /\ r.rev = q.expected

BasesRead(R, p, t) ==
    p # "idle" =>
        \A i \in DOMAIN t.batch :
            t.batch[i].expected # NoRevision =>
                BaseKnown(R, t.batch[i]) /\ Past(R, t.batch[i], t.now)

TimeInv ==
    /\ \A w \in Writers : Stamped(tx[w]) /\ BasesRead(revisions, pc[w], tx[w])
    /\ \A w \in Writers : tx[w].now <= clock
    /\ \A r \in revisions : r.at <= clock
    /\ MonotoneTime

LEMMA TimeMove ==
    ASSUME IInv, TimeInv, ~Fabricate, NEW w \in Writers, MovesOn(w)
    PROVE  TimeInv'
<1>1. PICK p \in PCs, t \in Transactions : Moves(w, p, t) /\ Goes(w, p, t)
  BY DEF MovesOn
<1>2. /\ tx'[w] = t /\ pc'[w] = p
      /\ \A v \in Writers : v # w => tx'[v] = tx[v] /\ pc'[v] = pc[v]
      /\ UNCHANGED <<revisions, head, intents, ledger, clock>>
  BY <1>1, MovesAlone
<1>0. clock \in Nat
  BY DEF IInv, TypeInv, TypeOK
<1>3. Stamped(t) /\ BasesRead(revisions, p, t) /\ t.now <= clock
  <2>1. CASE Starts(w, p, t)
    <3>1. t.rows = {} /\ t.now = clock
      BY <2>1 DEF Starts
    <3>2. ASSUME NEW i \in DOMAIN t.batch, t.batch[i].expected # NoRevision
          PROVE  BaseKnown(revisions, t.batch[i]) /\ Past(revisions, t.batch[i], t.now)
      BY <2>1, <3>1, <3>2 DEF Starts, Plannable, BaseKnown, Past, TimeInv
    <3>. QED  BY <1>0, <3>1, <3>2 DEF Stamped, BasesRead
  <2>2. CASE Ends(w, p, t)
    BY <1>0, <2>2 DEF Ends, Stamped, BasesRead, Idle
  <2>3. CASE Inserts(w, p, t)
    <3>1. RowOf(w).at = tx[w].now /\ pc[w] # "idle"
      BY <2>3, AtRequest DEF Inserts
    <3>2. t.batch = tx[w].batch /\ t.now = tx[w].now /\ t.rows = tx[w].rows \cup {RowOf(w)}
      BY <2>3 DEF Inserts, SamePlace, SameCall
    <3>. QED  BY <3>1, <3>2 DEF TimeInv, Stamped, BasesRead
  <2>4. CASE \/ ReadsHead(w, p, t) \/ Decides(w, p, t) \/ FindsReplay(w, p, t)
             \/ Upserts(w, p, t) \/ Repairs(w, p, t) \/ Records(w, p, t)
    <3>1. /\ t.batch = tx[w].batch /\ t.now = tx[w].now /\ t.rows = tx[w].rows
          /\ pc[w] # "idle"
      BY <2>4 DEF ReadsHead, Decides, FindsReplay, Upserts, Repairs, Records, SameTables,
                  SamePlace, SameCall, OnToNext, PutsHead
    <3>. QED  BY <3>1 DEF TimeInv, Stamped, BasesRead
  <2>. QED  BY <1>1, <2>1, <2>2, <2>3, <2>4 DEF Goes
<1>4. \A v \in Writers : Stamped(tx'[v]) /\ BasesRead(revisions', pc'[v], tx'[v]) /\ tx'[v].now <= clock'
  BY <1>2, <1>3 DEF TimeInv
<1>5. (\A r \in revisions' : r.at <= clock') /\ MonotoneTime'
  BY <1>2 DEF TimeInv, MonotoneTime
<1>. QED  BY <1>4, <1>5 DEF TimeInv

(* A row about to be published is in no slot below one that is taken.      *)
LEMMA PublishedIsNew ==
    ASSUME IInv, NEW w \in Writers, NEW r \in tx[w].rows, NEW s \in revisions,
           r.key = s.key, r.rev <= s.rev
    PROVE  r \in revisions
<1>1. revisions \subseteq Rows /\ r \in Rows /\ s \in Rows /\ LogContiguous
  BY DEF IInv, TypeInv, TypeOK, LogInv, Transactions
<1>2. r.rev \in 0 .. s.rev
  BY <1>1 DEF Rows
<1>3. PICK q \in revisions : q.key = s.key /\ q.rev = r.rev
  BY <1>1, <1>2, NoGaps
<1>. QED  BY <1>3 DEF IInv, Distinct, SameSlot

LEMMA TimeCommit ==
    ASSUME IInv, TimeInv, NEW w \in Writers, CommitTx(w)
    PROVE  TimeInv'
<1>1. /\ pc[w] = "commit" /\ pc'[w] = "ack" /\ clock' = clock
      /\ revisions' = revisions \cup tx[w].rows /\ tx'[w].rows = {}
      /\ tx'[w].batch = tx[w].batch /\ tx'[w].now = tx[w].now
      /\ \A v \in Writers : v # w => tx'[v] = tx[v] /\ pc'[v] = pc[v]
  BY CommitIs
<1>2. \A r \in tx[w].rows : r.at = tx[w].now
  BY DEF TimeInv, Stamped
<1>3. /\ revisions \subseteq Rows /\ tx[w].rows \subseteq Rows /\ tx[w].now \in Nat
      /\ tx[w].batch \in Seq(Requests)
  BY DEF IInv, TypeInv, TypeOK, Transactions
<1>4. ASSUME NEW v \in Writers, NEW i \in DOMAIN tx[v].batch, pc[v] # "idle",
             tx[v].batch[i].expected # NoRevision
      PROVE  BaseKnown(revisions', tx[v].batch[i]) /\ Past(revisions', tx[v].batch[i], tx[v].now)
  <2>. DEFINE q == tx[v].batch[i]
  <2>1. BaseKnown(revisions, q) /\ Past(revisions, q, tx[v].now)
    BY <1>4 DEF TimeInv, BasesRead
  <2>2. PICK s \in revisions : s.key = q.key /\ s.rev = q.expected
    BY <2>1 DEF BaseKnown
  <2>. HIDE DEF q
  <2>3. \A r \in tx[w].rows : r.key = q.key /\ r.rev <= q.expected => r \in revisions
    BY <2>2, PublishedIsNew
  <2>4. Past(revisions', q, tx[v].now)
    BY <1>1, <2>1, <2>3 DEF Past
  <2>5. BaseKnown(revisions', q)
    BY <1>1, <2>1 DEF BaseKnown
  <2>. QED  BY <2>4, <2>5 DEF q
<1>5. ASSUME NEW v \in Writers
      PROVE  Stamped(tx'[v]) /\ BasesRead(revisions', pc'[v], tx'[v]) /\ tx'[v].now <= clock'
  <2>1. CASE v = w
    BY <1>1, <1>4, <2>1 DEF Stamped, BasesRead, TimeInv
  <2>2. CASE v # w
    BY <1>1, <1>4, <2>2 DEF BasesRead, TimeInv
  <2>. QED  BY <2>1, <2>2
<1>6. \A r \in revisions' : r.at <= clock'
  BY <1>1, <1>2 DEF TimeInv
<1>7. MonotoneTime'
  <2>. SUFFICES ASSUME NEW r \in revisions', NEW s \in revisions', r.key = s.key, r.rev < s.rev
                PROVE  r.at <= s.at
    BY DEF MonotoneTime
  <2>0. r \in Rows /\ s \in Rows
    BY <1>1, <1>3
  <2>1. CASE s \in revisions
    <3>1. r \in revisions
      BY <1>1, <2>0, <2>1, PublishedIsNew DEF Rows
    <3>. QED  BY <2>1, <3>1 DEF TimeInv, MonotoneTime
  <2>2. CASE s \in tx[w].rows /\ r \in tx[w].rows
    BY <1>2, <1>3, <2>2
  <2>3. CASE s \in tx[w].rows /\ r \in revisions
    <3>1. PICK i \in DOMAIN tx[w].batch : SameTarget(s, tx[w].batch[i])
      BY <2>3 DEF IInv, WritersOK, WriterOK, Asked
    <3>. DEFINE q == tx[w].batch[i]
    <3>0. q \in Requests
      BY <1>3
    <3>2. q.key = s.key /\ s.rev = q.expected + 1 /\ q.expected \in Int
      BY <3>0, <3>1, StoreAssumption DEF SameTarget, Target, Requests, NoRevision
    <3>3. r.rev <= q.expected /\ q.expected # NoRevision
      BY <2>0, <3>2, StoreAssumption DEF Rows, NoRevision
    <3>4. Past(revisions, q, tx[w].now)
      BY <1>1, <3>3 DEF TimeInv, BasesRead
    <3>5. r.at <= tx[w].now
      BY <2>3, <3>2, <3>3, <3>4 DEF Past
    <3>. QED  BY <1>2, <2>3, <3>5
  <2>. QED  BY <1>1, <2>1, <2>2, <2>3
<1>. QED  BY <1>5, <1>6, <1>7 DEF TimeInv

LEMMA TimeStay ==
    ASSUME IInv, TimeInv, UNCHANGED <<revisions, head, intents, ledger, pc, tx>>,
           clock \in Nat, clock' \in Nat, clock' >= clock
    PROVE  TimeInv'
<1>1. \A w \in Writers : tx[w].now \in Nat
  BY DEF IInv, TypeInv, TypeOK, Transactions
<1>2. \A r \in revisions : r.at \in Nat
  BY DEF IInv, TypeInv, TypeOK, Rows
<1>3. \A w \in Writers : tx'[w].now <= clock'
  BY <1>1 DEF TimeInv
<1>4. \A r \in revisions' : r.at <= clock'
  BY <1>2 DEF TimeInv
<1>5. MonotoneTime'
  BY DEF TimeInv, MonotoneTime
<1>. QED  BY <1>3, <1>4, <1>5 DEF TimeInv

LEMMA TimeInit == Init => TimeInv
BY DEF Init, TimeInv, Stamped, BasesRead, MonotoneTime, Idle

LEMMA TimeStep == IInv /\ TimeInv /\ ~Fabricate /\ [Next]_vars => TimeInv'
BY StepIs, TimeMove, TimeCommit, TimeStay

(* When callers only build on revisions they were given, the commit times  *)
(* of a key never decrease, although a Postgres transaction reads the      *)
(* clock long before it commits.                                           *)
THEOREM TimeStaysMonotone ==
    ASSUME ~Fabricate
    PROVE  Spec => []MonotoneTime
<1>1. IInv /\ TimeInv /\ [Next]_vars => TimeInv'
  BY TimeStep
<1>2. TimeInv => MonotoneTime
  BY DEF TimeInv
<1>. QED  BY <1>1, <1>2, TimeInit, Safe, PTL DEF Spec

-----------------------------------------------------------------------------
(* Heads and their locks.  A transaction that saw a head has it locked, so *)
(* what it saw stays true; one that saw none had nothing to lock, but then *)
(* its callers had no base to name: it can only create.                    *)

Deciding == {"row", "insert", "upsert", "repair"}

Creates(t, k) ==
    \A i \in DOMAIN t.batch : t.batch[i].key = k => t.batch[i].expected = NoRevision

LocksOK(p, t) ==
    /\ \A k \in Keys : t.heads[k] # NoRow => k \in t.locks
    /\ p \in Deciding /\ t.seen # NoRevision => At(t).key \in t.locks

LocksApart == \A v, w \in Writers : v # w => tx[v].locks \cap tx[w].locks = {}

LockInv == LocksApart /\ \A w \in Writers : LocksOK(pc[w], tx[w])

(* The head a transaction t sees when the committed heads are h.           *)
Seen(h, t, k) == IF t.heads[k] # NoRow THEN t.heads[k] ELSE h[k]

SeenOK(h, p, t) ==
    p \in Deciding =>
        IF t.seen # NoRevision THEN Seen(h, t, At(t).key).rev = t.seen
                               ELSE Creates(t, At(t).key)

(* A statement that writes the head goes past what was seen.               *)
Advances(p, t) ==
    /\ p = "upsert" => t.seen = At(t).expected
    /\ p = "repair" => t.seen < Target(At(t))

AheadOf(h, t) ==
    \A k \in Keys : t.heads[k] # NoRow =>
        t.heads[k].rev >= h[k].rev \/ (t.heads[k].rev = 0 /\ Creates(t, k))

WriterHeads(h, p, t) == SeenOK(h, p, t) /\ Advances(p, t) /\ AheadOf(h, t)

RewindInv == LockInv /\ TimeInv /\ \A w \in Writers : WriterHeads(head, pc[w], tx[w])

LEMMA LocksMove ==
    ASSUME IInv, LockInv, NEW w \in Writers, NEW p \in PCs, NEW t \in Transactions,
           Goes(w, p, t)
    PROVE  /\ LocksOK(p, t)
           /\ \A k \in t.locks : k \in tx[w].locks \/
                 \A v \in Writers : v # w => k \notin tx[v].locks
<1>0. LocksOK(pc[w], tx[w])
  BY DEF LockInv
<1>1. CASE Starts(w, p, t) \/ Ends(w, p, t)
  BY <1>1 DEF Starts, Ends, LocksOK, Deciding, Idle
<1>2. CASE ReadsHead(w, p, t)
  <2>1. Request(w) = At(tx[w]) /\ At(t) = At(tx[w]) /\ t.heads = tx[w].heads
    BY <1>2, AtRequest DEF ReadsHead, SamePlace, SameCall, SameTables, At
  <2>2. CASE VisibleHead(w, Request(w).key) = NoRow
    BY <1>0, <1>2, <2>1, <2>2 DEF ReadsHead, LocksOK
  <2>3. CASE VisibleHead(w, Request(w).key) # NoRow
    BY <1>0, <1>2, <2>1, <2>3 DEF ReadsHead, LocksOK, HeadHolders, Others
  <2>. QED  BY <2>2, <2>3
<1>3. CASE Decides(w, p, t)
  BY <1>0, <1>3 DEF Decides, LocksOK, Deciding
<1>4. CASE FindsReplay(w, p, t) \/ Records(w, p, t)
  <2>1. p \notin Deciding /\ t.heads = tx[w].heads /\ t.locks = tx[w].locks
    BY <1>4 DEF FindsReplay, Records, SameTables, OnToNext, Deciding
  <2>. QED  BY <1>0, <2>1 DEF LocksOK
<1>5. CASE Inserts(w, p, t)
  <2>1. /\ At(t) = At(tx[w]) /\ t.heads = tx[w].heads /\ t.locks = tx[w].locks
        /\ t.seen = tx[w].seen /\ pc[w] \in Deciding
    BY <1>5 DEF Inserts, SamePlace, SameCall, At, Deciding
  <2>. QED  BY <1>0, <2>1 DEF LocksOK
<1>6. CASE Upserts(w, p, t) \/ Repairs(w, p, t)
  <2>1. p \notin Deciding
    BY <1>6 DEF Upserts, Repairs, OnToNext, Deciding
  <2>2. PICK row : PutsHead(w, t, row)
    BY <1>6 DEF Upserts, Repairs
  <2>3. tx[w].heads \in [Keys -> Rows \cup {NoRow}]
    BY DEF IInv, TypeInv, TypeOK, Transactions
  <2>. QED  BY <1>0, <2>1, <2>2, <2>3 DEF PutsHead, LocksOK, HeadHolders, Others
<1>. QED  BY <1>1, <1>2, <1>3, <1>4, <1>5, <1>6 DEF Goes

LEMMA LockMove ==
    ASSUME IInv, LockInv, NEW w \in Writers, MovesOn(w)
    PROVE  LockInv'
<1>1. PICK p \in PCs, t \in Transactions : Moves(w, p, t) /\ Goes(w, p, t)
  BY DEF MovesOn
<1>2. /\ tx'[w] = t /\ pc'[w] = p
      /\ \A v \in Writers : v # w => tx'[v] = tx[v] /\ pc'[v] = pc[v]
  BY <1>1, MovesAlone
<1>3. /\ LocksOK(p, t)
      /\ \A k \in t.locks : k \in tx[w].locks \/
            \A v \in Writers : v # w => k \notin tx[v].locks
  BY <1>1, LocksMove
<1>4. \A v \in Writers : LocksOK(pc'[v], tx'[v])
  BY <1>2, <1>3 DEF LockInv
<1>5. LocksApart'
  <2>. SUFFICES ASSUME NEW u \in Writers, NEW v \in Writers, u # v,
                       NEW k \in tx'[u].locks, k \in tx'[v].locks
                PROVE  FALSE
    BY DEF LocksApart
  <2>1. CASE u = w
    BY <1>2, <1>3, <2>1 DEF LockInv, LocksApart
  <2>2. CASE v = w
    BY <1>2, <1>3, <2>2 DEF LockInv, LocksApart
  <2>3. CASE u # w /\ v # w
    BY <1>2, <2>3 DEF LockInv, LocksApart
  <2>. QED  BY <2>1, <2>2, <2>3
<1>. QED  BY <1>4, <1>5 DEF LockInv

LEMMA LockCommit ==
    ASSUME IInv, LockInv, NEW w \in Writers, CommitTx(w)
    PROVE  LockInv'
<1>1. /\ pc'[w] = "ack" /\ tx'[w].locks = {} /\ tx'[w].heads = [k \in Keys |-> NoRow]
      /\ \A v \in Writers : v # w => tx'[v] = tx[v] /\ pc'[v] = pc[v]
  BY CommitIs
<1>2. \A v \in Writers : LocksOK(pc'[v], tx'[v])
  BY <1>1 DEF LockInv, LocksOK, Deciding
<1>3. LocksApart'
  BY <1>1 DEF LockInv, LocksApart
<1>. QED  BY <1>2, <1>3 DEF LockInv

LEMMA LockInit == Init => LockInv
BY DEF Init, LockInv, LocksApart, LocksOK, Deciding, Idle

LEMMA LockStep == IInv /\ LockInv /\ [Next]_vars => LockInv'
BY StepIs, LockMove, LockCommit DEF LockInv, LocksApart

(* What the request in hand knows of the head it is about to replace.      *)
LEMMA GoesPast ==
    ASSUME IInv, RewindInv, NEW w \in Writers, pc[w] \in {"upsert", "repair"}
    PROVE  LET k == Request(w).key
               n == Target(Request(w))
           IN  n >= head[k].rev \/ (n = 0 /\ Creates(tx[w], k))
<1>. DEFINE t == tx[w]
            k == Request(w).key
            n == Target(Request(w))
<1>1. /\ t \in Transactions /\ t.pos \in DOMAIN t.batch /\ t.batch \in Seq(Requests)
      /\ Request(w) = At(t) /\ k \in Keys /\ n \in Nat /\ n = Request(w).expected + 1
      /\ Request(w).expected \in Int /\ t.heads \in [Keys -> Rows \cup {NoRow}]
  BY AtRequest, StoreAssumption
<1>2. WriterHeads(head, pc[w], t) /\ t.seen \in Int /\ t.seen < n
  <2>1. WriterHeads(head, pc[w], t) /\ t.seen \in Int
    BY <1>1 DEF RewindInv, Transactions, NoRevision
  <2>2. t.seen < n
    BY <1>1, <2>1 DEF WriterHeads, Advances
  <2>. QED  BY <2>1, <2>2
<1>3. \A row \in Rows \cup {NoRow} : row.rev \in Int
  BY StoreAssumption DEF Rows, NoRow, NoRevision
<1>4. head[k] \in Rows \cup {NoRow} /\ t.heads[k] \in Rows \cup {NoRow}
  BY <1>1 DEF IInv, TypeInv, TypeOK
<1>5. Creates(t, k) => Request(w).expected = NoRevision
  BY <1>1 DEF Creates, At
<1>6. CASE t.seen = NoRevision
  <2>1. Creates(t, k)
    BY <1>1, <1>2, <1>6 DEF WriterHeads, SeenOK, Deciding
  <2>. QED  BY <1>1, <1>5, <2>1 DEF NoRevision
<1>7. CASE t.seen # NoRevision
  <2>1. Seen(head, t, k).rev = t.seen
    BY <1>1, <1>2, <1>7 DEF WriterHeads, SeenOK, Deciding
  <2>2. CASE t.heads[k] = NoRow
    <3>1. head[k].rev = t.seen
      BY <2>1, <2>2 DEF Seen
    <3>. QED  BY <1>1, <1>2, <3>1
  <2>3. CASE t.heads[k] # NoRow
    <3>1. t.heads[k].rev = t.seen
      BY <2>1, <2>3 DEF Seen
    <3>2. t.heads[k].rev >= head[k].rev \/ (t.heads[k].rev = 0 /\ Creates(t, k))
      BY <1>1, <1>2, <2>3 DEF WriterHeads, AheadOf
    <3>3. CASE t.heads[k].rev >= head[k].rev
      BY <1>1, <1>2, <1>3, <1>4, <3>1, <3>3
    <3>4. CASE t.heads[k].rev = 0 /\ Creates(t, k)
      BY <1>1, <1>2, <1>5, <3>1, <3>4 DEF NoRevision
    <3>. QED  BY <3>2, <3>3, <3>4
  <2>. QED  BY <2>2, <2>3
<1>. QED  BY <1>6, <1>7

LEMMA HeadsMove ==
    ASSUME IInv, RewindInv, ~Fabricate, NEW w \in Writers, NEW p \in PCs,
           NEW t \in Transactions, Goes(w, p, t)
    PROVE  WriterHeads(head, p, t)
<1>0. WriterHeads(head, pc[w], tx[w])
  BY DEF RewindInv
<1>1. CASE Starts(w, p, t) \/ Ends(w, p, t)
  BY <1>1 DEF Starts, Ends, WriterHeads, SeenOK, Advances, AheadOf, Deciding, Idle
<1>2. CASE ReadsHead(w, p, t)
  <2>. DEFINE k == Request(w).key
  <2>1. /\ Request(w) = At(tx[w]) /\ At(t) = At(tx[w]) /\ t.heads = tx[w].heads /\ k \in Keys
        /\ t.batch = tx[w].batch /\ p = "row" /\ pc[w] # "idle"
        /\ tx[w].batch \in Seq(Requests)
    BY <1>2, AtRequest DEF ReadsHead, SamePlace, SameCall, SameTables, At
  <2>2. VisibleHead(w, k) = Seen(head, t, k)
    BY <2>1 DEF VisibleHead, Seen
  <2>3. CASE VisibleHead(w, k) # NoRow
    <3>1. t.seen = Seen(head, t, k).rev
      BY <1>2, <2>2, <2>3 DEF ReadsHead
    <3>2. Seen(head, t, k) \in Rows
      BY <2>1, <2>2, <2>3 DEF Seen, IInv, TypeInv, TypeOK, Transactions
    <3>3. t.seen # NoRevision
      BY <3>1, <3>2, StoreAssumption DEF Rows, NoRevision
    <3>4. SeenOK(head, p, t)
      BY <2>1, <3>1, <3>3 DEF SeenOK
    <3>. QED  BY <1>0, <2>1, <3>4 DEF WriterHeads, Advances, AheadOf, Creates
  <2>4. CASE VisibleHead(w, k) = NoRow
    <3>1. t.seen = NoRevision /\ head[k] = NoRow
      BY <1>2, <2>4 DEF ReadsHead, VisibleHead
    <3>2. \A r \in revisions : r.key # k
      BY <2>1, <3>1 DEF IInv, LogInv, HeadMatchesLog
    <3>3. Creates(t, k)
      <4>. SUFFICES ASSUME NEW i \in DOMAIN t.batch, t.batch[i].key = k,
                           t.batch[i].expected # NoRevision
                    PROVE  FALSE
        BY DEF Creates
      <4>1. BaseKnown(revisions, t.batch[i])
        BY <2>1 DEF RewindInv, TimeInv, BasesRead
      <4>. QED  BY <3>2, <4>1 DEF BaseKnown
    <3>4. SeenOK(head, p, t)
      BY <2>1, <3>1, <3>3 DEF SeenOK
    <3>. QED  BY <1>0, <2>1, <3>4 DEF WriterHeads, Advances, AheadOf, Creates
  <2>. QED  BY <2>3, <2>4
<1>3. CASE Decides(w, p, t)
  <2>1. /\ t = tx[w] /\ pc[w] = "row" /\ Request(w) = At(tx[w])
        /\ Target(Request(w)) = Request(w).expected + 1
    BY <1>3, AtRequest DEF Decides
  <2>2. Advances(p, t)
    <3>1. CASE p = "insert"
      BY <3>1 DEF Advances
    <3>2. CASE p = "repair"
      <4>1. PICK row \in Existing(w) : HeadBehind(tx[w].seen, row)
        BY <1>3, <3>2 DEF Decides
      <4>. QED  BY <2>1, <3>2, <4>1 DEF Advances, HeadBehind, Existing, SameTarget
    <3>. QED  BY <1>3, <3>1, <3>2 DEF Decides
  <2>. QED  BY <1>0, <1>3, <2>1, <2>2 DEF Decides, WriterHeads, SeenOK, Deciding
<1>4. CASE FindsReplay(w, p, t) \/ Records(w, p, t)
  <2>1. p \notin Deciding /\ t.heads = tx[w].heads /\ t.batch = tx[w].batch
    BY <1>4 DEF FindsReplay, Records, SameTables, OnToNext, Deciding, SameCall
  <2>. QED  BY <1>0, <2>1 DEF WriterHeads, SeenOK, Advances, AheadOf, Creates, Deciding
<1>5. CASE Inserts(w, p, t)
  <2>1. /\ At(t) = At(tx[w]) /\ t.heads = tx[w].heads /\ t.batch = tx[w].batch
        /\ t.seen = tx[w].seen /\ pc[w] = "insert" /\ p = "upsert"
    BY <1>5 DEF Inserts, SamePlace, SameCall, At
  <2>2. tx[w].seen = At(tx[w]).expected
    BY <2>1 DEF IInv, WritersOK, WriterOK, CasDone
  <2>. QED  BY <1>0, <2>1, <2>2 DEF WriterHeads, SeenOK, Seen, Advances, AheadOf, Creates, Deciding
<1>6. CASE Upserts(w, p, t) \/ Repairs(w, p, t)
  <2>1. pc[w] \in {"upsert", "repair"} /\ p \notin Deciding /\ t.batch = tx[w].batch
    BY <1>6 DEF Upserts, Repairs, OnToNext, Deciding, SamePlace, SameCall
  <2>2. PICK row : PutsHead(w, t, row) /\ row.rev = Target(Request(w))
    BY <1>6, AtRequest DEF Upserts, Repairs, Existing, SameTarget
  <2>3. tx[w].heads \in [Keys -> Rows \cup {NoRow}] /\ Request(w).key \in Keys
    BY <2>1, AtRequest
  <2>4. AheadOf(head, t)
    <3>. SUFFICES ASSUME NEW k \in Keys, t.heads[k] # NoRow
                  PROVE  t.heads[k].rev >= head[k].rev \/ (t.heads[k].rev = 0 /\ Creates(t, k))
      BY DEF AheadOf
    <3>1. Creates(tx[w], k) => Creates(t, k)
      BY <2>1 DEF Creates
    <3>2. CASE k = Request(w).key
      <4>1. t.heads[k].rev = Target(Request(w))
        BY <2>2, <2>3, <3>2 DEF PutsHead
      <4>. QED  BY <2>1, <3>1, <3>2, <4>1, GoesPast
    <3>3. CASE k # Request(w).key
      <4>1. t.heads[k] = tx[w].heads[k]
        BY <2>2, <2>3, <3>3 DEF PutsHead
      <4>. QED  BY <1>0, <3>1, <4>1 DEF WriterHeads, AheadOf
    <3>. QED  BY <3>2, <3>3
  <2>. QED  BY <2>1, <2>4 DEF WriterHeads, SeenOK, Advances, Deciding
<1>. QED  BY <1>1, <1>2, <1>3, <1>4, <1>5, <1>6 DEF Goes

LEMMA RewindMove ==
    ASSUME IInv, RewindInv, ~Fabricate, NEW w \in Writers, MovesOn(w)
    PROVE  RewindInv'
<1>1. PICK p \in PCs, t \in Transactions : Moves(w, p, t) /\ Goes(w, p, t)
  BY DEF MovesOn
<1>2. /\ tx'[w] = t /\ pc'[w] = p
      /\ \A v \in Writers : v # w => tx'[v] = tx[v] /\ pc'[v] = pc[v]
      /\ UNCHANGED head
  BY <1>1, MovesAlone
<1>3. WriterHeads(head, p, t)
  BY <1>1, HeadsMove
<1>4. \A v \in Writers : WriterHeads(head', pc'[v], tx'[v])
  BY <1>2, <1>3 DEF RewindInv
<1>. QED  BY <1>4, LockMove, TimeMove DEF RewindInv

LEMMA RewindCommit ==
    ASSUME IInv, RewindInv, NEW w \in Writers, CommitTx(w)
    PROVE  RewindInv'
<1>1. /\ pc'[w] = "ack" /\ tx'[w].heads = [k \in Keys |-> NoRow]
      /\ head' = [k \in Keys |-> VisibleHead(w, k)]
      /\ \A v \in Writers : v # w => tx'[v] = tx[v] /\ pc'[v] = pc[v]
  BY CommitIs
<1>2. ASSUME NEW v \in Writers PROVE WriterHeads(head', pc'[v], tx'[v])
  <2>1. CASE v = w
    BY <1>1, <2>1 DEF WriterHeads, SeenOK, Advances, AheadOf, Deciding
  <2>2. CASE v # w
    <3>1. \A k \in Keys : k \in tx[v].locks => head'[k] = head[k]
      BY <1>1, <2>2 DEF RewindInv, LockInv, LocksApart, LocksOK, VisibleHead
    <3>2. WriterHeads(head, pc[v], tx[v]) /\ LocksOK(pc[v], tx[v])
      BY DEF RewindInv, LockInv
    <3>3. AheadOf(head', tx[v])
      BY <3>1, <3>2 DEF WriterHeads, AheadOf, LocksOK
    <3>4. SeenOK(head', pc[v], tx[v])
      <4>1. CASE pc[v] \in Deciding /\ tx[v].seen # NoRevision
        <5>1. At(tx[v]).key \in Keys /\ At(tx[v]).key \in tx[v].locks
          BY <3>2, <4>1, AtRequest DEF LocksOK, Deciding
        <5>. QED  BY <3>1, <3>2, <4>1, <5>1 DEF WriterHeads, SeenOK, Seen
      <4>. QED  BY <3>2, <4>1 DEF WriterHeads, SeenOK
    <3>. QED  BY <1>1, <2>2, <3>2, <3>3, <3>4 DEF WriterHeads
  <2>. QED  BY <2>1, <2>2
<1>. QED  BY <1>2, LockCommit, TimeCommit DEF RewindInv

LEMMA RewindStay ==
    ASSUME IInv, RewindInv, UNCHANGED <<revisions, head, intents, ledger, pc, tx>>,
           clock \in Nat, clock' \in Nat, clock' >= clock
    PROVE  RewindInv'
BY TimeStay DEF RewindInv, LockInv, LocksApart

LEMMA RewindInit == Init => RewindInv
<1>. SUFFICES ASSUME Init PROVE \A w \in Writers : WriterHeads(head, pc[w], tx[w])
  BY LockInit, TimeInit DEF RewindInv
<1>. QED  BY DEF Init, WriterHeads, SeenOK, Advances, AheadOf, Deciding, Idle

LEMMA RewindStep == IInv /\ RewindInv /\ ~Fabricate /\ [Next]_vars => RewindInv'
BY StepIs, RewindMove, RewindCommit, RewindStay

(* A head loses ground only to the replay of a create, on Postgres as on   *)
(* SQLite, and for batches of any size.                                    *)
THEOREM OnlyCreatesRewind ==
    ASSUME ~Fabricate
    PROVE  Spec => RewindsOnlyToCreation
<1>. DEFINE Step == \A k \in Keys : head'[k].rev < head[k].rev => head'[k].rev = 0
<1>1. IInv /\ RewindInv /\ [Next]_vars => Step
  <2>. SUFFICES ASSUME IInv, RewindInv, [Next]_vars, NEW k \in Keys,
                       head'[k].rev < head[k].rev
                PROVE  head'[k].rev = 0
    OBVIOUS
  <2>1. \A row \in Rows \cup {NoRow} : row.rev \in Int
    BY StoreAssumption DEF Rows, NoRow, NoRevision
  <2>2. head[k] \in Rows \cup {NoRow}
    BY DEF IInv, TypeInv, TypeOK
  <2>3. head' # head
    BY <2>1, <2>2
  <2>4. PICK w \in Writers : CommitTx(w)
    BY <2>3, StepIs DEF MovesOn, Moves
  <2>5. head'[k] = VisibleHead(w, k) /\ tx[w] \in Transactions
    BY <2>4, CommitIs
  <2>6. tx[w].heads[k] # NoRow /\ head'[k] = tx[w].heads[k]
    BY <2>1, <2>2, <2>5 DEF VisibleHead
  <2>7. tx[w].heads[k] \in Rows \cup {NoRow}
    BY <2>5 DEF Transactions
  <2>. QED  BY <2>1, <2>2, <2>6, <2>7 DEF RewindInv, WriterHeads, AheadOf
<1>2. IInv /\ RewindInv /\ [Next]_vars => RewindInv'
  BY RewindStep
<1>. QED  BY <1>1, <1>2, RewindInit, Safe, PTL DEF Spec, RewindsOnlyToCreation

-----------------------------------------------------------------------------
(* Single requests.  Such a call holds at most the lock of its one head,   *)
(* and before its INSERT it holds nothing another call could wait for      *)
(* unless it has that lock.                                                *)

OneRequest(p, t) ==
    /\ p # "idle" => Len(t.batch) = 1 /\ t.locks \subseteq {At(t).key}
    /\ p \in {"idle", "head"} => t.locks = {}
    /\ p \in {"row", "insert"} /\ t.seen = NoRevision => t.locks = {}
    /\ p \in {"idle", "head", "row", "insert", "repair"} => t.rows = {}
    /\ \A r \in t.rows : r.rev > 0 => r.key \in t.locks
    /\ t.ledger # {} => p = "commit"

SingleInv == LockInv /\ \A w \in Writers : OneRequest(pc[w], tx[w])

LEMMA OneRequestMoves ==
    ASSUME IInv, SingleInv, MaxBatch = 1, NEW w \in Writers, NEW p \in PCs,
           NEW t \in Transactions, Goes(w, p, t)
    PROVE  OneRequest(p, t)
<1>0. OneRequest(pc[w], tx[w])
  BY DEF SingleInv
<1>1. CASE Starts(w, p, t)
  BY <1>1 DEF Starts, OneRequest
<1>2. CASE Ends(w, p, t)
  BY <1>2 DEF Ends, OneRequest, Idle
<1>3. ASSUME pc[w] # "idle"
      PROVE  /\ Len(tx[w].batch) = 1 /\ tx[w].pos = 1 /\ tx[w].locks \subseteq {Request(w).key}
             /\ Request(w) = At(tx[w])
  BY <1>0, <1>3, AtRequest DEF OneRequest
<1>4. CASE ReadsHead(w, p, t)
  <2>1. /\ pc[w] = "head" /\ p = "row" /\ At(t) = At(tx[w]) /\ t.batch = tx[w].batch
        /\ t.rows = tx[w].rows /\ t.ledger = tx[w].ledger
    BY <1>4 DEF ReadsHead, SamePlace, SameCall, SameTables, At
  <2>2. CASE VisibleHead(w, Request(w).key) = NoRow
    <3>1. t.locks = tx[w].locks
      BY <1>4, <2>2 DEF ReadsHead
    <3>. QED  BY <1>0, <2>1, <3>1 DEF OneRequest
  <2>3. CASE VisibleHead(w, Request(w).key) # NoRow
    <3>1. t.seen = VisibleHead(w, Request(w).key).rev /\ t.locks = tx[w].locks \cup {Request(w).key}
      BY <1>4, <2>3 DEF ReadsHead
    <3>2. VisibleHead(w, Request(w).key) \in Rows
      BY <2>1, <2>3, AtRequest DEF VisibleHead, IInv, TypeInv, TypeOK
    <3>3. t.seen # NoRevision
      BY <3>1, <3>2, StoreAssumption DEF Rows, NoRevision
    <3>. QED  BY <1>0, <1>3, <2>1, <3>1, <3>3 DEF OneRequest
  <2>. QED  BY <2>2, <2>3
<1>5. CASE Decides(w, p, t)
  BY <1>0, <1>5 DEF Decides, OneRequest
<1>6. CASE FindsReplay(w, p, t) \/ Records(w, p, t)
  <2>1. /\ pc[w] \in {"row", "ledger"} /\ OnToNext(w, p, t) /\ t.rows = tx[w].rows
        /\ t.locks = tx[w].locks
    BY <1>6 DEF FindsReplay, Records, SameTables
  <2>2. p = "commit" /\ t.batch = tx[w].batch /\ At(t) = At(tx[w])
    BY <1>3, <2>1 DEF OnToNext, SameCall, At
  <2>. QED  BY <1>0, <2>1, <2>2 DEF OneRequest
<1>7. CASE Inserts(w, p, t)
  <2>1. /\ pc[w] = "insert" /\ p = "upsert" /\ At(t) = At(tx[w]) /\ t.batch = tx[w].batch
        /\ t.locks = tx[w].locks /\ t.ledger = tx[w].ledger
        /\ t.rows = tx[w].rows \cup {RowOf(w)}
    BY <1>7 DEF Inserts, SamePlace, SameCall, At
  <2>2. /\ RowOf(w).key = At(tx[w]).key /\ RowOf(w).rev = At(tx[w]).expected + 1
        /\ At(tx[w]).expected \in Int
    BY <2>1, AtRequest
  <2>3. tx[w].seen = At(tx[w]).expected
    BY <2>1 DEF IInv, WritersOK, WriterOK, CasDone
  <2>4. RowOf(w).rev > 0 => RowOf(w).key \in tx[w].locks
    BY <2>1, <2>2, <2>3 DEF SingleInv, LockInv, LocksOK, Deciding, NoRevision
  <2>. QED  BY <1>0, <2>1, <2>4 DEF OneRequest
<1>8. CASE Upserts(w, p, t)
  <2>1. /\ pc[w] = "upsert" /\ p = "ledger" /\ At(t) = At(tx[w]) /\ t.batch = tx[w].batch
        /\ t.locks = tx[w].locks \cup {Request(w).key} /\ t.ledger = tx[w].ledger
        /\ t.rows = tx[w].rows
    BY <1>8 DEF Upserts, PutsHead, SamePlace, SameCall, At
  <2>. QED  BY <1>0, <1>3, <2>1 DEF OneRequest
<1>9. CASE Repairs(w, p, t)
  <2>1. /\ pc[w] = "repair" /\ OnToNext(w, p, t)
        /\ t.locks = tx[w].locks \cup {Request(w).key} /\ t.ledger = tx[w].ledger
        /\ t.rows = tx[w].rows
    BY <1>9 DEF Repairs, PutsHead
  <2>2. p = "commit" /\ t.batch = tx[w].batch /\ At(t) = At(tx[w])
    BY <1>3, <2>1 DEF OnToNext, SameCall, At
  <2>. QED  BY <1>0, <1>3, <2>1, <2>2 DEF OneRequest
<1>. QED  BY <1>1, <1>2, <1>4, <1>5, <1>6, <1>7, <1>8, <1>9 DEF Goes

LEMMA SingleStep == IInv /\ SingleInv /\ MaxBatch = 1 /\ [Next]_vars => SingleInv'
<1>. SUFFICES ASSUME IInv, SingleInv, MaxBatch = 1, [Next]_vars PROVE SingleInv'
  OBVIOUS
<1>1. LockInv'
  BY LockStep DEF SingleInv
<1>2. ASSUME NEW w \in Writers, MovesOn(w) PROVE \A v \in Writers : OneRequest(pc'[v], tx'[v])
  <2>1. PICK p \in PCs, t \in Transactions : Moves(w, p, t) /\ Goes(w, p, t)
    BY <1>2 DEF MovesOn
  <2>2. OneRequest(p, t)
    BY <2>1, OneRequestMoves
  <2>. QED  BY <2>1, <2>2, MovesAlone DEF SingleInv
<1>3. ASSUME NEW w \in Writers, CommitTx(w) PROVE \A v \in Writers : OneRequest(pc'[v], tx'[v])
  <2>1. /\ pc[w] = "commit" /\ pc'[w] = "ack" /\ tx'[w].rows = {} /\ tx'[w].locks = {}
        /\ tx'[w].ledger = {} /\ tx'[w].batch = tx[w].batch
        /\ \A v \in Writers : v # w => tx'[v] = tx[v] /\ pc'[v] = pc[v]
    BY <1>3, CommitIs
  <2>. QED  BY <2>1 DEF SingleInv, OneRequest
<1>4. CASE UNCHANGED <<pc, tx>>
  BY <1>1, <1>4 DEF SingleInv
<1>. QED  BY <1>1, <1>2, <1>3, <1>4, StepIs DEF SingleInv

LEMMA SingleInit == Init => SingleInv
<1>. SUFFICES ASSUME Init PROVE \A w \in Writers : OneRequest(pc[w], tx[w])
  BY LockInit DEF SingleInv
<1>. QED  BY DEF Init, OneRequest, Idle

(* Nobody on a cycle of waits could be at any statement that waits.        *)
LEMMA NoDeadlock ==
    ASSUME IInv, SingleInv, NEW w \in Writers
    PROVE  ~Deadlocked(w)
<1>. SUFFICES ASSUME NEW C \in SUBSET Writers, w \in C,
                     \A v \in C : Blockers(v) \cap C # {} /\ \E u \in C : v \in Blockers(u)
              PROVE  FALSE
  BY DEF Deadlocked
<1>1. \A v \in C : /\ v \in Writers /\ Blockers(v) # {} /\ OneRequest(pc[v], tx[v])
                   /\ LocksOK(pc[v], tx[v])
  BY DEF SingleInv, LockInv
<1>2. \A v \in C : pc[v] \in {"head", "upsert", "repair", "insert", "ledger"}
  BY <1>1 DEF Blockers
<1>3. \A v \in C : tx[v].ledger = {}
  BY <1>1, <1>2 DEF OneRequest
<1>4. \A u \in C, v \in C : v \in Blockers(u) =>
         /\ v # u
         /\ \/ Request(u).key \in tx[v].locks /\ pc[u] \in {"head", "upsert", "repair"}
            \/ pc[u] = "insert" /\ \E r \in tx[v].rows : SameTarget(r, Request(u))
  BY <1>3 DEF Blockers, HeadHolders, RowHolders, LedgerHolders, Others
<1>5. \A v \in C : tx[v].locks # {} \/ tx[v].rows # {}
  BY <1>4
<1>6. \A v \in C : pc[v] \in {"upsert", "repair", "insert"}
  <2>. SUFFICES ASSUME NEW v \in C PROVE pc[v] \notin {"head", "ledger"}
    BY <1>2
  <2>1. pc[v] # "head"
    BY <1>1, <1>5 DEF OneRequest
  <2>2. pc[v] # "ledger"
    <3>1. PICK u \in C : u \in Blockers(v)
      OBVIOUS
    <3>. QED  BY <1>4, <3>1
  <2>. QED  BY <2>1, <2>2
<1>7. \A v \in C : pc[v] # "insert"
  <2>. SUFFICES ASSUME NEW u \in C, pc[u] = "insert" PROVE FALSE
    OBVIOUS
  <2>1. PICK v \in C : v \in Blockers(u)
    OBVIOUS
  <2>2. PICK r \in tx[v].rows : SameTarget(r, Request(u))
    BY <1>4, <2>1
  <2>3. Request(u) = At(tx[u]) /\ Request(u).expected \in Int /\ r.rev = Request(u).expected + 1
        /\ r.key = Request(u).key /\ Target(Request(u)) \in 0 .. MaxRevision
        /\ Target(Request(u)) = Request(u).expected + 1
    BY <1>1, <2>2, AtRequest DEF SameTarget
  <2>4. tx[u].seen = Request(u).expected
    BY <1>1, <2>3 DEF IInv, WritersOK, WriterOK, CasDone
  <2>5. CASE tx[u].seen = NoRevision
    <3>1. tx[u].locks = {} /\ tx[u].rows = {}
      BY <1>1, <2>5 DEF OneRequest
    <3>. QED  BY <1>5, <3>1
  <2>6. CASE tx[u].seen # NoRevision
    <3>1. r.rev > 0
      BY <2>3, <2>4, <2>6, StoreAssumption DEF NoRevision
    <3>2. r.key \in tx[v].locks
      BY <1>1, <2>2, <3>1 DEF OneRequest
    <3>3. r.key \in tx[u].locks
      BY <1>1, <2>3, <2>6 DEF LocksOK, Deciding
    <3>4. u # v
      BY <1>4, <2>1
    <3>. QED  BY <1>1, <3>2, <3>3, <3>4 DEF SingleInv, LockInv, LocksApart
  <2>. QED  BY <2>5, <2>6
<1>8. \A u \in C, v \in C : v \in Blockers(u) => v # u /\ Request(u).key \in tx[v].locks
  BY <1>4, <1>7
<1>9. PICK v \in C : v \in Blockers(w)
  OBVIOUS
<1>10. PICK x \in C : x \in Blockers(v)
  OBVIOUS
<1>11. Request(w).key = Request(v).key
  <2>1. pc[v] # "idle" /\ v \in Writers
    BY <1>1, <1>6
  <2>2. Request(v) = At(tx[v]) /\ tx[v].locks \subseteq {At(tx[v]).key}
    BY <1>1, <2>1, AtRequest DEF OneRequest
  <2>. QED  BY <1>8, <1>9, <2>2
<1>. QED  BY <1>1, <1>8, <1>9, <1>10, <1>11 DEF SingleInv, LockInv, LocksApart

(* A single request that loses a race is told so: it never ends on an      *)
(* opaque integrity error, nor as the victim of a deadlock.                *)
THEOREM LostRacesAreConflicts ==
    ASSUME MaxBatch = 1
    PROVE  Spec => []LostRaceIsConflict
<1>1. Init => LostRaceIsConflict
  BY DEF Init, LostRaceIsConflict
<1>2. IInv /\ SingleInv /\ LostRaceIsConflict /\ [Next]_vars => LostRaceIsConflict'
  <2>. SUFFICES ASSUME IInv, SingleInv, LostRaceIsConflict, [Next]_vars, NEW v \in Writers
                PROVE  outcome'[v] \notin {"integrity", "deadlock"}
    BY DEF LostRaceIsConflict
  <2>1. outcome \in [Writers -> Outcomes] /\ outcome[v] \notin {"integrity", "deadlock"}
    BY DEF IInv, TypeInv, TypeOK, LostRaceIsConflict
  <2>2. \/ outcome' = outcome
        \/ \E w \in Writers, how \in {"running", "busy", "conflict", "bad_intent", "ok", "lost"} :
              outcome' = [outcome EXCEPT ![w] = how]
    <3>1. ASSUME NEW w \in Writers PROVE ~DeadlockVictim(w)
      BY NoDeadlock DEF DeadlockVictim
    <3>. QED  BY <3>1 DEF Next, Call, vars, Begin, BusyTimeout, SelectHead, SelectRow, InsertRow,
           WriteHead, RepairHead, UpsertFingerprint, CommitTx, Ack, Crash, Tick,
           Abort, Continue, NextRequest, Replay, UniqueViolation
  <2>. QED  BY <2>1, <2>2
<1>3. IInv /\ SingleInv /\ [Next]_vars => SingleInv'
  BY SingleStep
<1>. QED  BY <1>1, <1>2, <1>3, SingleInit, Safe, PTL DEF Spec

-----------------------------------------------------------------------------
(* What BEGIN IMMEDIATE buys on SQLite, where transactions never overlap:  *)
(* the head table is never behind the log, and only a stale base is        *)
(* refused.  Both fail on Postgres.                                        *)

(* The inductive invariant.                                                *)
OneAtATime == \A v, w \in Writers : Active(v) /\ Active(w) => v = w

(* The head that t sees is the newest row t sees, but for the row that t   *)
(* has inserted and is about to make the head.                             *)
Newest(R, h, p, t) ==
    \A r \in R \cup t.rows :
        ~(p = "upsert" /\ r = RowFor(t)) => Seen(h, t, r.key).rev >= r.rev

(* What the CAS read is still true, and past the CAS it is the base.       *)
Fresh(h, p, t) ==
    /\ p \in {"row", "insert", "upsert"} => t.seen = Seen(h, t, At(t).key).rev
    /\ p \in {"insert", "upsert"} => t.seen = At(t).expected

UpToDate(R, h, p, t) ==
    p \notin {"idle", "ack"} => Newest(R, h, p, t) /\ Fresh(h, p, t) /\ p # "repair"

SerialInv ==
    /\ OneAtATime
    /\ HeadIsLatest
    /\ \A w \in Writers : UpToDate(revisions, head, pc[w], tx[w])

-----------------------------------------------------------------------------
(* Lemmas about one statement.                                             *)

LEMMA SeenType ==
    ASSUME TypeInv, NEW w \in Writers, NEW k \in Keys
    PROVE  /\ Seen(head, tx[w], k) \in Rows \cup {NoRow}
           /\ Seen(head, tx[w], k).rev \in Int
           /\ VisibleHead(w, k) = Seen(head, tx[w], k)
<1>1. tx[w].heads[k] \in Rows \cup {NoRow} /\ head[k] \in Rows \cup {NoRow}
  BY DEF TypeInv, TypeOK, Transactions
<1>2. \A r \in Rows \cup {NoRow} : r.rev \in Int
  BY StoreAssumption DEF Rows, NoRow, NoRevision
<1>. QED  BY <1>1, <1>2 DEF Seen, VisibleHead

(* The only active transaction moves on, as t at statement p.              *)
LEMMA AloneMoves ==
    ASSUME IInv, SerialInv, NEW w \in Writers, NEW t, NEW p,
           \A v \in Writers : v # w => ~Active(v),
           tx' = [tx EXCEPT ![w] = t], pc' = [pc EXCEPT ![w] = p],
           UNCHANGED <<revisions, head>>,
           UpToDate(revisions, head, p, t)
    PROVE  SerialInv'
<1>1. /\ tx'[w] = t /\ pc'[w] = p
      /\ \A v \in Writers : v # w => tx'[v] = tx[v] /\ pc'[v] = pc[v] /\ ~Active(v)
  BY DEF IInv, TypeInv, TypeOK
<1>2. OneAtATime'
  BY <1>1 DEF OneAtATime, Active
<1>3. HeadIsLatest'
  BY DEF SerialInv, HeadIsLatest
<1>4. \A v \in Writers : UpToDate(revisions', head', pc'[v], tx'[v])
  BY <1>1 DEF UpToDate, Active
<1>. QED  BY <1>2, <1>3, <1>4 DEF SerialInv

LEMMA Alone ==
    ASSUME SerialInv, NEW w \in Writers, Active(w)
    PROVE  \A v \in Writers : v # w => ~Active(v)
BY DEF SerialInv, OneAtATime

LEMMA ContinueSerial ==
    ASSUME IInv, SerialInv, NEW w \in Writers, NEW t, NEW p, Active(w), Continue(w, t, p),
           UpToDate(revisions, head, p, t)
    PROVE  SerialInv'
BY Alone, AloneMoves DEF Continue, tables

LEMMA AbortSerial ==
    ASSUME IInv, SerialInv, NEW w \in Writers, NEW how, pc[w] # "idle", Abort(w, how)
    PROVE  SerialInv'
<1>1. tx' = [tx EXCEPT ![w] = Idle] /\ pc' = [pc EXCEPT ![w] = "idle"]
      /\ UNCHANGED <<revisions, head>>
  BY DEF Abort, tables
<1>2. CASE Active(w)
  BY <1>1, <1>2, Alone, AloneMoves DEF UpToDate
<1>3. CASE ~Active(w)
  <2>1. /\ tx'[w] = Idle /\ pc'[w] = "idle"
        /\ \A v \in Writers : v # w => tx'[v] = tx[v] /\ pc'[v] = pc[v]
    BY <1>1 DEF IInv, TypeInv, TypeOK
  <2>. QED  BY <1>1, <1>3, <2>1 DEF SerialInv, OneAtATime, Active, HeadIsLatest, UpToDate
<1>. QED  BY <1>2, <1>3

(* A statement that is not between the INSERT and the upsert leaves the    *)
(* next request, or COMMIT, with a head that is up to date.                *)
LEMMA NextRequestSerial ==
    ASSUME IInv, SerialInv, NEW w \in Writers, NEW t \in Transactions, Active(w),
           NextRequest(w, t), NEW p, p # "upsert", Newest(revisions, head, p, t)
    PROVE  SerialInv'
<1>1. CASE t.pos < Len(t.batch)
  <2>. DEFINE u == [t EXCEPT !.pos = @ + 1]
  <2>1. u.rows = t.rows /\ u.heads = t.heads
    BY DEF Transactions
  <2>2. Continue(w, u, "head")
    BY <1>1 DEF NextRequest
  <2>. HIDE DEF u
  <2>3. UpToDate(revisions, head, "head", u)
    BY <2>1 DEF UpToDate, Newest, Fresh, Seen
  <2>. QED  BY <2>2, <2>3, ContinueSerial
<1>2. CASE ~(t.pos < Len(t.batch))
  <2>1. Continue(w, t, "commit")
    BY <1>2 DEF NextRequest
  <2>2. UpToDate(revisions, head, "commit", t)
    BY DEF UpToDate, Newest, Fresh
  <2>. QED  BY <2>1, <2>2, ContinueSerial
<1>. QED  BY <1>1, <1>2

-----------------------------------------------------------------------------
(* One lemma per action.                                                   *)

LEMMA BeginSerial ==
    ASSUME IInv, SerialInv, Serialized, NEW w \in Writers, Begin(w)
    PROVE  SerialInv'
<1>1. PICK n \in 1 .. MaxBatch : \E b \in [1 .. n -> Requests] :
         tx' = [tx EXCEPT ![w] = [Idle EXCEPT !.batch = b, !.now = clock]]
  BY DEF Begin
<1>2. PICK b \in [1 .. n -> Requests] :
         tx' = [tx EXCEPT ![w] = [Idle EXCEPT !.batch = b, !.now = clock]]
  BY <1>1
<1>. DEFINE t == [Idle EXCEPT !.batch = b, !.now = clock]
<1>3. t.rows = {} /\ t.heads = [k \in Keys |-> NoRow]
  BY DEF Idle
<1>4. /\ tx' = [tx EXCEPT ![w] = t] /\ pc' = [pc EXCEPT ![w] = "head"]
      /\ UNCHANGED <<revisions, head>> /\ \A v \in Writers : ~Active(v)
  BY <1>2 DEF Begin, tables
<1>. HIDE DEF t
<1>5. \A r \in revisions : r.key \in Keys
  BY DEF IInv, TypeInv, TypeOK, Rows
<1>6. UpToDate(revisions, head, "head", t)
  BY <1>3, <1>5 DEF UpToDate, Newest, Fresh, Seen, SerialInv, HeadIsLatest
<1>. QED  BY <1>4, <1>6, AloneMoves

LEMMA SelectHeadSerial ==
    ASSUME IInv, SerialInv, NEW w \in Writers, SelectHead(w)
    PROVE  SerialInv'
<1>. DEFINE k == Request(w).key
            row == VisibleHead(w, k)
            t == IF row = NoRow
                 THEN [tx[w] EXCEPT !.seen = NoRevision]
                 ELSE [tx[w] EXCEPT !.seen = row.rev, !.locks = @ \cup {k}]
<1>1. pc[w] = "head" /\ Continue(w, t, "row")
  BY DEF SelectHead
<1>2. tx[w] \in Transactions /\ k \in Keys
  BY <1>1, RequestType DEF Requests, IInv
<1>3. row = Seen(head, tx[w], k) /\ k = At(tx[w]).key
  BY <1>2, SeenType DEF IInv, Request, At
<1>. HIDE DEF row, k
<1>4. /\ t.batch = tx[w].batch /\ t.pos = tx[w].pos /\ t.rows = tx[w].rows
      /\ t.heads = tx[w].heads /\ t.seen = row.rev
  BY <1>2 DEF Transactions, NoRow
<1>. HIDE DEF t
<1>5. Newest(revisions, head, "head", tx[w])
  BY <1>1 DEF SerialInv, UpToDate
<1>6. UpToDate(revisions, head, "row", t)
  BY <1>3, <1>4, <1>5 DEF UpToDate, Newest, Fresh, Seen, At
<1>. QED  BY <1>1, <1>6, ContinueSerial DEF Active

(* The row being replayed is never ahead of the head, so that it is never  *)
(* repaired.                                                               *)
LEMMA NeverBehind ==
    ASSUME IInv, SerialInv, NEW w \in Writers, pc[w] = "row", NEW row \in Existing(w)
    PROVE  ~HeadBehind(tx[w].seen, row)
<1>1. row \in revisions \cup tx[w].rows /\ row.key = Request(w).key /\ row \in Rows
  BY DEF Existing, VisibleRows, SameTarget, IInv, TypeInv, TypeOK, Transactions
<1>2. UpToDate(revisions, head, "row", tx[w])
  BY DEF SerialInv
<1>3. tx[w].seen = Seen(head, tx[w], row.key).rev /\ Seen(head, tx[w], row.key).rev >= row.rev
  BY <1>1, <1>2 DEF UpToDate, Newest, Fresh, Request, At
<1>4. Seen(head, tx[w], row.key).rev \in Int /\ row.rev \in Int
  BY <1>1, SeenType DEF IInv, Rows
<1>. QED  BY <1>3, <1>4 DEF HeadBehind

LEMMA SelectRowSerial ==
    ASSUME IInv, SerialInv, NEW w \in Writers, SelectRow(w)
    PROVE  SerialInv'
<1>1. pc[w] = "row" /\ tx[w] \in Transactions
  BY DEF SelectRow, IInv, TypeInv, TypeOK
<1>2. UpToDate(revisions, head, "row", tx[w])
  BY <1>1 DEF SerialInv
<1>3. CASE Abort(w, "conflict")
  BY <1>1, <1>3, AbortSerial
<1>4. CASE CasHolds(tx[w].seen, Request(w).expected) /\ Continue(w, tx[w], "insert")
  <2>1. UpToDate(revisions, head, "insert", tx[w])
    BY <1>2, <1>4 DEF UpToDate, Newest, Fresh, CasHolds, Request, At
  <2>. QED  BY <1>1, <1>4, <2>1, ContinueSerial DEF Active
<1>5. CASE Replay(w, tx[w])
  <2>. DEFINE u == [tx[w] EXCEPT !.replays = @ \cup {tx[w].pos}]
  <2>1. NextRequest(w, u)
    BY <1>5 DEF Replay
  <2>2. /\ u \in Transactions /\ u.rows = tx[w].rows /\ u.heads = tx[w].heads
    BY <1>1 DEF Transactions
  <2>. HIDE DEF u
  <2>3. Newest(revisions, head, "row", u)
    BY <1>2, <2>2 DEF UpToDate, Newest, Seen
  <2>. QED  BY <1>1, <2>1, <2>2, <2>3, NextRequestSerial DEF Active
<1>. QED  BY <1>1, <1>3, <1>4, <1>5, NeverBehind DEF SelectRow

LEMMA InsertRowSerial ==
    ASSUME IInv, SerialInv, NEW w \in Writers, InsertRow(w)
    PROVE  SerialInv'
<1>. DEFINE t == [tx[w] EXCEPT !.rows = @ \cup {RowOf(w)}]
<1>1. pc[w] = "insert" /\ tx[w] \in Transactions
  BY DEF InsertRow, IInv, TypeInv, TypeOK
<1>2. CASE Abort(w, "conflict")
  BY <1>1, <1>2, AbortSerial
<1>3. CASE Continue(w, t, "upsert")
  <2>1. /\ t.batch = tx[w].batch /\ t.pos = tx[w].pos /\ t.rows = tx[w].rows \cup {RowOf(w)}
        /\ t.heads = tx[w].heads /\ t.seen = tx[w].seen /\ t.now = tx[w].now
    BY <1>1 DEF Transactions
  <2>. HIDE DEF t
  <2>2. At(t) = At(tx[w]) /\ RowFor(t) = RowOf(w)
    BY <2>1 DEF At, RowFor, RowOf, Request
  <2>3. UpToDate(revisions, head, "insert", tx[w])
    BY <1>1 DEF SerialInv
  <2>4. UpToDate(revisions, head, "upsert", t)
    BY <2>1, <2>2, <2>3 DEF UpToDate, Newest, Fresh, Seen
  <2>. QED  BY <1>1, <1>3, <2>4, ContinueSerial DEF Active
<1>. QED  BY <1>2, <1>3 DEF InsertRow, UniqueViolation

(* The upsert makes the transaction's own row the head: it is one past the *)
(* old head, and the old head was the newest.                              *)
LEMMA WriteHeadSerial ==
    ASSUME IInv, SerialInv, NEW w \in Writers, WriteHead(w)
    PROVE  SerialInv'
<1>. DEFINE owed == IntentsFor(Request(w).key, Target(Request(w)))
            row == RowOf(w)
            u == PutHead(tx[w], row)
            t == [u EXCEPT !.intents = @ \cup owed]
<1>1. pc[w] = "upsert" /\ tx[w] \in Transactions
  BY DEF WriteHead, IInv, TypeInv, TypeOK
<1>2. CASE Abort(w, "bad_intent")
  BY <1>1, <1>2, AbortSerial
<1>3. CASE Continue(w, t, "ledger")
  <2>1. /\ row \in Rows /\ row = RowFor(tx[w]) /\ row.key = At(tx[w]).key
        /\ row.rev = At(tx[w]).expected + 1 /\ row.key \in Keys /\ At(tx[w]) \in Requests
    BY <1>1, RequestType DEF IInv, RowOf, RowFor, Request, At, Target, Rows
  <2>2. /\ u \in Transactions /\ u.rows = tx[w].rows
        /\ u.heads = [tx[w].heads EXCEPT ![row.key] = row]
    BY <1>1, <2>1, PutHeadType
  <2>. HIDE DEF u, owed
  <2>3. t.rows = tx[w].rows /\ t.heads = [tx[w].heads EXCEPT ![row.key] = row]
    BY <2>2 DEF Transactions
  <2>. HIDE DEF t
  <2>4. tx[w].heads \in [Keys -> Rows \cup {NoRow}]
    BY <1>1 DEF Transactions
  <2>5. UpToDate(revisions, head, "upsert", tx[w])
    BY <1>1 DEF SerialInv
  <2>6. \A r \in revisions \cup tx[w].rows : r \in Rows /\ r.key \in Keys /\ r.rev \in Nat
    BY <1>1 DEF IInv, TypeInv, TypeOK, Transactions, Rows
  <2>7. row # NoRow
    BY <2>1, NoRowIsNoRow
  <2>8. Newest(revisions, head, "ledger", t)
    <3>. SUFFICES ASSUME NEW r \in revisions \cup t.rows
                  PROVE  Seen(head, t, r.key).rev >= r.rev
      BY DEF Newest
    <3>1. r.key \in Keys /\ r.rev \in Nat /\ r \in revisions \cup tx[w].rows
      BY <2>3, <2>6
    <3>2. CASE r.key # row.key
      <4>1. Seen(head, t, r.key) = Seen(head, tx[w], r.key)
        BY <2>3, <2>4, <3>1, <3>2 DEF Seen
      <4>2. r # RowFor(tx[w])
        BY <2>1, <3>2
      <4>. QED  BY <2>5, <3>1, <4>1, <4>2 DEF UpToDate, Newest
    <3>3. CASE r.key = row.key
      <4>1. Seen(head, t, r.key) = row
        BY <2>1, <2>3, <2>4, <2>7, <3>3 DEF Seen
      <4>2. CASE r = row
        BY <3>1, <4>1, <4>2
      <4>3. CASE r # row
        <5>1. Seen(head, tx[w], r.key).rev >= r.rev
          BY <2>1, <2>5, <3>1, <4>3 DEF UpToDate, Newest
        <5>2. Seen(head, tx[w], r.key).rev = At(tx[w]).expected
          BY <2>1, <2>5, <3>3 DEF UpToDate, Fresh
        <5>3. At(tx[w]).expected \in Int
          BY <2>1 DEF Requests
        <5>. QED  BY <2>1, <3>1, <4>1, <5>1, <5>2, <5>3
      <4>. QED  BY <4>2, <4>3
    <3>. QED  BY <3>2, <3>3
  <2>9. UpToDate(revisions, head, "ledger", t)
    BY <2>8 DEF UpToDate, Fresh
  <2>. QED  BY <1>1, <1>3, <2>9, ContinueSerial DEF Active
<1>. QED  BY <1>2, <1>3 DEF WriteHead

LEMMA UpsertFingerprintSerial ==
    ASSUME IInv, SerialInv, NEW w \in Writers, UpsertFingerprint(w)
    PROVE  SerialInv'
<1>. DEFINE t == [tx[w] EXCEPT !.ledger = @ \cup NewEntries(w)]
<1>1. pc[w] = "ledger" /\ NextRequest(w, t) /\ tx[w] \in Transactions
  BY DEF UpsertFingerprint, IInv, TypeInv, TypeOK
<1>2. t \in Transactions /\ t.rows = tx[w].rows /\ t.heads = tx[w].heads
  BY <1>1, NewEntriesType DEF Transactions, IInv
<1>. HIDE DEF t
<1>3. Newest(revisions, head, "ledger", t)
  BY <1>1, <1>2 DEF SerialInv, UpToDate, Newest, Seen
<1>. QED  BY <1>1, <1>2, <1>3, NextRequestSerial DEF Active

(* COMMIT publishes the rows and the heads the transaction saw.            *)
LEMMA CommitTxSerial ==
    ASSUME IInv, SerialInv, NEW w \in Writers, CommitTx(w)
    PROVE  SerialInv'
<1>1. /\ pc[w] = "commit"
      /\ revisions' = revisions \cup tx[w].rows
      /\ head' = [k \in Keys |-> VisibleHead(w, k)]
      /\ pc' = [pc EXCEPT ![w] = "ack"]
  BY DEF CommitTx
<1>2. \A v \in Writers : v # w => ~Active(v)
  BY <1>1, Alone DEF Active
<1>3. \A v \in Writers : pc'[v] \in {"idle", "ack"}
  BY <1>1, <1>2 DEF Active, IInv, TypeInv, TypeOK
<1>4. HeadIsLatest'
  <2>. SUFFICES ASSUME NEW r \in revisions' PROVE head'[r.key].rev >= r.rev
    BY DEF HeadIsLatest
  <2>1. r \in revisions \cup tx[w].rows /\ r.key \in Keys
    BY <1>1 DEF IInv, TypeInv, TypeOK, Transactions, Rows
  <2>2. head'[r.key] = Seen(head, tx[w], r.key)
    BY <1>1, <2>1, SeenType DEF IInv
  <2>. QED  BY <1>1, <2>1, <2>2 DEF SerialInv, UpToDate, Newest
<1>. QED  BY <1>3, <1>4 DEF SerialInv, OneAtATime, Active, UpToDate

LEMMA SerialStep ==
    ASSUME Serialized, IInv, SerialInv, [Next]_vars
    PROVE  SerialInv'
<1>1. ASSUME NEW w \in Writers, Begin(w) PROVE SerialInv'
  BY <1>1, BeginSerial
<1>2. ASSUME NEW w \in Writers, Statement(w) PROVE SerialInv'
  <2>1. ~RepairHead(w)
    BY DEF RepairHead, SerialInv, UpToDate
  <2>. QED  BY <1>2, <2>1, SelectHeadSerial, SelectRowSerial, InsertRowSerial, WriteHeadSerial,
               UpsertFingerprintSerial, CommitTxSerial DEF Statement
<1>3. ASSUME NEW w \in Writers, Ack(w) PROVE SerialInv'
  <2>1. /\ pc[w] = "ack" /\ tx' = [tx EXCEPT ![w] = Idle] /\ pc' = [pc EXCEPT ![w] = "idle"]
        /\ UNCHANGED <<revisions, head>>
    BY <1>3 DEF Ack, tables
  <2>2. /\ tx'[w] = Idle /\ pc'[w] = "idle"
        /\ \A v \in Writers : v # w => tx'[v] = tx[v] /\ pc'[v] = pc[v]
    BY <2>1 DEF IInv, TypeInv, TypeOK
  <2>. QED  BY <2>1, <2>2 DEF SerialInv, OneAtATime, Active, HeadIsLatest, UpToDate
<1>4. ASSUME NEW w \in Writers, Crash(w) \/ DeadlockVictim(w) PROVE SerialInv'
  <2>1. DeadlockVictim(w) => pc[w] # "idle"
    BY DEF DeadlockVictim, Deadlocked, Blockers
  <2>. QED  BY <1>4, <2>1, AbortSerial DEF Crash, DeadlockVictim
<1>5. CASE Tick \/ UNCHANGED vars \/ \E w \in Writers : BusyTimeout(w)
  <2>1. UNCHANGED <<revisions, head, pc, tx>>
    BY <1>5 DEF Tick, BusyTimeout, tables, vars
  <2>. QED  BY <2>1 DEF SerialInv, OneAtATime, Active, HeadIsLatest
<1>. QED  BY <1>1, <1>2, <1>3, <1>4, <1>5 DEF Next, Call, Statement

LEMMA SerialInit == Init => SerialInv
BY DEF Init, SerialInv, OneAtATime, Active, HeadIsLatest, UpToDate

LEMMA Serial ==
    ASSUME Serialized
    PROVE  Spec => [](IInv /\ SerialInv)
<1>1. Init => IInv /\ SerialInv
  BY SafeInit, SerialInit
<1>2. IInv /\ SerialInv /\ [Next]_vars => (IInv /\ SerialInv)'
  BY SafeStep, SerialStep
<1>. QED  BY <1>1, <1>2, PTL DEF Spec

(* On SQLite the head of an aggregate is the newest row of its log (I2):   *)
(* the repair of a lagging head in _commit_one is never reached there.     *)
THEOREM HeadStaysLatest ==
    ASSUME Serialized
    PROVE  Spec => []HeadIsLatest
<1>1. SerialInv => HeadIsLatest
  BY DEF SerialInv
<1>. QED  BY <1>1, Serial, PTL

-----------------------------------------------------------------------------
(* When the request names the newest revision, the head the CAS read has   *)
(* that revision, and the revision asked for does not exist yet.           *)
LEMMA NewestIsFree ==
    ASSUME IInv, NEW w \in Writers, pc[w] # "idle", NamesNewest(w)
    PROVE  Existing(w) = {}
<1>1. Request(w) \in Requests /\ Request(w).expected \in Int
  BY RequestType DEF IInv, Requests
<1>2. ASSUME NEW r \in Existing(w) PROVE FALSE
  <2>1. /\ r \in VisibleRows(w) /\ r.key = Request(w).key
        /\ r.rev = Request(w).expected + 1
    BY DEF Existing, SameTarget, Target
  <2>2. r.rev \in 0 .. Request(w).expected
    BY <2>1 DEF NamesNewest
  <2>. QED  BY <1>1, <2>1, <2>2
<1>. QED  BY <1>2

LEMMA NewestPassesCas ==
    ASSUME IInv, SerialInv, NEW w \in Writers, pc[w] = "row", NamesNewest(w)
    PROVE  CasHolds(tx[w].seen, Request(w).expected)
<1>. DEFINE k == Request(w).key
            n == Request(w).expected
            row == VisibleHead(w, k)
            mine == {r \in VisibleRows(w) : r.key = k}
<1>1. k \in Keys /\ n \in Int /\ n >= -1
  BY RequestType DEF IInv, Requests, NoRevision
<1>2. UpToDate(revisions, head, "row", tx[w])
  BY DEF SerialInv
<1>3. tx[w].seen = row.rev /\ row.rev \in Int
  BY <1>1, <1>2, SeenType DEF UpToDate, Fresh, IInv, Request, At
<1>4. \A r \in mine : row.rev >= r.rev
  BY <1>1, <1>2, SeenType DEF UpToDate, Newest, VisibleRows, IInv
<1>5. {r.rev : r \in mine} = 0 .. n
  BY DEF NamesNewest
<1>6. CASE row = NoRow
  <2>1. row.rev = -1
    BY <1>6 DEF NoRow, NoRevision
  <2>2. n = -1
    <3>1. CASE n >= 0
      <4>1. PICK r \in mine : r.rev = 0
        BY <1>1, <1>5, <3>1
      <4>. QED  BY <1>4, <2>1, <4>1
    <3>. QED  BY <1>1, <3>1
  <2>. QED  BY <1>3, <2>1, <2>2 DEF CasHolds
<1>7. CASE row # NoRow
  <2>1. row \in mine
    BY <1>1, <1>7, VisibleHeadKnown DEF VisibleRows
  <2>2. row.rev \in 0 .. n
    BY <1>5, <2>1
  <2>3. PICK r \in mine : r.rev = n
    BY <1>1, <1>5, <2>2
  <2>4. row.rev >= n
    BY <1>4, <2>3
  <2>. QED  BY <1>1, <1>3, <2>2, <2>4 DEF CasHolds
<1>. QED  BY <1>6, <1>7

(* On SQLite a call whose base is the newest revision is never refused     *)
(* with a conflict, whatever other callers do.                             *)
THEOREM OnlyStaleBasesConflict ==
    ASSUME Serialized
    PROVE  Spec => LatestBaseWins
<1>. DEFINE Step == \A w \in Writers :
         outcome[w] # "conflict" /\ outcome'[w] = "conflict" => ~NamesNewest(w)
<1>1. IInv /\ SerialInv /\ [Next]_vars => Step
  <2>. SUFFICES ASSUME IInv, SerialInv, [Next]_vars, NEW w \in Writers, NamesNewest(w),
                       outcome[w] # "conflict", outcome'[w] = "conflict"
                PROVE  FALSE
    OBVIOUS
  <2>1. outcome \in [Writers -> Outcomes]
    BY DEF IInv, TypeInv, TypeOK
  <2>2. SelectRow(w) \/ InsertRow(w)
    <3>1. outcome' # outcome
      OBVIOUS
    <3>2. PICK v \in Writers :
             \/ Begin(v) \/ BusyTimeout(v) \/ SelectRow(v) \/ InsertRow(v) \/ WriteHead(v)
             \/ Ack(v) \/ Crash(v) \/ DeadlockVictim(v)
      BY <3>1 DEF Next, Call, vars, SelectHead, RepairHead, UpsertFingerprint, CommitTx, Tick,
                  Continue, NextRequest, Replay
    <3>3. \E x : outcome' = [outcome EXCEPT ![v] = x]
      BY <3>1, <3>2 DEF Begin, BusyTimeout, SelectRow, InsertRow, WriteHead, Ack, Crash,
                  DeadlockVictim, Abort, Continue, NextRequest, Replay, UniqueViolation
    <3>4. v = w
      BY <2>1, <3>3
    <3>5. CASE Begin(w) \/ BusyTimeout(w) \/ Ack(w)
      BY <2>1, <3>5 DEF Begin, BusyTimeout, Ack
    <3>6. CASE WriteHead(w)
      BY <2>1, <3>1, <3>6 DEF WriteHead, Abort, Continue
    <3>7. CASE Crash(w) \/ DeadlockVictim(w)
      BY <2>1, <3>7 DEF Crash, DeadlockVictim, Abort
    <3>. QED  BY <3>2, <3>4, <3>5, <3>6, <3>7
  <2>3. CASE InsertRow(w)
    <3>1. ~RevisionTaken(w)
      BY <2>3, NewestIsFree DEF InsertRow, RevisionTaken
    <3>. QED  BY <2>1, <2>3, <3>1 DEF InsertRow, Continue
  <2>4. CASE SelectRow(w)
    <3>1. pc[w] = "row" /\ Existing(w) = {}
      BY <2>4, NewestIsFree DEF SelectRow
    <3>2. CasHolds(tx[w].seen, Request(w).expected)
      BY <3>1, NewestPassesCas
    <3>. QED  BY <2>1, <2>4, <3>1, <3>2 DEF SelectRow, Continue
  <2>. QED  BY <2>2, <2>3, <2>4
<1>. QED  BY <1>1, Serial, PTL DEF Spec, LatestBaseWins

-----------------------------------------------------------------------------
(* SQLite(":memory:") does nothing that the store over a file does not:    *)
(* the one permit of the pool serializes transactions as BEGIN IMMEDIATE   *)
(* does, for any number of threads and however often a checkout fails.     *)

(* The permit is out exactly when a thread has it.                         *)
OnePermit ==
    /\ checkout = [w \in Writers |-> checkout[w]]
    /\ permits \in {0, 1}
    /\ \A w \in Writers : checkout[w] # "none" => permits = 0
    /\ \A v, w \in Writers : checkout[v] # "none" /\ checkout[w] # "none" => v = w

(* A transaction is open on the connection of the thread that has it.      *)
OnConnection ==
    memory =>
        /\ pc = [w \in Writers |-> pc[w]]
        /\ \A w \in Writers : Active(w) => checkout[w] = "connection"

PoolInv ==
    /\ OnePermit /\ OnConnection
    /\ memory \/ \A w \in Writers : checkout[w] = "none"

LEMMA PoolStarts == PoolInit => PoolInv
BY DEF PoolInit, Init, PoolInv, OnePermit, OnConnection, Active

(* A statement of w, or its end, is all that happens to pc.                *)
LEMMA OnlyOnePc ==
    ASSUME NEW w \in Writers, pc = [v \in Writers |-> pc[v]],
           Statement(w) \/ Crash(w) \/ Ack(w)
    PROVE  /\ pc' = [v \in Writers |-> pc'[v]]
           /\ \A v \in Writers : v # w => pc'[v] = pc[v]
<1>1. ASSUME NEW s, pc' = [pc EXCEPT ![w] = s]
      PROVE  /\ pc' = [v \in Writers |-> pc'[v]]
             /\ \A v \in Writers : v # w => pc'[v] = pc[v]
  BY <1>1
<1>2. \E s : pc' = [pc EXCEPT ![w] = s]
  BY DEF Statement, SelectHead, SelectRow, InsertRow, WriteHead, RepairHead,
         UpsertFingerprint, CommitTx, Crash, Ack, Abort, Continue, NextRequest, Replay,
         UniqueViolation
<1>. QED  BY <1>1, <1>2

LEMMA PoolSteps == PoolInv /\ [PoolNext]_poolVars => PoolInv'
<1>. SUFFICES ASSUME PoolInv, [PoolNext]_poolVars PROVE PoolInv'
  OBVIOUS
<1>1. CASE ~memory /\ UNCHANGED pool
  BY <1>1 DEF PoolInv, OnePermit, OnConnection, pool
<1>2. ASSUME NEW w \in Writers, Acquire(w) PROVE PoolInv'
  <2>1. /\ memory /\ permits > 0 /\ checkout[w] = "none"
        /\ checkout' = [checkout EXCEPT ![w] = "permit"] /\ permits' = permits - 1
        /\ UNCHANGED <<memory, pc>>
    BY <1>2 DEF Acquire, Acquirable, vars
  <2>2. permits = 1 /\ permits' = 0 /\ \A v \in Writers : checkout[v] = "none"
    BY <2>1 DEF PoolInv, OnePermit
  <2>3. \A v \in Writers : ~Active(v) /\ ~Active(v)'
    BY <2>1, <2>2 DEF PoolInv, OnConnection, Active
  <2>. QED  BY <2>1, <2>2, <2>3 DEF PoolInv, OnePermit, OnConnection
<1>3. ASSUME NEW w \in Writers, ConnectFails(w) PROVE PoolInv'
  <2>1. /\ checkout[w] = "permit" /\ checkout' = [checkout EXCEPT ![w] = "none"]
        /\ permits' = permits + 1 /\ UNCHANGED <<memory, pc>>
    BY <1>3 DEF ConnectFails, GiveBack, vars
  <2>2. permits' = 1 /\ (\A v \in Writers : checkout'[v] = "none") /\ memory
    BY <2>1 DEF PoolInv, OnePermit
  <2>. QED  BY <2>1, <2>2 DEF PoolInv, OnePermit, OnConnection, Active
<1>4. ASSUME NEW w \in Writers, BeginShared(w) PROVE PoolInv'
  <2>1. /\ checkout[w] = "permit" /\ checkout' = [checkout EXCEPT ![w] = "connection"]
        /\ pc' = [pc EXCEPT ![w] = "head"] /\ UNCHANGED <<memory, permits>>
    BY <1>4 DEF BeginShared, Begin
  <2>. QED  BY <2>1 DEF PoolInv, OnePermit, OnConnection, Active
<1>5. ASSUME NEW w \in Writers, Inside(w) PROVE PoolInv'
  <2>1. memory /\ Active(w) /\ UNCHANGED pool
    BY <1>5 DEF Inside
  <2>2. /\ pc' = [v \in Writers |-> pc'[v]]
        /\ \A v \in Writers : v # w => pc'[v] = pc[v]
    BY <1>5, <2>1, OnlyOnePc DEF Inside, PoolInv, OnConnection
  <2>. QED  BY <2>1, <2>2 DEF PoolInv, OnePermit, OnConnection, Active, pool
<1>6. ASSUME NEW w \in Writers, Return(w) PROVE PoolInv'
  <2>1. /\ checkout[w] = "connection" /\ checkout' = [checkout EXCEPT ![w] = "none"]
        /\ permits' = permits + 1 /\ UNCHANGED <<memory, pc>> /\ ~Active(w)
    BY <1>6 DEF Return, GiveBack, vars
  <2>2. permits' = 1 /\ (\A v \in Writers : checkout'[v] = "none") /\ memory
    BY <2>1 DEF PoolInv, OnePermit
  <2>3. \A v \in Writers : ~Active(v)'
    BY <2>1, <2>2 DEF PoolInv, OnePermit, OnConnection, Active
  <2>. QED  BY <2>1, <2>2, <2>3 DEF PoolInv, OnePermit, OnConnection
<1>7. ASSUME NEW w \in Writers, Answer(w) PROVE PoolInv'
  <2>1. memory /\ Ack(w) /\ UNCHANGED pool /\ checkout[w] = "none"
    BY <1>7 DEF Answer
  <2>2. /\ pc' = [v \in Writers |-> pc'[v]]
        /\ \A v \in Writers : v # w => pc'[v] = pc[v]
    BY <2>1, OnlyOnePc DEF PoolInv, OnConnection
  <2>3. pc'[w] = "idle"
    BY <2>1 DEF Ack, PoolInv, OnConnection
  <2>. QED  BY <2>1, <2>2, <2>3 DEF PoolInv, OnePermit, OnConnection, Active, pool
<1>8. CASE UNCHANGED poolVars
  BY <1>8 DEF poolVars, vars, pool, PoolInv, OnePermit, OnConnection, Active
<1>. QED  BY <1>1, <1>2, <1>3, <1>4, <1>5, <1>6, <1>7, <1>8 DEF PoolNext

-----------------------------------------------------------------------------
(* The statements are the same in both stores: only Begin and BusyTimeout  *)
(* know what serializes transactions.                                      *)

LEMMA SameHelpers ==
    /\ File!Idle = Idle
    /\ \A w : File!Active(w) = Active(w)
    /\ \A w : File!Request(w) = Request(w)
    /\ \A w : File!RowOf(w) = RowOf(w)
    /\ \A w : File!Existing(w) = Existing(w)
    /\ \A w : File!NewEntries(w) = NewEntries(w)
    /\ \A t, row : File!PutHead(t, row) = PutHead(t, row)
    /\ \A k, rev : File!IntentsFor(k, rev) = IntentsFor(k, rev)
BY Zenon DEF Idle, File!Idle, NoRevision, File!NoRevision, NoRow, File!NoRow, Active, File!Active,
       Request, File!Request, RowOf, File!RowOf, Target, File!Target, Existing, File!Existing,
       VisibleRows, File!VisibleRows, SameTarget, File!SameTarget, NewEntries, File!NewEntries,
       Schema, File!Schema, PutHead, File!PutHead, IntentsFor, File!IntentsFor, Kind, File!Kind

LEMMA SameBlockers == \A w : File!Blockers(w) = Blockers(w)
BY Zenon DEF Blockers, File!Blockers, VisibleHead, File!VisibleHead, NoRow, File!NoRow, NoRevision,
       File!NoRevision, Request, File!Request, HeadHolders, File!HeadHolders, RowHolders,
       File!RowHolders, LedgerHolders, File!LedgerHolders, Schema, File!Schema, Others,
       File!Others, SameTarget, File!SameTarget, Target, File!Target

LEMMA SameEndings ==
    /\ \A w, how : Abort(w, how) => File!Abort(w, how)
    /\ \A w, t, at : Continue(w, t, at) => File!Continue(w, t, at)
    /\ \A w, t : NextRequest(w, t) => File!NextRequest(w, t)
    /\ \A w, t : Replay(w, t) => File!Replay(w, t)
BY SameHelpers DEF Abort, File!Abort, Continue, File!Continue, NextRequest, File!NextRequest,
       Replay, File!Replay, tables, File!tables

LEMMA SameStatements ==
    ASSUME NEW w \in Writers, Statement(w)
    PROVE  File!Next
<1>1. CASE SelectHead(w)
  <2>1. File!SelectHead(w)
    BY <1>1, SameHelpers, SameBlockers, SameEndings
       DEF SelectHead, File!SelectHead, VisibleHead, File!VisibleHead, NoRow, File!NoRow,
           NoRevision, File!NoRevision
  <2>. QED  BY <2>1 DEF File!Next
<1>2. CASE SelectRow(w)
  <2>1. File!SelectRow(w)
    BY <1>2, SameHelpers, SameEndings
       DEF SelectRow, File!SelectRow, Identical, File!Identical, HeadBehind, File!HeadBehind,
           CasHolds, File!CasHolds
  <2>. QED  BY <2>1 DEF File!Next
<1>3. CASE InsertRow(w)
  <2>1. File!InsertRow(w)
    BY <1>3, SameHelpers, SameBlockers, SameEndings
       DEF InsertRow, File!InsertRow, RevisionTaken, File!RevisionTaken, UniqueViolation,
           File!UniqueViolation
  <2>. QED  BY <2>1 DEF File!Next
<1>4. CASE WriteHead(w)
  <2>1. File!WriteHead(w)
    BY <1>4, SameHelpers, SameBlockers, SameEndings
       DEF WriteHead, File!WriteHead, Target, File!Target
  <2>. QED  BY <2>1 DEF File!Next
<1>5. CASE RepairHead(w)
  <2>1. File!RepairHead(w)
    BY <1>5, SameHelpers, SameBlockers, SameEndings DEF RepairHead, File!RepairHead
  <2>. QED  BY <2>1 DEF File!Next
<1>6. CASE UpsertFingerprint(w)
  <2>1. File!UpsertFingerprint(w)
    BY <1>6, SameHelpers, SameBlockers, SameEndings
       DEF UpsertFingerprint, File!UpsertFingerprint
  <2>. QED  BY <2>1 DEF File!Next
<1>7. CASE CommitTx(w)
  <2>1. File!CommitTx(w)
    BY <1>7, SameHelpers
       DEF CommitTx, File!CommitTx, VisibleHead, File!VisibleHead, NoRow, File!NoRow,
           NoRevision, File!NoRevision
  <2>. QED  BY <2>1 DEF File!Next
<1>. QED  BY <1>1, <1>2, <1>3, <1>4, <1>5, <1>6, <1>7 DEF Statement

-----------------------------------------------------------------------------

LEMMA PoolStepsAreFileSteps ==
    ASSUME PoolInv, [PoolNext]_poolVars
    PROVE  [File!Next]_File!vars
<1>1. ASSUME NEW w \in Writers, BeginShared(w) PROVE File!Next
  <2>1. checkout[w] = "permit" /\ memory
    BY <1>1 DEF BeginShared, PoolInv
  <2>2. \A v \in Writers : ~File!Active(v)
    BY <2>1, SameHelpers DEF PoolInv, OnePermit, OnConnection
  <2>3. \A q : Plannable(q) => File!Plannable(q)
    BY DEF Plannable, File!Plannable, NoRevision, File!NoRevision
  <2>4. Requests = File!Requests
    BY DEF Requests, File!Requests, NoRevision, File!NoRevision
  <2>5. File!Begin(w)
    BY <1>1, <2>2, <2>3, <2>4, SameHelpers DEF BeginShared, Begin, File!Begin, tables, File!tables
  <2>. QED  BY <1>1, <2>5 DEF File!Next, File!Call, BeginShared, Begin
<1>2. ASSUME NEW w \in Writers, Inside(w) PROVE File!Next
  <2>1. CASE Statement(w)
    BY <2>1, SameStatements
  <2>2. CASE Crash(w)
    <3>1. File!Crash(w)
      BY <2>2, SameEndings DEF Crash, File!Crash
    <3>. QED  BY <3>1 DEF File!Next
  <2>. QED  BY <1>2, <2>1, <2>2 DEF Inside
<1>3. ASSUME NEW w \in Writers, Answer(w) PROVE File!Next
  <2>1. \A t, i : ResultAt(t, i) = File!ResultAt(t, i)
    BY DEF ResultAt, File!ResultAt, Target, File!Target
  <2>2. File!Ack(w)
    BY <1>3, <2>1, SameHelpers DEF Answer, Ack, File!Ack, tables, File!tables
  <2>. QED  BY <2>2 DEF File!Next
<1>4. ASSUME NEW w \in Writers, Acquire(w) \/ ConnectFails(w) \/ Return(w)
      PROVE  UNCHANGED File!vars
  BY <1>4 DEF Acquire, ConnectFails, Return, vars, File!vars
<1>5. ASSUME UNCHANGED poolVars PROVE UNCHANGED File!vars
  BY <1>5 DEF poolVars, vars, File!vars
<1>. QED  BY <1>1, <1>2, <1>3, <1>4, <1>5 DEF PoolNext

(* The shared connection serializes as BEGIN IMMEDIATE does: what the      *)
(* file store promises holds of ":memory:" as well.                        *)
THEOREM PoolImplementsFile == PoolSpec => BehavesLikeFile
<1>1. PoolInit => File!Init
  BY SameHelpers DEF PoolInit, Init, File!Init, NoRow, File!NoRow, NoRevision, File!NoRevision
<1>2. PoolInv /\ [PoolNext]_poolVars => [File!Next]_File!vars
  BY PoolStepsAreFileSteps
<1>3. PoolSpec => []PoolInv
  BY PoolStarts, PoolSteps, PTL DEF PoolSpec
<1>. QED  BY <1>1, <1>2, <1>3, PTL DEF PoolSpec, BehavesLikeFile, File!Spec

=============================================================================
