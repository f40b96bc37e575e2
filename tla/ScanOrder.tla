------------------------------ MODULE ScanOrder ------------------------------
(***************************************************************************)
(* The total order of the log and the watermark of a scan, as the          *)
(* prototypes of the derived projections have them (p02_seq_gap.py,        *)
(* p05_xid_reset_restore.py, p08_xmin_and_xid_timing.py).                  *)
(*                                                                         *)
(* Writers insert rows in transactions that overlap, one row each: the     *)
(* order is the primary key of the prototypes' tables, so no two rows      *)
(* share a place, and the tie-break among the rows of a batch, which p02's *)
(* finding adds in words, does not arise. A projection reads what lies     *)
(* beyond its cursor and moves the cursor to the last row it read. In      *)
(* Postgres the order of a row is the id of its transaction, and a scan    *)
(* stops below the oldest transaction in flight on the cluster. The        *)
(* counter of those ids is local to a cluster: a dump restored into a      *)
(* fresh one meets rows of the future, which the epoch is there to mend.   *)
(***************************************************************************)
EXTENDS Integers, Sequences, FiniteSets, SequencesExt

CONSTANTS
    Writers,
    Keys,            \* aggregates of the log
    Backends,        \* those of {"postgres", "sqlite"} a behaviour may be of
    MaxRevision,     \* bound: revisions 0 .. MaxRevision
    MaxXid,          \* bound: transaction ids 1 .. MaxXid
    MaxRestores      \* bound: dumps restored

ASSUME ScanAssumption ==
    /\ Backends \subseteq {"postgres", "sqlite"} /\ Backends # {} /\ Keys # {}
    /\ MaxRevision \in Nat /\ MaxXid \in Nat \ {0} /\ MaxRestores \in Nat

VARIABLES
    backend,
    rows,       \* the committed rows
    tx,         \* [Writers -> transactions]
    nextXid,    \* the cluster's transaction id counter
    foreign,    \* xid of a write transaction of another database, or NoXid
    epoch,      \* the live epoch
    restores,
    reset,      \* "none", "open" after a restore that set the counter back,
                \* "waiting" while a migration waits for the table,
                \* "missed" once it has found nothing to mend
    cursor,     \* <<epoch, seq>> of the last row the projection has read
    seen        \* [Keys -> Seq(revisions)], what it has read

vars == <<backend, rows, tx, nextXid, foreign, epoch, restores, reset, cursor, seen>>

NoXid == 0
Revisions == 0 .. MaxRevision

(* cluster: how many restores had happened when the row was written.       *)
Rows == [key : Keys, rev : Revisions, epoch : 0 .. MaxRestores,
         seq : 1 .. MaxXid, cluster : 0 .. MaxRestores]

Txs == [at : {"idle", "cas", "inserted"}, key : Keys, rev : Revisions,
        xid : 0 .. MaxXid, seq : 0 .. MaxXid]
Idle == [at |-> "idle", key |-> CHOOSE k \in Keys : TRUE, rev |-> 0, xid |-> NoXid, seq |-> 0]

Init ==
    /\ backend \in Backends
    /\ rows = {} /\ tx = [w \in Writers |-> Idle]
    /\ nextXid = 1 /\ foreign = NoXid
    /\ epoch = 0 /\ restores = 0 /\ reset = "none"
    /\ cursor = <<0, 0>> /\ seen = [k \in Keys |-> <<>>]

-----------------------------------------------------------------------------
(* The order of the log.                                                   *)

Place(row) == <<row.epoch, row.seq>>
Before(p, q) == p[1] < q[1] \/ (p[1] = q[1] /\ p[2] < q[2])

Least(S) == CHOOSE m \in S : \A n \in S : m <= n
Greatest(S) == CHOOSE m \in S : \A n \in S : m >= n

InFlight == ({tx[w].xid : w \in Writers} \cup {foreign}) \ {NoXid}

(* pg_snapshot_xmin: no id below it belongs to a transaction in flight, in *)
(* any database of the cluster.  A read-only transaction has no id.        *)
Xmin == Least(InFlight \cup {nextXid})

(* The id an insert runs under: the one the transaction has, or a new one. *)
XidOf(w) == IF tx[w].xid = NoXid THEN nextXid ELSE tx[w].xid

Position(w) ==
    IF backend = "sqlite" THEN Greatest({r.seq : r \in rows} \cup {0}) + 1 ELSE XidOf(w)

Unguarded(row) == TRUE
GuardedInEveryEpoch(row) == backend = "sqlite" \/ row.seq < Xmin

(* SQLite commits in the order it inserts.  Rows of a closed epoch are all *)
(* committed.                                                              *)
BelowWatermark(row) ==
    backend = "sqlite" \/ row.epoch < epoch \/ row.seq < Xmin

Visible == {row \in rows : Before(cursor, Place(row)) /\ BelowWatermark(row)}

LatestOf(S) == CHOOSE r \in S : \A s \in S \ {r} : Before(Place(s), Place(r))

InOrder(S) ==
    CHOOSE s \in SetToSeqs(S) : \A i, j \in DOMAIN s : i < j => Before(Place(s[i]), Place(s[j]))

-----------------------------------------------------------------------------
(* Writers.                                                                *)

HeadOf(k) == Cardinality({r \in rows : r.key = k})

(* Who has locked the head row of k, or holds SQLite's write lock.         *)
Blocked(w, k) ==
    \E v \in Writers \ {w} :
        /\ tx[v].at # "idle"
        /\ backend = "sqlite" \/ (tx[v].key = k /\ tx[v].rev > 0 /\ HeadOf(k) > 0)

(* The head read with FOR UPDATE: a change locks the row and is given its  *)
(* xid here; a create finds no row, and none.                              *)
Cas(w, k) ==
    /\ tx[w].at = "idle" /\ ~Blocked(w, k) /\ reset # "waiting" /\ HeadOf(k) <= MaxRevision
    /\ LET changes == backend = "postgres" /\ HeadOf(k) > 0
       IN  /\ changes => nextXid <= MaxXid
           /\ nextXid' = IF changes THEN nextXid + 1 ELSE nextXid
           /\ tx' = [tx EXCEPT ![w] =
                [at |-> "cas", key |-> k, rev |-> HeadOf(k),
                 xid |-> IF changes THEN nextXid ELSE NoXid, seq |-> 0]]
    /\ UNCHANGED <<backend, rows, foreign, epoch, restores, reset, cursor, seen>>

(* The unique indices make an insert wait for another one of the same row, *)
(* and refuse a row or a place that is taken.                              *)
Insert(w) ==
    LET t == tx[w]
    IN  /\ t.at = "cas" /\ HeadOf(t.key) = t.rev
        /\ \A v \in Writers \ {w} : ~(tx[v].at = "inserted" /\ tx[v].key = t.key)
        /\ Position(w) <= MaxXid
        /\ \A r \in rows : Place(r) # <<epoch, Position(w)>>
        /\ IF backend = "sqlite"
           THEN /\ tx' = [tx EXCEPT ![w].at = "inserted", ![w].seq = Position(w)]
                /\ UNCHANGED nextXid
           ELSE /\ tx' = [tx EXCEPT ![w].at = "inserted", ![w].seq = Position(w), ![w].xid = XidOf(w)]
                /\ nextXid' = IF t.xid = NoXid THEN nextXid + 1 ELSE nextXid
        /\ UNCHANGED <<backend, rows, foreign, epoch, restores, reset, cursor, seen>>

Commit(w) ==
    /\ tx[w].at = "inserted"
    /\ rows' = rows \cup {[key |-> tx[w].key, rev |-> tx[w].rev, epoch |-> epoch,
                           seq |-> tx[w].seq, cluster |-> restores]}
    /\ tx' = [tx EXCEPT ![w] = Idle]
    /\ UNCHANGED <<backend, nextXid, foreign, epoch, restores, reset, cursor, seen>>

(* A conflict, an error or the writer's end: the transaction leaves no     *)
(* trace but the id it was given.                                          *)
Rollback(w) ==
    /\ tx[w].at # "idle"
    /\ tx' = [tx EXCEPT ![w] = Idle]
    /\ UNCHANGED <<backend, rows, nextXid, foreign, epoch, restores, reset, cursor, seen>>

(* A transaction of another database writes, and ends.                     *)
ForeignBegins ==
    /\ backend = "postgres" /\ foreign = NoXid /\ nextXid <= MaxXid
    /\ foreign' = nextXid /\ nextXid' = nextXid + 1
    /\ UNCHANGED <<backend, rows, tx, epoch, restores, reset, cursor, seen>>

ForeignEnds ==
    /\ foreign # NoXid /\ foreign' = NoXid
    /\ UNCHANGED <<backend, rows, tx, nextXid, epoch, restores, reset, cursor, seen>>

-----------------------------------------------------------------------------
(* The projection and the operator.                                        *)

(* One snapshot, from which both the rows and the watermark are read.      *)
Scan ==
    /\ Visible # {}
    /\ cursor' = Place(LatestOf(Visible))
    /\ seen' = [k \in Keys |->
         LET read == InOrder({r \in Visible : r.key = k})
         IN  seen[k] \o [i \in DOMAIN read |-> read[i].rev]]
    /\ UNCHANGED <<backend, rows, tx, nextXid, foreign, epoch, restores, reset>>

(* pg_dump into a fresh cluster: the rows as they are, no transaction, a   *)
(* counter that starts lower.                                              *)
Restore ==
    /\ backend = "postgres" /\ restores < MaxRestores /\ rows # {}
    /\ \E c \in 1 .. Greatest({r.seq : r \in rows}) : nextXid' = c
    /\ restores' = restores + 1 /\ reset' = "open"
    /\ tx' = [w \in Writers |-> Idle] /\ foreign' = NoXid
    /\ UNCHANGED <<backend, rows, epoch, cursor, seen>>

(* ALTER TABLE asks for the table's exclusive lock: transactions that have *)
(* touched the table end first, and no other one overtakes it.             *)
MigrationWaits ==
    /\ reset = "open" /\ reset' = "waiting"
    /\ UNCHANGED <<backend, rows, tx, nextXid, foreign, epoch, restores, cursor, seen>>

(* It compares the counter with the highest order recorded; the rows       *)
(* written since the restore go to a new epoch.                            *)
Migrate ==
    /\ reset = "waiting" /\ \A w \in Writers : tx[w].at = "idle"
    /\ IF Xmin < Greatest({r.seq : r \in rows})
       THEN /\ epoch' = epoch + 1 /\ reset' = "none"
            /\ rows' = {IF r.cluster = restores THEN [r EXCEPT !.epoch = epoch'] ELSE r : r \in rows}
       ELSE /\ reset' = "missed" /\ UNCHANGED <<epoch, rows>>
    /\ UNCHANGED <<backend, tx, nextXid, foreign, restores, cursor, seen>>

Next ==
    \/ \E w \in Writers : (\E k \in Keys : Cas(w, k)) \/ Insert(w) \/ Commit(w) \/ Rollback(w)
    \/ ForeignBegins \/ ForeignEnds \/ Scan
    \/ Restore \/ MigrationWaits \/ Migrate

(* A transaction ends, the projection scans again and again, and a         *)
(* restore is followed by the migration.                                   *)
Fairness ==
    /\ \A w \in Writers : WF_vars(Commit(w)) /\ WF_vars(Rollback(w))
    /\ WF_vars(ForeignEnds) /\ WF_vars(Scan) /\ WF_vars(MigrationWaits) /\ WF_vars(Migrate)

Spec == Init /\ [][Next]_vars /\ Fairness

-----------------------------------------------------------------------------
(* Properties.                                                             *)

(* Every variable keeps its type.                                          *)
TypeOK ==
    /\ backend \in Backends
    /\ rows \subseteq Rows /\ tx \in [Writers -> Txs]
    /\ nextXid \in 1 .. MaxXid + 1 /\ foreign \in 0 .. MaxXid
    /\ epoch \in 0 .. restores /\ restores \in 0 .. MaxRestores
    /\ reset \in {"none", "open", "waiting", "missed"}
    /\ cursor \in (0 .. MaxRestores) \X (0 .. MaxXid)
    /\ seen \in [Keys -> Seq(Revisions)]

WasSeen(k, n) == \E i \in DOMAIN seen[k] : seen[k][i] = n

(* The row was written after a restore, and no migration has come since to *)
(* give it an epoch apart from those of the clusters before.               *)
Unmended(r) == \E s \in rows : s.epoch = r.epoch /\ s.cluster < r.cluster

(* A row is not committed below the cursor: whatever lies there has been   *)
(* read, however the transactions overlap, once a restore has been mended. *)
NothingDropped ==
    \A r \in rows : Unmended(r) \/ WasSeen(r.key, r.rev) \/ Before(cursor, Place(r))

(* As long as the counter has never been set back, the projection reads    *)
(* the revisions of an aggregate once, in their order and without a gap,   *)
(* though creates and changes are given their ids at different moments.    *)
SeenInOrder ==
    restores = 0 => \A k \in Keys : \A i \in DOMAIN seen[k] : seen[k][i] = i - 1

(* A scan is whole and in order wherever the cursor stands.                *)
ScanIsWhole == TypeOK /\ NothingDropped /\ SeenInOrder

(* The watermark only delays: a committed row is read, unless a migration  *)
(* came when the counter had passed the old rows and found nothing.        *)
EverythingIsRead ==
    \A k \in Keys, n \in Revisions :
        (\E r \in rows : r.key = k /\ r.rev = n) ~> (WasSeen(k, n) \/ reset = "missed")

=============================================================================
