--------------------------- MODULE ScanOrderProofs ---------------------------
(* For any number of writers, aggregates, transactions and restores, on    *)
(* both backends: the watermark keeps a scan from passing over a row, and  *)
(* a cluster that is never restored is read revision by revision.          *)
EXTENDS ScanOrder, FiniteSetTheorems, NaturalsInduction, SequenceTheorems, WellFoundedInduction, TLAPS

-----------------------------------------------------------------------------
(* Least elements, and sets in the order of their places.                  *)

LEMMA LeastExists ==
    ASSUME NEW T, T \subseteq Nat, T # {}
    PROVE  \E x \in T : \A y \in T : x <= y
<1>1. PICK x \in T : \A y \in T : ~(<<y, x>> \in OpToRel(<, Nat))
  BY NatLessThanWellFounded, WFMin
<1>2. \A y \in T : ~(y < x)
  BY <1>1 DEF OpToRel
<1>. QED  BY <1>2

LEMMA LeastIs ==
    ASSUME NEW T, T \subseteq Nat, T # {}
    PROVE  Least(T) \in T /\ \A y \in T : Least(T) <= y
BY LeastExists DEF Least

LEMMA GreatestIs ==
    ASSUME NEW T, T \subseteq Nat, T # {}, NEW bound \in Nat, \A y \in T : y <= bound
    PROVE  Greatest(T) \in T /\ \A y \in T : Greatest(T) >= y
<1>. DEFINE Over == {n \in Nat : \A y \in T : y <= n}
<1>1. PICK n \in Over : \A m \in Over : n <= m
  BY LeastExists
<1>2. n \in T
  <2>. SUFFICES ASSUME n \notin T PROVE FALSE
    OBVIOUS
  <2>1. \A y \in T : y <= n - 1
    BY <1>1
  <2>2. n # 0
    <3>1. PICK y \in T : TRUE
      OBVIOUS
    <3>. QED  BY <2>1, <3>1
  <2>3. n - 1 \in Over
    BY <1>1, <2>1, <2>2
  <2>. QED  BY <1>1, <2>3
<1>3. \A y \in T : n >= y
  BY <1>1
<1>. QED  BY <1>2, <1>3 DEF Greatest

Places == Nat \X Nat

LEMMA BeforeIsOrder ==
    ASSUME NEW p \in Places, NEW q \in Places, NEW r \in Places
    PROVE  /\ ~Before(p, p) /\ (Before(p, q) \/ Before(q, p) \/ p = q)
           /\ Before(p, q) => ~Before(q, p)
           /\ Before(p, q) /\ Before(q, r) => Before(p, r)
BY DEF Places, Before

(* Every element has a place of its own.                                   *)
Placed(S) ==
    /\ \A r \in S : Place(r) \in Places
    /\ \A r, s \in S : Place(r) = Place(s) => r = s

LEMMA FirstExists ==
    ASSUME NEW S, Placed(S), S # {}
    PROVE  \E r \in S : \A s \in S \ {r} : Before(Place(r), Place(s))
<1>1. \A r \in S : Place(r)[1] \in Nat /\ Place(r)[2] \in Nat
  BY DEF Placed, Places
<1>. DEFINE E == {Place(r)[1] : r \in S}
<1>2. E \subseteq Nat /\ E # {}
  BY <1>1
<1>3. PICK e \in E : \A f \in E : e <= f
  BY <1>2, LeastExists
<1>. DEFINE Q == {Place(r)[2] : r \in {s \in S : Place(s)[1] = e}}
<1>4. Q \subseteq Nat /\ Q # {}
  BY <1>1, <1>3
<1>5. PICK q \in Q : \A p \in Q : q <= p
  BY <1>4, LeastExists
<1>6. PICK r \in S : Place(r)[1] = e /\ Place(r)[2] = q
  BY <1>5
<1>7. ASSUME NEW s \in S \ {r} PROVE Before(Place(r), Place(s))
  <2>1. /\ Place(r) = <<Place(r)[1], Place(r)[2]>> /\ Place(s) = <<Place(s)[1], Place(s)[2]>>
        /\ Place(r) # Place(s)
    BY DEF Placed, Place
  <2>2. e <= Place(s)[1]
    BY <1>3
  <2>3. Place(s)[1] = e => q <= Place(s)[2]
    BY <1>5
  <2>. QED  BY <1>1, <1>6, <2>1, <2>2, <2>3 DEF Before
<1>. QED  BY <1>7

Sorted(s) == \A i, j \in DOMAIN s : i < j => Before(Place(s[i]), Place(s[j]))

(* A finite set can be put in order: otherwise take a smallest one that    *)
(* cannot, and put its first element before the rest.                      *)
LEMMA SortedExists ==
    ASSUME NEW S, IsFiniteSet(S), Placed(S)
    PROVE  \E s \in SetToSeqs(S) : Sorted(s)
<1>. DEFINE Bad == {n \in Nat : \E T \in SUBSET S :
                       Cardinality(T) = n /\ ~\E s \in SetToSeqs(T) : Sorted(s)}
<1>0. Cardinality(S) \in Nat
  BY FS_CardinalityType
<1>. SUFFICES ASSUME Bad # {} PROVE FALSE
  BY <1>0
<1>1. PICK n \in Bad : \A m \in Bad : n <= m
  BY LeastExists
<1>2. PICK T \in SUBSET S : Cardinality(T) = n /\ ~\E s \in SetToSeqs(T) : Sorted(s)
  BY <1>1
<1>3. IsFiniteSet(T) /\ Placed(T) /\ n \in Nat
  BY <1>1, FS_Subset DEF Placed
<1>4. T # {}
  <2>. SUFFICES ASSUME T = {} PROVE FALSE
    OBVIOUS
  <2>1. n = 0
    BY <1>2, FS_EmptySet
  <2>2. <<>> \in SetToSeqs(T) /\ Sorted(<<>>)
    BY <1>2, <2>1 DEF SetToSeqs, Sorted
  <2>. QED  BY <1>2, <2>2
<1>5. PICK r \in T : \A s \in T \ {r} : Before(Place(r), Place(s))
  BY <1>3, <1>4, FirstExists
<1>6. Cardinality(T \ {r}) = n - 1 /\ n - 1 \in Nat /\ T \ {r} \in SUBSET S
  <2>1. Cardinality(T \ {r}) = n - 1 /\ IsFiniteSet(T \ {r})
    BY <1>2, <1>3, FS_RemoveElement
  <2>2. Cardinality(T \ {r}) \in Nat
    BY <2>1, FS_CardinalityType
  <2>. QED  BY <2>1, <2>2
<1>7. n - 1 \notin Bad
  BY <1>1, <1>6
<1>8. PICK q \in SetToSeqs(T \ {r}) : Sorted(q)
  BY <1>6, <1>7
<1>9. /\ q \in [1 .. n - 1 -> T \ {r}]
      /\ \A i, j \in 1 .. n - 1 : i # j => q[i] # q[j]
      /\ \A i, j \in 1 .. n - 1 : i < j => Before(Place(q[i]), Place(q[j]))
  BY <1>6, <1>8 DEF SetToSeqs, Sorted
<1>. DEFINE s == [i \in 1 .. n |-> IF i = 1 THEN r ELSE q[i - 1]]
<1>10. \A i \in 1 .. n : i # 1 => i - 1 \in 1 .. n - 1 /\ s[i] = q[i - 1] /\ s[i] \in T \ {r}
  BY <1>3, <1>9
<1>11. s[1] = r /\ s \in [1 .. n -> T]
  BY <1>3, <1>6, <1>10
<1>. HIDE DEF s
<1>12. \A i, j \in 1 .. n : i # j => s[i] # s[j]
  <2>. SUFFICES ASSUME NEW i \in 1 .. n, NEW j \in 1 .. n, i # j PROVE s[i] # s[j]
    OBVIOUS
  <2>1. CASE i = 1 \/ j = 1
    BY <1>10, <1>11, <2>1
  <2>2. CASE i # 1 /\ j # 1
    <3>1. i - 1 \in 1 .. n - 1 /\ j - 1 \in 1 .. n - 1 /\ i - 1 # j - 1
      BY <1>3, <1>10, <2>2
    <3>. QED  BY <1>9, <1>10, <2>2, <3>1
  <2>. QED  BY <2>1, <2>2
<1>13. \A i, j \in 1 .. n : i < j => Before(Place(s[i]), Place(s[j]))
  <2>. SUFFICES ASSUME NEW i \in 1 .. n, NEW j \in 1 .. n, i < j
                PROVE  Before(Place(s[i]), Place(s[j]))
    OBVIOUS
  <2>1. CASE i = 1
    BY <1>3, <1>5, <1>10, <1>11, <2>1
  <2>2. CASE i # 1
    <3>1. i - 1 \in 1 .. n - 1 /\ j - 1 \in 1 .. n - 1 /\ i - 1 < j - 1 /\ j # 1
      BY <1>3, <1>10, <2>2
    <3>. QED  BY <1>9, <1>10, <2>2, <3>1
  <2>. QED  BY <2>1, <2>2
<1>14. s \in SetToSeqs(T) /\ Sorted(s)
  <2>1. DOMAIN s = 1 .. n
    BY <1>11
  <2>. QED  BY <1>2, <1>11, <1>12, <1>13, <2>1 DEF SetToSeqs, Sorted
<1>. QED  BY <1>2, <1>14

(* InOrder is such an order, and lists every element.                      *)
LEMMA InOrderIs ==
    ASSUME NEW S, IsFiniteSet(S), Placed(S)
    PROVE  /\ Cardinality(S) \in Nat /\ InOrder(S) \in [1 .. Cardinality(S) -> S]
           /\ \A r \in S : \E i \in 1 .. Cardinality(S) : InOrder(S)[i] = r
           /\ \A i, j \in 1 .. Cardinality(S) :
                 i < j => Before(Place(InOrder(S)[i]), Place(InOrder(S)[j]))
<1>1. PICK n : n = Cardinality(S)
  OBVIOUS
<1>2. n \in Nat
  BY <1>1, FS_CardinalityType
<1>3. PICK s : s = InOrder(S)
  OBVIOUS
<1>4. s \in SetToSeqs(S) /\ Sorted(s)
  BY <1>3, SortedExists DEF InOrder, Sorted
<1>5. s \in [1 .. n -> S] /\ \A i, j \in 1 .. n : i # j => s[i] # s[j]
  BY <1>1, <1>4 DEF SetToSeqs
<1>6. s \in Injection(1 .. n, S)
  BY <1>5 DEF Injection, IsInjective
<1>7. Cardinality(1 .. n) = n
  BY <1>2, FS_Interval
<1>8. s \in Surjection(1 .. n, S)
  BY <1>1, <1>6, <1>7, FS_Injection
<1>. QED  BY <1>1, <1>2, <1>3, <1>4, <1>5, <1>8 DEF Surjection, Sorted

(* The last in order comes after all others.                               *)
LEMMA LatestIs ==
    ASSUME NEW S, IsFiniteSet(S), Placed(S), S # {}
    PROVE  LatestOf(S) \in S /\ \A s \in S \ {LatestOf(S)} : Before(Place(s), Place(LatestOf(S)))
<1>0. PICK n, q : n = Cardinality(S) /\ q = InOrder(S)
  OBVIOUS
<1>1. /\ n \in Nat /\ q \in [1 .. n -> S]
      /\ \A r \in S : \E i \in 1 .. n : q[i] = r
      /\ \A i, j \in 1 .. n : i < j => Before(Place(q[i]), Place(q[j]))
  BY <1>0, InOrderIs
<1>2. n \in 1 .. n
  BY <1>1
<1>3. \A s \in S \ {q[n]} : Before(Place(s), Place(q[n]))
  BY <1>1, <1>2
<1>. QED  BY <1>1, <1>2, <1>3 DEF LatestOf

-----------------------------------------------------------------------------
(***************************************************************************)
(* The inductive invariant.                                                *)

(* No two rows have one place, and none lies beyond what is live.          *)
LogOK ==
    /\ IsFiniteSet(rows)
    /\ \A r, s \in rows : Place(r) = Place(s) => r = s
    /\ \A r \in rows :
          /\ r.epoch <= epoch /\ r.cluster <= restores
          /\ r.cluster = restores => r.epoch = epoch /\ (backend = "postgres" => r.seq < nextXid)

(* Only a restore, which only Postgres has, leaves an epoch to open.       *)
MendOK ==
    /\ reset \in {"open", "waiting"} => epoch < restores
    /\ backend = "sqlite" => restores = 0 /\ foreign = NoXid
    /\ foreign < nextXid

(* Ids are handed out once as long as the counter is not set back, and the *)
(* place of a row about to be committed is free.                           *)
TxOK(w) ==
    LET t == tx[w]
    IN  /\ t.at = "idle" => t.xid = NoXid
        /\ t.xid < nextXid
        /\ \A v \in Writers \ {w} : t.xid # NoXid => tx[v].xid # t.xid
        /\ t.at = "inserted" =>
              t.seq \in 1 .. MaxXid /\ \A r \in rows : Place(r) # <<epoch, t.seq>>
        /\ backend = "postgres" => (t.at = "inserted" => t.xid # NoXid /\ t.seq = t.xid)
        /\ backend = "sqlite" =>
              /\ t.xid = NoXid
              /\ t.at # "idle" => \A v \in Writers \ {w} : tx[v].at = "idle"
              /\ t.at = "inserted" => \A r \in rows : r.seq < t.seq

TxsOK == \A w \in Writers : TxOK(w)

(* The cursor is at a row, unless that row has been given another epoch;   *)
(* and where the live epoch has no row of another cluster it is below      *)
(* every transaction in flight and to come.                                *)
CursorOK ==
    /\ cursor[1] <= epoch
    /\ \/ cursor = <<0, 0>> \/ cursor[1] < epoch
       \/ \E r \in rows : Place(r) = cursor
    /\ backend = "postgres" /\ cursor[1] = epoch
       /\ (\A r \in rows : r.epoch = epoch => r.cluster = restores)
          => cursor[2] < Xmin

PlaceInv == TypeOK /\ LogOK /\ MendOK /\ TxsOK /\ CursorOK /\ NothingDropped

(* As long as the counter has never been set back: the rows of an          *)
(* aggregate are its revisions, in the order of their places,              *)
RevisionsOK ==
    /\ \A r \in rows : r.rev < HeadOf(r.key)
    /\ \A k \in Keys : \A n \in 0 .. HeadOf(k) - 1 : \E r \in rows : r.key = k /\ r.rev = n
    /\ \A r, s \in rows :
          r.key = s.key => (r.rev < s.rev => r.seq < s.seq) /\ (r.rev = s.rev => r = s)

(* a transaction that may still commit has a place behind them all,        *)
OpenOK(w) ==
    LET t == tx[w]
    IN  /\ t.at # "idle" => t.rev <= HeadOf(t.key)
        /\ t.at = "inserted" =>
              /\ t.rev = HeadOf(t.key)
              /\ \A r \in rows : r.key = t.key => r.seq < t.seq
              /\ \A v \in Writers \ {w} : tx[v].at = "inserted" => tx[v].key # t.key
        /\ t.at = "cas" /\ backend = "postgres" /\ t.rev > 0 =>
              /\ t.xid # NoXid
              /\ t.rev = HeadOf(t.key) => \A r \in rows : r.key = t.key => r.seq < t.xid

(* and what has been read of it are the revisions up to the cursor.        *)
SeenOK(k) ==
    /\ \A i \in DOMAIN seen[k] : seen[k][i] = i - 1
    /\ \A r \in rows : r.key = k => (r.rev < Len(seen[k]) <=> ~Before(cursor, Place(r)))
    /\ Len(seen[k]) <= HeadOf(k)

OrderInv ==
    restores = 0 =>
       RevisionsOK /\ (\A w \in Writers : OpenOK(w)) /\ (\A k \in Keys : SeenOK(k))

IInv == PlaceInv /\ OrderInv

-----------------------------------------------------------------------------
(* What the types say of rows, transactions and the watermark.             *)

LEMMA Types ==
    ASSUME TypeOK
    PROVE  /\ MaxXid \in Nat \ {0} /\ MaxRestores \in Nat /\ MaxRevision \in Nat
           /\ nextXid \in Nat \ {0} /\ foreign \in Nat /\ epoch \in Nat /\ restores \in Nat
           /\ epoch <= restores /\ restores <= MaxRestores /\ foreign <= MaxXid
           /\ backend \in {"postgres", "sqlite"}
           /\ cursor \in Places /\ cursor = <<cursor[1], cursor[2]>>
           /\ cursor[1] \in Nat /\ cursor[2] \in Nat
           /\ \A r \in rows :
                 /\ r.key \in Keys /\ r.rev \in Nat /\ r.epoch \in Nat
                 /\ r.seq \in Nat \ {0} /\ r.seq <= MaxXid /\ r.cluster \in Nat
                 /\ Place(r) \in Places /\ Place(r)[1] = r.epoch /\ Place(r)[2] = r.seq
           /\ \A w \in Writers :
                 /\ tx[w].at \in {"idle", "cas", "inserted"} /\ tx[w].key \in Keys
                 /\ tx[w].rev \in Nat /\ tx[w].rev <= MaxRevision
                 /\ tx[w].xid \in Nat /\ tx[w].seq \in Nat /\ tx[w].seq <= MaxXid
BY ScanAssumption DEF TypeOK, Rows, Txs, Revisions, Places, Place

LEMMA IdleIs == Idle \in Txs /\ Idle.at = "idle" /\ Idle.xid = NoXid
BY ScanAssumption DEF Idle, Txs, Revisions, NoXid

(* The watermark is at or below every id in flight and every id to come.   *)
LEMMA XminIs ==
    ASSUME TypeOK
    PROVE  /\ Xmin \in Nat \ {0} /\ Xmin \in InFlight \cup {nextXid} /\ Xmin <= nextXid
           /\ \A w \in Writers : tx[w].xid # NoXid => Xmin <= tx[w].xid
           /\ foreign # NoXid => Xmin <= foreign
<1>1. InFlight \cup {nextXid} \subseteq Nat \ {0} /\ InFlight \cup {nextXid} # {}
  BY Types DEF InFlight, NoXid
<1>2. /\ Xmin \in InFlight \cup {nextXid}
      /\ \A y \in InFlight \cup {nextXid} : Xmin <= y
  BY <1>1, LeastIs DEF Xmin
<1>. QED  BY <1>1, <1>2 DEF InFlight

LEMMA NextXminIs ==
    ASSUME TypeOK'
    PROVE  Xmin' \in Nat \ {0}
<1>1. nextXid' \in Nat \ {0} /\ foreign' \in Nat /\ \A w \in Writers : tx'[w].xid \in Nat
  BY ScanAssumption DEF TypeOK, Txs
<1>2. InFlight' \cup {nextXid'} \subseteq Nat \ {0} /\ InFlight' \cup {nextXid'} # {}
  BY <1>1 DEF InFlight, NoXid
<1>. QED  BY <1>2, LeastIs DEF Xmin

(* It never goes back as long as no id is handed out twice.                *)
LEMMA XminGrows ==
    ASSUME TypeOK, TypeOK', nextXid' >= nextXid,
           \A w \in Writers : tx'[w].xid \in {NoXid, tx[w].xid} \/ tx'[w].xid >= nextXid,
           foreign' \in {NoXid, foreign} \/ foreign' >= nextXid
    PROVE  Xmin <= Xmin'
<1>1. /\ Xmin \in Nat /\ Xmin <= nextXid /\ nextXid \in Nat /\ nextXid' \in Nat
      /\ \A w \in Writers : tx[w].xid # NoXid => Xmin <= tx[w].xid
      /\ \A w \in Writers : tx'[w].xid \in Nat
      /\ foreign # NoXid => Xmin <= foreign
      /\ foreign' \in Nat
  <2>1. /\ nextXid' \in Nat /\ foreign' \in Nat /\ \A w \in Writers : tx'[w].xid \in Nat
    BY ScanAssumption DEF TypeOK, Txs
  <2>. QED  BY <2>1, XminIs, Types
<1>2. InFlight' \cup {nextXid'} \subseteq Nat /\ InFlight' \cup {nextXid'} # {}
  BY <1>1 DEF InFlight, NoXid
<1>3. Xmin' \in InFlight' \cup {nextXid'}
  BY <1>2, LeastIs DEF Xmin
<1>4. ASSUME NEW y \in InFlight' \cup {nextXid'} PROVE Xmin <= y
  BY <1>1, <1>4 DEF InFlight, NoXid
<1>. QED  BY <1>3, <1>4

(* Rows have places of their own, and so has any part of them.             *)
LEMMA RowsPlaced ==
    ASSUME TypeOK, LogOK, NEW S \in SUBSET rows
    PROVE  Placed(S) /\ IsFiniteSet(S)
BY Types, FS_Subset DEF LogOK, Placed

LEMMA HeadType ==
    ASSUME LogOK, NEW k
    PROVE  HeadOf(k) \in Nat
<1>1. IsFiniteSet({r \in rows : r.key = k})
  BY FS_Subset DEF LogOK
<1>. QED  BY <1>1, FS_CardinalityType DEF HeadOf

-----------------------------------------------------------------------------
(* Types, places and transactions, action by action.                       *)

BaseInv == TypeOK /\ LogOK /\ MendOK /\ TxsOK

LEMMA OneTx ==
    ASSUME TypeOK, NEW w \in Writers, NEW t, tx' = [tx EXCEPT ![w] = t]
    PROVE  tx'[w] = t /\ \A v \in Writers \ {w} : tx'[v] = tx[v]
BY DEF TypeOK

LEMMA GuardedHead ==
    ASSUME LogOK, NEW k, HeadOf(k) <= MaxRevision
    PROVE  HeadOf(k) \in Revisions
BY HeadType, ScanAssumption DEF Revisions

LEMMA CasBase ==
    ASSUME BaseInv, NEW w \in Writers, NEW k \in Keys, Cas(w, k)
    PROVE  BaseInv'
<1>1. PICK changes, xid :
        /\ changes = (backend = "postgres" /\ HeadOf(k) > 0)
        /\ xid = IF changes THEN nextXid ELSE NoXid
        /\ changes => nextXid <= MaxXid
        /\ nextXid' = IF changes THEN nextXid + 1 ELSE nextXid
        /\ tx' = [tx EXCEPT ![w] =
                [at |-> "cas", key |-> k, rev |-> HeadOf(k), xid |-> xid, seq |-> 0]]
  BY DEF Cas
<1>2. PICK t : t = [at |-> "cas", key |-> k, rev |-> HeadOf(k), xid |-> xid, seq |-> 0]
  OBVIOUS
<1>3. t.at = "cas" /\ t.key = k /\ t.rev = HeadOf(k) /\ t.xid = xid /\ t.seq = 0
  BY <1>2
<1>4. HeadOf(k) \in Revisions
  BY GuardedHead DEF Cas, BaseInv
<1>5. xid \in 0 .. MaxXid /\ (xid # NoXid => xid = nextXid /\ changes)
  BY <1>1, Types DEF BaseInv, NoXid
<1>6. t \in Txs
  BY <1>2, <1>4, <1>5, ScanAssumption DEF Txs
<1>7. tx'[w] = t /\ \A v \in Writers \ {w} : tx'[v] = tx[v]
  <2>1. tx' = [tx EXCEPT ![w] = t]
    BY <1>1, <1>2
  <2>. QED  BY <2>1, OneTx DEF BaseInv
<1>8. UNCHANGED <<backend, rows, foreign, epoch, restores, reset, cursor, seen>>
  BY DEF Cas
<1>9. nextXid' \in 1 .. MaxXid + 1 /\ nextXid' >= nextXid
  BY <1>1, ScanAssumption DEF BaseInv, TypeOK
<1>10. TypeOK'
  <2>1. tx' \in [Writers -> Txs]
    BY <1>1, <1>2, <1>6 DEF BaseInv, TypeOK
  <2>. QED  BY <1>8, <1>9, <2>1 DEF BaseInv, TypeOK
<1>11. LogOK' /\ MendOK'
  <2>1. \A r \in rows : r.seq < nextXid => r.seq < nextXid'
    BY <1>9, Types DEF BaseInv
  <2>2. foreign < nextXid'
    BY <1>9, Types DEF BaseInv, MendOK
  <2>. QED  BY <1>8, <2>1, <2>2 DEF BaseInv, LogOK, MendOK, Place
<1>12. TxsOK'
  <2>1. backend = "sqlite" => \A v \in Writers \ {w} : tx[v].at = "idle"
    BY DEF Cas, Blocked
  <2>2. TxOK(w)'
    <3>1. \A v \in Writers : tx[v].xid < nextXid
      BY DEF BaseInv, TxsOK, TxOK
    <3>2. xid < nextXid'
      BY <1>1, <1>5, <1>9, Types DEF BaseInv, NoXid
    <3>3. backend = "sqlite" => xid = NoXid
      BY <1>1, <1>5
    <3>4. \A v \in Writers \ {w} : xid # NoXid => tx[v].xid # xid
      BY <1>5, <3>1, Types DEF BaseInv
    <3>. QED  BY <1>3, <1>7, <1>8, <2>1, <3>2, <3>3, <3>4 DEF TxOK
  <2>3. ASSUME NEW v \in Writers \ {w} PROVE TxOK(v)'
    <3>1. TxOK(v) /\ TxOK(w) /\ tx[w].at = "idle"
      BY DEF BaseInv, TxsOK, Cas
    <3>2. tx[v].xid < nextXid'
      BY <1>9, <3>1, Types DEF BaseInv, TxOK
    <3>3. \A u \in Writers \ {v} : tx[v].xid # NoXid => tx'[u].xid # tx[v].xid
      <4>1. tx[v].xid # NoXid => xid # tx[v].xid
        BY <1>5, <3>1, Types DEF BaseInv, TxOK
      <4>. QED  BY <1>3, <1>7, <3>1, <4>1 DEF TxOK
    <3>4. backend = "sqlite" => tx[v].at = "idle"
      BY <2>1
    <3>. QED  BY <1>7, <1>8, <3>1, <3>2, <3>3, <3>4 DEF TxOK, Place
  <2>. QED  BY <2>2, <2>3 DEF TxsOK
<1>. QED  BY <1>10, <1>11, <1>12 DEF BaseInv

(* The place of an insert: behind all rows on SQLite, and on Postgres an   *)
(* id that no other transaction has.                                       *)
LEMMA PositionIs ==
    ASSUME BaseInv, NEW w \in Writers
    PROVE  /\ Position(w) \in Nat \ {0}
           /\ backend = "sqlite" => \A r \in rows : r.seq < Position(w)
           /\ backend = "postgres" => Position(w) = XidOf(w)
           /\ XidOf(w) \in Nat \ {0}
           /\ XidOf(w) = IF tx[w].xid = NoXid THEN nextXid ELSE tx[w].xid
<1>1. XidOf(w) \in Nat \ {0}
  BY Types DEF BaseInv, XidOf, NoXid
<1>. DEFINE S == {r.seq : r \in rows} \cup {0}
<1>2. S \subseteq Nat /\ S # {} /\ MaxXid \in Nat /\ \A y \in S : y <= MaxXid
  BY Types DEF BaseInv
<1>3. Greatest(S) \in Nat /\ \A y \in S : Greatest(S) >= y
  BY <1>2, GreatestIs
<1>4. CASE backend = "sqlite"
  <2>1. Position(w) = Greatest(S) + 1
    BY <1>4 DEF Position
  <2>2. \A r \in rows : r.seq \in S /\ r.seq \in Nat
    BY Types DEF BaseInv
  <2>. HIDE DEF S
  <2>3. \A r \in rows : r.seq < Position(w)
    BY <1>3, <2>1, <2>2
  <2>4. Position(w) \in Nat \ {0}
    BY <1>3, <2>1
  <2>. QED  BY <1>1, <1>4, <2>3, <2>4 DEF XidOf
<1>5. CASE backend # "sqlite"
  BY <1>1, <1>5, Types DEF BaseInv, Position, XidOf
<1>. QED  BY <1>4, <1>5

LEMMA InsertBase ==
    ASSUME BaseInv, NEW w \in Writers, Insert(w)
    PROVE  BaseInv'
<1>1. PICK t, xid :
        /\ xid = (IF backend = "sqlite" THEN tx[w].xid ELSE XidOf(w))
        /\ t = [at |-> "inserted", key |-> tx[w].key, rev |-> tx[w].rev,
                 xid |-> xid, seq |-> Position(w)]
  OBVIOUS
<1>2. /\ tx[w].at = "cas" /\ Position(w) <= MaxXid
      /\ \A r \in rows : Place(r) # <<epoch, Position(w)>>
      /\ UNCHANGED <<backend, rows, foreign, epoch, restores, reset, cursor, seen>>
  BY DEF Insert
<1>3. tx[w] \in Txs
  BY DEF BaseInv, TypeOK
<1>4. tx' = [tx EXCEPT ![w] = t]
  BY <1>1, <1>3 DEF Insert, Txs
<1>5. /\ t.at = "inserted" /\ t.seq = Position(w) /\ t.xid = xid
      /\ t.key = tx[w].key /\ t.rev = tx[w].rev
  BY <1>1, <1>3 DEF Txs
<1>6. TxOK(w) /\ \A v \in Writers : tx[v].xid < nextXid
  BY DEF BaseInv, TxsOK, TxOK
<1>7. /\ backend = "sqlite" => xid = NoXid /\ nextXid' = nextXid
      /\ backend = "postgres" => xid = Position(w) /\ xid # NoXid
      /\ xid \in {tx[w].xid, nextXid} /\ (xid = nextXid => nextXid' = nextXid + 1)
      /\ nextXid' \in {nextXid, nextXid + 1}
  <2>1. CASE backend = "sqlite"
    BY <1>1, <1>6, <2>1, Types DEF BaseInv, Insert, TxOK, NoXid
  <2>2. CASE backend = "postgres"
    <3>1. nextXid' = IF tx[w].xid = NoXid THEN nextXid + 1 ELSE nextXid
      BY <2>2 DEF Insert
    <3>2. xid = XidOf(w) /\ Position(w) = XidOf(w) /\ XidOf(w) # NoXid
      BY <1>1, <2>2, PositionIs DEF NoXid
    <3>3. tx[w].xid < nextXid /\ nextXid \in Nat /\ tx[w].xid \in Nat
      BY <1>6, Types DEF BaseInv
    <3>. QED  BY <2>2, <3>1, <3>2, <3>3 DEF XidOf
  <2>. QED  BY <2>1, <2>2, Types DEF BaseInv
<1>8. Position(w) \in 1 .. MaxXid /\ xid \in 0 .. MaxXid
  BY <1>2, <1>7, PositionIs, Types DEF BaseInv, NoXid
<1>9. t \in Txs
  <2>1. tx[w].key \in Keys /\ tx[w].rev \in Revisions
    BY <1>3 DEF Txs
  <2>2. Position(w) \in 0 .. MaxXid
    BY <1>8, ScanAssumption
  <2>. QED  BY <1>1, <1>8, <2>1, <2>2 DEF Txs
<1>10. nextXid' >= nextXid /\ nextXid' \in 1 .. MaxXid + 1 /\ xid < nextXid'
  <2>1. nextXid' = nextXid + 1 => nextXid <= MaxXid
    <3>. SUFFICES ASSUME nextXid' = nextXid + 1 PROVE nextXid <= MaxXid
      OBVIOUS
    <3>1. backend = "postgres" /\ tx[w].xid = NoXid
      BY Types DEF BaseInv, Insert
    <3>. QED  BY <1>2, <3>1, PositionIs
  <2>2. tx[w].xid < nextXid
    BY <1>6
  <2>3. nextXid \in 1 .. MaxXid + 1 /\ MaxXid \in Nat /\ tx[w].xid \in Nat
    BY Types DEF BaseInv, TypeOK
  <2>. QED  BY <1>7, <2>1, <2>2, <2>3
<1>11. tx'[w] = t /\ \A v \in Writers \ {w} : tx'[v] = tx[v]
  BY <1>4, OneTx DEF BaseInv
<1>12. TypeOK'
  <2>1. tx' \in [Writers -> Txs]
    BY <1>4, <1>9 DEF BaseInv, TypeOK
  <2>. QED  BY <1>2, <1>10, <2>1 DEF BaseInv, TypeOK
<1>13. LogOK' /\ MendOK'
  <2>1. \A r \in rows : r.seq < nextXid => r.seq < nextXid'
    BY <1>10, Types DEF BaseInv
  <2>2. foreign < nextXid'
    BY <1>10, Types DEF BaseInv, MendOK
  <2>. QED  BY <1>2, <2>1, <2>2 DEF BaseInv, LogOK, MendOK, Place
<1>14. TxsOK'
  <2>1. backend = "sqlite" => \A v \in Writers \ {w} : tx[v].at = "idle"
    BY <1>2, <1>6 DEF TxOK
  <2>2. \A v \in Writers \ {w} : xid # NoXid => tx[v].xid # xid
    <3>1. \A v \in Writers \ {w} : tx[v].xid # nextXid
      BY <1>6, Types DEF BaseInv
    <3>. QED  BY <1>6, <1>7, <3>1 DEF TxOK
  <2>3. TxOK(w)'
    <3>1. backend = "sqlite" => \A r \in rows : r.seq < Position(w)
      BY PositionIs
    <3>. QED  BY <1>2, <1>5, <1>7, <1>8, <1>10, <1>11, <2>1, <2>2, <3>1 DEF TxOK, Place
  <2>4. ASSUME NEW v \in Writers \ {w} PROVE TxOK(v)'
    <3>1. TxOK(v)
      BY DEF BaseInv, TxsOK
    <3>2. tx[v].xid < nextXid'
      BY <1>10, <3>1, Types DEF BaseInv, TxOK
    <3>3. \A u \in Writers \ {v} : tx[v].xid # NoXid => tx'[u].xid # tx[v].xid
      BY <1>5, <1>11, <2>2, <3>1 DEF TxOK
    <3>. QED  BY <1>2, <1>11, <2>1, <3>1, <3>2, <3>3 DEF TxOK, Place
  <2>. QED  BY <2>3, <2>4 DEF TxsOK
<1>. QED  BY <1>12, <1>13, <1>14 DEF BaseInv

LEMMA CommitBase ==
    ASSUME BaseInv, NEW w \in Writers, Commit(w)
    PROVE  BaseInv'
<1>1. PICK new : new = [key |-> tx[w].key, rev |-> tx[w].rev, epoch |-> epoch,
                        seq |-> tx[w].seq, cluster |-> restores]
  OBVIOUS
<1>2. /\ tx[w].at = "inserted" /\ rows' = rows \cup {new}
      /\ UNCHANGED <<backend, nextXid, foreign, epoch, restores, reset, cursor, seen>>
  BY <1>1 DEF Commit
<1>3. tx'[w] = Idle /\ \A v \in Writers \ {w} : tx'[v] = tx[v]
  BY OneTx DEF BaseInv, Commit
<1>4. TxOK(w) /\ tx[w] \in Txs
  BY DEF BaseInv, TxsOK, TypeOK
<1>5. /\ new.epoch = epoch /\ new.seq = tx[w].seq /\ new.cluster = restores
      /\ Place(new) = <<epoch, tx[w].seq>>
  BY <1>1 DEF Place
<1>6. tx[w].seq \in 1 .. MaxXid /\ \A r \in rows : Place(r) # <<epoch, tx[w].seq>>
  BY <1>2, <1>4 DEF TxOK
<1>7. new \in Rows
  <2>1. epoch \in 0 .. MaxRestores /\ restores \in 0 .. MaxRestores
    BY Types DEF BaseInv
  <2>2. tx[w].key \in Keys /\ tx[w].rev \in Revisions
    BY <1>4 DEF Txs
  <2>. QED  BY <1>1, <1>6, <2>1, <2>2 DEF Rows
<1>8. TypeOK'
  <2>1. tx' \in [Writers -> Txs]
    BY IdleIs DEF BaseInv, TypeOK, Commit
  <2>2. rows' \subseteq Rows
    BY <1>2, <1>7 DEF BaseInv, TypeOK
  <2>. QED  BY <1>2, <2>1, <2>2 DEF BaseInv, TypeOK
<1>9. LogOK'
  <2>1. IsFiniteSet(rows')
    BY <1>2, FS_AddElement DEF BaseInv, LogOK
  <2>2. \A r, s \in rows' : Place(r) = Place(s) => r = s
    BY <1>2, <1>5, <1>6 DEF BaseInv, LogOK
  <2>3. backend = "postgres" => new.seq < nextXid
    BY <1>2, <1>4, <1>5 DEF TxOK
  <2>4. epoch <= epoch /\ restores <= restores
    BY Types DEF BaseInv
  <2>. QED  BY <1>2, <1>5, <2>1, <2>2, <2>3, <2>4 DEF BaseInv, LogOK, Place
<1>10. MendOK'
  BY <1>2 DEF BaseInv, MendOK
<1>11. TxsOK'
  <2>1. TxOK(w)'
    BY <1>2, <1>3, IdleIs, Types DEF BaseInv, TxOK, NoXid
  <2>2. ASSUME NEW v \in Writers \ {w} PROVE TxOK(v)'
    <3>1. TxOK(v)
      BY DEF BaseInv, TxsOK
    <3>2. tx[v].at = "inserted" => backend = "postgres" /\ tx[v].seq # tx[w].seq
      BY <1>2, <1>4, <3>1, Types DEF BaseInv, TxOK
    <3>3. tx[v].at = "inserted" => \A r \in rows' : Place(r) # <<epoch, tx[v].seq>>
      BY <1>2, <1>5, <3>1, <3>2 DEF TxOK
    <3>4. backend = "sqlite" => tx[v].at = "idle"
      BY <1>2, <1>4 DEF TxOK
    <3>5. \A u \in Writers \ {v} : tx[v].xid # NoXid => tx'[u].xid # tx[v].xid
      BY <1>3, <3>1, IdleIs DEF TxOK
    <3>6. \A u \in Writers \ {v} : backend = "sqlite" /\ tx[v].at # "idle" => tx'[u].at = "idle"
      BY <3>4
    <3>. QED  BY <1>2, <1>3, <3>1, <3>2, <3>3, <3>4, <3>5, <3>6 DEF TxOK, Place
  <2>. QED  BY <2>1, <2>2 DEF TxsOK
<1>. QED  BY <1>8, <1>9, <1>10, <1>11 DEF BaseInv

LEMMA RollbackBase ==
    ASSUME BaseInv, NEW w \in Writers, Rollback(w)
    PROVE  BaseInv'
<1>1. UNCHANGED <<backend, rows, nextXid, foreign, epoch, restores, reset, cursor, seen>>
  BY DEF Rollback
<1>2. tx'[w] = Idle /\ \A v \in Writers \ {w} : tx'[v] = tx[v]
  BY OneTx DEF BaseInv, Rollback
<1>3. TypeOK'
  <2>1. tx' \in [Writers -> Txs]
    BY IdleIs DEF BaseInv, TypeOK, Rollback
  <2>. QED  BY <1>1, <2>1 DEF BaseInv, TypeOK
<1>4. LogOK' /\ MendOK'
  BY <1>1 DEF BaseInv, LogOK, MendOK, Place
<1>5. TxsOK'
  <2>1. TxOK(w)'
    BY <1>1, <1>2, IdleIs, Types DEF BaseInv, TxOK, NoXid
  <2>2. ASSUME NEW v \in Writers \ {w} PROVE TxOK(v)'
    <3>1. TxOK(v)
      BY DEF BaseInv, TxsOK
    <3>2. \A u \in Writers \ {v} : tx[v].xid # NoXid => tx'[u].xid # tx[v].xid
      BY <1>2, <3>1, IdleIs DEF TxOK
    <3>3. \A u \in Writers \ {v} : backend = "sqlite" /\ tx[v].at # "idle" => tx'[u].at = "idle"
      BY <1>2, <3>1, IdleIs DEF TxOK
    <3>. QED  BY <1>1, <1>2, <3>1, <3>2, <3>3 DEF TxOK, Place
  <2>. QED  BY <2>1, <2>2 DEF TxsOK
<1>. QED  BY <1>3, <1>4, <1>5 DEF BaseInv

(* The steps that leave rows and transactions alone.                       *)
LEMMA CounterBase ==
    ASSUME BaseInv, ForeignBegins \/ ForeignEnds \/ MigrationWaits \/ UNCHANGED vars
    PROVE  BaseInv'
<1>1. /\ UNCHANGED <<backend, rows, tx, epoch, restores, cursor, seen>>
      /\ nextXid' \in 1 .. MaxXid + 1 /\ nextXid' >= nextXid
      /\ foreign' \in 0 .. MaxXid /\ foreign' < nextXid'
      /\ backend = "sqlite" => foreign' = NoXid
      /\ reset' = reset \/ (reset = "open" /\ reset' = "waiting")
  <2>1. CASE ForeignBegins
    BY <2>1, ScanAssumption DEF BaseInv, TypeOK, ForeignBegins
  <2>2. CASE ForeignEnds
    BY <2>2, ScanAssumption DEF BaseInv, TypeOK, ForeignEnds, NoXid, MendOK
  <2>3. CASE MigrationWaits
    BY <2>3, ScanAssumption DEF BaseInv, TypeOK, MigrationWaits, MendOK
  <2>4. CASE UNCHANGED vars
    BY <2>4, ScanAssumption DEF BaseInv, TypeOK, vars, MendOK
  <2>. QED  BY <2>1, <2>2, <2>3, <2>4
<1>2. TypeOK' /\ MendOK'
  BY <1>1 DEF BaseInv, TypeOK, MendOK
<1>3. LogOK'
  <2>1. \A r \in rows : r.seq < nextXid => r.seq < nextXid'
    BY <1>1, Types DEF BaseInv
  <2>. QED  BY <1>1, <2>1 DEF BaseInv, LogOK, Place
<1>4. TxsOK'
  <2>1. \A v \in Writers : tx[v].xid < nextXid => tx[v].xid < nextXid'
    BY <1>1, Types DEF BaseInv
  <2>. QED  BY <1>1, <2>1 DEF BaseInv, TxsOK, TxOK, Place
<1>. QED  BY <1>2, <1>3, <1>4 DEF BaseInv

LEMMA RestoreBase ==
    ASSUME BaseInv, Restore
    PROVE  BaseInv'
<1>1. /\ UNCHANGED <<backend, rows, epoch, cursor, seen>>
      /\ backend = "postgres" /\ restores < MaxRestores /\ rows # {}
      /\ restores' = restores + 1 /\ reset' = "open"
      /\ tx' = [w \in Writers |-> Idle] /\ foreign' = NoXid
      /\ nextXid' \in 1 .. Greatest({r.seq : r \in rows})
  BY DEF Restore
<1>. DEFINE S == {r.seq : r \in rows}
<1>2. S \subseteq Nat /\ S # {} /\ MaxXid \in Nat /\ \A y \in S : y <= MaxXid
  BY <1>1, Types DEF BaseInv
<1>3. Greatest(S) \in Nat /\ Greatest(S) <= MaxXid
  BY <1>2, GreatestIs
<1>4. nextXid' \in 1 .. MaxXid + 1 /\ NoXid < nextXid'
  BY <1>1, <1>2, <1>3 DEF NoXid
<1>5. TypeOK'
  <2>1. tx' \in [Writers -> Txs]
    BY <1>1, IdleIs
  <2>2. foreign' \in 0 .. MaxXid /\ restores' \in 0 .. MaxRestores /\ epoch \in 0 .. restores'
    BY <1>1, Types DEF BaseInv, NoXid
  <2>. QED  BY <1>1, <1>4, <2>1, <2>2 DEF BaseInv, TypeOK
<1>6. LogOK'
  <2>1. \A r \in rows : r.cluster <= restores + 1 /\ r.cluster # restores + 1
    BY Types DEF BaseInv, LogOK
  <2>. QED  BY <1>1, <2>1 DEF BaseInv, LogOK, Place
<1>7. MendOK'
  BY <1>1, <1>4, Types DEF BaseInv, MendOK
<1>8. TxsOK'
  BY <1>1, <1>4, IdleIs DEF TxsOK, TxOK, Place
<1>. QED  BY <1>5, <1>6, <1>7, <1>8 DEF BaseInv

(* The rows written since the restore share the live epoch, and get the    *)
(* next one.                                                               *)
LEMMA MigrateMoves ==
    ASSUME BaseInv, Migrate, epoch' # epoch
    PROVE  /\ epoch' = epoch + 1 /\ epoch' <= restores
           /\ UNCHANGED <<backend, tx, nextXid, foreign, restores, cursor, seen>>
           /\ reset' = "none"
           /\ \A w \in Writers : tx[w].at = "idle"
           /\ \A r \in rows : IF r.cluster = restores THEN [r EXCEPT !.epoch = epoch'] \in rows'
                                                      ELSE r \in rows'
           /\ \A q \in rows' : \E r \in rows :
                 /\ q.key = r.key /\ q.rev = r.rev /\ q.seq = r.seq /\ q.cluster = r.cluster
                 /\ IF r.cluster = restores THEN q = [r EXCEPT !.epoch = epoch'] /\ q.epoch = epoch'
                                            ELSE q = r
           /\ rows' \subseteq Rows /\ IsFiniteSet(rows')
<1>. DEFINE Moved(r) == IF r.cluster = restores THEN [r EXCEPT !.epoch = epoch'] ELSE r
<1>1. /\ reset = "waiting" /\ epoch' = epoch + 1 /\ reset' = "none"
      /\ rows' = {Moved(r) : r \in rows}
      /\ UNCHANGED <<backend, tx, nextXid, foreign, restores, cursor, seen>>
      /\ \A w \in Writers : tx[w].at = "idle"
  BY DEF Migrate
<1>2. epoch' <= restores /\ epoch' \in 0 .. MaxRestores
  BY <1>1, Types DEF BaseInv, MendOK
<1>3. ASSUME NEW r \in rows
      PROVE  /\ Moved(r) \in Rows
             /\ Moved(r).key = r.key /\ Moved(r).rev = r.rev
             /\ Moved(r).seq = r.seq /\ Moved(r).cluster = r.cluster
             /\ r.cluster = restores => Moved(r).epoch = epoch'
  BY <1>2 DEF BaseInv, TypeOK, Rows
<1>4. IsFiniteSet(rows')
  <2>1. PICK f : f = [r \in rows |-> Moved(r)]
    OBVIOUS
  <2>2. f \in Surjection(rows, rows')
    BY <1>1, <2>1 DEF Surjection
  <2>. QED  BY <2>2, FS_Surjection DEF BaseInv, LogOK
<1>. QED  BY <1>1, <1>2, <1>3, <1>4

LEMMA MigrateBase ==
    ASSUME BaseInv, Migrate
    PROVE  BaseInv'
<1>1. CASE epoch' = epoch
  <2>1. /\ reset' = "missed" /\ UNCHANGED <<epoch, rows>>
        /\ UNCHANGED <<backend, tx, nextXid, foreign, restores, cursor, seen>>
    BY <1>1, Types DEF BaseInv, Migrate
  <2>. QED  BY <2>1 DEF BaseInv, TypeOK, LogOK, MendOK, TxsOK, TxOK, Place
<1>2. CASE epoch' # epoch
  <2>1. TypeOK'
    <3>1. epoch' \in 0 .. restores
      BY <1>2, MigrateMoves, Types DEF BaseInv
    <3>. QED  BY <1>2, <3>1, MigrateMoves DEF BaseInv, TypeOK
  <2>2. LogOK'
    <3>1. ASSUME NEW p \in rows', NEW q \in rows', Place(p) = Place(q) PROVE p = q
      <4>1. PICK r \in rows :
              /\ p.seq = r.seq /\ p.cluster = r.cluster
              /\ IF r.cluster = restores THEN p = [r EXCEPT !.epoch = epoch'] /\ p.epoch = epoch'
                                         ELSE p = r
        BY <1>2, MigrateMoves
      <4>2. PICK s \in rows :
              /\ q.seq = s.seq /\ q.cluster = s.cluster
              /\ IF s.cluster = restores THEN q = [s EXCEPT !.epoch = epoch'] /\ q.epoch = epoch'
                                         ELSE q = s
        BY <1>2, MigrateMoves
      <4>3. r.seq = s.seq /\ p.epoch = q.epoch
        BY <3>1, <4>1, <4>2 DEF Place
      <4>4. r.epoch <= epoch /\ s.epoch <= epoch /\ r.epoch \in Nat /\ s.epoch \in Nat
            /\ epoch' = epoch + 1 /\ epoch \in Nat
        BY <1>2, MigrateMoves, Types DEF BaseInv, LogOK
      <4>5. r.cluster = restores <=> s.cluster = restores
        BY <4>1, <4>2, <4>3, <4>4
      <4>6. r.epoch = s.epoch
        BY <4>1, <4>2, <4>3, <4>5 DEF BaseInv, LogOK
      <4>7. r = s
        BY <4>3, <4>6 DEF BaseInv, LogOK, Place
      <4>. QED  BY <4>1, <4>2, <4>7
    <3>2. ASSUME NEW q \in rows'
          PROVE  /\ q.epoch <= epoch' /\ q.cluster <= restores'
                 /\ q.cluster = restores' =>
                       q.epoch = epoch' /\ (backend' = "postgres" => q.seq < nextXid')
      <4>1. PICK r \in rows :
              /\ q.seq = r.seq /\ q.cluster = r.cluster
              /\ IF r.cluster = restores THEN q.epoch = epoch' ELSE q = r
        BY <1>2, MigrateMoves
      <4>2. /\ epoch' = epoch + 1 /\ epoch \in Nat /\ r.epoch \in Nat /\ r.epoch <= epoch
            /\ UNCHANGED <<backend, nextXid, restores>>
        BY <1>2, MigrateMoves, Types DEF BaseInv, LogOK
      <4>3. q.epoch <= epoch'
        BY <4>1, <4>2
      <4>. QED  BY <4>1, <4>2, <4>3 DEF BaseInv, LogOK
    <3>3. IsFiniteSet(rows')
      BY <1>2, MigrateMoves
    <3>. QED  BY <3>1, <3>2, <3>3 DEF LogOK, Place
  <2>3. MendOK'
    BY <1>2, MigrateMoves DEF BaseInv, MendOK
  <2>4. TxsOK'
    BY <1>2, MigrateMoves, Types DEF BaseInv, TxsOK, TxOK, NoXid
  <2>. QED  BY <2>1, <2>2, <2>3, <2>4 DEF BaseInv
<1>. QED  BY <1>1, <1>2

(* What a scan reads of one aggregate.                                     *)
Read(k) == {r \in Visible : r.key = k}

(* It moves the cursor to its last row, and appends the revisions it read  *)
(* in the order of their places.                                           *)
LEMMA ScanIs ==
    ASSUME BaseInv, Scan
    PROVE  /\ UNCHANGED <<backend, rows, tx, nextXid, foreign, epoch, restores, reset>>
           /\ cursor' = Place(LatestOf(Visible))
           /\ LatestOf(Visible) \in rows /\ Before(cursor, cursor')
           /\ BelowWatermark(LatestOf(Visible))
           /\ \A r \in Visible : r = LatestOf(Visible) \/ Before(Place(r), cursor')
<1>1. Visible \in SUBSET rows /\ Visible # {}
  BY DEF Visible, Scan
<1>2. Placed(Visible) /\ IsFiniteSet(Visible)
  BY <1>1, RowsPlaced DEF BaseInv
<1>3. LatestOf(Visible) \in Visible
      /\ \A r \in Visible \ {LatestOf(Visible)} : Before(Place(r), Place(LatestOf(Visible)))
  BY <1>1, <1>2, LatestIs
<1>4. cursor' = Place(LatestOf(Visible))
      /\ UNCHANGED <<backend, rows, tx, nextXid, foreign, epoch, restores, reset>>
  BY DEF Scan
<1>. QED  BY <1>3, <1>4 DEF Visible

LEMMA ScanAppends ==
    ASSUME BaseInv, Scan, NEW k \in Keys
    PROVE  LET n == Cardinality(Read(k))
               q == InOrder(Read(k))
           IN  /\ n \in Nat /\ q \in [1 .. n -> Read(k)]
               /\ \A r \in Read(k) : \E i \in 1 .. n : q[i] = r
               /\ \A i, j \in 1 .. n : i < j => Before(Place(q[i]), Place(q[j]))
               /\ seen[k] \in Seq(Revisions) /\ seen'[k] \in Seq(Revisions)
               /\ Len(seen'[k]) = Len(seen[k]) + n
               /\ \A i \in 1 .. Len(seen[k]) : seen'[k][i] = seen[k][i]
               /\ \A i \in 1 .. n : seen'[k][Len(seen[k]) + i] = q[i].rev
<1>1. PICK n, q : n = Cardinality(Read(k)) /\ q = InOrder(Read(k))
  OBVIOUS
<1>2. Read(k) \in SUBSET rows
  BY DEF Read, Visible
<1>3. Placed(Read(k)) /\ IsFiniteSet(Read(k))
  BY <1>2, RowsPlaced DEF BaseInv
<1>4. /\ n \in Nat /\ q \in [1 .. n -> Read(k)]
      /\ \A r \in Read(k) : \E i \in 1 .. n : q[i] = r
      /\ \A i, j \in 1 .. n : i < j => Before(Place(q[i]), Place(q[j]))
  BY <1>1, <1>3, InOrderIs
<1>5. PICK new : new = [i \in 1 .. n |-> q[i].rev]
  OBVIOUS
<1>6. seen'[k] = seen[k] \o new
  <2>1. seen'[k] = seen[k] \o [i \in DOMAIN q |-> q[i].rev]
    BY <1>1 DEF Scan, Read
  <2>2. DOMAIN q = 1 .. n
    BY <1>4
  <2>. QED  BY <1>5, <2>1, <2>2
<1>7. \A r \in rows : r.rev \in Revisions
  BY DEF BaseInv, TypeOK, Rows
<1>8. new \in Seq(Revisions) /\ Len(new) = n /\ \A i \in 1 .. n : new[i] = q[i].rev
  <2>1. \A i \in 1 .. n : q[i].rev \in Revisions
    BY <1>2, <1>4, <1>7
  <2>2. new \in [1 .. n -> Revisions]
    BY <1>5, <2>1
  <2>. QED  BY <1>4, <1>5, <2>2
<1>9. seen[k] \in Seq(Revisions)
  BY DEF BaseInv, TypeOK
<1>10. /\ seen'[k] \in Seq(Revisions) /\ Len(seen'[k]) = Len(seen[k]) + n
       /\ \A i \in 1 .. Len(seen[k]) : seen'[k][i] = seen[k][i]
       /\ \A i \in 1 .. n : seen'[k][Len(seen[k]) + i] = new[i]
  <2>1. PICK old, all : old = seen[k] /\ all = old \o new
    OBVIOUS
  <2>2. old \in Seq(Revisions) /\ Len(old) \in Nat
    BY <1>9, <2>1
  <2>3. /\ all \in Seq(Revisions) /\ Len(all) = Len(old) + n
        /\ \A i \in 1 .. Len(old) + n :
              all[i] = IF i <= Len(old) THEN old[i] ELSE new[i - Len(old)]
    BY <1>8, <2>1, <2>2, ConcatProperties
  <2>4. /\ \A i \in 1 .. Len(old) : all[i] = old[i]
        /\ \A i \in 1 .. n : all[Len(old) + i] = new[i]
    BY <1>4, <2>2, <2>3
  <2>. QED  BY <1>6, <2>1, <2>3, <2>4
<1>. QED  BY <1>1, <1>4, <1>8, <1>9, <1>10

LEMMA ScanBase ==
    ASSUME BaseInv, Scan
    PROVE  BaseInv'
<1>1. UNCHANGED <<backend, rows, tx, nextXid, foreign, epoch, restores, reset>>
  BY ScanIs
<1>2. cursor' \in (0 .. MaxRestores) \X (0 .. MaxXid)
  <2>1. PICK l \in rows : cursor' = Place(l)
    BY ScanIs
  <2>. QED  BY <2>1 DEF BaseInv, TypeOK, Rows, Place
<1>3. seen' \in [Keys -> Seq(Revisions)]
  <2>1. \A k \in Keys : seen'[k] \in Seq(Revisions)
    BY ScanAppends
  <2>2. seen' = [k \in Keys |-> seen'[k]]
    BY DEF Scan
  <2>. QED  BY <2>1, <2>2
<1>4. TypeOK'
  BY <1>1, <1>2, <1>3 DEF BaseInv, TypeOK
<1>. QED  BY <1>1, <1>4 DEF BaseInv, LogOK, MendOK, TxsOK, TxOK, Place

LEMMA InitBase == Init => BaseInv
<1>. SUFFICES ASSUME Init PROVE BaseInv
  OBVIOUS
<1>1. TypeOK
  BY ScanAssumption, IdleIs DEF Init, TypeOK, NoXid
<1>2. LogOK
  BY FS_EmptySet DEF Init, LogOK
<1>3. MendOK
  BY ScanAssumption DEF Init, MendOK, NoXid
<1>4. TxsOK
  BY IdleIs DEF Init, TxsOK, TxOK, NoXid
<1>. QED  BY <1>1, <1>2, <1>3, <1>4 DEF BaseInv

LEMMA StepBase == BaseInv /\ [Next]_vars => BaseInv'
<1>. SUFFICES ASSUME BaseInv, [Next]_vars PROVE BaseInv'
  OBVIOUS
<1>1. ASSUME NEW w \in Writers, NEW k \in Keys, Cas(w, k) PROVE BaseInv'
  BY <1>1, CasBase
<1>2. ASSUME NEW w \in Writers, Insert(w) PROVE BaseInv'
  BY <1>2, InsertBase
<1>3. ASSUME NEW w \in Writers, Commit(w) PROVE BaseInv'
  BY <1>3, CommitBase
<1>4. ASSUME NEW w \in Writers, Rollback(w) PROVE BaseInv'
  BY <1>4, RollbackBase
<1>5. CASE ForeignBegins \/ ForeignEnds \/ MigrationWaits \/ UNCHANGED vars
  BY <1>5, CounterBase
<1>6. CASE Scan
  BY <1>6, ScanBase
<1>7. CASE Restore
  BY <1>7, RestoreBase
<1>8. CASE Migrate
  BY <1>8, MigrateBase
<1>. QED  BY <1>1, <1>2, <1>3, <1>4, <1>5, <1>6, <1>7, <1>8 DEF Next

-----------------------------------------------------------------------------
(* The cursor and the watermark.                                           *)

(* Ids are only handed out: a step other than a restore keeps the          *)
(* watermark where it is or raises it.                                     *)
LEMMA WatermarkStays ==
    ASSUME BaseInv, BaseInv', Next, ~Restore
    PROVE  Xmin <= Xmin'
<1>0. nextXid \in Nat /\ foreign \in Nat
  BY Types DEF BaseInv
<1>1. nextXid' >= nextXid
  <2>1. nextXid' \in {nextXid, nextXid + 1}
    <3>1. ASSUME NEW w \in Writers, NEW k \in Keys, Cas(w, k) PROVE nextXid' \in {nextXid, nextXid + 1}
      BY <3>1 DEF Cas
    <3>2. ASSUME NEW w \in Writers, Insert(w) PROVE nextXid' \in {nextXid, nextXid + 1}
      BY <3>2 DEF Insert
    <3>3. ASSUME NEW w \in Writers, Commit(w) \/ Rollback(w) PROVE nextXid' = nextXid
      BY <3>3 DEF Commit, Rollback
    <3>4. ForeignBegins => nextXid' = nextXid + 1
      BY DEF ForeignBegins
    <3>5. ForeignEnds \/ Scan \/ MigrationWaits \/ Migrate => nextXid' = nextXid
      BY DEF ForeignEnds, Scan, MigrationWaits, Migrate
    <3>. QED  BY <3>1, <3>2, <3>3, <3>4, <3>5 DEF Next
  <2>. QED  BY <1>0, <2>1
<1>2. foreign' \in {NoXid, foreign} \/ foreign' >= nextXid
  <2>1. ASSUME NEW w \in Writers, NEW k \in Keys, Cas(w, k) PROVE foreign' = foreign
    BY <2>1 DEF Cas
  <2>2. ASSUME NEW w \in Writers, Insert(w) \/ Commit(w) \/ Rollback(w) PROVE foreign' = foreign
    BY <2>2 DEF Insert, Commit, Rollback
  <2>3. Scan \/ MigrationWaits \/ Migrate => foreign' = foreign
    BY DEF Scan, MigrationWaits, Migrate
  <2>4. ForeignBegins => foreign' >= nextXid
    BY <1>0 DEF ForeignBegins
  <2>5. ForeignEnds => foreign' = NoXid
    BY DEF ForeignEnds
  <2>. QED  BY <2>1, <2>2, <2>3, <2>4, <2>5 DEF Next
<1>3. ASSUME NEW w \in Writers PROVE tx'[w].xid \in {NoXid, tx[w].xid} \/ tx'[w].xid >= nextXid
  <2>1. CASE UNCHANGED tx
    BY <2>1
  <2>2. ASSUME NEW v \in Writers, NEW k \in Keys, Cas(v, k)
        PROVE  tx'[w].xid \in {NoXid, tx[w].xid} \/ tx'[w].xid >= nextXid
    <3>0. PICK xid, t :
            /\ xid = IF backend = "postgres" /\ HeadOf(k) > 0 THEN nextXid ELSE NoXid
            /\ t = [at |-> "cas", key |-> k, rev |-> HeadOf(k), xid |-> xid, seq |-> 0]
      OBVIOUS
    <3>1. t.xid \in {NoXid, nextXid} /\ tx' = [tx EXCEPT ![v] = t]
      BY <2>2, <3>0 DEF Cas
    <3>2. tx'[v] = t /\ \A u \in Writers \ {v} : tx'[u] = tx[u]
      BY <3>1, OneTx DEF BaseInv
    <3>. QED  BY <3>1, <3>2, Types DEF BaseInv
  <2>3. ASSUME NEW v \in Writers, Insert(v)
        PROVE  tx'[w].xid \in {NoXid, tx[w].xid} \/ tx'[w].xid >= nextXid
    <3>1. \A u \in Writers \ {v} : tx'[u] = tx[u]
      BY <2>3 DEF BaseInv, TypeOK, Insert
    <3>2. tx'[v].xid \in {tx[v].xid, XidOf(v)}
      BY <2>3 DEF BaseInv, TypeOK, Insert, Txs
    <3>3. XidOf(v) = tx[v].xid \/ XidOf(v) >= nextXid
      BY Types DEF BaseInv, XidOf
    <3>. QED  BY <3>1, <3>2, <3>3
  <2>4. ASSUME NEW v \in Writers, Commit(v) \/ Rollback(v)
        PROVE  tx'[w].xid \in {NoXid, tx[w].xid} \/ tx'[w].xid >= nextXid
    <3>1. tx' = [tx EXCEPT ![v] = Idle]
      BY <2>4 DEF Commit, Rollback
    <3>2. tx'[v] = Idle /\ \A u \in Writers \ {v} : tx'[u] = tx[u]
      BY <3>1, OneTx DEF BaseInv
    <3>. QED  BY <3>2, IdleIs
  <2>. QED  BY <2>1, <2>2, <2>3, <2>4 DEF Next, ForeignBegins, ForeignEnds, Scan,
                                          MigrationWaits, Migrate
<1>. QED  BY <1>1, <1>2, <1>3, XminGrows DEF BaseInv

(* A row the scan leaves behind its new cursor is one it has read: what it *)
(* does not see lies at or above the watermark.                            *)
LEMMA UnseenStaysBeyond ==
    ASSUME BaseInv, Scan, NEW r \in rows, Before(cursor, Place(r)), r \notin Visible
    PROVE  Before(cursor', Place(r))
<1>1. backend = "postgres" /\ r.epoch = epoch /\ Xmin <= r.seq
  BY XminIs, Types DEF BaseInv, LogOK, Visible, BelowWatermark
<1>2. PICK l \in rows : cursor' = Place(l) /\ BelowWatermark(l)
  BY ScanIs
<1>3. l.epoch < epoch \/ (l.epoch = epoch /\ l.seq < Xmin)
  BY <1>1, <1>2, Types DEF BaseInv, LogOK, BelowWatermark
<1>. QED  BY <1>1, <1>2, <1>3, XminIs, Types DEF BaseInv, Before

(* The place of a row about to be committed lies beyond the cursor, unless *)
(* its epoch has rows of an earlier cluster.                               *)
LEMMA NewPlaceIsBeyond ==
    ASSUME BaseInv, CursorOK, NEW w \in Writers, tx[w].at = "inserted",
           \A s \in rows : s.epoch = epoch => s.cluster = restores
    PROVE  Before(cursor, <<epoch, tx[w].seq>>)
<1>1. TxOK(w) /\ tx[w].seq \in Nat \ {0}
  BY Types DEF BaseInv, TxsOK, TxOK
<1>2. CASE cursor[1] # epoch
  BY <1>1, <1>2, Types DEF BaseInv, CursorOK, Before
<1>3. CASE cursor[1] = epoch /\ backend = "postgres"
  <2>1. cursor[2] < Xmin
    BY <1>3 DEF CursorOK
  <2>2. Xmin <= tx[w].xid /\ tx[w].xid = tx[w].seq
    BY <1>1, <1>3, XminIs DEF BaseInv, TxOK
  <2>. QED  BY <1>1, <1>3, <2>1, <2>2, XminIs, Types DEF BaseInv, Before
<1>4. CASE cursor[1] = epoch /\ backend = "sqlite"
  <2>1. CASE cursor = <<0, 0>>
    BY <1>1, <1>4, <2>1, Types DEF BaseInv, Before
  <2>2. CASE cursor # <<0, 0>>
    <3>1. PICK s \in rows : Place(s) = cursor
      BY <1>4, <2>2, Types DEF BaseInv, CursorOK
    <3>2. s.seq < tx[w].seq
      BY <1>1, <1>4 DEF TxOK
    <3>. QED  BY <1>1, <1>4, <3>1, <3>2, Types DEF BaseInv, Before
  <2>. QED  BY <2>1, <2>2
<1>. QED  BY <1>2, <1>3, <1>4, Types DEF BaseInv

LEMMA CursorStep ==
    ASSUME BaseInv, BaseInv', CursorOK, [Next]_vars
    PROVE  CursorOK'
<1>1. CASE UNCHANGED vars
  BY <1>1 DEF vars, CursorOK, Xmin, InFlight, Place
<1>2. CASE Next /\ ~Restore /\ UNCHANGED <<cursor, epoch, restores, backend>> /\ rows \subseteq rows'
  <2>1. Xmin <= Xmin' /\ Xmin \in Nat /\ Xmin' \in Nat
    <3>1. Xmin' \in Nat
      BY NextXminIs DEF BaseInv
    <3>. QED  BY <1>2, <3>1, WatermarkStays, XminIs DEF BaseInv
  <2>2. cursor[1] <= epoch /\ (cursor = <<0, 0>> \/ cursor[1] < epoch \/ \E r \in rows' : Place(r) = cursor)
    BY <1>2 DEF CursorOK
  <2>3. backend = "postgres" /\ cursor[1] = epoch
        /\ (\A r \in rows' : r.epoch = epoch => r.cluster = restores)
           => cursor[2] < Xmin'
    BY <1>2, <2>1, Types DEF BaseInv, CursorOK
  <2>. QED  BY <1>2, <2>2, <2>3 DEF CursorOK, Place
<1>3. CASE Scan
  <2>1. /\ UNCHANGED <<backend, rows, tx, nextXid, foreign, epoch, restores>>
        /\ cursor' = Place(LatestOf(Visible)) /\ LatestOf(Visible) \in rows
        /\ BelowWatermark(LatestOf(Visible))
    BY <1>3, ScanIs
  <2>2. PICK l \in rows : cursor' = Place(l) /\ BelowWatermark(l)
    BY <2>1
  <2>3. Xmin' = Xmin
    BY <2>1 DEF Xmin, InFlight
  <2>4. cursor'[1] = l.epoch /\ cursor'[2] = l.seq /\ l.epoch <= epoch /\ l.epoch \in Nat
    BY <2>2, Types DEF BaseInv, LogOK
  <2>5. backend = "postgres" /\ cursor'[1] = epoch => cursor'[2] < Xmin
    BY <2>2, <2>4, Types DEF BaseInv, BelowWatermark
  <2>. QED  BY <2>1, <2>2, <2>3, <2>4, <2>5 DEF CursorOK, Place
<1>4. CASE Restore
  <2>1. UNCHANGED <<backend, rows, epoch, cursor>> /\ restores' = restores + 1
    BY <1>4 DEF Restore
  <2>2. \A r \in rows : r.cluster # restores + 1
    BY Types DEF BaseInv, LogOK
  <2>3. cursor[1] = epoch /\ (\A r \in rows : r.epoch = epoch => r.cluster = restores + 1)
          => cursor[2] = 0
    BY <2>2, Types DEF BaseInv, CursorOK
  <2>4. Xmin' \in Nat \ {0}
    BY NextXminIs DEF BaseInv
  <2>. QED  BY <2>1, <2>3, <2>4 DEF CursorOK, Place
<1>5. CASE Migrate /\ epoch' # epoch
  <2>1. epoch' = epoch + 1 /\ cursor' = cursor
    BY <1>5, MigrateMoves
  <2>2. cursor'[1] < epoch'
    BY <2>1, Types DEF BaseInv, CursorOK
  <2>. QED  BY <2>1, <2>2, Types DEF BaseInv, CursorOK
<1>6. ASSUME Next, ~Scan, ~Restore, ~(Migrate /\ epoch' # epoch)
      PROVE  UNCHANGED <<cursor, epoch, restores, backend>> /\ rows \subseteq rows'
  <2>. DEFINE Kept == UNCHANGED <<cursor, epoch, restores, backend>> /\ rows \subseteq rows'
  <2>1. ASSUME NEW w \in Writers, NEW k \in Keys, Cas(w, k) PROVE Kept
    BY <2>1 DEF Cas
  <2>2. ASSUME NEW w \in Writers, Insert(w) PROVE Kept
    BY <2>2 DEF Insert
  <2>3. ASSUME NEW w \in Writers, Commit(w) \/ Rollback(w) PROVE Kept
    BY <2>3 DEF Commit, Rollback
  <2>4. ForeignBegins \/ ForeignEnds \/ MigrationWaits => Kept
    BY DEF ForeignBegins, ForeignEnds, MigrationWaits
  <2>5. Migrate /\ epoch' = epoch => Kept
    <3>. SUFFICES ASSUME Migrate, epoch' = epoch PROVE Kept
      OBVIOUS
    <3>1. epoch' # epoch + 1
      BY Types DEF BaseInv
    <3>. QED  BY <3>1 DEF Migrate
  <2>. QED  BY <1>6, <2>1, <2>2, <2>3, <2>4, <2>5 DEF Next
<1>. QED  BY <1>1, <1>2, <1>3, <1>4, <1>5, <1>6 DEF Next

-----------------------------------------------------------------------------
(* Nothing is passed over.                                                 *)

LEMMA DropStep ==
    ASSUME BaseInv, CursorOK, NothingDropped, [Next]_vars
    PROVE  NothingDropped'
<1>1. CASE UNCHANGED <<rows, cursor, seen>>
  BY <1>1 DEF NothingDropped, Unmended, WasSeen, Place
<1>2. ASSUME NEW w \in Writers, Commit(w) PROVE NothingDropped'
  <2>1. PICK new : new = [key |-> tx[w].key, rev |-> tx[w].rev, epoch |-> epoch,
                          seq |-> tx[w].seq, cluster |-> restores]
    OBVIOUS
  <2>2. rows' = rows \cup {new} /\ UNCHANGED <<cursor, seen>> /\ tx[w].at = "inserted"
    BY <1>2, <2>1 DEF Commit
  <2>3. \A r \in rows : Unmended(r) => Unmended(r)'
    BY <2>2 DEF Unmended
  <2>4. Unmended(new)' \/ Before(cursor, Place(new))
    <3>1. CASE \A s \in rows : s.epoch = epoch => s.cluster = restores
      BY <1>2, <2>1, <2>2, <3>1, NewPlaceIsBeyond DEF Place
    <3>2. CASE \E s \in rows : s.epoch = epoch /\ s.cluster # restores
      <4>1. PICK s \in rows : s.epoch = epoch /\ s.cluster < restores
        BY <3>2, Types DEF BaseInv, LogOK
      <4>2. s \in rows' /\ s.epoch = new.epoch /\ s.cluster < new.cluster
        BY <2>1, <2>2, <4>1
      <4>. QED  BY <4>2 DEF Unmended
    <3>. QED  BY <3>1, <3>2
  <2>. QED  BY <2>2, <2>3, <2>4 DEF NothingDropped, WasSeen, Place
<1>3. CASE Scan
  <2>. SUFFICES ASSUME NEW r \in rows', ~Unmended(r)', ~WasSeen(r.key, r.rev)'
                PROVE  Before(cursor', Place(r))
    BY DEF NothingDropped, Place
  <2>1. rows' = rows
    BY <1>3, ScanIs
  <2>2. r.key \in Keys /\ ~Unmended(r)
    BY <2>1, Types DEF BaseInv, Unmended
  <2>0. PICK n, q : n = Cardinality(Read(r.key)) /\ q = InOrder(Read(r.key))
    OBVIOUS
  <2>3. /\ n \in Nat /\ q \in [1 .. n -> Read(r.key)]
        /\ \A s \in Read(r.key) : \E i \in 1 .. n : q[i] = s
        /\ seen[r.key] \in Seq(Revisions) /\ seen'[r.key] \in Seq(Revisions)
        /\ Len(seen'[r.key]) = Len(seen[r.key]) + n
        /\ \A i \in 1 .. Len(seen[r.key]) : seen'[r.key][i] = seen[r.key][i]
        /\ \A i \in 1 .. n : seen'[r.key][Len(seen[r.key]) + i] = q[i].rev
    BY <1>3, <2>0, <2>2, ScanAppends
  <2>4. /\ DOMAIN seen[r.key] = 1 .. Len(seen[r.key]) /\ Len(seen[r.key]) \in Nat
        /\ DOMAIN seen'[r.key] = 1 .. Len(seen'[r.key])
    BY <2>3
  <2>5. ~WasSeen(r.key, r.rev)
    <3>. SUFFICES ASSUME WasSeen(r.key, r.rev) PROVE FALSE
      OBVIOUS
    <3>1. PICK i \in 1 .. Len(seen[r.key]) : seen[r.key][i] = r.rev
      BY <2>4 DEF WasSeen
    <3>2. i \in DOMAIN seen'[r.key] /\ seen'[r.key][i] = r.rev
      BY <2>3, <2>4, <3>1
    <3>. QED  BY <3>2 DEF WasSeen
  <2>6. Before(cursor, Place(r))
    BY <2>1, <2>2, <2>5 DEF NothingDropped
  <2>7. r \notin Visible
    <3>. SUFFICES ASSUME r \in Visible PROVE FALSE
      OBVIOUS
    <3>1. PICK i \in 1 .. n : q[i] = r
      BY <2>3 DEF Read
    <3>2. Len(seen[r.key]) + i \in DOMAIN seen'[r.key]
          /\ seen'[r.key][Len(seen[r.key]) + i] = r.rev
      BY <2>3, <2>4, <3>1
    <3>. QED  BY <3>2 DEF WasSeen
  <2>. QED  BY <1>3, <2>1, <2>6, <2>7, UnseenStaysBeyond
<1>4. CASE Migrate /\ epoch' # epoch
  <2>0. UNCHANGED <<cursor, seen>>
    BY <1>4, MigrateMoves
  <2>. SUFFICES ASSUME NEW q \in rows', ~Unmended(q)'
                PROVE  WasSeen(q.key, q.rev) \/ Before(cursor, Place(q))
    BY <2>0 DEF NothingDropped, WasSeen, Place
  <2>1. epoch' = epoch + 1
    BY <1>4, MigrateMoves
  <2>2. PICK r \in rows :
          /\ q.key = r.key /\ q.rev = r.rev /\ q.cluster = r.cluster
          /\ IF r.cluster = restores THEN q.epoch = epoch' ELSE q = r
    BY <1>4, MigrateMoves
  <2>3. CASE r.cluster = restores
    <3>1. q.epoch = epoch + 1 /\ Place(q)[1] = q.epoch
      BY <2>1, <2>2, <2>3 DEF Place
    <3>. QED  BY <3>1, Types DEF BaseInv, CursorOK, Before
  <2>4. CASE r.cluster # restores
    <3>1. q = r /\ r.cluster < restores
      BY <2>2, <2>4, Types DEF BaseInv, LogOK
    <3>2. ~Unmended(r)
      <4>. SUFFICES ASSUME NEW s \in rows, s.epoch = r.epoch, s.cluster < r.cluster PROVE FALSE
        BY DEF Unmended
      <4>1. s.cluster # restores
        BY <3>1, Types DEF BaseInv
      <4>2. s \in rows'
        BY <1>4, <4>1, MigrateMoves
      <4>. QED  BY <3>1, <4>2 DEF Unmended
    <3>. QED  BY <3>1, <3>2 DEF NothingDropped
  <2>. QED  BY <2>3, <2>4
<1>5. ASSUME Next, ~Scan, ~(Migrate /\ epoch' # epoch), \A w \in Writers : ~Commit(w)
      PROVE  UNCHANGED <<rows, cursor, seen>>
  <2>. DEFINE Kept == UNCHANGED <<rows, cursor, seen>>
  <2>1. ASSUME NEW w \in Writers, NEW k \in Keys, Cas(w, k) PROVE Kept
    BY <2>1 DEF Cas
  <2>2. ASSUME NEW w \in Writers, Insert(w) PROVE Kept
    BY <2>2 DEF Insert
  <2>3. ASSUME NEW w \in Writers, Rollback(w) PROVE Kept
    BY <2>3 DEF Rollback
  <2>4. ForeignBegins \/ ForeignEnds \/ MigrationWaits \/ Restore => Kept
    BY DEF ForeignBegins, ForeignEnds, MigrationWaits, Restore
  <2>5. Migrate /\ epoch' = epoch => Kept
    <3>. SUFFICES ASSUME Migrate, epoch' = epoch PROVE Kept
      OBVIOUS
    <3>1. epoch' # epoch + 1
      BY Types DEF BaseInv
    <3>. QED  BY <3>1 DEF Migrate
  <2>. QED  BY <1>5, <2>1, <2>2, <2>3, <2>4, <2>5 DEF Next
<1>6. CASE UNCHANGED vars
  BY <1>1, <1>6 DEF vars
<1>. QED  BY <1>1, <1>2, <1>3, <1>4, <1>5, <1>6

-----------------------------------------------------------------------------
(* Revision by revision, as long as there is one cluster.                  *)

LEMMA OneCluster ==
    ASSUME BaseInv, restores = 0
    PROVE  /\ epoch = 0 /\ reset \notin {"open", "waiting"}
           /\ \A r \in rows : r.epoch = 0 /\ r.cluster = 0 /\ ~Unmended(r)
           /\ \A r, s \in rows : Before(Place(r), Place(s)) <=> r.seq < s.seq
           /\ \A r, s \in rows : r.seq = s.seq => r = s
           /\ backend = "postgres" => \A r \in rows : r.seq < nextXid
<1>1. epoch = 0 /\ reset \notin {"open", "waiting"}
  BY Types DEF BaseInv, MendOK
<1>2. \A r \in rows : r.epoch = 0 /\ r.cluster = 0
  BY <1>1, Types DEF BaseInv, LogOK
<1>3. \A r \in rows : ~Unmended(r)
  BY <1>2 DEF Unmended
<1>4. \A r, s \in rows : Before(Place(r), Place(s)) <=> r.seq < s.seq
  BY <1>2, Types DEF BaseInv, Before
<1>5. \A r, s \in rows : r.seq = s.seq => r = s
  BY <1>2 DEF BaseInv, LogOK, Place
<1>6. backend = "postgres" => \A r \in rows : r.seq < nextXid
  BY <1>2 DEF BaseInv, LogOK
<1>. QED  BY <1>1, <1>2, <1>3, <1>4, <1>5, <1>6

TxsInOrder == \A w \in Writers : OpenOK(w)

LEMMA CasOrder ==
    ASSUME BaseInv, restores = 0, RevisionsOK, TxsInOrder,
           NEW w \in Writers, NEW k \in Keys, Cas(w, k)
    PROVE  TxsInOrder'
<1>1. PICK xid, t :
        /\ xid = IF backend = "postgres" /\ HeadOf(k) > 0 THEN nextXid ELSE NoXid
        /\ t = [at |-> "cas", key |-> k, rev |-> HeadOf(k), xid |-> xid, seq |-> 0]
  OBVIOUS
<1>2. tx'[w] = t /\ \A v \in Writers \ {w} : tx'[v] = tx[v]
  <2>1. tx' = [tx EXCEPT ![w] = t]
    BY <1>1 DEF Cas
  <2>. QED  BY <2>1, OneTx DEF BaseInv
<1>3. UNCHANGED <<backend, rows>> /\ tx[w].at = "idle"
  BY DEF Cas
<1>4. t.at = "cas" /\ t.key = k /\ t.rev = HeadOf(k) /\ t.xid = xid
  BY <1>1
<1>5. \A j : HeadOf(j)' = HeadOf(j)
  BY <1>3 DEF HeadOf
<1>6. OpenOK(w)'
  <2>1. t.rev <= HeadOf(k)
    BY <1>4, HeadType DEF BaseInv
  <2>2. backend = "postgres" /\ t.rev > 0 =>
          t.xid # NoXid /\ \A r \in rows : r.seq < t.xid
    BY <1>1, <1>4, OneCluster, Types DEF BaseInv, NoXid
  <2>. QED  BY <1>2, <1>3, <1>4, <1>5, <2>1, <2>2 DEF OpenOK
<1>7. ASSUME NEW v \in Writers \ {w} PROVE OpenOK(v)'
  <2>1. OpenOK(v)
    BY DEF TxsInOrder
  <2>2. \A u \in Writers : tx'[u].at = "inserted" => tx'[u] = tx[u]
    BY <1>2, <1>4
  <2>. QED  BY <1>2, <1>3, <1>5, <2>1, <2>2 DEF OpenOK
<1>. QED  BY <1>6, <1>7 DEF TxsInOrder

(* An insert takes a place behind all rows of its aggregate: a change has  *)
(* held the head's lock since it was given its id, a create is the first.  *)
LEMMA InsertOrder ==
    ASSUME BaseInv, restores = 0, RevisionsOK, TxsInOrder,
           NEW w \in Writers, Insert(w)
    PROVE  TxsInOrder'
<1>1. /\ tx[w].at = "cas" /\ HeadOf(tx[w].key) = tx[w].rev
      /\ \A v \in Writers \ {w} : ~(tx[v].at = "inserted" /\ tx[v].key = tx[w].key)
      /\ UNCHANGED <<backend, rows>>
  BY DEF Insert
<1>2. /\ tx'[w].at = "inserted" /\ tx'[w].key = tx[w].key /\ tx'[w].rev = tx[w].rev
      /\ tx'[w].seq = Position(w)
      /\ \A v \in Writers \ {w} : tx'[v] = tx[v]
  BY DEF BaseInv, TypeOK, Txs, Insert
<1>3. \A j : HeadOf(j)' = HeadOf(j)
  BY <1>1 DEF HeadOf
<1>4. ASSUME NEW r \in rows, r.key = tx[w].key PROVE r.seq < Position(w)
  <2>1. CASE backend = "sqlite"
    BY <2>1, PositionIs
  <2>2. CASE backend = "postgres"
    <3>1. Position(w) = IF tx[w].xid = NoXid THEN nextXid ELSE tx[w].xid
      BY <2>2, PositionIs
    <3>2. tx[w].rev > 0
      BY <1>1, <1>4, Types DEF BaseInv, RevisionsOK
    <3>3. r.seq < tx[w].xid /\ tx[w].xid # NoXid
      BY <1>1, <1>4, <2>2, <3>2 DEF TxsInOrder, OpenOK
    <3>. QED  BY <3>1, <3>3
  <2>. QED  BY <2>1, <2>2, Types DEF BaseInv
<1>5. OpenOK(w)'
  <2>1. tx[w].rev <= HeadOf(tx[w].key)
    BY <1>1, Types DEF BaseInv
  <2>. QED  BY <1>1, <1>2, <1>3, <1>4, <2>1 DEF OpenOK
<1>6. ASSUME NEW v \in Writers \ {w} PROVE OpenOK(v)'
  <2>1. OpenOK(v)
    BY DEF TxsInOrder
  <2>2. tx[v].at = "inserted" => \A u \in Writers \ {v} : tx'[u].at = "inserted" => tx'[u].key # tx[v].key
    BY <1>1, <1>2, <2>1 DEF OpenOK
  <2>. QED  BY <1>1, <1>2, <1>3, <2>1, <2>2 DEF OpenOK
<1>. QED  BY <1>5, <1>6 DEF TxsInOrder

LEMMA RollbackOrder ==
    ASSUME BaseInv, TxsInOrder, NEW w \in Writers, Rollback(w)
    PROVE  TxsInOrder'
<1>1. UNCHANGED <<backend, rows>>
  BY DEF Rollback
<1>2. tx'[w] = Idle /\ \A v \in Writers \ {w} : tx'[v] = tx[v]
  BY OneTx DEF BaseInv, Rollback
<1>3. \A j : HeadOf(j)' = HeadOf(j)
  BY <1>1 DEF HeadOf
<1>4. OpenOK(w)'
  BY <1>2, IdleIs DEF OpenOK
<1>5. ASSUME NEW v \in Writers \ {w} PROVE OpenOK(v)'
  <2>1. OpenOK(v)
    BY DEF TxsInOrder
  <2>2. \A u \in Writers : tx'[u].at = "inserted" => tx'[u] = tx[u]
    BY <1>2, IdleIs
  <2>. QED  BY <1>1, <1>2, <1>3, <2>1, <2>2 DEF OpenOK
<1>. QED  BY <1>4, <1>5 DEF TxsInOrder

(* The commit makes the row the next revision, and its place lies beyond   *)
(* what has been read.                                                     *)
LEMMA CommitOrder ==
    ASSUME BaseInv, BaseInv', NothingDropped', restores = 0, RevisionsOK, TxsInOrder,
           \A k \in Keys : SeenOK(k), NEW w \in Writers, Commit(w)
    PROVE  RevisionsOK' /\ TxsInOrder' /\ \A k \in Keys : SeenOK(k)'
<1>1. PICK new : new = [key |-> tx[w].key, rev |-> tx[w].rev, epoch |-> epoch,
                        seq |-> tx[w].seq, cluster |-> restores]
  OBVIOUS
<1>2. /\ tx[w].at = "inserted" /\ rows' = rows \cup {new}
      /\ UNCHANGED <<backend, restores, cursor, seen>>
  BY <1>1 DEF Commit
<1>3. tx'[w] = Idle /\ \A v \in Writers \ {w} : tx'[v] = tx[v]
  BY OneTx DEF BaseInv, Commit
<1>4. /\ new.key = tx[w].key /\ new.rev = HeadOf(new.key) /\ new.seq = tx[w].seq
      /\ \A r \in rows : r.key = new.key => r.seq < new.seq
      /\ \A v \in Writers \ {w} : tx[v].at = "inserted" => tx[v].key # new.key
      /\ new.key \in Keys /\ new.rev \in Nat /\ new.seq \in Nat
  BY <1>1, <1>2, Types DEF BaseInv, TxsInOrder, OpenOK
<1>5. new \notin rows
  BY <1>4 DEF RevisionsOK
<1>6. HeadOf(new.key)' = HeadOf(new.key) + 1 /\ \A k : k # new.key => HeadOf(k)' = HeadOf(k)
  <2>1. {r \in rows' : r.key = new.key} = {r \in rows : r.key = new.key} \cup {new}
    BY <1>2
  <2>2. IsFiniteSet({r \in rows : r.key = new.key})
    BY FS_Subset DEF BaseInv, LogOK
  <2>3. Cardinality({r \in rows : r.key = new.key} \cup {new})
          = Cardinality({r \in rows : r.key = new.key}) + 1
    BY <1>5, <2>2, FS_AddElement
  <2>4. \A k : k # new.key => {r \in rows' : r.key = k} = {r \in rows : r.key = k}
    BY <1>2
  <2>. QED  BY <2>1, <2>3, <2>4 DEF HeadOf
<1>7. \A k \in Keys : HeadOf(k) \in Nat /\ HeadOf(k)' \in Nat
  BY <1>6, HeadType DEF BaseInv
<1>8. RevisionsOK'
  <2>1. \A r \in rows' : r.rev < HeadOf(r.key)'
    BY <1>2, <1>4, <1>6, <1>7, Types DEF BaseInv, RevisionsOK
  <2>2. ASSUME NEW k \in Keys, NEW n \in 0 .. HeadOf(k)' - 1
        PROVE  \E r \in rows' : r.key = k /\ r.rev = n
    <3>1. CASE n \in 0 .. HeadOf(k) - 1
      BY <1>2, <3>1 DEF RevisionsOK
    <3>2. CASE n \notin 0 .. HeadOf(k) - 1
      <4>1. k = new.key /\ n = HeadOf(k)
        BY <1>6, <1>7, <2>2, <3>2
      <4>. QED  BY <1>2, <1>4, <4>1
    <3>. QED  BY <3>1, <3>2
  <2>3. \A r, s \in rows' :
           r.key = s.key => (r.rev < s.rev => r.seq < s.seq) /\ (r.rev = s.rev => r = s)
    BY <1>2, <1>4, Types DEF BaseInv, RevisionsOK
  <2>. QED  BY <2>1, <2>2, <2>3 DEF RevisionsOK
<1>9. TxsInOrder'
  <2>1. OpenOK(w)'
    BY <1>3, IdleIs DEF OpenOK
  <2>2. ASSUME NEW v \in Writers \ {w} PROVE OpenOK(v)'
    <3>1. OpenOK(v) /\ tx'[v] = tx[v] /\ tx[v].key \in Keys /\ tx[v].rev \in Nat
      BY <1>3, Types DEF BaseInv, TxsInOrder
    <3>2. \A u \in Writers : tx'[u].at = "inserted" => tx'[u] = tx[u]
      BY <1>3, IdleIs
    <3>3. CASE tx[v].key = new.key
      <4>1. tx[v].at # "inserted"
        BY <1>4, <3>3
      <4>2. tx[v].at # "idle" => tx[v].rev <= HeadOf(new.key)' /\ tx[v].rev # HeadOf(new.key)'
        BY <1>4, <1>6, <1>7, <3>1, <3>3 DEF OpenOK
      <4>. QED  BY <1>2, <3>1, <3>3, <4>1, <4>2 DEF OpenOK
    <3>4. CASE tx[v].key # new.key
      <4>1. HeadOf(tx[v].key)' = HeadOf(tx[v].key)
        <5>1. PICK j : j = tx[v].key
          OBVIOUS
        <5>2. HeadOf(j)' = HeadOf(j) /\ tx'[v].key = j
          BY <1>6, <3>1, <3>4, <5>1
        <5>. QED  BY <5>1, <5>2 DEF HeadOf
      <4>2. \A r \in rows' : r.key = tx[v].key => r \in rows
        BY <1>2, <3>4
      <4>. QED  BY <1>2, <3>1, <3>2, <4>1, <4>2 DEF OpenOK
    <3>. QED  BY <3>3, <3>4
  <2>. QED  BY <2>1, <2>2 DEF TxsInOrder
<1>10. Before(cursor, Place(new)) /\ Len(seen[new.key]) <= new.rev /\ Len(seen[new.key]) \in Nat
  <2>1. SeenOK(new.key) /\ seen[new.key] \in Seq(Revisions)
    BY <1>4 DEF BaseInv, TypeOK
  <2>2. Len(seen[new.key]) <= new.rev /\ DOMAIN seen[new.key] = 1 .. Len(seen[new.key])
        /\ Len(seen[new.key]) \in Nat
    BY <1>4, <2>1 DEF SeenOK
  <2>3. ~WasSeen(new.key, new.rev)
    BY <1>4, <2>1, <2>2 DEF SeenOK, WasSeen
  <2>4. ~Unmended(new)'
    <3>1. new.cluster = 0 /\ \A s \in rows : s.cluster = 0
      BY <1>1, OneCluster
    <3>. QED  BY <1>2, <3>1 DEF Unmended
  <2>5. WasSeen(new.key, new.rev)' <=> WasSeen(new.key, new.rev)
    BY <1>2 DEF WasSeen
  <2>6. new \in rows'
    BY <1>2
  <2>7. Before(cursor, Place(new))
    BY <1>2, <2>3, <2>4, <2>5, <2>6 DEF NothingDropped, Place
  <2>. QED  BY <2>2, <2>7
<1>11. ASSUME NEW k \in Keys PROVE SeenOK(k)'
  <2>1. SeenOK(k) /\ seen[k] \in Seq(Revisions) /\ Len(seen[k]) \in Nat
    BY DEF BaseInv, TypeOK
  <2>2. Len(seen[k]) <= HeadOf(k)'
    BY <1>6, <1>7, <2>1 DEF SeenOK
  <2>3. \A r \in rows' : r.key = k => (r.rev < Len(seen[k]) <=> ~Before(cursor, Place(r)))
    BY <1>2, <1>4, <1>10, <2>1 DEF SeenOK
  <2>. QED  BY <1>2, <2>1, <2>2, <2>3 DEF SeenOK, Place
<1>. QED  BY <1>8, <1>9, <1>11

(* What a scan reads of an aggregate are the revisions that come next:     *)
(* take the first one that is not; the revision due in its place lies      *)
(* before it, so it is below the watermark too, and was read earlier.      *)
LEMMA ReadsWhatIsNext ==
    ASSUME BaseInv, restores = 0, RevisionsOK, NEW k \in Keys, SeenOK(k),
           NEW n \in Nat, NEW q \in [1 .. n -> Read(k)],
           \A r \in Read(k) : \E i \in 1 .. n : q[i] = r,
           \A i, j \in 1 .. n : i < j => Before(Place(q[i]), Place(q[j]))
    PROVE  \A i \in 1 .. n : q[i].rev = Len(seen[k]) + i - 1
<1>1. PICK m : m = Len(seen[k])
  OBVIOUS
<1>2. m \in Nat
  BY <1>1 DEF BaseInv, TypeOK
<1>3. \A i \in 1 .. n : /\ q[i] \in rows /\ q[i].key = k /\ q[i].rev \in Nat /\ q[i].rev >= m
                        /\ q[i].seq \in Nat /\ Before(cursor, Place(q[i])) /\ BelowWatermark(q[i])
  <2>. SUFFICES ASSUME NEW i \in 1 .. n
                PROVE  /\ q[i] \in rows /\ q[i].key = k /\ q[i].rev \in Nat /\ q[i].rev >= m
                       /\ q[i].seq \in Nat /\ Before(cursor, Place(q[i])) /\ BelowWatermark(q[i])
    OBVIOUS
  <2>1. q[i] \in rows /\ q[i].key = k /\ Before(cursor, Place(q[i])) /\ BelowWatermark(q[i])
    BY DEF Read, Visible
  <2>2. q[i].rev \in Nat /\ q[i].seq \in Nat
    BY <2>1, Types DEF BaseInv
  <2>3. ~(q[i].rev < m)
    BY <1>1, <2>1 DEF SeenOK
  <2>. QED  BY <1>2, <2>1, <2>2, <2>3
<1>4. \A i, j \in 1 .. n : i < j => q[i].rev < q[j].rev
  <2>. SUFFICES ASSUME NEW i \in 1 .. n, NEW j \in 1 .. n, i < j
                PROVE  q[i].rev < q[j].rev
    OBVIOUS
  <2>1. q[i].seq < q[j].seq
    BY <1>3, OneCluster
  <2>. QED  BY <1>3, <2>1 DEF RevisionsOK
<1>. DEFINE Bad == {i \in 1 .. n : q[i].rev # m + i - 1}
<1>. SUFFICES ASSUME Bad # {} PROVE FALSE
  BY <1>1
<1>5. Bad \subseteq Nat
  OBVIOUS
<1>6. PICK i \in Bad : \A j \in Bad : i <= j
  BY <1>5, LeastExists
<1>7. i \in 1 .. n /\ q[i].rev # m + i - 1 /\ \A j \in 1 .. n : j < i => q[j].rev = m + j - 1
  BY <1>6
<1>8. q[i].rev > m + i - 1
  <2>1. CASE i = 1
    BY <1>2, <1>3, <1>7, <2>1
  <2>2. CASE i # 1
    <3>1. i - 1 \in 1 .. n /\ i - 1 < i
      BY <1>7, <2>2
    <3>2. q[i - 1].rev = m + (i - 1) - 1 /\ q[i - 1].rev < q[i].rev
      BY <1>4, <1>7, <3>1
    <3>3. PICK a, b : a = q[i - 1].rev /\ b = q[i].rev
      OBVIOUS
    <3>4. a = m + (i - 1) - 1 /\ a < b /\ b # m + i - 1 /\ b \in Nat /\ i \in Nat
      BY <1>3, <1>7, <3>2, <3>3
    <3>5. b > m + i - 1
      BY <1>2, <3>4
    <3>. QED  BY <3>3, <3>5
  <2>. QED  BY <2>1, <2>2
<1>9. PICK r \in rows : r.key = k /\ r.rev = m + i - 1
  <2>1. q[i].rev < HeadOf(k)
    BY <1>3, <1>7 DEF RevisionsOK
  <2>2. m + i - 1 \in 0 .. HeadOf(k) - 1
    BY <1>2, <1>3, <1>7, <1>8, <2>1, HeadType DEF BaseInv
  <2>. QED  BY <2>2 DEF RevisionsOK
<1>10. r.seq < q[i].seq
  <2>1. q[i] \in rows /\ q[i].key = k /\ q[i].rev > m + i - 1
    BY <1>3, <1>7, <1>8
  <2>2. r.key = q[i].key /\ r.rev < q[i].rev
    BY <1>2, <1>3, <1>7, <1>9, <2>1
  <2>. QED  BY <2>1, <2>2 DEF RevisionsOK
<1>11. r \in Read(k)
  <2>1. ~(r.rev < m)
    BY <1>2, <1>7, <1>9
  <2>2. Before(cursor, Place(r))
    BY <1>1, <1>9, <2>1 DEF SeenOK
  <2>3. BelowWatermark(r)
    <3>1. BelowWatermark(q[i]) /\ q[i] \in rows
      BY <1>3, <1>7
    <3>2. r.seq \in Nat /\ q[i].seq \in Nat /\ Xmin \in Nat
      BY <3>1, XminIs, Types DEF BaseInv
    <3>3. r.epoch = q[i].epoch
      BY <3>1, OneCluster
    <3>. QED  BY <1>10, <3>1, <3>2, <3>3 DEF BelowWatermark
  <2>. QED  BY <1>9, <2>2, <2>3 DEF Read, Visible
<1>12. PICK j \in 1 .. n : q[j] = r
  BY <1>11
<1>13. j < i
  <2>1. j # i
    BY <1>2, <1>7, <1>9, <1>12
  <2>2. ~(i < j)
    <3>1. q[j].rev < q[i].rev
      BY <1>2, <1>3, <1>7, <1>8, <1>9, <1>12
    <3>. QED  BY <1>3, <1>4, <1>7, <3>1
  <2>. QED  BY <1>7, <2>1, <2>2
<1>14. m + j - 1 = m + i - 1
  BY <1>7, <1>9, <1>12, <1>13
<1>. QED  BY <1>2, <1>7, <1>13, <1>14

LEMMA ScanInOrder ==
    ASSUME BaseInv, restores = 0, RevisionsOK, NEW k \in Keys, SeenOK(k), Scan
    PROVE  SeenOK(k)'
<1>1. PICK n, q, m : n = Cardinality(Read(k)) /\ q = InOrder(Read(k)) /\ m = Len(seen[k])
  OBVIOUS
<1>2. /\ n \in Nat /\ q \in [1 .. n -> Read(k)] /\ m \in Nat
      /\ \A r \in Read(k) : \E i \in 1 .. n : q[i] = r
      /\ \A i, j \in 1 .. n : i < j => Before(Place(q[i]), Place(q[j]))
      /\ seen[k] \in Seq(Revisions) /\ seen'[k] \in Seq(Revisions)
      /\ Len(seen'[k]) = m + n
      /\ \A i \in 1 .. m : seen'[k][i] = seen[k][i]
      /\ \A i \in 1 .. n : seen'[k][m + i] = q[i].rev
  BY <1>1, ScanAppends
<1>3. \A i \in 1 .. n : q[i].rev = m + i - 1
  <2>1. \A i \in 1 .. n : q[i].rev = Len(seen[k]) + i - 1
    <3>1. /\ \A r \in Read(k) : \E i \in 1 .. n : q[i] = r
          /\ \A i, j \in 1 .. n : i < j => Before(Place(q[i]), Place(q[j]))
      BY <1>2
    <3>2. n \in Nat /\ q \in [1 .. n -> Read(k)]
      BY <1>2
    <3>. QED  BY <3>1, <3>2, ReadsWhatIsNext
  <2>. QED  BY <1>1, <2>1
<1>4. UNCHANGED <<backend, rows>>
  BY ScanIs
<1>5. DOMAIN seen[k] = 1 .. m /\ DOMAIN seen'[k] = 1 .. m + n
  BY <1>1, <1>2
<1>6. \A i \in DOMAIN seen'[k] : seen'[k][i] = i - 1
  <2>. SUFFICES ASSUME NEW i \in 1 .. m + n PROVE seen'[k][i] = i - 1
    BY <1>5
  <2>1. CASE i <= m
    <3>1. i \in 1 .. m
      BY <1>2, <2>1
    <3>2. seen'[k][i] = seen[k][i] /\ i \in DOMAIN seen[k]
      BY <1>2, <1>5, <3>1
    <3>. QED  BY <3>2 DEF SeenOK
  <2>2. CASE i > m
    <3>1. PICK j : j = i - m
      OBVIOUS
    <3>2. j \in 1 .. n /\ i = m + j
      BY <1>2, <2>2, <3>1
    <3>3. seen'[k][i] = q[j].rev /\ q[j].rev = m + j - 1
      BY <1>2, <1>3, <3>2
    <3>. QED  BY <1>2, <3>2, <3>3
  <2>. QED  BY <1>2, <2>1, <2>2
<1>7. ASSUME NEW r \in rows, r.key = k
      PROVE  r.rev < m + n <=> ~Before(cursor', Place(r))
  <2>0. r.rev \in Nat /\ Place(r) \in Places /\ cursor \in Places /\ cursor' \in Places
        /\ Before(cursor, cursor')
    <3>1. PICK l \in rows : cursor' = Place(l)
      BY ScanIs
    <3>. QED  BY <3>1, ScanIs, Types DEF BaseInv
  <2>1. CASE r.rev < m
    <3>1. ~Before(cursor, Place(r))
      BY <1>1, <1>7, <2>1 DEF SeenOK
    <3>2. ~Before(cursor', Place(r))
      BY <2>0, <3>1, BeforeIsOrder
    <3>. QED  BY <1>2, <2>0, <2>1, <3>2
  <2>2. CASE r.rev >= m /\ r \in Visible
    <3>1. PICK i \in 1 .. n : q[i] = r
      BY <1>2, <1>7, <2>2 DEF Read
    <3>2. r.rev < m + n
      BY <1>2, <1>3, <3>1
    <3>3. Place(r) = cursor' \/ Before(Place(r), cursor')
      BY <2>2, ScanIs
    <3>4. ~Before(cursor', Place(r))
      BY <2>0, <3>3, BeforeIsOrder
    <3>. QED  BY <3>2, <3>4
  <2>3. CASE r.rev >= m /\ r \notin Visible
    <3>1. Before(cursor, Place(r))
      BY <1>1, <1>2, <1>7, <2>0, <2>3 DEF SeenOK
    <3>2. Before(cursor', Place(r))
      BY <2>3, <3>1, UnseenStaysBeyond
    <3>3. ~(r.rev < m + n)
      <4>. SUFFICES ASSUME r.rev < m + n PROVE FALSE
        OBVIOUS
      <4>1. r.rev - m + 1 \in 1 .. n
        BY <1>2, <2>0, <2>3
      <4>2. PICK i \in 1 .. n : i = r.rev - m + 1
        BY <4>1
      <4>3. q[i] \in Read(k) /\ q[i].rev = r.rev
        <5>1. q[i] \in Read(k) /\ q[i].rev = m + i - 1
          BY <1>2, <1>3
        <5>2. m + i - 1 = r.rev
          BY <1>2, <2>0, <4>2
        <5>. QED  BY <5>1, <5>2
      <4>4. q[i] = r
        BY <1>7, <4>3 DEF Read, Visible, RevisionsOK
      <4>. QED  BY <2>3, <4>3, <4>4 DEF Read
    <3>. QED  BY <3>2, <3>3
  <2>. QED  BY <1>2, <2>0, <2>1, <2>2, <2>3
<1>8. m + n <= HeadOf(k)
  <2>1. CASE n = 0
    BY <1>1, <1>2, <2>1 DEF SeenOK
  <2>2. CASE n # 0
    <3>1. n \in 1 .. n
      BY <1>2, <2>2
    <3>2. q[n] \in rows /\ q[n].key = k /\ q[n].rev = m + n - 1
      BY <1>2, <1>3, <3>1 DEF Read, Visible
    <3>3. q[n].rev < HeadOf(k)
      BY <3>2 DEF RevisionsOK
    <3>. QED  BY <1>2, <3>2, <3>3, HeadType DEF BaseInv
  <2>. QED  BY <2>1, <2>2
<1>9. HeadOf(k)' = HeadOf(k)
  BY <1>4 DEF HeadOf
<1>. QED  BY <1>2, <1>4, <1>6, <1>7, <1>8, <1>9 DEF SeenOK, Place

LEMMA OrderStep ==
    ASSUME BaseInv, BaseInv', NothingDropped', OrderInv, [Next]_vars
    PROVE  OrderInv'
<1>. SUFFICES ASSUME restores' = 0
              PROVE  RevisionsOK' /\ TxsInOrder' /\ \A k \in Keys : SeenOK(k)'
  BY DEF OrderInv, TxsInOrder
<1>1. restores = 0 /\ ~Restore
  <2>1. ~Restore
    BY Types DEF BaseInv, Restore
  <2>2. restores' = restores
    <3>1. ASSUME NEW w \in Writers, NEW k \in Keys, Cas(w, k) PROVE restores' = restores
      BY <3>1 DEF Cas
    <3>2. ASSUME NEW w \in Writers, Insert(w) PROVE restores' = restores
      BY <3>2 DEF Insert
    <3>3. ASSUME NEW w \in Writers, Commit(w) \/ Rollback(w) PROVE restores' = restores
      BY <3>3 DEF Commit, Rollback
    <3>4. ForeignBegins \/ ForeignEnds \/ MigrationWaits \/ Scan \/ Migrate => restores' = restores
      BY DEF ForeignBegins, ForeignEnds, MigrationWaits, Scan, Migrate
    <3>. QED  BY <2>1, <3>1, <3>2, <3>3, <3>4 DEF Next, vars
  <2>. QED  BY <2>1, <2>2
<1>2. RevisionsOK /\ TxsInOrder /\ \A k \in Keys : SeenOK(k)
  BY <1>1 DEF OrderInv, TxsInOrder
<1>3. ~MigrationWaits /\ ~Migrate
  BY <1>1, OneCluster DEF MigrationWaits, Migrate
<1>4. ASSUME UNCHANGED rows PROVE RevisionsOK'
  BY <1>2, <1>4 DEF RevisionsOK, HeadOf
<1>5. ASSUME UNCHANGED <<rows, cursor, seen>> PROVE \A k \in Keys : SeenOK(k)'
  BY <1>2, <1>5 DEF SeenOK, HeadOf, Place
<1>6. ASSUME UNCHANGED <<rows, tx, backend>> PROVE TxsInOrder'
  BY <1>2, <1>6 DEF TxsInOrder, OpenOK, HeadOf
<1>7. ASSUME NEW w \in Writers, NEW k \in Keys, Cas(w, k)
      PROVE  TxsInOrder' /\ UNCHANGED <<rows, cursor, seen>>
  BY <1>1, <1>2, <1>7, CasOrder DEF Cas
<1>8. ASSUME NEW w \in Writers, Insert(w)
      PROVE  TxsInOrder' /\ UNCHANGED <<rows, cursor, seen>>
  BY <1>1, <1>2, <1>8, InsertOrder DEF Insert
<1>9. ASSUME NEW w \in Writers, Rollback(w)
      PROVE  TxsInOrder' /\ UNCHANGED <<rows, cursor, seen>>
  BY <1>1, <1>2, <1>9, RollbackOrder DEF Rollback
<1>10. ASSUME NEW w \in Writers, Commit(w)
       PROVE  RevisionsOK' /\ TxsInOrder' /\ \A k \in Keys : SeenOK(k)'
  BY <1>1, <1>2, <1>10, CommitOrder
<1>11. CASE Scan
  <2>1. \A k \in Keys : SeenOK(k)'
    BY <1>1, <1>2, <1>11, ScanInOrder
  <2>. QED  BY <1>4, <1>6, <1>11, <2>1 DEF Scan
<1>12. CASE ForeignBegins \/ ForeignEnds \/ UNCHANGED vars
  <2>1. UNCHANGED <<rows, cursor, seen, tx, backend>>
    BY <1>12 DEF ForeignBegins, ForeignEnds, vars
  <2>. QED  BY <1>4, <1>5, <1>6, <2>1
<1>. QED  BY <1>1, <1>3, <1>4, <1>5, <1>7, <1>8, <1>9, <1>10, <1>11, <1>12 DEF Next

-----------------------------------------------------------------------------

LEMMA InitIInv == Init => IInv
<1>. SUFFICES ASSUME Init PROVE IInv
  OBVIOUS
<1>1. BaseInv
  BY InitBase
<1>2. CursorOK
  <2>1. cursor = <<0, 0>> /\ epoch = 0
    BY DEF Init
  <2>. QED  BY <1>1, <2>1, XminIs DEF BaseInv, CursorOK
<1>3. NothingDropped
  BY DEF Init, NothingDropped
<1>4. OrderInv
  <2>1. \A k : HeadOf(k) = 0
    BY FS_EmptySet DEF Init, HeadOf
  <2>2. RevisionsOK
    BY <2>1 DEF Init, RevisionsOK
  <2>3. \A w \in Writers : OpenOK(w)
    BY IdleIs DEF Init, OpenOK
  <2>4. \A k \in Keys : SeenOK(k)
    BY <2>1 DEF Init, SeenOK
  <2>. QED  BY <2>2, <2>3, <2>4 DEF OrderInv
<1>. QED  BY <1>1, <1>2, <1>3, <1>4 DEF IInv, PlaceInv, BaseInv

LEMMA StepIInv == IInv /\ [Next]_vars => IInv'
<1>. SUFFICES ASSUME IInv, [Next]_vars PROVE IInv'
  OBVIOUS
<1>1. BaseInv /\ CursorOK /\ NothingDropped /\ OrderInv
  BY DEF IInv, PlaceInv, BaseInv
<1>2. BaseInv'
  BY <1>1, StepBase
<1>3. CursorOK'
  BY <1>1, <1>2, CursorStep
<1>4. NothingDropped'
  BY <1>1, DropStep
<1>5. OrderInv'
  BY <1>1, <1>2, <1>4, OrderStep
<1>. QED  BY <1>2, <1>3, <1>4, <1>5 DEF IInv, PlaceInv, BaseInv

(* Whatever writers overlap, roll back or commit late, whatever other      *)
(* databases of the cluster do, and however often dumps are restored: no   *)
(* committed row lies unread behind the cursor once a restore has been     *)
(* mended, and on a cluster that was never restored the revisions of an    *)
(* aggregate are read once, in order and without a gap.                    *)
THEOREM ScansStayWhole == Spec => []ScanIsWhole
<1>1. IInv => ScanIsWhole
  <2>. SUFFICES ASSUME IInv PROVE ScanIsWhole
    OBVIOUS
  <2>1. SeenInOrder
    BY DEF IInv, OrderInv, SeenOK, SeenInOrder
  <2>. QED  BY <2>1 DEF IInv, PlaceInv, ScanIsWhole
<1>. QED  BY InitIInv, StepIInv, <1>1, PTL DEF Spec

=============================================================================
