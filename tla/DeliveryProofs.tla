--------------------------- MODULE DeliveryProofs ---------------------------
(* Proofs about the outbox, for any number of workers, intents, queues and *)
(* clocks, whatever leases run out, crash or stall.  Nothing is lost;      *)
(* every step is one that OutboxContract allows; an intent on which no     *)
(* report came after its lease has one holder, bounded attempts and        *)
(* redrives that stick; and what is given up has used its attempts, unless *)
(* such a report was laid over a redrive.                                  *)
EXTENDS Delivery, FiniteSetTheorems, NaturalsInduction,
        WellFoundedInduction, TLAPS

-----------------------------------------------------------------------------
(* The inductive invariants.                                               *)

IsRow(r) == r \in [status : Statuses, attempts : Nat, due : {r.due}, lease : Int]
IsSettlement(s) == s \in [status : {"none", "delivered", "retry", "dead"}, due : {s.due}]

Types ==
    /\ row = [i \in Intents |-> row[i]] /\ \A i \in Intents : IsRow(row[i])
    /\ claims \in [Workers -> [Intents -> Nat]]
    /\ lease \in [Workers -> Int]
    /\ settling = [w \in Workers |-> settling[w]]
    /\ \A w \in Workers : settling[w] = [i \in Intents |-> settling[w][i]]
    /\ \A w \in Workers, i \in Intents : IsSettlement(settling[w][i])
    /\ crashes \in Nat /\ redrives \in 0 .. MaxRedrives

(* A worker reports only on what it has claimed, and "delivered" only      *)
(* after the handler has returned.                                         *)
Truthful ==
    \A w \in Workers, i \in Intents :
        /\ settling[w][i].status # "none" => i \in Batch(w)
        /\ settling[w][i].status = "delivered" => i \in handled

Unknown(i) == \E w \in Workers : SubOf[i] \notin KnownTo[w]

(* It reports by the attempts it was handed.                               *)
ByAttempts ==
    \A w \in Workers, i \in Intents :
        /\ settling[w][i].status = "dead" => claims[w][i] >= MaxAttempts \/ Unknown(i)
        /\ settling[w][i].status = "retry" => claims[w][i] < MaxAttempts

BaseInv == Types /\ Truthful /\ NoLoss /\ ByAttempts

(* The attempts of a row never fall behind those of a claim.               *)
ClaimsBehind ==
    \A w \in Workers, i \in Intents :
        i \in Batch(w) /\ row[i].status # "gone" => claims[w][i] <= row[i].attempts

(* Only what has been committed is ever claimed.                           *)
Born == \A w \in Workers : \A i \in Batch(w) : row[i].status # "unborn"

(* While no report on an intent has come too late, a worker within its     *)
(* lease holds the row as it claimed it.                                   *)
HeldBy(w, i) ==
    /\ row[i].status = "leased" /\ row[i].lease = lease[w]
    /\ claims[w][i] = row[i].attempts

Held ==
    \A w \in Workers : lease[w] >= 0 =>
        \A i \in Batch(w) \ late : HeldBy(w, i)

(* Every attempt beyond the first MaxAttempts - 1 has somebody who still   *)
(* holds the intent or a crash to show for it.                             *)
Counted ==
    \A i \in Intents \ late :
        /\ row[i].status \in {"leased", "dead"} => row[i].attempts > 0
        /\ row[i].status \notin {"leased", "dead"} => row[i].attempts < MaxAttempts
        /\ row[i].status = "leased" =>
              row[i].attempts < MaxAttempts + crashes + Cardinality(Holders(i))
        /\ row[i].attempts <= MaxAttempts + crashes + Cardinality(Holders(i))

(* What has no settlement has none at all.                                *)
Prepared ==
    \A w \in Workers, i \in Intents :
        settling[w][i].status = "none" => settling[w][i] = NoSettlement

LeaseInv == Born /\ Held /\ LeaseExclusive /\ Counted /\ Prepared

-----------------------------------------------------------------------------
(* Lemmas about settlements and steps.                                     *)

LEMMA SettledIs ==
    ASSUME NEW r, IsRow(r), NEW s, IsSettlement(s)
    PROVE  /\ IsRow(Settled(r, s))
           /\ r.status = "gone" \/ s.status = "none" => Settled(r, s) = r
           /\ r.status # "gone" /\ s.status = "delivered" =>
                 Settled(r, s).status = "gone" /\ Settled(r, s).attempts = 0
           /\ r.status # "gone" /\ s.status = "retry" =>
                 Settled(r, s).status = "pending" /\ Settled(r, s).attempts = r.attempts
           /\ r.status # "gone" /\ s.status = "dead" =>
                 Settled(r, s).status = "dead" /\ Settled(r, s).attempts = r.attempts
<1>0. "pending" \in Statuses /\ "dead" \in Statuses /\ -1 \in Int
  BY DEF Statuses
<1>1. CASE r.status = "gone" \/ s.status = "none"
  <2>1. Settled(r, s) = r
    BY <1>1 DEF Settled
  <2>. QED  BY <1>1, <2>1
<1>2. CASE r.status # "gone" /\ s.status = "delivered"
  <2>1. Settled(r, s) = [Unborn EXCEPT !.status = "gone"]
    BY <1>2 DEF Settled
  <2>. QED  BY <1>2, <2>1 DEF IsRow, Unborn, Statuses
<1>3. CASE r.status # "gone" /\ s.status = "retry"
  <2>1. Settled(r, s) = [r EXCEPT !.status = "pending", !.due = s.due, !.lease = -1]
    BY <1>3 DEF Settled
  <2>2. LET q == [r EXCEPT !.status = "pending", !.due = s.due, !.lease = -1]
        IN  IsRow(q) /\ q.status = "pending" /\ q.attempts = r.attempts
    BY <1>0 DEF IsRow
  <2>. QED  BY <1>3, <2>1, <2>2
<1>4. CASE r.status # "gone" /\ s.status = "dead"
  <2>1. Settled(r, s) = [r EXCEPT !.status = "dead", !.lease = -1]
    BY <1>4 DEF Settled
  <2>2. LET q == [r EXCEPT !.status = "dead", !.lease = -1]
        IN  IsRow(q) /\ q.status = "dead" /\ q.attempts = r.attempts
    BY <1>0 DEF IsRow
  <2>. QED  BY <1>4, <2>1, <2>2
<1>. QED  BY <1>1, <1>2, <1>3, <1>4 DEF IsSettlement

(* What Power computes, which only holds because such a function exists.   *)
LEMMA LeastOf ==
    ASSUME NEW T, T \subseteq Nat, T # {}
    PROVE  \E x \in T : \A y \in T : x <= y
<1>1. PICK x \in T : \A y \in T : ~(<<y, x>> \in OpToRel(<, Nat))
  BY NatLessThanWellFounded, WFMin
<1>2. \A y \in T : ~(y < x)
  BY <1>1 DEF OpToRel
<1>. QED  BY <1>2

IsPower(f, m) == f = [n \in 0 .. m |-> IF n = 0 THEN 1 ELSE Factor * f[n - 1]]

LEMMA PowerExists == ASSUME NEW m \in Nat PROVE \E f : IsPower(f, m)
<1>. DEFINE Bad == {j \in Nat : ~\E f : IsPower(f, j)}
<1>. SUFFICES ASSUME Bad # {} PROVE FALSE
  OBVIOUS
<1>1. PICK j \in Bad : \A i \in Bad : j <= i
  BY LeastOf
<1>2. CASE j = 0
  <2>1. IsPower([n \in 0 .. 0 |-> 1], 0)
    BY DEF IsPower
  <2>. QED  BY <1>2, <2>1
<1>3. CASE j # 0
  <2>1. j - 1 \in Nat /\ j - 1 \notin Bad
    BY <1>1, <1>3
  <2>2. PICK f : IsPower(f, j - 1)
    BY <2>1
  <2>. DEFINE g == [n \in 0 .. j |-> IF n = j THEN Factor * f[j - 1] ELSE f[n]]
  <2>3. \A n \in 0 .. j - 1 : f[n] = IF n = 0 THEN 1 ELSE Factor * f[n - 1]
    BY <2>2 DEF IsPower
  <2>4. \A n \in 0 .. j : g[n] = IF n = 0 THEN 1 ELSE Factor * g[n - 1]
    BY <1>3, <2>1, <2>3
  <2>5. IsPower(g, j)
    BY <2>4 DEF IsPower
  <2>. QED  BY <2>5
<1>. QED  BY <1>2, <1>3

LEMMA PowerIs ==
    ASSUME NEW n \in 0 .. MaxAttempts
    PROVE  Power[n] = IF n = 0 THEN 1 ELSE Factor * Power[n - 1]
<1>1. \E f : IsPower(f, MaxAttempts)
  BY DeliveryAssumption, PowerExists
<1>2. Power = CHOOSE f : IsPower(f, MaxAttempts)
  BY DEF Power, IsPower
<1>3. Power = [i \in 0 .. MaxAttempts |-> IF i = 0 THEN 1 ELSE Factor * Power[i - 1]]
  BY <1>1, <1>2 DEF IsPower
<1>. QED  BY <1>3, Zenon

LEMMA Product == ASSUME NEW a \in Nat, NEW b \in Nat PROVE a * b \in Nat
OBVIOUS

LEMMA PowerNat == ASSUME NEW n \in 0 .. MaxAttempts PROVE Power[n] \in Nat
<1>. DEFINE Bad == {i \in 0 .. MaxAttempts : Power[i] \notin Nat}
<1>. SUFFICES ASSUME Bad # {} PROVE FALSE
  OBVIOUS
<1>0. Bad \subseteq Nat
  BY DeliveryAssumption
<1>1. PICK j \in Bad : \A i \in Bad : j <= i
  BY <1>0, LeastOf
<1>2. Power[j] = IF j = 0 THEN 1 ELSE Factor * Power[j - 1]
  BY PowerIs
<1>3. CASE j = 0
  BY <1>2, <1>3
<1>4. CASE j # 0
  <2>1. Power[j - 1] \in Nat
    BY <1>0, <1>1, <1>4, DeliveryAssumption
  <2>2. Factor * Power[j - 1] \in Nat
    BY <2>1, DeliveryAssumption, Product
  <2>. QED  BY <1>2, <1>4, <2>2
<1>. QED  BY <1>3, <1>4

(* No retry is in the past, and none is further away than Cap.             *)
LEMMA DelayBounded ==
    ASSUME NEW n \in Nat \ {0}, ~Exhausted(n)
    PROVE  Delay(n) \in 0 .. Cap
<1>1. n - 1 \in 0 .. MaxAttempts
  BY DeliveryAssumption DEF Exhausted
<1>2. Base * Power[n - 1] \in Nat
  BY <1>1, PowerNat, Product, DeliveryAssumption
<1>. QED  BY <1>2, DeliveryAssumption DEF Delay

(* Every action, field by field.                                           *)
LEMMA StageDoes ==
    ASSUME Types, NEW i \in Intents, Stage(i)
    PROVE  /\ row[i].status = "unborn" /\ row'[i].status = "pending"
           /\ row'[i].attempts = row[i].attempts /\ IsRow(row'[i])
           /\ \A j \in Intents : j # i => row'[j] = row[j]
           /\ row' = [j \in Intents |-> row'[j]]
<1>1. row[i].status = "unborn" /\ row' = [row EXCEPT ![i] = [row[i] EXCEPT !.status = "pending"]]
  BY DEF Stage, Unborn
<1>2. LET q == [row[i] EXCEPT !.status = "pending"]
      IN  IsRow(q) /\ q.status = "pending" /\ q.attempts = row[i].attempts
  BY DEF Types, IsRow, Statuses
<1>. QED  BY <1>1, <1>2 DEF Types

Leased(r) == [r EXCEPT !.status = "leased", !.lease = Lease, !.attempts = r.attempts + 1]

LEMMA LeasedIs ==
    ASSUME NEW r, IsRow(r)
    PROVE  /\ IsRow(Leased(r)) /\ Leased(r).status = "leased" /\ Leased(r).lease = Lease
           /\ Leased(r).attempts = r.attempts + 1
<1>1. "leased" \in Statuses /\ Lease \in Int /\ r.attempts + 1 \in Nat
  BY DeliveryAssumption DEF Statuses, IsRow
<1>. QED  BY <1>1 DEF IsRow, Leased

(* w claims the intents B.                                                 *)
Claimed(w, B) ==
    /\ \A i \in B : /\ Claimable(i)
                    /\ row'[i].status = "leased" /\ row'[i].lease = Lease
                    /\ row'[i].attempts = row[i].attempts + 1 /\ IsRow(row'[i])
                    /\ claims'[w][i] = row[i].attempts + 1
    /\ \A i \in Intents \ B : row'[i] = row[i] /\ claims'[w][i] = 0
    /\ row' = [i \in Intents |-> row'[i]]
    /\ claims' \in [Workers -> [Intents -> Nat]]
    /\ \A v \in Workers : v # w => claims'[v] = claims[v] /\ lease'[v] = lease[v]
    /\ lease' \in [Workers -> Int] /\ lease'[w] = Lease
    /\ Batch(w) = {}

LEMMA ClaimDoes ==
    ASSUME Types, NEW w \in Workers, Claim(w)
    PROVE  \E B \in SUBSET Intents : Claimed(w, B)
<1>. DEFINE able == {i \in Intents : Claimable(i) /\ QueueOf[SubOf[i]] = Queue[w]}
<1>1. PICK B \in SUBSET able \ {{}} :
         /\ row' = [i \in Intents |->
               IF i \in B
               THEN [row[i] EXCEPT !.status = "leased", !.lease = Lease,
                                   !.attempts = row[i].attempts + 1]
               ELSE row[i]]
         /\ claims' = [claims EXCEPT ![w] =
               [i \in Intents |-> IF i \in B THEN row[i].attempts + 1 ELSE 0]]
  BY DEF Claim
<1>2. B \in SUBSET Intents /\ \A i \in B : Claimable(i)
  OBVIOUS
<1>. HIDE DEF able
<1>4. row' = [i \in Intents |-> row'[i]]
  BY <1>1
<1>3. /\ \A i \in B : row'[i] = Leased(row[i])
      /\ \A i \in Intents \ B : row'[i] = row[i]
  BY <1>1, <1>2 DEF Leased
<1>5. /\ \A i \in B : /\ row'[i].status = "leased" /\ row'[i].lease = Lease
                      /\ row'[i].attempts = row[i].attempts + 1 /\ IsRow(row'[i])
      /\ \A i \in Intents \ B : row'[i] = row[i]
  <2>1. ASSUME NEW i \in B PROVE IsRow(row[i])
    BY <1>2 DEF Types
  <2>. QED  BY <1>3, <2>1, LeasedIs
<1>6. \A i \in Intents : row[i].attempts \in Nat
  BY DEF Types, IsRow
<1>7. /\ claims' \in [Workers -> [Intents -> Nat]]
      /\ \A v \in Workers : v # w => claims'[v] = claims[v]
      /\ \A i \in B : claims'[w][i] = row[i].attempts + 1
      /\ \A i \in Intents \ B : claims'[w][i] = 0
  <2>. DEFINE c == [i \in Intents |-> IF i \in B THEN row[i].attempts + 1 ELSE 0]
  <2>1. /\ c \in [Intents -> Nat]
        /\ \A i \in B : c[i] = row[i].attempts + 1
        /\ \A i \in Intents \ B : c[i] = 0
    BY <1>2, <1>6
  <2>2. claims' = [claims EXCEPT ![w] = c]
    BY <1>1
  <2>. HIDE DEF c
  <2>. QED  BY <2>1, <2>2 DEF Types
<1>8. /\ lease' \in [Workers -> Int] /\ lease'[w] = Lease
      /\ \A v \in Workers : v # w => lease'[v] = lease[v]
      /\ Batch(w) = {}
  <2>1. lease' = [lease EXCEPT ![w] = Lease] /\ ~Busy(w)
    BY DEF Claim
  <2>. QED  BY <2>1, DeliveryAssumption DEF Types, Busy
<1>9. Claimed(w, B)
  BY <1>2, <1>4, <1>5, <1>7, <1>8 DEF Claimed
<1>. QED  BY <1>2, <1>9

ReportsOn(w, i) ==
    \/ /\ settling'[w][i].status = "dead" /\ UNCHANGED handled
       /\ claims[w][i] >= MaxAttempts \/ Unknown(i)
    \/ settling'[w][i].status = "delivered" /\ handled' = handled \cup {i}
    \/ /\ settling'[w][i].status = "retry" /\ UNCHANGED handled
       /\ claims[w][i] < MaxAttempts

OnlyOn(w, i) ==
    /\ IsSettlement(settling'[w][i])
    /\ \A j \in Intents : j # i => settling'[w][j] = settling[w][j]
    /\ settling' = [v \in Workers |-> settling'[v]]
    /\ settling'[w] = [j \in Intents |-> settling'[w][j]]
    /\ \A v \in Workers : v # w => settling'[v] = settling[v]

LEMMA DeliverDoes ==
    ASSUME Types, NEW w \in Workers, Deliver(w)
    PROVE  \E i \in Batch(w) : i \in Intents /\ ReportsOn(w, i) /\ OnlyOn(w, i)
<1>1. PICK i \in Undelivered(w) :
         \/ /\ SubOf[i] \notin KnownTo[w]
            /\ Prepare(w, i, [status |-> "dead", due |-> 0])
            /\ UNCHANGED handled
         \/ /\ SubOf[i] \in KnownTo[w]
            /\ Prepare(w, i, [status |-> "delivered", due |-> 0])
            /\ handled' = handled \cup {i}
         \/ /\ SubOf[i] \in KnownTo[w]
            /\ Prepare(w, i, Disposition(claims[w][i]))
            /\ UNCHANGED handled
  BY DEF Deliver
<1>2. i \in Batch(w) /\ i \in Intents /\ claims[w][i] \in Nat
  BY DEF Undelivered, Batch, Types
<1>3. ASSUME NEW s, IsSettlement(s), Prepare(w, i, s)
      PROVE  settling'[w][i] = s /\ OnlyOn(w, i)
  BY <1>2, <1>3 DEF Prepare, Types, OnlyOn
<1>4. CASE /\ SubOf[i] \notin KnownTo[w] /\ UNCHANGED handled
           /\ Prepare(w, i, [status |-> "dead", due |-> 0])
  <2>1. IsSettlement([status |-> "dead", due |-> 0])
    BY DEF IsSettlement
  <2>2. settling'[w][i] = [status |-> "dead", due |-> 0] /\ OnlyOn(w, i)
    BY <1>3, <1>4, <2>1
  <2>3. ReportsOn(w, i)
    BY <1>4, <2>2 DEF ReportsOn, Unknown
  <2>. QED  BY <1>2, <2>2, <2>3
<1>5. CASE handled' = handled \cup {i} /\ Prepare(w, i, [status |-> "delivered", due |-> 0])
  <2>1. IsSettlement([status |-> "delivered", due |-> 0])
    BY DEF IsSettlement
  <2>2. settling'[w][i] = [status |-> "delivered", due |-> 0] /\ OnlyOn(w, i)
    BY <1>3, <1>5, <2>1
  <2>3. ReportsOn(w, i)
    BY <1>5, <2>2 DEF ReportsOn
  <2>. QED  BY <1>2, <2>2, <2>3
<1>6. CASE UNCHANGED handled /\ Prepare(w, i, Disposition(claims[w][i]))
  <2>1. CASE claims[w][i] >= MaxAttempts
    <3>1. Disposition(claims[w][i]) = [status |-> "dead", due |-> 0]
      BY <2>1 DEF Disposition, Exhausted
    <3>2. IsSettlement([status |-> "dead", due |-> 0])
      BY DEF IsSettlement
    <3>3. settling'[w][i] = [status |-> "dead", due |-> 0] /\ OnlyOn(w, i)
      BY <1>3, <1>6, <3>1, <3>2
    <3>4. ReportsOn(w, i)
      BY <1>6, <2>1, <3>3 DEF ReportsOn
    <3>. QED  BY <1>2, <3>3, <3>4
  <2>2. CASE ~(claims[w][i] >= MaxAttempts)
    <3>. DEFINE delay == Delay(claims[w][i])
    <3>. HIDE DEF delay
    <3>1. Disposition(claims[w][i]) = [status |-> "retry", due |-> delay]
      BY <2>2 DEF Disposition, Exhausted, delay
    <3>2. IsSettlement([status |-> "retry", due |-> delay])
      BY DEF IsSettlement
    <3>3. claims[w][i] < MaxAttempts
      BY <1>2, <2>2, DeliveryAssumption
    <3>4. settling'[w][i] = [status |-> "retry", due |-> delay] /\ OnlyOn(w, i)
      BY <1>3, <1>6, <3>1, <3>2
    <3>5. ReportsOn(w, i)
      BY <1>6, <3>3, <3>4 DEF ReportsOn
    <3>. QED  BY <1>2, <3>4, <3>5
  <2>. QED  BY <2>1, <2>2
<1>. QED  BY <1>1, <1>4, <1>5, <1>6

LEMMA ReleaseDoes ==
    ASSUME Types, NEW w \in Workers, Release(w)
    PROVE  /\ claims' \in [Workers -> [Intents -> Nat]] /\ Batch(w)' = {}
           /\ lease' \in [Workers -> Int]
           /\ settling' = [v \in Workers |-> settling'[v]]
           /\ settling'[w] = [i \in Intents |-> settling'[w][i]]
           /\ \A i \in Intents : /\ settling'[w][i].status = "none"
                                 /\ IsSettlement(settling'[w][i]) /\ claims'[w][i] = 0
           /\ \A v \in Workers : v # w => /\ settling'[v] = settling[v]
                                          /\ claims'[v] = claims[v] /\ lease'[v] = lease[v]
<1>1. /\ claims' \in [Workers -> [Intents -> Nat]]
      /\ \A i \in Intents : claims'[w][i] = 0
      /\ \A v \in Workers : v # w => claims'[v] = claims[v]
  <2>1. NoClaims \in [Intents -> Nat] /\ \A i \in Intents : NoClaims[i] = 0
    BY DEF NoClaims
  <2>. QED  BY <2>1 DEF Types, Release
<1>2. Batch(w)' = {}
  BY <1>1 DEF Batch
<1>3. lease' \in [Workers -> Int] /\ \A v \in Workers : v # w => lease'[v] = lease[v]
  BY DEF Types, Release
<1>4. /\ settling' = [v \in Workers |-> settling'[v]] /\ settling'[w] = NoSettlements
      /\ \A v \in Workers : v # w => settling'[v] = settling[v]
  BY DEF Types, Release
<1>5. /\ NoSettlements = [i \in Intents |-> NoSettlements[i]]
      /\ \A i \in Intents : NoSettlements[i].status = "none" /\ IsSettlement(NoSettlements[i])
  BY DEF NoSettlements, NoSettlement, IsSettlement
<1>. QED  BY <1>1, <1>2, <1>3, <1>4, <1>5

LEMMA RedriveDoes ==
    ASSUME Types, NEW sub \in Subs, Redrive(sub)
    PROVE  /\ \A i \in Intents :
                 \/ row'[i] = row[i]
                 \/ /\ row[i].status = "dead" /\ row'[i].status = "pending"
                    /\ row'[i].attempts = 0 /\ IsRow(row'[i])
           /\ row' = [i \in Intents |-> row'[i]]
           /\ redrives' \in 0 .. MaxRedrives /\ redrives < MaxRedrives
<1>1. IsRow([status |-> "pending", attempts |-> 0, due |-> 0, lease |-> -1])
  BY DEF IsRow, Statuses
<1>. QED  BY <1>1, DeliveryAssumption DEF Redrive, Types

LEMMA TickDoes ==
    ASSUME Types, Tick
    PROVE  /\ row' = [i \in Intents |-> row'[i]]
           /\ \A i \in Intents : /\ row'[i].status = row[i].status
                                 /\ row'[i].attempts = row[i].attempts
                                 /\ row'[i].lease = Sooner(row[i].lease, -1)
                                 /\ IsRow(row'[i])
           /\ lease' \in [Workers -> Int]
           /\ \A w \in Workers : lease'[w] = Sooner(lease[w], -1)
           /\ settling' = [w \in Workers |-> settling'[w]]
           /\ \A w \in Workers : settling'[w] = [i \in Intents |-> settling'[w][i]]
           /\ \A w \in Workers, i \in Intents :
                 /\ settling'[w][i].status = settling[w][i].status
                 /\ IsSettlement(settling'[w][i])
           /\ UNCHANGED <<claims, handled, late, crashes, redrives>>
<1>1. ASSUME NEW i \in Intents
      PROVE  /\ row'[i].status = row[i].status /\ row'[i].attempts = row[i].attempts
             /\ row'[i].lease = Sooner(row[i].lease, -1) /\ IsRow(row'[i])
  <2>. DEFINE d == IF row[i].status = "pending" \/ row[i].status = "leased"
                   THEN Sooner(row[i].due, -Horizon) ELSE row[i].due
              l == Sooner(row[i].lease, -1)
  <2>1. row'[i] = [row[i] EXCEPT !.due = d, !.lease = l]
    BY DEF Tick
  <2>2. IsRow(row[i]) /\ l \in Int
    BY DEF Types, IsRow, Sooner
  <2>. HIDE DEF d, l
  <2>3. /\ row'[i].status = row[i].status /\ row'[i].attempts = row[i].attempts
        /\ row'[i].lease = l /\ IsRow(row'[i])
    BY <2>1, <2>2 DEF IsRow
  <2>. QED  BY <2>3 DEF l
<1>2. ASSUME NEW w \in Workers, NEW i \in Intents
      PROVE  settling'[w][i].status = settling[w][i].status /\ IsSettlement(settling'[w][i])
  <2>. DEFINE d == IF settling[w][i].status = "retry"
                   THEN Sooner(settling[w][i].due, -Horizon) ELSE settling[w][i].due
  <2>1. settling'[w][i] = [settling[w][i] EXCEPT !.due = d]
    BY DEF Tick
  <2>2. IsSettlement(settling[w][i])
    BY DEF Types
  <2>. HIDE DEF d
  <2>. QED  BY <2>1, <2>2 DEF IsSettlement
<1>3. /\ lease' \in [Workers -> Int]
      /\ \A w \in Workers : lease'[w] = Sooner(lease[w], -1)
  <2>1. lease' = [w \in Workers |-> Sooner(lease[w], -1)]
    BY DEF Tick
  <2>2. \A w \in Workers : Sooner(lease[w], -1) \in Int
    BY DEF Types, Sooner
  <2>. QED  BY <2>1, <2>2
<1>4. /\ row' = [i \in Intents |-> row'[i]]
      /\ settling' = [w \in Workers |-> settling'[w]]
      /\ \A w \in Workers : settling'[w] = [i \in Intents |-> settling'[w][i]]
      /\ UNCHANGED <<claims, handled, late, crashes, redrives>>
  BY DEF Tick
<1>. QED  BY <1>1, <1>2, <1>3, <1>4

LEMMA SettleDoes ==
    ASSUME Types, NEW w \in Workers, Settle(w)
    PROVE  /\ row' = [i \in Intents |-> row'[i]]
           /\ \A i \in Intents : row'[i] = Settled(row[i], settling[w][i]) /\ IsRow(row'[i])
           /\ Release(w) /\ UNCHANGED <<handled, crashes, redrives>>
           /\ late' = IF lease[w] < 0 THEN late \cup Batch(w) ELSE late
<1>1. /\ row' = [i \in Intents |-> Settled(row[i], settling[w][i])]
      /\ Release(w) /\ UNCHANGED <<handled, crashes, redrives>>
      /\ late' = IF lease[w] < 0 THEN late \cup Batch(w) ELSE late
  BY DEF Settle
<1>2. \A i \in Intents : IsRow(row[i]) /\ IsSettlement(settling[w][i])
  BY DEF Types
<1>3. \A i \in Intents : IsRow(Settled(row[i], settling[w][i]))
  BY <1>2, SettledIs
<1>. QED  BY <1>1, <1>3

-----------------------------------------------------------------------------
(* Nothing is lost.                                                        *)

LEMMA BaseStarts == Init => BaseInv
<1>. SUFFICES ASSUME Init PROVE BaseInv
  OBVIOUS
<1>1. IsRow(Unborn) /\ Unborn.status = "unborn" /\ IsSettlement(NoSettlement)
      /\ NoSettlement.status = "none"
  BY DEF IsRow, Unborn, Statuses, IsSettlement, NoSettlement
<1>2. /\ row = [i \in Intents |-> Unborn] /\ claims = [w \in Workers |-> NoClaims]
      /\ lease = [w \in Workers |-> -1]
      /\ settling = [w \in Workers |-> [i \in Intents |-> NoSettlement]]
      /\ crashes = 0 /\ redrives = 0
  BY DEF Init, NoSettlements
<1>3. NoClaims \in [Intents -> Nat]
  BY DEF NoClaims
<1>4. Types
  BY <1>1, <1>2, <1>3, DeliveryAssumption DEF Types
<1>5. Truthful /\ NoLoss /\ ByAttempts
  BY <1>1, <1>2 DEF Truthful, NoLoss, ByAttempts
<1>. QED  BY <1>4, <1>5 DEF BaseInv

LEMMA BaseSteps == BaseInv /\ [Next]_vars => BaseInv'
<1>. SUFFICES ASSUME BaseInv, [Next]_vars PROVE BaseInv'
  OBVIOUS
<1>. USE DEF BaseInv
<1>1. ASSUME NEW i \in Intents, Stage(i) PROVE BaseInv'
  <2>1. UNCHANGED <<claims, lease, settling, handled, crashes, redrives>>
    BY <1>1 DEF Stage
  <2>2. Types'
    BY <1>1, <2>1, StageDoes DEF Types
  <2>3. NoLoss'
    BY <1>1, <2>1, StageDoes DEF NoLoss
  <2>4. Truthful' /\ ByAttempts'
    BY <2>1 DEF Truthful, ByAttempts, Batch
  <2>. QED  BY <2>2, <2>3, <2>4
<1>2. ASSUME NEW w \in Workers, Claim(w) PROVE BaseInv'
  <2>1. UNCHANGED <<settling, handled, crashes, redrives>>
    BY <1>2 DEF Claim
  <2>0. PICK B \in SUBSET Intents : Claimed(w, B)
    BY <1>2, ClaimDoes
  <2>2. /\ \A i \in B : row'[i].status = "leased" /\ IsRow(row'[i])
        /\ \A i \in Intents \ B : row'[i] = row[i]
        /\ row' = [i \in Intents |-> row'[i]]
        /\ claims' \in [Workers -> [Intents -> Nat]]
        /\ \A v \in Workers : v # w => claims'[v] = claims[v]
        /\ lease' \in [Workers -> Int]
        /\ Batch(w) = {}
    BY <2>0 DEF Claimed
  <2>3. Types'
    BY <2>1, <2>2 DEF Types
  <2>4. NoLoss'
    BY <2>1, <2>2 DEF NoLoss
  <2>5. ASSUME NEW v \in Workers, NEW i \in Intents, settling'[v][i].status # "none"
        PROVE  v # w /\ claims'[v] = claims[v] /\ i \in Batch(v)' /\ settling'[v] = settling[v]
    BY <2>1, <2>2, <2>5 DEF Truthful, Batch
  <2>6. Truthful' /\ ByAttempts'
    BY <2>1, <2>5 DEF Truthful, ByAttempts
  <2>. QED  BY <2>3, <2>4, <2>6
<1>3. ASSUME NEW w \in Workers, Deliver(w) PROVE BaseInv'
  <2>1. UNCHANGED <<row, claims, lease, crashes, redrives>>
    BY <1>3 DEF Deliver, Prepare
  <2>2. PICK i \in Batch(w) : i \in Intents /\ ReportsOn(w, i) /\ OnlyOn(w, i)
    BY <1>3, DeliverDoes
  <2>3. Types'
    <3>1. ASSUME NEW v \in Workers
          PROVE  /\ settling'[v] = [j \in Intents |-> settling'[v][j]]
                 /\ \A j \in Intents : IsSettlement(settling'[v][j])
      BY <2>2 DEF Types, OnlyOn
    <3>2. settling' = [v \in Workers |-> settling'[v]]
      BY <2>2 DEF OnlyOn
    <3>. QED  BY <2>1, <3>1, <3>2 DEF Types
  <2>4. handled \subseteq handled' /\ NoLoss'
    BY <2>1, <2>2 DEF ReportsOn, NoLoss
  <2>5. ASSUME NEW v \in Workers, NEW j \in Intents
        PROVE  \/ settling'[v][j] = settling[v][j]
               \/ v = w /\ j = i
    BY <2>2 DEF OnlyOn
  <2>6. Truthful'
    BY <2>1, <2>2, <2>4, <2>5 DEF Truthful, ReportsOn, Batch
  <2>7. ByAttempts'
    BY <2>1, <2>2, <2>5 DEF ByAttempts, ReportsOn
  <2>. QED  BY <2>3, <2>4, <2>6, <2>7
<1>4. ASSUME NEW w \in Workers, Types', Release(w), UNCHANGED handled, NoLoss' PROVE BaseInv'
  <2>1. ASSUME NEW v \in Workers, NEW j \in Intents, settling'[v][j].status # "none"
        PROVE  v # w /\ claims'[v] = claims[v] /\ settling'[v] = settling[v]
    BY <1>4, <2>1, ReleaseDoes
  <2>2. Truthful' /\ ByAttempts'
    BY <1>4, <2>1 DEF Truthful, ByAttempts, Batch
  <2>. QED  BY <1>4, <2>2
<1>5. ASSUME NEW w \in Workers, Settle(w) PROVE BaseInv'
  <2>1. Types'
    BY <1>5, SettleDoes, ReleaseDoes DEF Types
  <2>2. ASSUME NEW i \in Intents, row'[i].status = "gone" PROVE i \in handled'
    <3>1. row'[i] = Settled(row[i], settling[w][i]) /\ UNCHANGED handled
      BY <1>5, SettleDoes
    <3>2. row[i].status = "gone" \/ settling[w][i].status = "delivered"
      BY <2>2, <3>1, SettledIs DEF Types, IsSettlement
    <3>. QED  BY <3>1, <3>2 DEF NoLoss, Truthful
  <2>. QED  BY <1>4, <1>5, <2>1, <2>2, SettleDoes DEF NoLoss
<1>6. ASSUME NEW w \in Workers, Crash(w) PROVE BaseInv'
  <2>1. Release(w) /\ UNCHANGED <<row, handled, redrives>> /\ crashes' = crashes + 1
    BY <1>6 DEF Crash
  <2>2. ASSUME NEW v \in Workers
        PROVE  /\ settling'[v] = [j \in Intents |-> settling'[v][j]]
               /\ \A j \in Intents : IsSettlement(settling'[v][j])
    BY <2>1, ReleaseDoes DEF Types
  <2>3. /\ claims' \in [Workers -> [Intents -> Nat]] /\ lease' \in [Workers -> Int]
        /\ settling' = [v \in Workers |-> settling'[v]]
    BY <2>1, ReleaseDoes
  <2>4. crashes' \in Nat /\ UNCHANGED <<row, redrives>>
    BY <2>1 DEF Types
  <2>5. Types'
    BY <2>2, <2>3, <2>4 DEF Types
  <2>. QED  BY <1>4, <2>1, <2>5 DEF NoLoss
<1>7. ASSUME NEW w \in Workers, Stop(w) PROVE BaseInv'
  BY <1>7 DEF Stop, Types, Truthful, NoLoss, ByAttempts, Batch
<1>8. ASSUME NEW sub \in Subs, Redrive(sub) PROVE BaseInv'
  <2>1. UNCHANGED <<claims, lease, settling, handled, crashes>>
    BY <1>8 DEF Redrive
  <2>2. Types' /\ NoLoss'
    BY <1>8, <2>1, RedriveDoes DEF Types, NoLoss
  <2>3. Truthful' /\ ByAttempts'
    BY <2>1 DEF Truthful, ByAttempts, Batch
  <2>. QED  BY <2>2, <2>3
<1>9. CASE Tick
  <2>1. Types' /\ NoLoss'
    BY <1>9, TickDoes DEF Types, NoLoss
  <2>2. Truthful' /\ ByAttempts'
    BY <1>9, TickDoes DEF Truthful, ByAttempts, Batch
  <2>. QED  BY <2>1, <2>2
<1>10. CASE UNCHANGED vars
  BY <1>10 DEF vars, Types, Truthful, NoLoss, ByAttempts, Batch
<1>. QED  BY <1>1, <1>2, <1>3, <1>5, <1>6, <1>7, <1>8, <1>9, <1>10 DEF Next

(* An intent leaves the outbox only after its handler has returned,        *)
(* whatever workers crash, stall past their leases or settle twice.        *)
THEOREM NothingIsLost == Spec => []NoLoss
<1>1. Spec => []BaseInv
  BY BaseStarts, BaseSteps, PTL DEF Spec
<1>2. BaseInv => NoLoss
  BY DEF BaseInv
<1>. QED  BY <1>1, <1>2, PTL

-----------------------------------------------------------------------------
(* Leases hold until a report comes too late.                              *)

LEMMA LeaseStarts == Init => LeaseInv
<1>. SUFFICES ASSUME Init PROVE LeaseInv
  OBVIOUS
<1>1. /\ \A i \in Intents : row[i].status = "unborn" /\ row[i].attempts = 0
      /\ \A w \in Workers, i \in Intents : claims[w][i] = 0 /\ settling[w][i] = NoSettlement
      /\ crashes = 0
  BY DEF Init, Unborn, NoClaims, NoSettlements
<1>2. \A w \in Workers : Batch(w) = {}
  BY <1>1 DEF Batch
<1>3. \A i \in Intents : Holders(i) = {} /\ Cardinality(Holders(i)) = 0
  BY <1>2, FS_EmptySet DEF Holders
<1>4. Born /\ Held /\ LeaseExclusive
  BY <1>2, <1>3 DEF Born, Held, LeaseExclusive
<1>5. Counted
  BY <1>1, <1>3, DeliveryAssumption DEF Counted
<1>6. Prepared
  BY <1>1 DEF Prepared
<1>. QED  BY <1>4, <1>5, <1>6 DEF LeaseInv

(* What is claimable nobody holds within a lease.                          *)
LEMMA NobodyHolds ==
    ASSUME Types, Held, NEW i \in Intents \ late,
           Claimable(i) \/ row[i].status \in {"unborn", "dead", "gone"}
    PROVE  \A w \in Workers : lease[w] >= 0 => i \notin Batch(w)
<1>1. CASE row[i].status = "leased" /\ row[i].lease < 0
  <2>1. ASSUME NEW w \in Workers, lease[w] >= 0, i \in Batch(w) PROVE FALSE
    <3>1. row[i].lease = lease[w]
      BY <2>1 DEF Held, HeldBy
    <3>2. lease[w] \in Int
      BY DEF Types
    <3>. QED  BY <1>1, <2>1, <3>1, <3>2
  <2>. QED  BY <2>1
<1>2. CASE row[i].status # "leased"
  BY <1>2 DEF Held, HeldBy
<1>. QED  BY <1>1, <1>2 DEF Claimable

(* Counting holders.                                                       *)
LEMMA HoldersFinite ==
    ASSUME NEW i PROVE IsFiniteSet(Holders(i)) /\ Cardinality(Holders(i)) \in Nat
<1>1. IsFiniteSet(Holders(i))
  BY DeliveryAssumption, FS_Subset DEF Holders
<1>. QED  BY <1>1, FS_CardinalityType

LEMMA OneMore ==
    ASSUME NEW S, IsFiniteSet(S), NEW w
    PROVE  /\ w \notin S => Cardinality(S \cup {w}) = Cardinality(S) + 1
           /\ w \in S => Cardinality(S) = Cardinality(S \ {w}) + 1
           /\ w \notin S => S \ {w} = S
<1>1. Cardinality(S) \in Nat /\ Cardinality(S \ {w}) \in Nat /\ IsFiniteSet(S \ {w})
  BY FS_CardinalityType, FS_RemoveElement
<1>2. w \notin S => Cardinality(S \cup {w}) = Cardinality(S) + 1
  BY FS_AddElement
<1>3. w \in S => Cardinality(S \ {w}) = Cardinality(S) - 1
  BY FS_RemoveElement
<1>. QED  BY <1>1, <1>2, <1>3

(* A worker that lets go of its batch: what happens to the others.         *)
LEMMA LetsGo ==
    ASSUME Types, NEW w \in Workers, Release(w)
    PROVE  /\ \A i \in Intents : Holders(i)' = Holders(i) \ {w}
           /\ \A v \in Workers : v # w => Batch(v)' = Batch(v) /\ lease'[v] = lease[v]
                                          /\ claims'[v] = claims[v]
           /\ Batch(w)' = {}
<1>1. /\ \A v \in Workers : v # w => Batch(v)' = Batch(v) /\ lease'[v] = lease[v]
                                     /\ claims'[v] = claims[v]
      /\ Batch(w)' = {}
  BY ReleaseDoes DEF Batch
<1>. QED  BY <1>1 DEF Holders

LEMMA LeaseSteps == BaseInv /\ LeaseInv /\ [Next]_vars => LeaseInv'
<1>. SUFFICES ASSUME BaseInv, LeaseInv, [Next]_vars PROVE LeaseInv'
  OBVIOUS
<1>. USE DEF BaseInv, LeaseInv
<1>0. /\ \A i \in Intents : /\ row[i].attempts \in Nat /\ row[i].lease \in Int
                            /\ Cardinality(Holders(i)) \in Nat
      /\ \A w \in Workers : lease[w] \in Int
      /\ crashes \in Nat /\ MaxAttempts \in Nat \ {0}
  BY HoldersFinite, DeliveryAssumption DEF Types, IsRow
<1>1. ASSUME NEW i \in Intents, Stage(i) PROVE LeaseInv'
  <2>1. UNCHANGED <<claims, lease, settling, late, crashes>>
    BY <1>1 DEF Stage
  <2>2. /\ row[i].status = "unborn" /\ row'[i].status = "pending"
        /\ row'[i].attempts = row[i].attempts
        /\ \A j \in Intents : j # i => row'[j] = row[j]
    BY <1>1, StageDoes
  <2>3. Born'
    BY <2>1, <2>2 DEF Born, Batch
  <2>4. Held'
    <3>1. i \notin late => \A w \in Workers : lease[w] >= 0 => i \notin Batch(w)
      BY <2>2, NobodyHolds
    <3>. QED  BY <2>1, <2>2, <3>1 DEF Held, HeldBy, Batch
  <2>5. LeaseExclusive'
    BY <2>1 DEF LeaseExclusive, Holders, Stalled, Batch
  <2>6. Counted'
    BY <2>1, <2>2 DEF Counted, Holders, Batch
  <2>7. Prepared'
    BY <2>1 DEF Prepared
  <2>. QED  BY <2>3, <2>4, <2>5, <2>6, <2>7
<1>2. ASSUME NEW w \in Workers, Claim(w) PROVE LeaseInv'
  <2>1. UNCHANGED <<settling, late, crashes>>
    BY <1>2 DEF Claim
  <2>0. PICK B \in SUBSET Intents : Claimed(w, B)
    BY <1>2, ClaimDoes
  <2>2. /\ \A i \in B : /\ Claimable(i)
                        /\ row'[i].status = "leased" /\ row'[i].lease = Lease
                        /\ row'[i].attempts = row[i].attempts + 1
                        /\ claims'[w][i] = row[i].attempts + 1
        /\ \A i \in Intents \ B : row'[i] = row[i] /\ claims'[w][i] = 0
        /\ claims' \in [Workers -> [Intents -> Nat]]
        /\ \A v \in Workers : v # w => claims'[v] = claims[v] /\ lease'[v] = lease[v]
        /\ lease'[w] = Lease
        /\ Batch(w) = {}
    BY <2>0 DEF Claimed
  <2>3. /\ Batch(w)' = B
        /\ \A v \in Workers : v # w => Batch(v)' = Batch(v)
        /\ \A i \in B \ late : \A v \in Workers : lease[v] >= 0 => i \notin Batch(v)
    BY <1>0, <2>2, NobodyHolds DEF Batch
  <2>4. ASSUME NEW i \in Intents
        PROVE  /\ i \in B => /\ Holders(i)' = Holders(i) \cup {w}
                             /\ Cardinality(Holders(i)') = Cardinality(Holders(i)) + 1
               /\ i \notin B => Holders(i)' = Holders(i)
    <3>1. w \notin Holders(i)
      BY <2>2 DEF Holders
    <3>2. /\ i \in B => Holders(i)' = Holders(i) \cup {w}
          /\ i \notin B => Holders(i)' = Holders(i)
      BY <2>3, <3>1 DEF Holders
    <3>. QED  BY <3>1, <3>2, OneMore, HoldersFinite
  <2>5. Born'
    <3>1. ASSUME NEW v \in Workers, NEW i \in Batch(v)' PROVE row'[i].status # "unborn"
      <4>1. i \in Intents
        BY <3>1 DEF Batch
      <4>2. CASE i \in B
        BY <2>2, <4>2
      <4>3. CASE i \notin B
        BY <2>2, <2>3, <3>1, <4>1, <4>3 DEF Born
      <4>. QED  BY <4>2, <4>3
    <3>. QED  BY <3>1 DEF Born
  <2>6. Held'
    <3>1. ASSUME NEW v \in Workers, lease'[v] >= 0, NEW i \in Batch(v)' \ late' PROVE HeldBy(v, i)'
      <4>1. i \in Intents /\ i \notin late
        BY <2>1, <3>1 DEF Batch
      <4>2. CASE v = w
        BY <2>2, <2>3, <3>1, <4>2 DEF HeldBy
      <4>3. CASE v # w
        <5>1. lease[v] >= 0 /\ i \in Batch(v) \ late /\ i \notin B
          BY <2>2, <2>3, <3>1, <4>1, <4>3
        <5>. QED  BY <2>2, <4>1, <4>3, <5>1 DEF Held, HeldBy
      <4>. QED  BY <4>2, <4>3
    <3>. QED  BY <3>1 DEF Held
  <2>7. LeaseExclusive'
    <3>1. ASSUME NEW i \in Intents \ late', NEW u \in (Holders(i) \ Stalled(i))',
                 NEW v \in (Holders(i) \ Stalled(i))'
          PROVE  u = v
      <4>1. /\ u \in Workers /\ lease'[u] >= 0 /\ i \in Batch(u)' /\ i \notin late
            /\ v \in Workers /\ lease'[v] >= 0 /\ i \in Batch(v)'
        <5>1. lease'[w] \in Int /\ \A x \in Workers : lease'[x] \in Int
          BY <1>0, <2>2, DeliveryAssumption
        <5>. QED  BY <2>1, <3>1, <5>1 DEF Holders, Stalled
      <4>2. CASE i \in B
        BY <2>2, <2>3, <4>1, <4>2
      <4>3. CASE i \notin B
        <5>1. u # w /\ v # w
          BY <2>3, <4>1, <4>3
        <5>2. u \in Holders(i) \ Stalled(i) /\ v \in Holders(i) \ Stalled(i)
          BY <1>0, <2>2, <2>3, <4>1, <5>1 DEF Holders, Stalled
        <5>. QED  BY <4>1, <5>2 DEF LeaseExclusive
      <4>. QED  BY <4>2, <4>3
    <3>. QED  BY <3>1 DEF LeaseExclusive
  <2>8. Counted'
    <3>1. ASSUME NEW i \in Intents \ late, i \in B
          PROVE  /\ row'[i].status = "leased" /\ row'[i].attempts = row[i].attempts + 1
                 /\ row[i].attempts < MaxAttempts + crashes + Cardinality(Holders(i))
                 /\ Cardinality(Holders(i)') = Cardinality(Holders(i)) + 1
      <4>1. row[i].status \in {"pending", "leased"}
        BY <2>2, <3>1 DEF Claimable
      <4>2. row[i].attempts < MaxAttempts + crashes + Cardinality(Holders(i))
        BY <1>0, <3>1, <4>1 DEF Counted
      <4>. QED  BY <2>2, <2>4, <3>1, <4>2
    <3>2. ASSUME NEW i \in Intents, i \notin B
          PROVE  row'[i] = row[i] /\ Cardinality(Holders(i)') = Cardinality(Holders(i))
      BY <2>2, <2>4, <3>2
    <3>. QED  BY <1>0, <2>1, <3>1, <3>2 DEF Counted
  <2>9. Prepared'
    BY <2>1 DEF Prepared
  <2>. QED  BY <2>5, <2>6, <2>7, <2>8, <2>9
<1>3. ASSUME NEW w \in Workers, Deliver(w) PROVE LeaseInv'
  <2>1. UNCHANGED <<row, claims, lease, late, crashes>>
    BY <1>3 DEF Deliver, Prepare
  <2>2. Born' /\ Held' /\ LeaseExclusive' /\ Counted'
    <3>1. Born' /\ Held'
      BY <2>1 DEF Born, Held, HeldBy, Batch
    <3>2. LeaseExclusive' /\ Counted'
      <4>1. \A i : Holders(i)' = Holders(i) /\ Stalled(i)' = Stalled(i)
        BY <2>1 DEF Holders, Stalled, Batch
      <4>. QED  BY <2>1, <4>1 DEF LeaseExclusive, Counted
    <3>. QED  BY <3>1, <3>2
  <2>3. PICK i \in Batch(w) : i \in Intents /\ ReportsOn(w, i) /\ OnlyOn(w, i)
    BY <1>3, DeliverDoes
  <2>4. Prepared'
    BY <2>3 DEF Prepared, ReportsOn, OnlyOn
  <2>. QED  BY <2>2, <2>4
<1>4. ASSUME NEW w \in Workers, Release(w)
      PROVE  Prepared'
  BY <1>4, ReleaseDoes DEF Prepared, Release, NoSettlements, Types
(* When w lets go of its batch, leases hold on for the others.             *)
<1>5. ASSUME NEW w \in Workers, Release(w), late \subseteq late',
             \A i \in Intents \ late' :
                 row'[i] = row[i] \/ (i \in Batch(w) /\ lease[w] >= 0)
      PROVE  Held' /\ LeaseExclusive'
  <2>1. /\ \A v \in Workers : v # w => Batch(v)' = Batch(v) /\ lease'[v] = lease[v]
                                       /\ claims'[v] = claims[v]
        /\ Batch(w)' = {}
    BY <1>5, LetsGo
  <2>2. ASSUME NEW v \in Workers, lease'[v] >= 0, NEW i \in Batch(v)' \ late'
        PROVE  HeldBy(v, i)'
    <3>1. v # w /\ i \in Batch(v) \ late /\ lease[v] >= 0 /\ i \in Intents \ late'
      BY <1>5, <2>1, <2>2 DEF Batch
    <3>2. ~(i \in Batch(w) /\ lease[w] >= 0)
      BY <1>0, <3>1 DEF LeaseExclusive, Holders, Stalled
    <3>3. row'[i] = row[i]
      BY <1>5, <3>1, <3>2
    <3>. QED  BY <2>1, <3>1, <3>3 DEF Held, HeldBy
  <2>3. ASSUME NEW i \in Intents \ late'
        PROVE  (Holders(i) \ Stalled(i))' \subseteq Holders(i) \ Stalled(i)
    BY <2>1 DEF Holders, Stalled
  <2>. QED  BY <1>5, <2>2, <2>3 DEF Held, LeaseExclusive
<1>6. ASSUME NEW w \in Workers, Settle(w) PROVE LeaseInv'
  <2>1. /\ Release(w) /\ UNCHANGED crashes
        /\ late' = IF lease[w] < 0 THEN late \cup Batch(w) ELSE late
        /\ \A i \in Intents : row'[i] = Settled(row[i], settling[w][i])
    BY <1>6, SettleDoes
  <2>2. ASSUME NEW i \in Intents, i \notin Batch(w)
        PROVE  row'[i] = row[i]
    <3>1. settling[w][i].status = "none"
      BY <2>2 DEF Truthful
    <3>2. IsRow(row[i]) /\ IsSettlement(settling[w][i])
      BY DEF Types
    <3>. QED  BY <2>1, <3>1, <3>2, SettledIs
  <2>3. ASSUME NEW i \in Batch(w)
        PROVE  i \in Intents /\ settling[w][i].status \in {"delivered", "retry", "dead"}
    <3>1. i \in Intents /\ settling[w][i] # NoSettlement
      BY <1>6, <2>3 DEF Settle, Undelivered, Batch
    <3>. QED  BY <3>1 DEF Prepared, Types, IsSettlement
  <2>4. ASSUME NEW i \in Intents \ late', i \in Batch(w)
        PROVE  /\ lease[w] >= 0 /\ i \notin late
               /\ \/ row'[i].status = "gone" /\ row'[i].attempts = 0
                  \/ /\ row'[i].status = "pending"
                     /\ row'[i].attempts = row[i].attempts /\ row[i].attempts < MaxAttempts
                  \/ /\ row'[i].status = "dead"
                     /\ row'[i].attempts = row[i].attempts /\ row[i].attempts > 0
                     /\ row[i].attempts < MaxAttempts + crashes + Cardinality(Holders(i))
    <3>1. lease[w] >= 0 /\ i \notin late
      BY <1>0, <2>1, <2>4
    <3>2. row[i].status = "leased" /\ claims[w][i] = row[i].attempts
      BY <2>4, <3>1 DEF Held, HeldBy
    <3>3. /\ row[i].attempts > 0
          /\ row[i].attempts < MaxAttempts + crashes + Cardinality(Holders(i))
      BY <3>1, <3>2 DEF Counted
    <3>4. settling[w][i].status = "retry" => row[i].attempts < MaxAttempts
      BY <3>2 DEF ByAttempts
    <3>5. IsRow(row[i]) /\ IsSettlement(settling[w][i])
      BY DEF Types
    <3>. QED  BY <2>1, <2>3, <2>4, <3>1, <3>2, <3>3, <3>4, <3>5, SettledIs
  <2>5. ASSUME NEW i \in Intents, row[i].status # "unborn" PROVE row'[i].status # "unborn"
    <3>1. IsRow(row[i]) /\ IsSettlement(settling[w][i])
      BY DEF Types
    <3>. QED  BY <2>1, <2>5, <3>1, SettledIs DEF IsSettlement
  <2>6. Born'
    BY <2>1, <2>5, LetsGo DEF Born, Batch
  <2>7. Held' /\ LeaseExclusive'
    BY <1>5, <2>1, <2>2, <2>4
  <2>8. Counted'
    <3>1. ASSUME NEW i \in Intents, i \notin Batch(w)
          PROVE  row'[i] = row[i] /\ Holders(i)' = Holders(i)
      BY <2>1, <2>2, <3>1, LetsGo DEF Holders
    <3>2. ASSUME NEW i \in Intents \ late', i \in Batch(w)
          PROVE  /\ row'[i].status # "leased"
                 /\ row'[i].status = "dead" => row'[i].attempts > 0
                 /\ row'[i].status # "dead" => row'[i].attempts < MaxAttempts
                 /\ row'[i].attempts <= MaxAttempts + crashes + Cardinality(Holders(i)')
      <4>1. Holders(i)' = Holders(i) \ {w} /\ w \in Holders(i)
        BY <2>1, <3>2, LetsGo DEF Holders
      <4>2. /\ Cardinality(Holders(i)) = Cardinality(Holders(i)') + 1
            /\ Cardinality(Holders(i)') \in Nat
        <5>1. Cardinality(Holders(i)) = Cardinality(Holders(i) \ {w}) + 1
          BY <4>1, HoldersFinite, OneMore
        <5>2. IsFiniteSet(Holders(i) \ {w})
          BY HoldersFinite, FS_Subset
        <5>. QED  BY <4>1, <5>1, <5>2, FS_CardinalityType
      <4>. QED  BY <1>0, <2>4, <3>2, <4>2
    <3>3. late \subseteq late'
      BY <2>1
    <3>. QED  BY <1>0, <2>1, <3>1, <3>2, <3>3 DEF Counted
  <2>. QED  BY <1>4, <2>1, <2>6, <2>7, <2>8
<1>7. ASSUME NEW w \in Workers, Crash(w) PROVE LeaseInv'
  <2>1. Release(w) /\ UNCHANGED <<row, late>> /\ crashes' = crashes + 1
    BY <1>7 DEF Crash
  <2>2. Born'
    BY <2>1, LetsGo DEF Born
  <2>3. Held' /\ LeaseExclusive'
    BY <1>5, <2>1
  <2>4. ASSUME NEW i \in Intents
        PROVE  /\ Cardinality(Holders(i)) <= Cardinality(Holders(i)') + 1
               /\ Cardinality(Holders(i)') \in Nat
    <3>1. Holders(i)' = Holders(i) \ {w} /\ IsFiniteSet(Holders(i))
      BY <2>1, LetsGo, HoldersFinite
    <3>2. Cardinality(Holders(i) \ {w}) \in Nat
      BY <3>1, FS_Subset, FS_CardinalityType
    <3>3. CASE w \in Holders(i)
      BY <1>0, <3>1, <3>2, <3>3, OneMore
    <3>4. CASE w \notin Holders(i)
      BY <1>0, <3>1, <3>2, <3>4, OneMore
    <3>. QED  BY <3>3, <3>4
  <2>5. Counted'
    BY <1>0, <2>1, <2>4 DEF Counted
  <2>. QED  BY <1>4, <2>1, <2>2, <2>3, <2>5
<1>8. ASSUME NEW w \in Workers, Stop(w) PROVE LeaseInv'
  BY <1>8 DEF Stop, Born, Held, HeldBy, LeaseExclusive, Counted, Prepared, Holders, Stalled,
              Batch
<1>9. ASSUME NEW sub \in Subs, Redrive(sub) PROVE LeaseInv'
  <2>1. UNCHANGED <<claims, lease, settling, late, crashes>>
    BY <1>9 DEF Redrive
  <2>2. ASSUME NEW i \in Intents
        PROVE  \/ row'[i] = row[i]
               \/ /\ row[i].status = "dead" /\ row'[i].status = "pending"
                  /\ row'[i].attempts = 0
                  /\ i \notin late => \A w \in Workers : lease[w] >= 0 => i \notin Batch(w)
    BY <1>9, RedriveDoes, NobodyHolds
  <2>3. Born'
    BY <2>1, <2>2 DEF Born, Batch
  <2>4. Held'
    BY <2>1, <2>2 DEF Held, HeldBy, Batch
  <2>5. LeaseExclusive'
    BY <2>1 DEF LeaseExclusive, Holders, Stalled, Batch
  <2>6. Counted'
    <3>1. \A i \in Intents : Holders(i)' = Holders(i)
      BY <2>1 DEF Holders, Batch
    <3>. QED  BY <1>0, <2>1, <2>2, <3>1 DEF Counted
  <2>7. Prepared'
    BY <2>1 DEF Prepared
  <2>. QED  BY <2>3, <2>4, <2>5, <2>6, <2>7
<1>10. CASE Tick
  <2>1. /\ \A i \in Intents : /\ row'[i].status = row[i].status
                              /\ row'[i].attempts = row[i].attempts
                              /\ row'[i].lease = Sooner(row[i].lease, -1)
        /\ \A w \in Workers : lease'[w] = Sooner(lease[w], -1)
        /\ UNCHANGED <<claims, late, crashes>>
    BY <1>10, TickDoes
  <2>2. \A w \in Workers : lease'[w] >= 0 => lease[w] >= 0 /\ lease'[w] = lease[w] - 1
    BY <1>0, <2>1 DEF Sooner
  <2>3. Born'
    BY <2>1 DEF Born, Batch
  <2>4. Held'
    <3>1. ASSUME NEW w \in Workers, lease'[w] >= 0, NEW i \in Batch(w)' \ late' PROVE HeldBy(w, i)'
      <4>1. lease[w] >= 0 /\ i \in Intents /\ HeldBy(w, i)
        BY <2>1, <2>2, <3>1 DEF Held, Batch
      <4>2. row'[i].lease = lease'[w]
        BY <2>1, <4>1 DEF HeldBy
      <4>. QED  BY <2>1, <4>1, <4>2 DEF HeldBy
    <3>. QED  BY <3>1 DEF Held
  <2>5. LeaseExclusive'
    <3>1. \A w \in Workers : lease'[w] \in Int
      BY <1>0, <2>1 DEF Sooner
    <3>2. \A i \in Intents : (Holders(i) \ Stalled(i))' \subseteq Holders(i) \ Stalled(i)
      BY <1>0, <2>1, <2>2, <3>1 DEF Holders, Stalled, Batch
    <3>. QED  BY <2>1, <3>2 DEF LeaseExclusive
  <2>6. Counted'
    <3>1. \A i \in Intents : Holders(i)' = Holders(i)
      BY <2>1 DEF Holders, Batch
    <3>. QED  BY <2>1, <3>1 DEF Counted
  <2>7. ASSUME NEW w \in Workers, NEW i \in Intents, settling'[w][i].status = "none"
        PROVE  settling'[w][i] = NoSettlement
    <3>1. settling[w][i].status = "none"
      BY <1>10, <2>7, TickDoes
    <3>2. settling[w][i] = NoSettlement
      BY <3>1 DEF Prepared
    <3>3. settling'[w][i] = [settling[w][i] EXCEPT !.due = settling[w][i].due]
      BY <1>10, <3>1 DEF Tick
    <3>. QED  BY <3>2, <3>3 DEF NoSettlement
  <2>. QED  BY <2>3, <2>4, <2>5, <2>6, <2>7 DEF Prepared
<1>11. CASE UNCHANGED vars
  BY <1>11 DEF vars, Born, Held, HeldBy, LeaseExclusive, Counted, Prepared, Holders, Stalled,
               Batch
<1>. QED  BY <1>1, <1>2, <1>3, <1>6, <1>7, <1>8, <1>9, <1>10, <1>11 DEF Next

(* An intent on which no report came after its lease has one holder within *)
(* a lease, attempts beyond MaxAttempts only by workers that crashed or    *)
(* stalled, and is tried again after a redrive before it can be dead.      *)
THEOREM OneHolder == Spec => []LeasesHold
<1>. DEFINE Inv == BaseInv /\ LeaseInv
<1>1. Init => Inv
  BY BaseStarts, LeaseStarts
<1>2. Inv /\ [Next]_vars => Inv'
  BY BaseSteps, LeaseSteps
<1>3. Inv => LeasesHold
  <2>. SUFFICES ASSUME BaseInv, LeaseInv PROVE LeasesHold
    OBVIOUS
  <2>. USE DEF LeaseInv
  <2>1. RedriveSticks
    BY DEF Counted, RedriveSticks
  <2>2. ASSUME NEW i \in Intents \ late
        PROVE  row[i].attempts <= MaxAttempts + crashes + Cardinality(Stalled(i))
    <3>0. /\ row[i].attempts \in Nat /\ crashes \in Nat /\ MaxAttempts \in Nat
          /\ IsFiniteSet(Holders(i)) /\ Cardinality(Holders(i)) \in Nat
          /\ \A w \in Workers : lease[w] \in Int
      BY HoldersFinite, DeliveryAssumption DEF BaseInv, Types, IsRow
    <3>1. CASE Stalled(i) = Holders(i)
      BY <3>1 DEF Counted
    <3>2. CASE Stalled(i) # Holders(i)
      <4>1. PICK w \in Holders(i) : w \notin Stalled(i)
        BY <3>2 DEF Stalled
      <4>2. w \in Workers /\ i \in Batch(w) /\ lease[w] >= 0
        BY <3>0, <4>1 DEF Holders, Stalled
      <4>3. row[i].status = "leased"
        BY <4>2 DEF Held, HeldBy
      <4>4. Stalled(i) = Holders(i) \ {w}
        BY <4>1 DEF LeaseExclusive, Stalled
      <4>5. IsFiniteSet(Holders(i) \ {w}) /\ Cardinality(Holders(i) \ {w}) \in Nat
        BY <3>0, FS_Subset, FS_CardinalityType
      <4>6. Cardinality(Holders(i)) = Cardinality(Stalled(i)) + 1
        BY <3>0, <4>1, <4>4, OneMore
      <4>7. row[i].attempts < MaxAttempts + crashes + Cardinality(Holders(i))
        BY <4>3 DEF Counted
      <4>. QED  BY <3>0, <4>4, <4>5, <4>6, <4>7
    <3>. QED  BY <3>1, <3>2
  <2>. QED  BY <2>1, <2>2 DEF LeasesHold, AttemptsBounded
<1>. QED  BY <1>1, <1>2, <1>3, PTL DEF Spec

-----------------------------------------------------------------------------
(* Nothing is given up early.                                              *)

(* Until somebody redrives, the attempts of a row never fall.              *)
LEMMA ClaimsStayBehind ==
    BaseInv /\ (redrives = 0 => ClaimsBehind) /\ [Next]_vars
        => (redrives = 0 => ClaimsBehind)'
<1>. SUFFICES ASSUME BaseInv, redrives = 0 => ClaimsBehind, [Next]_vars, redrives' = 0,
                     NEW v \in Workers, NEW j \in Intents,
                     (j \in Batch(v))', row'[j].status # "gone"
              PROVE  claims'[v][j] <= row'[j].attempts
  BY DEF ClaimsBehind
<1>. USE DEF BaseInv
<1>a. /\ \A sub \in Subs : ~Redrive(sub)
      /\ redrives = 0 /\ ClaimsBehind
  <2>1. redrives \in Nat
    BY DeliveryAssumption DEF Types
  <2>2. \A sub \in Subs : Redrive(sub) => redrives' = redrives + 1
    BY DEF Redrive
  <2>3. (\A sub \in Subs : ~Redrive(sub)) => redrives' = redrives
    BY SettleDoes, TickDoes DEF Next, vars, Stage, Claim, Deliver, Prepare, Crash, Stop
  <2>. QED  BY <2>1, <2>2, <2>3
<1>0. claims[v][j] \in Nat /\ row[j].attempts \in Nat
  BY DEF Types, IsRow
<1>1. ASSUME UNCHANGED claims,
             row'[j].attempts = row[j].attempts, row[j].status # "gone"
      PROVE  claims'[v][j] <= row'[j].attempts
  BY <1>a, <1>1 DEF ClaimsBehind, Batch
<1>2. ASSUME NEW i \in Intents, Stage(i) PROVE claims'[v][j] <= row'[j].attempts
  <2>1. UNCHANGED claims
    BY <1>2 DEF Stage
  <2>2. row'[j].attempts = row[j].attempts /\ row[j].status # "gone"
    BY <1>2, StageDoes
  <2>. QED  BY <1>1, <2>1, <2>2
<1>3. ASSUME NEW w \in Workers, Claim(w) PROVE claims'[v][j] <= row'[j].attempts
  <2>0. PICK B \in SUBSET Intents : Claimed(w, B)
    BY <1>3, ClaimDoes
  <2>1. /\ \A i \in B : /\ Claimable(i)
                        /\ row'[i].attempts = row[i].attempts + 1
                        /\ claims'[w][i] = row[i].attempts + 1
        /\ \A i \in Intents \ B : row'[i] = row[i] /\ claims'[w][i] = 0
        /\ \A u \in Workers : u # w => claims'[u] = claims[u]
    BY <2>0 DEF Claimed
  <2>2. CASE v = w
    BY <1>0, <2>1, <2>2
  <2>3. CASE v # w
    <3>1. claims'[v][j] = claims[v][j] /\ j \in Batch(v)
      BY <2>1, <2>3 DEF Batch
    <3>2. row[j].status # "gone"
      BY <2>1 DEF Claimable
    <3>3. claims[v][j] <= row[j].attempts
      BY <1>a, <3>1, <3>2 DEF ClaimsBehind
    <3>. QED  BY <1>0, <2>1, <3>1, <3>3
  <2>. QED  BY <2>2, <2>3
<1>4. ASSUME NEW w \in Workers, Deliver(w) PROVE claims'[v][j] <= row'[j].attempts
  BY <1>1, <1>4 DEF Deliver, Prepare
<1>5. ASSUME NEW w \in Workers, Release(w), row'[j].attempts = row[j].attempts,
             row[j].status # "gone"
      PROVE  claims'[v][j] <= row'[j].attempts
  <2>1. v # w
    BY <1>5, ReleaseDoes
  <2>2. claims'[v] = claims[v] /\ j \in Batch(v)
    BY <1>5, <2>1, ReleaseDoes DEF Batch
  <2>. QED  BY <1>a, <1>5, <2>2 DEF ClaimsBehind
<1>6. ASSUME NEW w \in Workers, Settle(w) PROVE claims'[v][j] <= row'[j].attempts
  <2>1. row'[j] = Settled(row[j], settling[w][j]) /\ Release(w)
    BY <1>6, SettleDoes
  <2>2. IsRow(row[j]) /\ IsSettlement(settling[w][j])
    BY DEF Types
  <2>3. row[j].status # "gone" /\ row'[j].attempts = row[j].attempts
    BY <2>1, <2>2, SettledIs DEF IsSettlement
  <2>. QED  BY <1>5, <2>1, <2>3
<1>7. ASSUME NEW w \in Workers, Crash(w) PROVE claims'[v][j] <= row'[j].attempts
  BY <1>5, <1>7 DEF Crash
<1>8. ASSUME NEW w \in Workers, Stop(w) PROVE claims'[v][j] <= row'[j].attempts
  BY <1>1, <1>8 DEF Stop
<1>9. ASSUME NEW sub \in Subs, Redrive(sub) PROVE claims'[v][j] <= row'[j].attempts
  BY <1>a, <1>9
<1>10. CASE Tick
  BY <1>1, <1>10, TickDoes
<1>11. CASE UNCHANGED vars
  BY <1>1, <1>11 DEF vars
<1>. QED  BY <1>2, <1>3, <1>4, <1>6, <1>7, <1>8, <1>9, <1>10, <1>11 DEF Next

LEMMA GivenUpSteps ==
    ASSUME BaseInv, LeaseInv, redrives = 0 => ClaimsBehind, DeadMeansExhausted, [Next]_vars
    PROVE  DeadMeansExhausted'
<1>. USE DEF BaseInv
<1>. DEFINE Excused(j) == Unknown(j) \/ (redrives > 0 /\ j \in late)
<1>. SUFFICES ASSUME NEW j \in Intents, row'[j].status = "dead"
              PROVE  row'[j].attempts >= MaxAttempts \/ Excused(j)'
  BY DEF DeadMeansExhausted, Unknown
<1>0. /\ claims \in [Workers -> [Intents -> Nat]] /\ row[j].attempts \in Nat
      /\ MaxAttempts \in Nat /\ redrives \in Nat /\ \A w \in Workers : lease[w] \in Int
  BY DeliveryAssumption DEF Types, IsRow
<1>1. ASSUME row'[j].status = row[j].status, row'[j].attempts = row[j].attempts,
             j \in late => j \in late', redrives' \in {redrives, redrives + 1}
      PROVE  row'[j].attempts >= MaxAttempts \/ Excused(j)'
  <2>1. row[j].attempts >= MaxAttempts \/ Excused(j)
    BY <1>1 DEF DeadMeansExhausted, Unknown
  <2>. QED  BY <1>0, <1>1, <2>1 DEF Unknown
<1>2. ASSUME NEW i \in Intents, Stage(i)
      PROVE  row'[j].attempts >= MaxAttempts \/ Excused(j)'
  <2>1. row'[j] = row[j]
    BY <1>2, StageDoes
  <2>. QED  BY <1>1, <1>2, <2>1 DEF Stage
<1>3. ASSUME NEW w \in Workers, Claim(w)
      PROVE  row'[j].attempts >= MaxAttempts \/ Excused(j)'
  <2>1. PICK B \in SUBSET Intents : Claimed(w, B)
    BY <1>3, ClaimDoes
  <2>2. row'[j] = row[j]
    BY <2>1 DEF Claimed
  <2>. QED  BY <1>1, <1>3, <2>2 DEF Claim
<1>4. ASSUME NEW w \in Workers, Deliver(w) \/ Crash(w) \/ Stop(w)
      PROVE  row'[j].attempts >= MaxAttempts \/ Excused(j)'
  BY <1>1, <1>4 DEF Deliver, Prepare, Crash, Stop
<1>5. ASSUME NEW w \in Workers, Settle(w)
      PROVE  row'[j].attempts >= MaxAttempts \/ Excused(j)'
  <2>1. /\ row'[j] = Settled(row[j], settling[w][j])
        /\ IsRow(row[j]) /\ IsSettlement(settling[w][j])
        /\ late' = IF lease[w] < 0 THEN late \cup Batch(w) ELSE late
        /\ redrives' = redrives
    BY <1>5, SettleDoes DEF Types
  <2>2. CASE row'[j] = row[j]
    BY <1>1, <2>1, <2>2
  <2>3. CASE row'[j] # row[j]
    <3>1. /\ row[j].status # "gone" /\ settling[w][j].status = "dead"
          /\ row'[j].attempts = row[j].attempts
      BY <2>1, <2>3, SettledIs DEF IsSettlement
    <3>2. j \in Batch(w) /\ (claims[w][j] >= MaxAttempts \/ Unknown(j))
      BY <3>1 DEF Truthful, ByAttempts
    <3>3. CASE redrives = 0
      <4>1. claims[w][j] <= row[j].attempts
        BY <3>1, <3>2, <3>3 DEF ClaimsBehind
      <4>. QED  BY <1>0, <3>1, <3>2, <4>1 DEF Unknown
    <3>4. CASE redrives > 0 /\ j \in late'
      BY <2>1, <3>4
    <3>5. CASE j \notin late'
      <4>1. lease[w] >= 0 /\ j \notin late
        BY <1>0, <2>1, <3>2, <3>5
      <4>2. claims[w][j] = row[j].attempts
        BY <3>2, <4>1 DEF LeaseInv, Held, HeldBy
      <4>. QED  BY <3>1, <3>2, <4>2 DEF Unknown
    <3>. QED  BY <1>0, <3>3, <3>4, <3>5
  <2>. QED  BY <2>2, <2>3
<1>6. ASSUME NEW sub \in Subs, Redrive(sub)
      PROVE  row'[j].attempts >= MaxAttempts \/ Excused(j)'
  <2>1. row'[j] = row[j]
    BY <1>6, RedriveDoes
  <2>. QED  BY <1>1, <1>6, <2>1 DEF Redrive
<1>7. CASE Tick
  BY <1>1, <1>7, TickDoes
<1>8. CASE UNCHANGED vars
  BY <1>1, <1>8 DEF vars
<1>. QED  BY <1>2, <1>3, <1>4, <1>5, <1>6, <1>7, <1>8 DEF Next

(* A dead intent has used all its attempts, unless a worker did not know   *)
(* its subscription or a late report was laid over a redrive.              *)
THEOREM NotGivenUpEarly == Spec => []DeadMeansExhausted
<1>. DEFINE Inv == /\ BaseInv /\ LeaseInv /\ DeadMeansExhausted
                   /\ redrives = 0 => ClaimsBehind
<1>1. Init => Inv
  <2>1. Init => /\ \A i \in Intents : row[i].status = "unborn"
                /\ \A w \in Workers, i \in Intents : claims[w][i] = 0
    BY DEF Init, Unborn, NoClaims
  <2>2. Init => ClaimsBehind /\ DeadMeansExhausted
    BY <2>1 DEF ClaimsBehind, DeadMeansExhausted, Batch
  <2>. QED  BY <2>2, BaseStarts, LeaseStarts
<1>2. Inv /\ [Next]_vars => Inv'
  BY BaseSteps, LeaseSteps, ClaimsStayBehind, GivenUpSteps
<1>. QED  BY <1>1, <1>2, PTL DEF Spec

-----------------------------------------------------------------------------
(* Type correctness: the bounds of the countdowns.                         *)

LEMMA Bounds ==
    /\ 0 \in -Horizon .. Cap /\ Lease \in -1 .. Lease /\ -1 \in -1 .. Lease
    /\ \A n \in -Horizon .. Cap : Sooner(n, -Horizon) \in -Horizon .. Cap
    /\ \A n \in -1 .. Lease : Sooner(n, -1) \in -1 .. Lease
BY DeliveryAssumption DEF Sooner

LEMMA TypeStarts == Init => TypeOK
<1>. SUFFICES ASSUME Init PROVE TypeOK
  OBVIOUS
<1>1. Unborn \in RowTypes /\ NoSettlement \in Settlements
  BY Bounds DEF Unborn, NoSettlement, RowTypes, Settlements, Statuses
<1>. QED  BY <1>1, Bounds, DeliveryAssumption DEF Init, TypeOK, NoClaims, NoSettlements

LEMMA SettledType ==
    ASSUME NEW r \in RowTypes, NEW s \in Settlements
    PROVE  Settled(r, s) \in RowTypes
<1>1. CASE r.status = "gone" \/ s.status = "none"
  BY <1>1 DEF Settled
<1>2. CASE r.status # "gone" /\ s.status = "delivered"
  <2>1. Settled(r, s) = [Unborn EXCEPT !.status = "gone"]
    BY <1>2 DEF Settled
  <2>. QED  BY <2>1, Bounds DEF RowTypes, Unborn, Statuses
<1>3. CASE r.status # "gone" /\ s.status = "retry"
  <2>1. Settled(r, s) = [r EXCEPT !.status = "pending", !.due = s.due, !.lease = -1]
    BY <1>3 DEF Settled
  <2>. QED  BY <2>1, Bounds DEF RowTypes, Settlements, Statuses
<1>4. CASE r.status # "gone" /\ s.status = "dead"
  <2>1. Settled(r, s) = [r EXCEPT !.status = "dead", !.lease = -1]
    BY <1>4 DEF Settled
  <2>. QED  BY <2>1, Bounds DEF RowTypes, Statuses
<1>. QED  BY <1>1, <1>2, <1>3, <1>4 DEF Settlements

LEMMA ReleaseType ==
    ASSUME TypeOK, NEW w \in Workers, Release(w)
    PROVE  /\ claims' \in [Workers -> [Intents -> Nat]]
           /\ lease' \in [Workers -> -1 .. Lease]
           /\ settling' \in [Workers -> [Intents -> Settlements]]
<1>1. NoSettlement \in Settlements
  BY Bounds DEF NoSettlement, Settlements
<1>. QED  BY <1>1, Bounds DEF Release, TypeOK, NoClaims, NoSettlements

LEMMA TypeSteps == TypeOK /\ [Next]_vars => TypeOK'
<1>. SUFFICES ASSUME TypeOK, [Next]_vars PROVE TypeOK'
  OBVIOUS
<1>1. ASSUME NEW i \in Intents, Stage(i) PROVE TypeOK'
  BY <1>1 DEF Stage, TypeOK, RowTypes, Statuses
<1>2. ASSUME NEW w \in Workers, Claim(w) PROVE TypeOK'
  <2>1. PICK B \in SUBSET Intents :
          /\ row' = [i \in Intents |->
                IF i \in B
                THEN [row[i] EXCEPT !.status = "leased", !.lease = Lease, !.attempts = @ + 1]
                ELSE row[i]]
          /\ claims' = [claims EXCEPT ![w] =
                [i \in Intents |-> IF i \in B THEN row[i].attempts + 1 ELSE 0]]
    BY <1>2 DEF Claim
  <2>2. row' \in [Intents -> RowTypes]
    <3>1. ASSUME NEW r \in RowTypes
          PROVE  [r EXCEPT !.status = "leased", !.lease = Lease, !.attempts = @ + 1] \in RowTypes
      <4>1. "leased" \in Statuses /\ Lease \in -1 .. Lease /\ r.attempts + 1 \in Nat
        BY Bounds DEF RowTypes, Statuses
      <4>. QED  BY <4>1 DEF RowTypes
    <3>2. \A i \in Intents : row[i] \in RowTypes
      BY DEF TypeOK
    <3>. QED  BY <2>1, <3>1, <3>2
  <2>3. claims' \in [Workers -> [Intents -> Nat]]
    <3>1. \A i \in Intents : row[i].attempts + 1 \in Nat
      BY DEF TypeOK, RowTypes
    <3>2. [i \in Intents |-> IF i \in B THEN row[i].attempts + 1 ELSE 0] \in [Intents -> Nat]
      BY <3>1
    <3>. QED  BY <2>1, <3>2 DEF TypeOK
  <2>4. lease' \in [Workers -> -1 .. Lease]
    BY <1>2, Bounds DEF Claim, TypeOK
  <2>. QED  BY <1>2, <2>2, <2>3, <2>4 DEF Claim, TypeOK
<1>3. ASSUME NEW w \in Workers, Deliver(w) PROVE TypeOK'
  <2>1. PICK i, s :
          /\ i \in Undelivered(w) /\ Prepare(w, i, s)
          /\ s \in {[status |-> "dead", due |-> 0], [status |-> "delivered", due |-> 0],
                    Disposition(claims[w][i])}
          /\ handled' \subseteq handled \cup {i}
    BY <1>3 DEF Deliver
  <2>2. i \in Intents /\ claims[w][i] \in Nat \ {0}
    BY <2>1 DEF Undelivered, Batch, TypeOK
  <2>3. s \in Settlements
    <3>1. Disposition(claims[w][i]) \in Settlements
      BY <2>2, DelayBounded, Bounds, DeliveryAssumption DEF Disposition, Settlements
    <3>. QED  BY <2>1, <3>1, Bounds DEF Settlements
  <2>. QED  BY <2>1, <2>2, <2>3 DEF Prepare, TypeOK
<1>4. ASSUME NEW w \in Workers, Settle(w) PROVE TypeOK'
  <2>1. row' \in [Intents -> RowTypes]
    BY <1>4, SettledType DEF Settle, TypeOK
  <2>2. late' \subseteq Intents
    BY <1>4 DEF Settle, TypeOK, Batch
  <2>. QED  BY <1>4, <2>1, <2>2, ReleaseType DEF Settle, TypeOK
<1>5. ASSUME NEW w \in Workers, Crash(w) PROVE TypeOK'
  <2>1. crashes' \in 0 .. MaxCrashes
    BY <1>5, DeliveryAssumption DEF Crash, TypeOK
  <2>. QED  BY <1>5, <2>1, ReleaseType DEF Crash, TypeOK
<1>6. ASSUME NEW w \in Workers, Stop(w) PROVE TypeOK'
  BY <1>6 DEF Stop, TypeOK
<1>7. ASSUME NEW sub \in Subs, Redrive(sub) PROVE TypeOK'
  <2>1. row' \in [Intents -> RowTypes]
    BY <1>7, Bounds DEF Redrive, TypeOK, RowTypes, Statuses
  <2>2. redrives' \in 0 .. MaxRedrives
    BY <1>7, DeliveryAssumption DEF Redrive, TypeOK
  <2>. QED  BY <1>7, <2>1, <2>2 DEF Redrive, TypeOK
<1>8. CASE Tick
  <2>1. row' \in [Intents -> RowTypes]
    BY <1>8, Bounds DEF Tick, TypeOK, RowTypes
  <2>2. lease' \in [Workers -> -1 .. Lease]
    BY <1>8, Bounds DEF Tick, TypeOK
  <2>3. settling' \in [Workers -> [Intents -> Settlements]]
    <3>1. ASSUME NEW s \in Settlements
          PROVE  [s EXCEPT !.due = IF s.status = "retry" THEN Sooner(@, -Horizon) ELSE @]
                    \in Settlements
      BY Bounds DEF Settlements
    <3>2. \A w \in Workers, i \in Intents : settling[w][i] \in Settlements
      BY DEF TypeOK
    <3>. QED  BY <1>8, <3>1, <3>2 DEF Tick
  <2>. QED  BY <1>8, <2>1, <2>2, <2>3 DEF Tick, TypeOK
<1>9. CASE UNCHANGED vars
  BY <1>9 DEF vars, TypeOK
<1>. QED  BY <1>1, <1>2, <1>3, <1>4, <1>5, <1>6, <1>7, <1>8, <1>9 DEF Next

(* The outbox accounts for every intent: each variable keeps its type,     *)
(* with no retry further away than the cap, none is lost, and none is      *)
(* given up early but by a late report over a redrive.                     *)
THEOREM EverythingAccountedFor == Spec => []Accounted
<1>1. TypeOK /\ NoLoss /\ DeadMeansExhausted => Accounted
  BY DEF Accounted
<1>. QED  BY <1>1, TypeStarts, TypeSteps, NothingIsLost, NotGivenUpEarly, PTL DEF Spec

-----------------------------------------------------------------------------
(* The outbox implements its contract.                                     *)

PhaseOf(i) == Phase(row[i].status)
Map == [i \in Intents |-> PhaseOf(i)]

LEMMA PhaseIs ==
    \A st \in Statuses :
        /\ st = "unborn" => Phase(st) = "unborn"
        /\ st \in {"pending", "leased"} => Phase(st) = "owed"
        /\ st = "dead" => Phase(st) = "dead"
        /\ st = "gone" => Phase(st) = "done"
BY DEF Statuses, Phase

(* The contract's actions over the map.                                    *)
LEMMA StutterIs ==
    ASSUME Map' = Map, UNCHANGED <<handled, late, redrives>>
    PROVE  [Outbox!Next]_(Outbox!vars)
BY DEF Outbox!vars, Map, PhaseOf

LEMMA MoveIs ==
    ASSUME NEW S \in SUBSET Intents, NEW from, NEW to,
           \A i \in S : PhaseOf(i) = from /\ PhaseOf(i)' = to,
           \A i \in Intents \ S : PhaseOf(i)' = PhaseOf(i),
           UNCHANGED <<handled, late>>
    PROVE  Outbox!Move(S, from, to)
BY DEF Outbox!Move, PhaseOf

LEMMA ContractSteps ==
    ASSUME BaseInv, LeaseInv, [Next]_vars
    PROVE  [Outbox!Next]_(Outbox!vars)
<1>. USE DEF BaseInv, LeaseInv
<1>0. \A i \in Intents : row[i].status \in Statuses
  BY DEF Types, IsRow
<1>1. ASSUME NEW i \in Intents, Stage(i) PROVE Outbox!Next
  <2>1. /\ row[i].status = "unborn" /\ row'[i].status = "pending"
        /\ \A j \in Intents : j # i => row'[j] = row[j]
    BY <1>1, StageDoes
  <2>2. PhaseOf(i) = "unborn" /\ PhaseOf(i)' = "owed"
    BY <2>1 DEF PhaseOf, Phase
  <2>3. \A j \in Intents \ {i} : PhaseOf(j)' = PhaseOf(j)
    BY <2>1 DEF PhaseOf
  <2>4. UNCHANGED <<handled, late, redrives>>
    BY <1>1 DEF Stage
  <2>5. Outbox!Move({i}, "unborn", "owed")
    BY <2>2, <2>3, <2>4, MoveIs
  <2>6. Outbox!Stage({i})
    BY <2>4, <2>5 DEF Outbox!Stage
  <2>. QED  BY <2>6 DEF Outbox!Next
<1>2. ASSUME UNCHANGED <<handled, late, redrives>>,
             \A i \in Intents : PhaseOf(i)' = PhaseOf(i)
      PROVE  [Outbox!Next]_(Outbox!vars)
  BY <1>2, StutterIs DEF Map
<1>3. ASSUME NEW w \in Workers, Claim(w) PROVE [Outbox!Next]_(Outbox!vars)
  <2>1. UNCHANGED <<handled, late, redrives>>
    BY <1>3 DEF Claim
  <2>2. ASSUME NEW i \in Intents PROVE PhaseOf(i)' = PhaseOf(i)
    <3>1. \/ row'[i] = row[i]
          \/ row[i].status \in {"pending", "leased"} /\ row'[i].status = "leased"
      <4>1. PICK B \in SUBSET Intents : Claimed(w, B)
        BY <1>3, ClaimDoes
      <4>. QED  BY <4>1 DEF Claimed, Claimable
    <3>. QED  BY <3>1 DEF PhaseOf, Phase
  <2>. QED  BY <1>2, <2>1, <2>2
<1>4. ASSUME NEW w \in Workers, Deliver(w) PROVE [Outbox!Next]_(Outbox!vars)
  <2>1. UNCHANGED <<row, late, redrives>>
    BY <1>4 DEF Deliver, Prepare
  <2>2. PICK i \in Batch(w) : i \in Intents /\ ReportsOn(w, i)
    BY <1>4, DeliverDoes
  <2>3. \A j \in Intents : PhaseOf(j)' = PhaseOf(j)
    BY <2>1 DEF PhaseOf
  <2>4. CASE UNCHANGED handled
    BY <1>2, <2>1, <2>3, <2>4
  <2>5. CASE handled' = handled \cup {i}
    <3>1. PhaseOf(i) # "unborn"
      BY <1>0, <2>2 DEF Born, PhaseOf, Phase, Statuses
    <3>2. Outbox!Handle(i)
      BY <2>1, <2>2, <2>5, <3>1, <2>3 DEF Outbox!Handle, PhaseOf
    <3>. QED  BY <2>2, <3>2 DEF Outbox!Next
  <2>. QED  BY <2>2, <2>4, <2>5 DEF ReportsOn
<1>5. ASSUME NEW w \in Workers, Settle(w) PROVE Outbox!Next
  <2>. DEFINE B == Batch(w)
              D == {i \in B : settling[w][i].status = "delivered"}
              G == {i \in B : settling[w][i].status = "dead"}
  <2>1. /\ UNCHANGED <<handled, redrives>>
        /\ late' = IF lease[w] < 0 THEN late \cup B ELSE late
        /\ \A i \in Intents : row'[i] = Settled(row[i], settling[w][i])
    BY <1>5, SettleDoes
  <2>2. /\ B \in SUBSET Intents /\ D \in SUBSET B /\ G \in SUBSET (B \ D)
        /\ D \subseteq handled
    BY DEF Batch, Truthful
  <2>3. ASSUME NEW i \in B
        PROVE  PhaseOf(i) \in IF i \in late' THEN {"owed", "dead", "done"} ELSE {"owed"}
    <3>1. i \in Intents /\ row[i].status # "unborn"
      BY <2>2 DEF Born
    <3>2. CASE i \in late'
      BY <1>0, <3>1, <3>2, PhaseIs DEF PhaseOf, Statuses
    <3>3. CASE i \notin late'
      <4>1. lease[w] \in Int
        BY DEF Types
      <4>2. lease[w] >= 0 /\ i \notin late
        BY <2>1, <3>3, <4>1
      <4>3. row[i].status = "leased"
        BY <4>2 DEF Held, HeldBy
      <4>. QED  BY <1>0, <3>1, <3>3, <4>3, PhaseIs DEF PhaseOf
    <3>. QED  BY <3>2, <3>3
  <2>4. ASSUME NEW i \in Intents
        PROVE  PhaseOf(i)' = IF i \notin B \/ PhaseOf(i) = "done" THEN PhaseOf(i)
                             ELSE IF i \in D THEN "done" ELSE IF i \in G THEN "dead" ELSE "owed"
    <3>1. /\ IsRow(row[i]) /\ IsSettlement(settling[w][i])
          /\ row'[i] = Settled(row[i], settling[w][i])
      BY <2>1 DEF Types
    <3>2. CASE i \notin B
      <4>1. settling[w][i].status = "none"
        BY <3>2 DEF Truthful
      <4>. QED  BY <3>1, <3>2, <4>1, SettledIs DEF PhaseOf
    <3>3. CASE row[i].status = "gone"
      <4>1. row'[i] = row[i] /\ PhaseOf(i) = "done"
        BY <1>0, <3>1, <3>3, SettledIs, PhaseIs DEF PhaseOf
      <4>. QED  BY <4>1 DEF PhaseOf
    <3>4. CASE i \in B /\ row[i].status # "gone"
      <4>1. settling[w][i] # NoSettlement
        BY <1>5, <3>4 DEF Settle, Undelivered
      <4>2. settling[w][i].status \in {"delivered", "retry", "dead"}
        BY <3>1, <4>1 DEF Prepared, IsSettlement
      <4>3. PhaseOf(i) # "done"
        BY <1>0, <3>4, PhaseIs DEF PhaseOf, Statuses
      <4>4. /\ settling[w][i].status = "delivered" => row'[i].status = "gone"
            /\ settling[w][i].status = "retry" => row'[i].status = "pending"
            /\ settling[w][i].status = "dead" => row'[i].status = "dead"
        BY <3>1, <3>4, SettledIs
      <4>5. row'[i].status \in Statuses
        BY <4>2, <4>4 DEF Statuses
      <4>6. /\ settling[w][i].status = "delivered" => PhaseOf(i)' = "done"
            /\ settling[w][i].status = "retry" => PhaseOf(i)' = "owed"
            /\ settling[w][i].status = "dead" => PhaseOf(i)' = "dead"
        BY <4>4, <4>5, PhaseIs DEF PhaseOf
      <4>. QED  BY <3>4, <4>2, <4>3, <4>6
    <3>. QED  BY <3>2, <3>3, <3>4
  <2>5. Outbox!Report(B, D, G)
    <3>1. \A i \in B : Map[i] \in IF i \in late' THEN {"owed", "dead", "done"} ELSE {"owed"}
      BY <2>2, <2>3 DEF Map
    <3>2. Map' = [i \in Intents |->
                    IF i \notin B \/ Map[i] = "done" THEN Map[i]
                    ELSE IF i \in D THEN "done" ELSE IF i \in G THEN "dead" ELSE "owed"]
      BY <2>4 DEF Map
    <3>3. late' \in {late, late \cup B}
      BY <2>1
    <3>. HIDE DEF B, D, G
    <3>. QED  BY <2>1, <2>2, <3>1, <3>2, <3>3 DEF Outbox!Report, Map, PhaseOf
  <2>. HIDE DEF B, D, G
  <2>. QED  BY <2>2, <2>5 DEF Outbox!Next
<1>6. ASSUME NEW w \in Workers, Crash(w) \/ Stop(w) PROVE [Outbox!Next]_(Outbox!vars)
  BY <1>2, <1>6 DEF Crash, Stop, PhaseOf
<1>7. ASSUME NEW sub \in Subs, Redrive(sub) PROVE Outbox!Next
  <2>. DEFINE S == {i \in Intents : row[i].status = "dead" /\ row'[i].status = "pending"}
  <2>1. UNCHANGED <<handled, late>> /\ redrives' = redrives + 1
    BY <1>7 DEF Redrive
  <2>2. \A i \in S : PhaseOf(i) = "dead" /\ PhaseOf(i)' = "owed"
    BY DEF PhaseOf, Phase
  <2>3. \A i \in Intents \ S : PhaseOf(i)' = PhaseOf(i)
    BY <1>7, RedriveDoes DEF PhaseOf
  <2>4. Outbox!Move(S, "dead", "owed")
    BY <2>1, <2>2, <2>3, MoveIs
  <2>5. Outbox!Redrive(S)
    BY <2>1, <2>4 DEF Outbox!Redrive
  <2>. QED  BY <2>5 DEF Outbox!Next
<1>8. CASE Tick
  <2>1. UNCHANGED <<handled, late, redrives>>
    BY <1>8, TickDoes
  <2>2. \A i \in Intents : PhaseOf(i)' = PhaseOf(i)
    BY <1>8, TickDoes DEF PhaseOf
  <2>. QED  BY <1>2, <2>1, <2>2
<1>9. CASE UNCHANGED vars
  BY <1>2, <1>9 DEF vars, PhaseOf
<1>. QED  BY <1>1, <1>3, <1>4, <1>5, <1>6, <1>7, <1>8, <1>9 DEF Next

(* Whatever workers do, in time or late, is what the contract allows: an   *)
(* intent leaves only handled, stays done, is given up only while owed,    *)
(* and comes back only by a redrive, but for what late reports undo.       *)
THEOREM KeepsPromise == Spec => KeepsContract
<1>. DEFINE Inv == BaseInv /\ LeaseInv
<1>1. Init => Inv
  BY BaseStarts, LeaseStarts
<1>2. Inv /\ [Next]_vars => Inv'
  BY BaseSteps, LeaseSteps
<1>3. Init => Outbox!Init
  BY DEF Init, Outbox!Init, Unborn, Phase
<1>4. Inv /\ [Next]_vars => [Outbox!Next]_(Outbox!vars)
  BY ContractSteps
<1>. QED  BY <1>1, <1>2, <1>3, <1>4, PTL DEF Spec, KeepsContract, Outbox!Safe
=============================================================================
