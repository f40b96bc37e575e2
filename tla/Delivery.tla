------------------------------ MODULE Delivery ------------------------------
(* The outbox: claim, deliver outside any transaction, settle              *)
(* (src/src/eventic/worker.py, retry.py, and claim, settle and redrive of  *)
(* the SQL store).  claim, settle and redrive are one transaction each;    *)
(* SQLite serializes them and on Postgres SKIP LOCKED and row locks make   *)
(* them equivalent to some order, so each is one action.                   *)
(*                                                                         *)
(* Time is kept as countdowns, which Tick lowers together: available_at -  *)
(* now as due, leased_until - now as lease.  The batch is delivered in any *)
(* order.  A handler, or the reconstruction of its Commit, returns or      *)
(* raises.  A worker that dies, or whose claim or settle raises, starts    *)
(* again with nothing: only its rows remember the batch.                   *)
EXTENDS Integers, FiniteSets

CONSTANTS
    Workers,
    Intents,
    Subs,
    SubOf,          \* [Intents -> Subs]
    KnownTo,        \* [Workers -> SUBSET Subs], the subscriptions of its App
    Queues,
    QueueOf,        \* [Subs -> Queues]
    Queue,          \* [Workers -> Queues], the queue each worker drains
    MaxAttempts, Base, Factor, Cap,   \* Backoff of the subscriptions
    Lease,          \* Worker(lease=...)
    BatchSize,      \* Worker(batch_size=...)
    Stoppable,      \* workers that may be told to stop
    MaxCrashes,     \* bound: crashes of workers
    MaxRedrives,    \* bound: redrives
    Horizon         \* bound: how long overdue is told apart

ASSUME DeliveryAssumption ==
    /\ SubOf \in [Intents -> Subs]
    /\ KnownTo \in [Workers -> SUBSET Subs]
    /\ QueueOf \in [Subs -> Queues] /\ Queue \in [Workers -> Queues]
    /\ MaxAttempts \in Nat \ {0} /\ Base \in Nat /\ Factor \in Nat /\ Cap \in Nat
    /\ Lease \in Nat /\ BatchSize \in Nat \ {0}
    /\ Stoppable \subseteq Workers /\ IsFiniteSet(Workers)
    /\ MaxCrashes \in Nat /\ MaxRedrives \in Nat /\ Horizon \in Nat

VARIABLES
    row,        \* eventic_intent, plus what became of rows that are not there
    claims,     \* claims[w][i]: attempts in w's ClaimedIntent, 0 without one
    lease,      \* lease[w]: what is left of the lease w took on its batch
    settling,   \* settling[w][i]: the Settlement w has prepared
    running,    \* workers that have not been stopped
    handled,    \* intents whose handler has succeeded
    late,       \* intents some worker has settled after its lease ran out
    crashes, redrives

vars == <<row, claims, lease, settling, running, handled, late, crashes, redrives>>

Statuses == {"unborn", "pending", "leased", "dead", "gone"}
RowTypes ==
    [status : Statuses, attempts : Nat, due : -Horizon .. Cap, lease : -1 .. Lease]
Unborn == [status |-> "unborn", attempts |-> 0, due |-> 0, lease |-> -1]

Settlements == [status : {"none", "delivered", "retry", "dead"}, due : -Horizon .. Cap]
NoSettlement == [status |-> "none", due |-> 0]

NoClaims == [i \in Intents |-> 0]
NoSettlements == [i \in Intents |-> NoSettlement]

Init ==
    /\ row = [i \in Intents |-> Unborn]
    /\ claims = [w \in Workers |-> NoClaims]
    /\ lease = [w \in Workers |-> -1]
    /\ settling = [w \in Workers |-> NoSettlements]
    /\ running = Workers
    /\ handled = {}
    /\ late = {}
    /\ crashes = 0
    /\ redrives = 0

-----------------------------------------------------------------------------
Batch(w) == {i \in Intents : claims[w][i] > 0}
Busy(w) == Batch(w) # {}
Undelivered(w) == {i \in Batch(w) : settling[w][i] = NoSettlement}

(* A commit stages the intent, pending and available at once.              *)
Stage(i) ==
    /\ row[i] = Unborn
    /\ row' = [row EXCEPT ![i].status = "pending"]
    /\ UNCHANGED <<claims, lease, settling, running, handled, late, crashes, redrives>>

(* claim_select: what the worker's claim may take.                         *)
PendingOnly(i) == row[i].status = "pending" /\ row[i].due <= 0
AnyLease(i) ==
    \/ row[i].status = "pending" /\ row[i].due <= 0
    \/ row[i].status = "leased"
EvenDead(i) ==
    \/ row[i].status \in {"pending", "dead"} /\ row[i].due <= 0
    \/ row[i].status = "leased" /\ row[i].lease < 0
Claimable(i) ==
    \/ row[i].status = "pending" /\ row[i].due <= 0
    \/ row[i].status = "leased" /\ row[i].lease < 0

(* The first BatchSize of them by available_at.                            *)
Claim(w) ==
    LET able == {i \in Intents : Claimable(i) /\ QueueOf[SubOf[i]] = Queue[w]}
    IN  /\ w \in running
        /\ ~Busy(w)
        /\ \E B \in SUBSET able \ {{}} :
              /\ Cardinality(B) <= BatchSize
              /\ B = able \/ Cardinality(B) = BatchSize
              /\ \A i \in B, j \in able \ B : row[i].due <= row[j].due
              /\ row' = [i \in Intents |->
                    IF i \in B
                    THEN [row[i] EXCEPT !.status = "leased", !.lease = Lease,
                                        !.attempts = @ + 1]
                    ELSE row[i]]
              /\ claims' = [claims EXCEPT ![w] =
                    [i \in Intents |-> IF i \in B THEN row[i].attempts + 1 ELSE 0]]
        /\ lease' = [lease EXCEPT ![w] = Lease]
        /\ UNCHANGED <<settling, running, handled, late, crashes, redrives>>

(* factor ** n                                                             *)
Power[n \in 0 .. MaxAttempts] == IF n = 0 THEN 1 ELSE Factor * Power[n - 1]

(* The delay of the retry after the given attempt.                         *)
Delay(attempts) ==
    LET delay == Base * Power[attempts - 1]
    IN  IF delay < Cap THEN delay ELSE Cap

(* disposition: another try, or none.                                      *)
Exhausted(attempts) == attempts >= MaxAttempts

AckOnError(attempts) == [status |-> "delivered", due |-> 0]
Disposition(attempts) ==
    IF Exhausted(attempts)
    THEN [status |-> "dead", due |-> 0]
    ELSE [status |-> "retry", due |-> Delay(attempts)]

Prepare(w, i, s) ==
    /\ settling' = [settling EXCEPT ![w][i] = s]
    /\ UNCHANGED <<row, claims, lease, running, late, crashes, redrives>>

(* _deliver: an unknown subscription is dead-lettered at once.             *)
Deliver(w) ==
    \E i \in Undelivered(w) :
        \/ /\ SubOf[i] \notin KnownTo[w]
           /\ Prepare(w, i, [status |-> "dead", due |-> 0])
           /\ UNCHANGED handled
        \/ /\ SubOf[i] \in KnownTo[w]
           /\ Prepare(w, i, [status |-> "delivered", due |-> 0])
           /\ handled' = handled \cup {i}
        \/ /\ SubOf[i] \in KnownTo[w]
           /\ Prepare(w, i, Disposition(claims[w][i]))
           /\ UNCHANGED handled

(* settle_intents: by intent id alone, whatever the row has become, and    *)
(* however long ago the lease of the batch ran out.                        *)
Settled(r, s) ==
    CASE r.status = "gone" \/ s.status = "none" -> r
      [] r.status # "gone" /\ s.status = "delivered" ->
             [Unborn EXCEPT !.status = "gone"]
      [] r.status # "gone" /\ s.status = "retry" ->
             [r EXCEPT !.status = "pending", !.due = s.due, !.lease = -1]
      [] r.status # "gone" /\ s.status = "dead" ->
             [r EXCEPT !.status = "dead", !.lease = -1]

(* The worker is between batches.                                          *)
Release(w) ==
    /\ claims' = [claims EXCEPT ![w] = NoClaims]
    /\ settling' = [settling EXCEPT ![w] = NoSettlements]
    /\ lease' = [lease EXCEPT ![w] = -1]

Settle(w) ==
    /\ Busy(w) /\ Undelivered(w) = {}
    /\ row' = [i \in Intents |-> Settled(row[i], settling[w][i])]
    /\ late' = IF lease[w] < 0 THEN late \cup Batch(w) ELSE late
    /\ Release(w)
    /\ UNCHANGED <<running, handled, crashes, redrives>>

Crash(w) ==
    /\ Busy(w) /\ crashes < MaxCrashes
    /\ crashes' = crashes + 1
    /\ Release(w)
    /\ UNCHANGED <<row, running, handled, late, redrives>>

(* stop(): the current drain finishes, no other starts.                    *)
Stop(w) ==
    /\ w \in running \cap Stoppable
    /\ running' = running \ {w}
    /\ UNCHANGED <<row, claims, lease, settling, handled, late, crashes, redrives>>

(* redrive(subscription_id)                                                *)
Redrive(sub) ==
    /\ redrives < MaxRedrives
    /\ \E i \in Intents : SubOf[i] = sub /\ row[i].status = "dead"
    /\ row' = [i \in Intents |->
          IF SubOf[i] = sub /\ row[i].status = "dead"
          THEN [status |-> "pending", attempts |-> 0, due |-> 0, lease |-> -1]
          ELSE row[i]]
    /\ redrives' = redrives + 1
    /\ UNCHANGED <<claims, lease, settling, running, handled, late, crashes>>

Sooner(n, floor) == IF n > floor THEN n - 1 ELSE n

Tick ==
    /\ row' = [i \in Intents |->
          [row[i] EXCEPT !.due = IF row[i].status = "pending" \/ row[i].status = "leased"
                                 THEN Sooner(@, -Horizon) ELSE @,
                         !.lease = Sooner(@, -1)]]
    /\ lease' = [w \in Workers |-> Sooner(lease[w], -1)]
    /\ settling' = [w \in Workers |-> [i \in Intents |->
          [settling[w][i] EXCEPT !.due =
              IF settling[w][i].status = "retry" THEN Sooner(@, -Horizon) ELSE @]]]
    /\ UNCHANGED <<claims, running, handled, late, crashes, redrives>>

Next ==
    \/ \E i \in Intents : Stage(i)
    \/ \E w \in Workers :
          Claim(w) \/ Deliver(w) \/ Settle(w) \/ Crash(w) \/ Stop(w)
    \/ \E sub \in Subs : Redrive(sub)
    \/ Tick

Spec == Init /\ [][Next]_vars

(* Workers poll in a loop and time passes; nobody has to crash, stop,      *)
(* commit or redrive.                                                      *)
Fairness ==
    /\ \A w \in Workers : WF_vars(Claim(w)) /\ WF_vars(Deliver(w)) /\ WF_vars(Settle(w))
    /\ WF_vars(Tick)

FairSpec == Spec /\ Fairness

-----------------------------------------------------------------------------
(* Properties.                                                             *)

(* Every variable keeps its type; a retry is never further away than Cap.  *)
TypeOK ==
    /\ row \in [Intents -> RowTypes]
    /\ claims \in [Workers -> [Intents -> Nat]]
    /\ lease \in [Workers -> -1 .. Lease]
    /\ settling \in [Workers -> [Intents -> Settlements]]
    /\ running \subseteq Workers
    /\ handled \subseteq Intents
    /\ late \subseteq Intents
    /\ crashes \in 0 .. MaxCrashes
    /\ redrives \in 0 .. MaxRedrives

(* At least once: a row leaves the outbox only after its handler has       *)
(* returned, also when several workers held it and some of them crashed.   *)
NoLoss == \A i \in Intents : row[i].status = "gone" => i \in handled

(* No intent is given up early: a dead one has used all its attempts, or   *)
(* some worker does not know its subscription, or a report that came too   *)
(* late has been laid over a redrive.                                      *)
DeadMeansExhausted ==
    \A i \in Intents :
        row[i].status = "dead" =>
            \/ row[i].attempts >= MaxAttempts
            \/ \E w \in Workers : SubOf[i] \notin KnownTo[w]
            \/ redrives > 0 /\ i \in late

(* Who holds an intent: the workers whose lease on it runs, and those that *)
(* have outlived theirs and do not know it.                                *)
Holders(i) == {w \in Workers : i \in Batch(w)}
Stalled(i) == {w \in Holders(i) : lease[w] < 0}

(* "No intent claimed twice (which would break the lease model)": two      *)
(* workers never both hold an intent within their leases, unless a report  *)
(* on it came too late.                                                    *)
LeaseExclusive ==
    \A i \in Intents \ late : \A v, w \in Holders(i) \ Stalled(i) : v = w

(* A failing handler is not called for ever: attempts pass MaxAttempts     *)
(* only by the workers that died or stalled before they could report.      *)
AttemptsBounded ==
    \A i \in Intents \ late :
        row[i].attempts <= MaxAttempts + crashes + Cardinality(Stalled(i))

(* A redriven intent is tried again before it can be dead again, unless a  *)
(* report on it came too late.                                             *)
RedriveSticks ==
    \A i \in Intents \ late : row[i].status = "dead" => row[i].attempts > 0

(* What the outbox knows is true: nothing is lost and nothing is given up  *)
(* early, whoever holds a lease that has run out.                          *)
Accounted == TypeOK /\ NoLoss /\ DeadMeansExhausted

(* What leases are for, whatever runs out, crashes or stalls, until the    *)
(* moment a worker reports on an intent after its lease: one holder, one   *)
(* attempt per claim, and a redrive that is not overwritten.               *)
LeasesHold == LeaseExclusive /\ AttemptsBounded /\ RedriveSticks

(* The phase an intent is in for the contract.                             *)
Phase(status) ==
    CASE status = "unborn" -> "unborn"
      [] status \in {"pending", "leased"} -> "owed"
      [] status = "dead" -> "dead"
      [] status = "gone" -> "done"

Outbox == INSTANCE OutboxContract WITH
    phase <- [i \in Intents |-> Phase(row[i].status)]

(* The outbox implements the safety of its contract, late reports, crashes *)
(* and redrives included; Resolves is the contract's liveness.             *)
KeepsContract == Outbox!Safe

(* Every staged intent is delivered or given up, although workers crash    *)
(* and report late.                                                        *)
Resolves == Outbox!Resolved
=============================================================================
