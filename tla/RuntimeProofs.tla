---------------------------- MODULE RuntimeProofs ----------------------------
(* Proofs about writes and inline dispatch, for any number of processes,   *)
(* builds, subscriptions and nested calls: handlers only ever see what is  *)
(* durable, each one that matches a dispatched commit runs, the caller is  *)
(* told what happened, and no old build writes on top of a newer one.      *)
EXTENDS Runtime, NaturalsInduction, WellFoundedInduction, TLAPS

-----------------------------------------------------------------------------
(* The log after some requests of a batch.                                 *)

Logs == [Keys -> Seq(Rows)]

NextLog(rows, p, q) ==
    IF Replays(rows, p, q) THEN rows
    ELSE [rows EXCEPT ![q.key] = Append(@, RowOf(p, q))]

LEMMA LeastOf ==
    ASSUME NEW T, T \subseteq Nat, T # {}
    PROVE  \E x \in T : \A y \in T : x <= y
<1>1. PICK x \in T : \A y \in T : ~(<<y, x>> \in OpToRel(<, Nat))
  BY NatLessThanWellFounded, WFMin
<1>2. \A y \in T : ~(y < x)
  BY <1>1 DEF OpToRel
<1>. QED  BY <1>2

IsAfter(f, p, batch, m) ==
    f = [n \in 0 .. m |-> IF n = 0 THEN log ELSE NextLog(f[n - 1], p, batch[n])]

LEMMA AfterExists ==
    ASSUME NEW p, NEW batch, NEW m \in Nat
    PROVE  \E f : IsAfter(f, p, batch, m)
<1>. DEFINE Bad == {j \in Nat : ~\E f : IsAfter(f, p, batch, j)}
<1>. SUFFICES ASSUME Bad # {} PROVE FALSE
  OBVIOUS
<1>1. PICK j \in Bad : \A i \in Bad : j <= i
  BY LeastOf
<1>2. CASE j = 0
  <2>1. IsAfter([n \in 0 .. 0 |-> log], p, batch, 0)
    BY DEF IsAfter
  <2>. QED  BY <1>2, <2>1
<1>3. CASE j # 0
  <2>1. j - 1 \in Nat /\ j - 1 \notin Bad
    BY <1>1, <1>3
  <2>2. PICK f : IsAfter(f, p, batch, j - 1)
    BY <2>1
  <2>. DEFINE g == [n \in 0 .. j |-> IF n = j THEN NextLog(f[j - 1], p, batch[j]) ELSE f[n]]
  <2>3. \A n \in 0 .. j - 1 : f[n] = IF n = 0 THEN log ELSE NextLog(f[n - 1], p, batch[n])
    BY <2>2 DEF IsAfter
  <2>4. \A n \in 0 .. j : g[n] = IF n = 0 THEN log ELSE NextLog(g[n - 1], p, batch[n])
    BY <1>3, <2>1, <2>3
  <2>5. IsAfter(g, p, batch, j)
    BY <2>4 DEF IsAfter
  <2>. QED  BY <2>5
<1>. QED  BY <1>2, <1>3

LEMMA AfterIs ==
    ASSUME NEW p, NEW batch, Len(batch) \in Nat, NEW n \in 0 .. Len(batch)
    PROVE  After(p, batch)[n] =
             IF n = 0 THEN log ELSE NextLog(After(p, batch)[n - 1], p, batch[n])
<1>. DEFINE rows == After(p, batch)
<1>1. \E f : IsAfter(f, p, batch, Len(batch))
  BY AfterExists
<1>2. rows = CHOOSE f : IsAfter(f, p, batch, Len(batch))
  BY DEF After, IsAfter, NextLog
<1>3. IsAfter(rows, p, batch, Len(batch))
  BY <1>1, <1>2
<1>. HIDE DEF rows
<1>4. rows = [i \in 0 .. Len(batch) |-> IF i = 0 THEN log ELSE NextLog(rows[i - 1], p, batch[i])]
  BY <1>3 DEF IsAfter
<1>5. rows[n] = IF n = 0 THEN log ELSE NextLog(rows[n - 1], p, batch[n])
  BY <1>4, Zenon
<1>. QED  BY <1>5 DEF rows

(* A log that extends another has its rows, and more.                      *)
Extends(a, b) ==
    \A k \in Keys : Len(a[k]) <= Len(b[k]) /\ \A i \in 1 .. Len(a[k]) : b[k][i] = a[k][i]

Ordered(rows) ==
    \A k \in Keys : \A m, n \in DOMAIN rows[k] :
        m <= n => rows[k][m].version <= rows[k][n].version

LEMMA ExtendsTrans ==
    ASSUME NEW a \in Logs, NEW b \in Logs, NEW c \in Logs, Extends(a, b), Extends(b, c)
    PROVE  Extends(a, c)
<1>. SUFFICES ASSUME NEW k \in Keys
              PROVE  Len(a[k]) <= Len(c[k]) /\ \A i \in 1 .. Len(a[k]) : c[k][i] = a[k][i]
  BY DEF Extends
<1>1. Len(a[k]) \in Nat /\ Len(b[k]) \in Nat /\ Len(c[k]) \in Nat
  BY DEF Logs
<1>. QED  BY <1>1 DEF Extends

LEMMA RequestIs ==
    ASSUME NEW p \in Processes, NEW q \in Requests
    PROVE  /\ q.key \in Keys /\ q.expected \in Int /\ q.expected >= -1 /\ q.content \in Contents
           /\ Target(q) \in Nat /\ RowOf(p, q) \in Rows /\ RowOf(p, q).version = Version[p]
           /\ Version[p] \in Nat
<1>1. MaxRevision \in Nat /\ Version[p] \in Nat
  BY RuntimeAssumption
<1>2. q.expected \in NoRevision .. MaxRevision - 1
  BY DEF Requests
<1>. QED  BY <1>1, <1>2 DEF Requests, NoRevision, Target, RowOf, Rows

(* A durable row stays where it is.                                        *)
LEMMA ReplaysStays ==
    ASSUME NEW a \in Logs, NEW b \in Logs, Extends(a, b), NEW p \in Processes,
           NEW q \in Requests, Replays(a, p, q)
    PROVE  Replays(b, p, q)
<1>1. q.key \in Keys /\ Target(q) \in Nat
  BY RequestIs
<1>2. Len(a[q.key]) \in Nat /\ Len(b[q.key]) \in Nat
  BY <1>1 DEF Logs
<1>3. Target(q) + 1 \in 1 .. Len(a[q.key])
  BY <1>1, <1>2 DEF Replays
<1>. QED  BY <1>1, <1>2, <1>3 DEF Replays, Extends

(* One request: nothing is overwritten and its row is there.               *)
LEMMA NextLogIs ==
    ASSUME NEW rows \in Logs, NEW p \in Processes, NEW q \in Requests
    PROVE  /\ NextLog(rows, p, q) \in Logs /\ Extends(rows, NextLog(rows, p, q))
           /\ Fits(rows, p, q) => Replays(NextLog(rows, p, q), p, q)
<1>0. q.key \in Keys /\ Target(q) \in Nat /\ RowOf(p, q) \in Rows
  BY RequestIs
<1>1. CASE Replays(rows, p, q)
  BY <1>1 DEF NextLog, Extends, Logs
<1>2. CASE ~Replays(rows, p, q)
  <2>. DEFINE longer == Append(rows[q.key], RowOf(p, q))
              next == [rows EXCEPT ![q.key] = longer]
  <2>1. NextLog(rows, p, q) = next
    BY <1>2 DEF NextLog
  <2>2. rows[q.key] \in Seq(Rows)
    BY <1>0 DEF Logs
  <2>3. /\ longer \in Seq(Rows) /\ Len(longer) = Len(rows[q.key]) + 1
        /\ \A i \in 1 .. Len(rows[q.key]) : longer[i] = rows[q.key][i]
        /\ longer[Len(rows[q.key]) + 1] = RowOf(p, q)
    BY <1>0, <2>2
  <2>. HIDE DEF longer
  <2>4. /\ next \in Logs /\ next[q.key] = longer
        /\ \A k \in Keys : k # q.key => next[k] = rows[k]
    BY <1>0, <2>3 DEF Logs
  <2>. HIDE DEF next
  <2>5. Extends(rows, next)
    <3>. SUFFICES ASSUME NEW k \in Keys
                  PROVE  /\ Len(rows[k]) <= Len(next[k])
                         /\ \A i \in 1 .. Len(rows[k]) : next[k][i] = rows[k][i]
      BY DEF Extends
    <3>1. Len(rows[k]) \in Nat
      BY DEF Logs
    <3>. QED  BY <2>3, <2>4, <3>1
  <2>6. ASSUME Fits(rows, p, q) PROVE Replays(next, p, q)
    <3>1. Target(q) = Len(rows[q.key])
      BY <1>2, <2>6 DEF Fits
    <3>. QED  BY <1>0, <2>3, <2>4, <3>1 DEF Replays
  <2>. QED  BY <2>1, <2>4, <2>5, <2>6
<1>. QED  BY <1>1, <1>2

(* No request is written on top of a row that its process cannot read.     *)
LEMMA NextLogOrdered ==
    ASSUME TypeOK, NEW rows \in Logs, NEW p \in Processes, NEW q \in Requests,
           Plannable(p, q), Fits(rows, p, q), Extends(log, rows), Ordered(rows)
    PROVE  Ordered(NextLog(rows, p, q))
<1>0. /\ q.key \in Keys /\ Target(q) \in Nat /\ RowOf(p, q) \in Rows /\ log \in Logs
      /\ RowOf(p, q).version = Version[p] /\ Version[p] \in Nat
      /\ q.expected \in Int /\ q.expected >= -1
  BY RequestIs DEF TypeOK, Logs
<1>1. CASE Replays(rows, p, q)
  BY <1>1 DEF NextLog
<1>2. CASE ~Replays(rows, p, q)
  <2>. DEFINE old == rows[q.key]
              longer == Append(old, RowOf(p, q))
  <2>1. NextLog(rows, p, q) = [rows EXCEPT ![q.key] = longer]
    BY <1>2 DEF NextLog
  <2>2. old \in Seq(Rows) /\ Target(q) = Len(old) /\ Len(old) \in Nat
    BY <1>0, <1>2 DEF Fits, Logs
  <2>3. \A i \in 1 .. Len(old) : old[i].version \in Nat /\ old[i].version <= Version[p]
    <3>. SUFFICES ASSUME NEW i \in 1 .. Len(old)
                  PROVE  old[i].version \in Nat /\ old[i].version <= Version[p]
      OBVIOUS
    <3>1. old[i] \in Rows /\ old[Len(old)] \in Rows /\ Len(old) \in 1 .. Len(old)
      BY <2>2
    <3>2. old[i].version \in Nat /\ old[Len(old)].version \in Nat
      BY <3>1, RuntimeAssumption DEF Rows
    <3>3. old[i].version <= old[Len(old)].version
      BY <1>0, <2>2, <3>1 DEF Ordered
    <3>4. q.expected + 1 = Len(old) /\ q.expected # NoRevision
      BY <1>0, <2>2, <3>1 DEF Target, NoRevision
    <3>5. Len(log[q.key]) \in Nat /\ Len(old) \in 1 .. Len(log[q.key])
      BY <1>0, <2>2, <3>4 DEF Plannable, Logs
    <3>6. old[Len(old)] = log[q.key][Len(old)]
      BY <1>0, <3>5 DEF Extends
    <3>7. log[q.key][Len(old)].version <= Version[p]
      BY <3>4 DEF Plannable, Hydrates
    <3>. QED  BY <1>0, <3>2, <3>3, <3>6, <3>7
  <2>4. /\ longer \in Seq(Rows) /\ Len(longer) = Len(old) + 1
        /\ \A i \in 1 .. Len(old) : longer[i] = old[i]
        /\ longer[Len(old) + 1] = RowOf(p, q)
    BY <1>0, <2>2
  <2>5. \A m, n \in 1 .. Len(old) : m <= n => old[m].version <= old[n].version
    BY <1>0, <2>2 DEF Ordered
  <2>. HIDE DEF longer, old
  <2>6. \A m, n \in DOMAIN longer : m <= n => longer[m].version <= longer[n].version
    <3>. SUFFICES ASSUME NEW m \in DOMAIN longer, NEW n \in DOMAIN longer, m <= n
                  PROVE  longer[m].version <= longer[n].version
      OBVIOUS
    <3>1. m \in 1 .. Len(old) + 1 /\ n \in 1 .. Len(old) + 1 /\ Len(old) \in Nat
      BY <2>2, <2>4
    <3>2. CASE n \in 1 .. Len(old)
      BY <2>4, <2>5, <3>1, <3>2
    <3>3. CASE n = Len(old) + 1 /\ m \in 1 .. Len(old)
      BY <1>0, <2>3, <2>4, <3>3
    <3>4. CASE n = Len(old) + 1 /\ m = Len(old) + 1
      BY <1>0, <2>4, <3>4
    <3>. QED  BY <3>1, <3>2, <3>3, <3>4
  <2>. QED  BY <1>0, <2>1, <2>6 DEF Ordered, Logs
<1>. QED  BY <1>1, <1>2

(* All requests of a batch.                                                *)
LEMMA AfterGrows ==
    ASSUME TypeOK, NEW p \in Processes, NEW batch \in Seq(Requests), NEW n \in 0 .. Len(batch)
    PROVE  After(p, batch)[n] \in Logs /\ Extends(log, After(p, batch)[n])
<1>. DEFINE A == After(p, batch)
            Bad == {i \in 0 .. Len(batch) : ~(A[i] \in Logs /\ Extends(log, A[i]))}
<1>0. \A i \in 0 .. Len(batch) : A[i] = IF i = 0 THEN log ELSE NextLog(A[i - 1], p, batch[i])
  BY AfterIs
<1>. HIDE DEF A
<1>1. log \in Logs /\ Extends(log, log)
  BY DEF TypeOK, Logs, Extends
<1>. SUFFICES ASSUME Bad # {} PROVE FALSE
  BY DEF A
<1>a. Bad \subseteq Nat
  OBVIOUS
<1>2. PICK j \in Bad : \A i \in Bad : j <= i
  BY <1>a, LeastOf
<1>3. CASE j = 0
  BY <1>0, <1>1, <1>3
<1>4. CASE j # 0
  <2>1. A[j - 1] \in Logs /\ Extends(log, A[j - 1])
    BY <1>2, <1>4
  <2>2. batch[j] \in Requests /\ A[j] = NextLog(A[j - 1], p, batch[j])
    BY <1>0, <1>4
  <2>3. A[j] \in Logs /\ Extends(A[j - 1], A[j])
    BY <2>1, <2>2, NextLogIs
  <2>4. Extends(log, A[j])
    BY <1>1, <2>1, <2>3, ExtendsTrans
  <2>. QED  BY <2>3, <2>4
<1>. QED  BY <1>3, <1>4

LEMMA AfterServes ==
    ASSUME TypeOK, NEW p \in Processes, NEW batch \in Seq(Requests), Accepted(p, batch),
           NEW n \in 1 .. Len(batch), NEW m \in n .. Len(batch)
    PROVE  Replays(After(p, batch)[m], p, batch[n])
<1>. DEFINE A == After(p, batch)
            Bad == {i \in n .. Len(batch) : ~Replays(A[i], p, batch[n])}
<1>0. \A i \in 1 .. Len(batch) : A[i] = NextLog(A[i - 1], p, batch[i])
  BY AfterIs
<1>1. \A i \in 0 .. Len(batch) : A[i] \in Logs
  BY AfterGrows
<1>2. \A i \in 1 .. Len(batch) : batch[i] \in Requests /\ Fits(A[i - 1], p, batch[i])
  BY DEF Accepted
<1>. HIDE DEF A
<1>. SUFFICES ASSUME Bad # {} PROVE FALSE
  BY DEF A
<1>a. Bad \subseteq Nat
  OBVIOUS
<1>3. PICK j \in Bad : \A i \in Bad : j <= i
  BY <1>a, LeastOf
<1>4. /\ A[j - 1] \in Logs /\ A[j] = NextLog(A[j - 1], p, batch[j])
      /\ batch[j] \in Requests /\ Fits(A[j - 1], p, batch[j])
  BY <1>0, <1>1, <1>2
<1>5. A[j] \in Logs /\ Extends(A[j - 1], A[j]) /\ Replays(A[j], p, batch[j])
  BY <1>4, NextLogIs
<1>6. j # n
  BY <1>5
<1>7. j - 1 \in n .. Len(batch) /\ Replays(A[j - 1], p, batch[n])
  BY <1>3, <1>6
<1>. QED  BY <1>2, <1>4, <1>5, <1>7, ReplaysStays

LEMMA AfterOrdered ==
    ASSUME TypeOK, NEW p \in Processes, NEW batch \in Seq(Requests), Accepted(p, batch),
           \A i \in 1 .. Len(batch) : Plannable(p, batch[i]), Ordered(log),
           NEW n \in 0 .. Len(batch)
    PROVE  Ordered(After(p, batch)[n])
<1>. DEFINE A == After(p, batch)
            Bad == {i \in 0 .. Len(batch) : ~Ordered(A[i])}
<1>0. \A i \in 0 .. Len(batch) : A[i] = IF i = 0 THEN log ELSE NextLog(A[i - 1], p, batch[i])
  BY AfterIs
<1>1. \A i \in 0 .. Len(batch) : A[i] \in Logs /\ Extends(log, A[i])
  BY AfterGrows
<1>2. \A i \in 1 .. Len(batch) : batch[i] \in Requests /\ Fits(A[i - 1], p, batch[i])
  BY DEF Accepted
<1>. HIDE DEF A
<1>. SUFFICES ASSUME Bad # {} PROVE FALSE
  BY DEF A
<1>a. Bad \subseteq Nat
  OBVIOUS
<1>3. PICK j \in Bad : \A i \in Bad : j <= i
  BY <1>a, LeastOf
<1>4. CASE j = 0
  BY <1>0, <1>4
<1>5. CASE j # 0
  <2>1. j \in 1 .. Len(batch) /\ j - 1 \in 0 .. Len(batch)
    BY <1>5
  <2>2. Ordered(A[j - 1])
    BY <1>3, <2>1
  <2>3. Ordered(NextLog(A[j - 1], p, batch[j]))
    BY <1>1, <1>2, <2>1, <2>2, NextLogOrdered
  <2>. QED  BY <1>0, <1>5, <2>3
<1>. QED  BY <1>4, <1>5

-----------------------------------------------------------------------------
(* A request to the store: the log only grows, the newest version stays    *)
(* newest, and what is dispatched is durable.                              *)

NewFrame(batch) ==
    [batch |-> batch, pos |-> 1, todo |-> {}, at |-> "materialize",
     failures |-> FALSE, ran |-> {}, raised |-> {}]

LEMMA CommitDoes ==
    ASSUME TypeOK, NEW p \in Processes, NEW batch \in Seq(Requests),
           \A i \in 1 .. Len(batch) : Plannable(p, batch[i]), Commit(p, batch)
    PROVE  /\ log' \in Logs /\ Extends(log, log') /\ (Ordered(log) => Ordered(log'))
           /\ calls' = calls + 1
           /\ \/ /\ \A n \in 1 .. Len(batch) : Replays(log', p, batch[n])
                 /\ stack' = [stack EXCEPT ![p] = <<NewFrame(batch)>> \o @]
                 /\ ended' = ended
              \/ /\ stack' = stack
                 /\ \E how \in {"conflict", "store_error"} : \E done \in BOOLEAN :
                      /\ how = "conflict" => ~done
                      /\ ended' = [ended EXCEPT ![p] =
                           [NeverEnded EXCEPT !.how = how, !.batch = batch, !.committed = done]]
<1>0. log \in Logs /\ Len(batch) \in Nat
  BY DEF TypeOK, Logs
<1>1. CASE Accepted(p, batch) /\ log' = After(p, batch)[Len(batch)]
           /\ (Dispatch(p, batch) \/ Refuse(p, batch, "store_error", TRUE))
  <2>1. Len(batch) \in 0 .. Len(batch)
    BY <1>0
  <2>2. log' \in Logs /\ Extends(log, log')
    BY <1>1, <2>1, AfterGrows
  <2>3. ASSUME Ordered(log) PROVE Ordered(log')
    BY <1>1, <2>1, <2>3, AfterOrdered
  <2>4. \A n \in 1 .. Len(batch) : Replays(log', p, batch[n])
    <3>. SUFFICES ASSUME NEW n \in 1 .. Len(batch) PROVE Replays(log', p, batch[n])
      OBVIOUS
    <3>1. Len(batch) \in n .. Len(batch)
      BY <1>0
    <3>. QED  BY <1>1, <3>1, AfterServes
  <2>. QED  BY <1>1, <2>2, <2>3, <2>4 DEF Commit, Dispatch, Refuse, NewFrame
<1>2. CASE log' = log /\ Refuse(p, batch, "conflict", FALSE)
  <2>1. Extends(log, log)
    BY <1>0 DEF Extends, Logs
  <2>. QED  BY <1>0, <1>2, <2>1 DEF Commit, Refuse
<1>. QED  BY <1>1, <1>2 DEF Commit

(* A write is a batch of one.                                              *)
LEMMA CallIs ==
    ASSUME NEW p \in Processes, Write(p) \/ LeaveBatch(p)
    PROVE  /\ MayCall(p)
           /\ \E batch \in Seq(Requests) :
                /\ Len(batch) \in 1 .. MaxBatch
                /\ \A i \in 1 .. Len(batch) : Plannable(p, batch[i])
                /\ Commit(p, batch)
<1>1. CASE Write(p)
  <2>1. PICK q \in Requests : Plannable(p, q) /\ Commit(p, <<q>>)
    BY <1>1 DEF Write
  <2>2. <<q>> \in Seq(Requests) /\ Len(<<q>>) = 1 /\ <<q>>[1] = q /\ 1 \in 1 .. MaxBatch
    BY RuntimeAssumption
  <2>. DEFINE batch == <<q>>
  <2>3. \A i \in 1 .. Len(batch) : Plannable(p, batch[i])
    BY <2>1, <2>2
  <2>4. batch \in Seq(Requests) /\ Commit(p, batch) /\ Len(batch) \in 1 .. MaxBatch
    BY <2>1, <2>2
  <2>. HIDE DEF batch
  <2>. QED  BY <1>1, <2>3, <2>4 DEF Write
<1>2. CASE LeaveBatch(p)
  <2>1. PICK n \in 1 .. MaxBatch : \E batch \in [1 .. n -> Requests] :
          (\A i \in 1 .. n : Plannable(p, batch[i])) /\ Commit(p, batch)
    BY <1>2 DEF LeaveBatch
  <2>2. PICK batch \in [1 .. n -> Requests] :
          (\A i \in 1 .. n : Plannable(p, batch[i])) /\ Commit(p, batch)
    BY <2>1
  <2>3. batch \in Seq(Requests) /\ Len(batch) = n
    BY RuntimeAssumption
  <2>. QED  BY <1>2, <2>2, <2>3 DEF LeaveBatch
<1>. QED  BY <1>1, <1>2

(* Only a call to the store touches the log.                               *)
LEMMA LogGrows ==
    ASSUME TypeOK, [Next]_vars
    PROVE  log' \in Logs /\ Extends(log, log') /\ (Ordered(log) => Ordered(log'))
<1>0. log \in Logs /\ Extends(log, log)
  BY DEF TypeOK, Logs, Extends
<1>1. ASSUME UNCHANGED log
      PROVE  log' \in Logs /\ Extends(log, log') /\ (Ordered(log) => Ordered(log'))
  BY <1>0, <1>1
<1>2. CASE UNCHANGED vars
  BY <1>1, <1>2 DEF vars
<1>3. ASSUME NEW p \in Processes, Write(p) \/ LeaveBatch(p)
      PROVE  log' \in Logs /\ Extends(log, log') /\ (Ordered(log) => Ordered(log'))
  BY <1>3, CallIs, CommitDoes
<1>5. ASSUME NEW p \in Processes,
             \/ Materialize(p) \/ StartHandler(p) \/ HandlerReturns(p)
             \/ HandlerRaises(p) \/ EndDispatch(p) \/ Crash(p)
      PROVE  log' \in Logs /\ Extends(log, log') /\ (Ordered(log) => Ordered(log'))
  <2>1. UNCHANGED log
    BY <1>5 DEF Materialize, StartHandler, HandlerReturns, HandlerRaises, EndDispatch,
       Crash, SetTop, End
  <2>. QED  BY <1>1, <2>1
<1>. QED  BY <1>2, <1>3, <1>5 DEF Next

-----------------------------------------------------------------------------
(* The calls in progress.                                                  *)

(* What has run for the request at hand, and what is still to run.         *)
FrameOK(p, f) ==
    /\ Len(f.batch) \in 1 .. MaxBatch /\ f.pos \in 1 .. Len(f.batch)
    /\ f.at = "materialize" => f.ran = OwedUpTo(f.batch, f.pos - 1) /\ ~f.failures
    /\ f.at # "materialize" =>
         /\ f.todo \subseteq Matching(f.batch[f.pos])
         /\ OwedUpTo(f.batch, f.pos - 1) \subseteq f.ran
         /\ f.ran \subseteq OwedUpTo(f.batch, f.pos)
         /\ \A i \in Matching(f.batch[f.pos]) \ f.todo : <<f.pos, Subs[i]>> \in f.ran
    /\ f.at = "handler" => f.todo # {} /\ Served(f) \in f.ran
    /\ f.failures =>
         OnError[p] = "raise" /\ f.raised # {} /\ f.raised \subseteq Owed(f.batch, f.pos)
    /\ ~f.failures => f.raised = {} \/ OnError[p] = "log"

FramesOK == \A p \in Processes : \A i \in DOMAIN stack[p] : FrameOK(p, stack[p][i])

IInv ==
    /\ TypeOK /\ DispatchAfterCommit /\ FramesOK
    /\ DispatchIsWhole /\ FailuresSurface /\ ConflictMeansNotCommitted

LEMMA OwedIs ==
    ASSUME NEW batch, NEW n, NEW x
    PROVE  x \in Owed(batch, n) <=> \E s \in SubIds : x = <<n, s>> /\ Kind(batch[n]) \in Kinds[s]
BY DEF Owed

LEMMA OwedGrows ==
    ASSUME NEW batch, NEW m \in Nat \ {0}
    PROVE  /\ OwedUpTo(batch, m) = OwedUpTo(batch, m - 1) \cup Owed(batch, m)
           /\ OwedUpTo(batch, 0) = {}
<1>1. \A n : n \in 1 .. m <=> n \in 1 .. m - 1 \/ n = m
  OBVIOUS
<1>2. 1 .. 0 = {}
  OBVIOUS
<1>. HIDE DEF OwedUpTo
<1>3. \A x : x \in OwedUpTo(batch, m) <=> \E n \in 1 .. m : x \in Owed(batch, n)
  BY Zenon DEF OwedUpTo
<1>4. \A x : x \in OwedUpTo(batch, m - 1) <=> \E n \in 1 .. m - 1 : x \in Owed(batch, n)
  BY Zenon DEF OwedUpTo
<1>5. \A x : x \in OwedUpTo(batch, 0) <=> \E n \in 1 .. 0 : x \in Owed(batch, n)
  BY Zenon DEF OwedUpTo
<1>. QED  BY <1>1, <1>2, <1>3, <1>4, <1>5

(* The subscription to be served next is one that is owed.                 *)
LEMMA ServedIs ==
    ASSUME NEW f \in Frames, f.todo \subseteq Matching(f.batch[f.pos]), f.todo # {}
    PROVE  First(f) \in f.todo /\ Served(f) \in Owed(f.batch, f.pos) /\ Served(f) \in Runs
<1>1. f.todo \subseteq Nat
  BY RuntimeAssumption DEF Frames
<1>2. \E i \in f.todo : \A j \in f.todo : i <= j
  BY <1>1, LeastOf
<1>3. First(f) \in f.todo
  BY <1>2 DEF First
<1>4. Subs[First(f)] \in SubIds /\ Kind(f.batch[f.pos]) \in Kinds[Subs[First(f)]]
  BY <1>3 DEF Matching, SubIds
<1>5. f.pos \in 1 .. MaxBatch
  BY DEF Frames
<1>. QED  BY <1>3, <1>4, <1>5, OwedIs DEF Served, Runs

(* A stack has one more call, another innermost one, or one less.          *)
LEMMA Pushed ==
    ASSUME NEW s \in Seq(Frames), NEW f \in Frames
    PROVE  /\ <<f>> \o s \in Seq(Frames)
           /\ \A i \in DOMAIN (<<f>> \o s) :
                (<<f>> \o s)[i] = f \/ \E j \in DOMAIN s : (<<f>> \o s)[i] = s[j]
<1>1. Len(<<f>> \o s) = Len(s) + 1 /\ Len(s) \in Nat
  OBVIOUS
<1>2. \A i \in 1 .. Len(s) + 1 : (<<f>> \o s)[i] = IF i = 1 THEN f ELSE s[i - 1]
  OBVIOUS
<1>. QED  BY <1>1, <1>2

LEMMA Popped ==
    ASSUME NEW s \in Seq(Frames), s # <<>>
    PROVE  /\ Tail(s) \in Seq(Frames)
           /\ \A i \in DOMAIN Tail(s) : \E j \in DOMAIN s : Tail(s)[i] = s[j]
<1>1. Tail(s) \in Seq(Frames) /\ Len(Tail(s)) = Len(s) - 1 /\ Len(s) \in Nat
  OBVIOUS
<1>2. \A i \in 1 .. Len(s) - 1 : Tail(s)[i] = s[i + 1]
  OBVIOUS
<1>. QED  BY <1>1, <1>2

Fine(rows, p, f) ==
    FrameOK(p, f) /\ \A n \in DOMAIN f.batch : Replays(rows, p, f.batch[n])

(* A call that was fine stays fine when the log grows.                     *)
LEMMA FineStays ==
    ASSUME NEW a \in Logs, NEW b \in Logs, Extends(a, b), NEW p \in Processes, NEW f \in Frames,
           Fine(a, p, f)
    PROVE  Fine(b, p, f)
<1>1. f.batch \in Seq(Requests)
  BY DEF Frames
<1>2. \A n \in DOMAIN f.batch : f.batch[n] \in Requests
  BY <1>1
<1>. QED  BY <1>2, ReplaysStays DEF Fine

LEMMA NewStack ==
    ASSUME IInv, log' \in Logs, Extends(log, log'), NEW p \in Processes, NEW s \in Seq(Frames),
           stack' = [stack EXCEPT ![p] = s],
           \A i \in DOMAIN s :
             Fine(log', p, s[i]) \/ \E j \in DOMAIN stack[p] : s[i] = stack[p][j]
    PROVE  stack' \in [Processes -> Seq(Frames)] /\ FramesOK' /\ DispatchAfterCommit'
<1>0. /\ log \in Logs /\ stack \in [Processes -> Seq(Frames)]
      /\ FramesOK /\ DispatchAfterCommit
  BY DEF IInv, TypeOK, Logs
<1>1. stack' \in [Processes -> Seq(Frames)] /\ stack'[p] = s
      /\ \A r \in Processes : r # p => stack'[r] = stack[r]
  BY <1>0
<1>2. ASSUME NEW r \in Processes, NEW j \in DOMAIN stack[r]
      PROVE  Fine(log', r, stack[r][j])
  <2>1. stack[r] \in Seq(Frames)
    BY <1>0
  <2>2. stack[r][j] \in Frames
    BY <2>1
  <2>3. Fine(log, r, stack[r][j])
    BY <1>0 DEF FramesOK, DispatchAfterCommit, Durable, Replays, Fine
  <2>. QED  BY <1>0, <2>2, <2>3, FineStays
<1>3. \A r \in Processes : \A i \in DOMAIN stack'[r] : Fine(log', r, stack'[r][i])
  <2>. SUFFICES ASSUME NEW r \in Processes, NEW i \in DOMAIN stack'[r]
                PROVE  Fine(log', r, stack'[r][i])
    OBVIOUS
  <2>1. CASE r = p
    BY <1>1, <1>2, <2>1
  <2>2. CASE r # p
    BY <1>1, <1>2, <2>2
  <2>. QED  BY <2>1, <2>2
<1>. QED  BY <1>1, <1>3 DEF FramesOK, DispatchAfterCommit, Durable, Replays, Fine

(* How a call ends.                                                        *)
Ends == [how : {"none", "ok", "conflict", "store_error", "dispatch", "invalid"},
         batch : Seq(Requests), committed : BOOLEAN, ran : SUBSET Runs, raised : SUBSET Runs]

EndOK(p, e) ==
    /\ e.how = "ok" =>
         e.ran = OwedUpTo(e.batch, Len(e.batch)) /\ (e.raised = {} \/ OnError[p] = "log")
    /\ e.how = "dispatch" =>
         /\ \E m \in DOMAIN e.batch :
              /\ e.ran = OwedUpTo(e.batch, m)
              /\ e.raised # {} /\ e.raised \subseteq Owed(e.batch, m)
         /\ OnError[p] = "raise"
    /\ e.how = "conflict" => ~e.committed

EndsOK == \A p \in Processes : EndOK(p, ended[p])

LEMMA EndsOKIs == EndsOK <=> DispatchIsWhole /\ FailuresSurface /\ ConflictMeansNotCommitted
BY DEF EndsOK, EndOK, DispatchIsWhole, FailuresSurface, ConflictMeansNotCommitted

LEMMA NewEnd ==
    ASSUME ended \in [Processes -> Ends], EndsOK, NEW p \in Processes, NEW e \in Ends,
           ended' = [ended EXCEPT ![p] = e], EndOK(p, e)
    PROVE  ended' \in [Processes -> Ends] /\ EndsOK'
<1>1. ended' \in [Processes -> Ends] /\ ended'[p] = e
      /\ \A r \in Processes : r # p => ended'[r] = ended[r]
  BY Zenon
<1>2. \A r \in Processes : EndOK(r, ended[r])
  BY DEF EndsOK
<1>3. \A r \in Processes : EndOK(r, ended'[r])
  BY <1>1, <1>2
<1>. QED  BY <1>1, <1>3 DEF EndsOK

LEMMA Parts ==
    ASSUME IInv
    PROVE  /\ log \in Logs /\ stack \in [Processes -> Seq(Frames)]
           /\ ended \in [Processes -> Ends] /\ calls \in 0 .. MaxCalls
           /\ EndsOK
BY DEF IInv, TypeOK, Logs, Ends, EndsOK, EndOK, DispatchIsWhole, FailuresSurface,
       ConflictMeansNotCommitted

LEMMA Whole ==
    ASSUME log' \in Logs, stack' \in [Processes -> Seq(Frames)],
           ended' \in [Processes -> Ends], calls' \in 0 .. MaxCalls,
           FramesOK', DispatchAfterCommit', EndsOK'
    PROVE  IInv'
BY DEF IInv, TypeOK, Logs, Ends, EndsOK, EndOK, DispatchIsWhole, FailuresSurface,
       ConflictMeansNotCommitted

(* The innermost call.                                                     *)
LEMMA TopIs ==
    ASSUME IInv, NEW p \in Processes, stack[p] # <<>>
    PROVE  /\ Top(p) \in Frames /\ FrameOK(p, Top(p)) /\ Fine(log, p, Top(p))
           /\ Top(p).batch \in Seq(Requests)
<1>1. stack[p] \in Seq(Frames)
  BY DEF IInv, TypeOK
<1>2. 1 \in DOMAIN stack[p] /\ stack[p][1] \in Frames
  BY <1>1
<1>3. Fine(log, p, stack[p][1])
  BY <1>2 DEF IInv, FramesOK, DispatchAfterCommit, Durable, Replays, Fine
<1>. QED  BY <1>2, <1>3 DEF Top, Fine, Frames

(* A step of the innermost call.                                           *)
LEMMA SetTopKeeps ==
    ASSUME IInv, NEW p \in Processes, stack[p] # <<>>, NEW g \in Frames,
           FrameOK(p, g), g.batch = Top(p).batch, SetTop(p, g)
    PROVE  IInv'
<1>1. /\ log' = log /\ ended' = ended /\ calls' = calls
      /\ stack' = [stack EXCEPT ![p] = <<g>> \o Tail(stack[p])]
  BY DEF SetTop
<1>2. /\ log \in Logs /\ stack \in [Processes -> Seq(Frames)] /\ stack[p] \in Seq(Frames)
      /\ ended \in [Processes -> Ends] /\ calls \in 0 .. MaxCalls /\ EndsOK
  BY Parts
<1>3. Fine(log, p, g)
  BY TopIs DEF Fine
<1>4. /\ Tail(stack[p]) \in Seq(Frames)
      /\ \A i \in DOMAIN Tail(stack[p]) :
           \E j \in DOMAIN stack[p] : Tail(stack[p])[i] = stack[p][j]
  BY <1>2, Popped
<1>5. PICK s : s = <<g>> \o Tail(stack[p])
  OBVIOUS
<1>6. /\ s \in Seq(Frames)
      /\ \A i \in DOMAIN s : s[i] = g \/ \E j \in DOMAIN Tail(stack[p]) : s[i] = Tail(stack[p])[j]
  BY <1>4, <1>5, Pushed
<1>7. \A i \in DOMAIN s :
        Fine(log', p, s[i]) \/ \E j \in DOMAIN stack[p] : s[i] = stack[p][j]
  BY <1>1, <1>3, <1>4, <1>6
<1>8. log' \in Logs /\ Extends(log, log')
  BY <1>1, <1>2 DEF Logs, Extends
<1>9. stack' \in [Processes -> Seq(Frames)] /\ FramesOK' /\ DispatchAfterCommit'
  BY <1>1, <1>5, <1>6, <1>7, <1>8, NewStack
<1>10. EndsOK'
  BY <1>1, <1>2 DEF EndsOK
<1>. QED  BY <1>1, <1>2, <1>9, <1>10, Whole

(* The innermost call returns or raises.                                   *)
LEMMA EndKeeps ==
    ASSUME IInv, NEW p \in Processes, stack[p] # <<>>,
           NEW how \in {"ok", "dispatch", "invalid"}, End(p, how),
           EndOK(p, [how |-> how, batch |-> Top(p).batch, committed |-> TRUE,
                     ran |-> Top(p).ran, raised |-> Top(p).raised])
    PROVE  IInv'
<1>. DEFINE e == [how |-> how, batch |-> Top(p).batch, committed |-> TRUE,
                  ran |-> Top(p).ran, raised |-> Top(p).raised]
<1>1. /\ log' = log /\ calls' = calls /\ ended' = [ended EXCEPT ![p] = e]
      /\ stack' = [stack EXCEPT ![p] = Tail(stack[p])]
  BY DEF End
<1>2. /\ log \in Logs /\ stack \in [Processes -> Seq(Frames)] /\ stack[p] \in Seq(Frames)
      /\ ended \in [Processes -> Ends] /\ calls \in 0 .. MaxCalls /\ EndsOK
  BY Parts
<1>3. PICK s : s = Tail(stack[p])
  OBVIOUS
<1>4. s \in Seq(Frames) /\ \A i \in DOMAIN s : \E j \in DOMAIN stack[p] : s[i] = stack[p][j]
  BY <1>2, <1>3, Popped
<1>5. log' \in Logs /\ Extends(log, log')
  BY <1>1, <1>2 DEF Logs, Extends
<1>6. stack' \in [Processes -> Seq(Frames)] /\ FramesOK' /\ DispatchAfterCommit'
  BY <1>1, <1>3, <1>4, <1>5, NewStack
<1>7. e \in Ends
  BY TopIs DEF Ends, Frames
<1>8. EndOK(p, e)
  OBVIOUS
<1>. HIDE DEF e
<1>9. PICK d : d = e
  OBVIOUS
<1>10. ended' \in [Processes -> Ends] /\ EndsOK'
  BY <1>1, <1>2, <1>7, <1>8, <1>9, NewEnd
<1>. QED  BY <1>1, <1>2, <1>6, <1>10, Whole

(* A call to the store, which dispatches or is refused.                    *)
LEMMA CallKeeps ==
    ASSUME IInv, NEW p \in Processes, Write(p) \/ LeaveBatch(p)
    PROVE  IInv'
<1>1. PICK batch \in Seq(Requests) :
        /\ Len(batch) \in 1 .. MaxBatch
        /\ \A i \in 1 .. Len(batch) : Plannable(p, batch[i])
        /\ Commit(p, batch)
  BY CallIs
<1>2. TypeOK /\ MayCall(p)
  BY CallIs DEF IInv
<1>3. /\ log \in Logs /\ stack \in [Processes -> Seq(Frames)] /\ stack[p] \in Seq(Frames)
      /\ ended \in [Processes -> Ends] /\ calls \in 0 .. MaxCalls /\ EndsOK
  BY Parts
<1>4. log' \in Logs /\ Extends(log, log') /\ calls' = calls + 1
  BY <1>1, <1>2, CommitDoes
<1>5. calls' \in 0 .. MaxCalls
  BY <1>2, <1>3, <1>4, RuntimeAssumption DEF MayCall
<1>6. CASE /\ \A n \in 1 .. Len(batch) : Replays(log', p, batch[n])
           /\ stack' = [stack EXCEPT ![p] = <<NewFrame(batch)>> \o @]
           /\ ended' = ended
  <2>. DEFINE f == NewFrame(batch)
  <2>1. f \in Frames
    BY <1>1, RuntimeAssumption DEF NewFrame, Frames
  <2>2. f.batch = batch /\ f.pos = 1 /\ f.at = "materialize" /\ f.ran = {} /\ ~f.failures /\ f.raised = {}
    BY DEF NewFrame
  <2>3. OwedUpTo(batch, 0) = {}
    BY OwedGrows
  <2>. HIDE DEF f
  <2>4. FrameOK(p, f)
    BY <1>1, <2>2, <2>3 DEF FrameOK
  <2>5. Fine(log', p, f)
    BY <1>1, <1>6, <2>2, <2>4 DEF Fine
  <2>6. PICK s : s = <<f>> \o stack[p]
    OBVIOUS
  <2>7. /\ s \in Seq(Frames)
        /\ \A i \in DOMAIN s : s[i] = f \/ \E j \in DOMAIN stack[p] : s[i] = stack[p][j]
    BY <1>3, <2>1, <2>6, Pushed
  <2>8. stack' = [stack EXCEPT ![p] = s]
    BY <1>6, <2>6 DEF f
  <2>9. \A i \in DOMAIN s :
          Fine(log', p, s[i]) \/ \E j \in DOMAIN stack[p] : s[i] = stack[p][j]
    BY <2>5, <2>7
  <2>10. stack' \in [Processes -> Seq(Frames)] /\ FramesOK' /\ DispatchAfterCommit'
    BY <1>4, <2>7, <2>8, <2>9, NewStack
  <2>11. EndsOK'
    BY <1>3, <1>6 DEF EndsOK
  <2>. QED  BY <1>3, <1>4, <1>5, <1>6, <2>10, <2>11, Whole
<1>7. CASE /\ stack' = stack
           /\ \E how \in {"conflict", "store_error"} : \E done \in BOOLEAN :
                /\ how = "conflict" => ~done
                /\ ended' = [ended EXCEPT ![p] =
                     [NeverEnded EXCEPT !.how = how, !.batch = batch, !.committed = done]]
  <2>1. PICK how \in {"conflict", "store_error"}, done \in BOOLEAN :
          /\ how = "conflict" => ~done
          /\ ended' = [ended EXCEPT ![p] =
               [NeverEnded EXCEPT !.how = how, !.batch = batch, !.committed = done]]
    BY <1>7
  <2>. DEFINE e == [NeverEnded EXCEPT !.how = how, !.batch = batch, !.committed = done]
  <2>2. e \in Ends /\ EndOK(p, e)
    BY <1>1, <2>1 DEF NeverEnded, Ends, EndOK
  <2>3. ended' = [ended EXCEPT ![p] = e]
    BY <2>1
  <2>. HIDE DEF e
  <2>4. ended' \in [Processes -> Ends] /\ EndsOK'
    BY <1>3, <2>2, <2>3, NewEnd
  <2>5. stack' = [stack EXCEPT ![p] = stack[p]]
    BY <1>3, <1>7
  <2>6. PICK s : s = stack[p]
    OBVIOUS
  <2>7. stack' \in [Processes -> Seq(Frames)] /\ FramesOK' /\ DispatchAfterCommit'
    BY <1>3, <1>4, <2>5, <2>6, NewStack
  <2>. QED  BY <1>4, <1>5, <2>4, <2>7, Whole
<1>. QED  BY <1>1, <1>2, <1>6, <1>7, CommitDoes

-----------------------------------------------------------------------------
(* The steps of a dispatch.                                                *)

LEMMA MaterializeKeeps ==
    ASSUME IInv, NEW p \in Processes, Materialize(p)
    PROVE  IInv'
<1>. DEFINE f == Top(p)
            q == f.batch[f.pos]
            g == [f EXCEPT !.at = "dispatch", !.failures = FALSE, !.todo = Matching(q)]
<1>1. stack[p] # <<>> /\ f.at = "materialize"
  BY DEF Materialize, Running
<1>2. f \in Frames /\ FrameOK(p, f) /\ f.batch \in Seq(Requests)
  BY <1>1, TopIs
<1>3. (IF Hydrates(p, RowOf(p, q)) THEN SetTop(p, g) ELSE End(p, "invalid"))
  BY DEF Materialize
<1>4. CASE Hydrates(p, RowOf(p, q))
  <2>1. SetTop(p, g)
    BY <1>3, <1>4
  <2>2. Matching(q) \subseteq DOMAIN Subs
    BY DEF Matching
  <2>3. g \in Frames /\ g.batch = f.batch /\ g.pos = f.pos /\ g.at = "dispatch" /\ ~g.failures
        /\ g.todo = Matching(q) /\ g.ran = f.ran /\ g.raised = f.raised
    BY <1>2, <2>2 DEF Frames
  <2>. HIDE DEF g
  <2>4. f.ran = OwedUpTo(f.batch, f.pos - 1) /\ f.pos \in Nat \ {0} /\ ~f.failures
    BY <1>1, <1>2 DEF FrameOK
  <2>5. OwedUpTo(f.batch, f.pos) = OwedUpTo(f.batch, f.pos - 1) \cup Owed(f.batch, f.pos)
    BY <2>4, OwedGrows
  <2>6. FrameOK(p, g)
    BY <1>2, <2>3, <2>4, <2>5 DEF FrameOK
  <2>. QED  BY <1>1, <2>1, <2>3, <2>6, SetTopKeeps
<1>5. CASE ~Hydrates(p, RowOf(p, q))
  <2>1. End(p, "invalid")
    BY <1>3, <1>5
  <2>. QED  BY <1>1, <2>1, EndKeeps DEF EndOK
<1>. QED  BY <1>4, <1>5

LEMMA StartHandlerKeeps ==
    ASSUME IInv, NEW p \in Processes, StartHandler(p)
    PROVE  IInv'
<1>. DEFINE f == Top(p)
            g == [f EXCEPT !.at = "handler", !.ran = @ \cup {Served(f)}]
<1>1. stack[p] # <<>> /\ f.at = "dispatch" /\ f.todo # {} /\ SetTop(p, g)
  BY DEF StartHandler, Running
<1>2. f \in Frames /\ FrameOK(p, f) /\ f.batch \in Seq(Requests)
  BY <1>1, TopIs
<1>3. f.todo \subseteq Matching(f.batch[f.pos]) /\ f.pos \in Nat \ {0}
  BY <1>1, <1>2 DEF FrameOK
<1>4. Served(f) \in Owed(f.batch, f.pos) /\ Served(f) \in Runs
  BY <1>1, <1>2, <1>3, ServedIs
<1>5. OwedUpTo(f.batch, f.pos) = OwedUpTo(f.batch, f.pos - 1) \cup Owed(f.batch, f.pos)
  BY <1>3, OwedGrows
<1>6. g \in Frames /\ g.batch = f.batch /\ g.pos = f.pos /\ g.at = "handler"
      /\ g.failures = f.failures /\ g.todo = f.todo /\ g.ran = f.ran \cup {Served(f)}
      /\ g.raised = f.raised
  BY <1>2, <1>4 DEF Frames
<1>7. Served(g) = Served(f)
  BY <1>6 DEF Served, First
<1>. HIDE DEF g
<1>8. FrameOK(p, g)
  BY <1>1, <1>2, <1>3, <1>4, <1>5, <1>6, <1>7 DEF FrameOK
<1>. QED  BY <1>1, <1>6, <1>8, SetTopKeeps

(* A handler that has ended leaves its place in the loop.                  *)
LEMMA HandlerEndKeeps ==
    ASSUME IInv, NEW p \in Processes, HandlerReturns(p) \/ HandlerRaises(p)
    PROVE  IInv'
<1>. DEFINE f == Top(p)
            back == [f EXCEPT !.at = "dispatch", !.todo = @ \ {First(f)}]
            failed == [f EXCEPT !.at = "dispatch", !.todo = @ \ {First(f)},
                         !.failures = @ \/ OnError[p] = "raise",
                         !.raised = @ \cup {Served(f)}]
<1>1. stack[p] # <<>> /\ f.at = "handler" /\ (SetTop(p, back) \/ SetTop(p, failed))
  BY DEF HandlerReturns, HandlerRaises, Running
<1>2. f \in Frames /\ FrameOK(p, f) /\ f.batch \in Seq(Requests)
  BY <1>1, TopIs
<1>3. /\ f.todo \subseteq Matching(f.batch[f.pos]) /\ f.todo # {} /\ Served(f) \in f.ran
      /\ f.pos \in 1 .. Len(f.batch)
  BY <1>1, <1>2 DEF FrameOK
<1>4. First(f) \in f.todo /\ Served(f) \in Owed(f.batch, f.pos) /\ Served(f) \in Runs
  BY <1>2, <1>3, ServedIs
<1>5. <<f.pos, Subs[First(f)]>> \in f.ran
  BY <1>3 DEF Served
<1>6. ASSUME NEW g \in Frames, g.batch = f.batch, g.pos = f.pos, g.at = "dispatch",
             g.ran = f.ran, g.todo = f.todo \ {First(f)},
             g.failures =>
               OnError[p] = "raise" /\ g.raised # {} /\ g.raised \subseteq Owed(f.batch, f.pos),
             ~g.failures => g.raised = {} \/ OnError[p] = "log"
      PROVE  FrameOK(p, g)
  BY <1>1, <1>2, <1>3, <1>5, <1>6 DEF FrameOK
<1>7. CASE SetTop(p, back)
  <2>1. /\ back \in Frames /\ back.batch = f.batch /\ back.pos = f.pos /\ back.at = "dispatch"
        /\ back.ran = f.ran /\ back.todo = f.todo \ {First(f)}
        /\ back.failures = f.failures /\ back.raised = f.raised
    BY <1>2 DEF Frames
  <2>. HIDE DEF back
  <2>2. FrameOK(p, back)
    <3>1. /\ f.failures => OnError[p] = "raise" /\ f.raised # {}
                           /\ f.raised \subseteq Owed(f.batch, f.pos)
          /\ ~f.failures => f.raised = {} \/ OnError[p] = "log"
      BY <1>2 DEF FrameOK
    <3>. QED  BY <1>6, <2>1, <3>1
  <2>. QED  BY <1>1, <1>7, <2>1, <2>2, SetTopKeeps
<1>8. CASE SetTop(p, failed)
  <2>1. /\ failed \in Frames /\ failed.batch = f.batch /\ failed.pos = f.pos
        /\ failed.at = "dispatch" /\ failed.ran = f.ran /\ failed.todo = f.todo \ {First(f)}
        /\ failed.failures = (f.failures \/ OnError[p] = "raise")
        /\ failed.raised = f.raised \cup {Served(f)}
    BY <1>2, <1>4 DEF Frames
  <2>. HIDE DEF failed
  <2>2. OnError[p] = "raise" \/ OnError[p] = "log"
    BY RuntimeAssumption
  <2>3. /\ f.failures => OnError[p] = "raise" /\ f.raised \subseteq Owed(f.batch, f.pos)
        /\ ~f.failures => f.raised = {} \/ OnError[p] = "log"
    BY <1>2 DEF FrameOK
  <2>4. FrameOK(p, failed)
    BY <1>4, <1>6, <2>1, <2>2, <2>3
  <2>. QED  BY <1>1, <1>8, <2>1, <2>4, SetTopKeeps
<1>. QED  BY <1>1, <1>7, <1>8

LEMMA EndDispatchKeeps ==
    ASSUME IInv, NEW p \in Processes, EndDispatch(p)
    PROVE  IInv'
<1>. DEFINE f == Top(p)
            g == [f EXCEPT !.pos = @ + 1, !.at = "materialize"]
            e(how) == [how |-> how, batch |-> f.batch, committed |-> TRUE,
                       ran |-> f.ran, raised |-> f.raised]
<1>1. /\ stack[p] # <<>> /\ f.at = "dispatch" /\ f.todo = {}
      /\ IF f.failures THEN End(p, "dispatch")
         ELSE IF f.pos < Len(f.batch) THEN SetTop(p, g) ELSE End(p, "ok")
  BY DEF EndDispatch, Running
<1>2. f \in Frames /\ FrameOK(p, f) /\ f.batch \in Seq(Requests)
  BY <1>1, TopIs
<1>3. /\ Len(f.batch) \in 1 .. MaxBatch /\ f.pos \in 1 .. Len(f.batch) /\ MaxBatch \in Nat
      /\ OwedUpTo(f.batch, f.pos - 1) \subseteq f.ran
      /\ f.ran \subseteq OwedUpTo(f.batch, f.pos)
      /\ \A i \in Matching(f.batch[f.pos]) : <<f.pos, Subs[i]>> \in f.ran
      /\ f.failures => OnError[p] = "raise" /\ f.raised # {}
                       /\ f.raised \subseteq Owed(f.batch, f.pos)
      /\ ~f.failures => f.raised = {} \/ OnError[p] = "log"
  BY <1>1, <1>2, RuntimeAssumption DEF FrameOK
<1>4. Owed(f.batch, f.pos) \subseteq f.ran
  <2>. SUFFICES ASSUME NEW x \in Owed(f.batch, f.pos) PROVE x \in f.ran
    OBVIOUS
  <2>1. PICK s \in SubIds : x = <<f.pos, s>> /\ Kind(f.batch[f.pos]) \in Kinds[s]
    BY OwedIs
  <2>2. PICK i \in DOMAIN Subs : s = Subs[i]
    BY DEF SubIds
  <2>3. i \in Matching(f.batch[f.pos])
    BY <2>1, <2>2 DEF Matching
  <2>. QED  BY <1>3, <2>1, <2>2, <2>3
<1>5. f.ran = OwedUpTo(f.batch, f.pos)
  <2>1. OwedUpTo(f.batch, f.pos) = OwedUpTo(f.batch, f.pos - 1) \cup Owed(f.batch, f.pos)
    BY <1>3, OwedGrows
  <2>. QED  BY <1>3, <1>4, <2>1
<1>6. CASE f.failures
  <2>1. End(p, "dispatch")
    BY <1>1, <1>6
  <2>2. EndOK(p, e("dispatch"))
    BY <1>3, <1>5, <1>6 DEF EndOK
  <2>. QED  BY <1>1, <2>1, <2>2, EndKeeps
<1>7. CASE ~f.failures /\ f.pos < Len(f.batch)
  <2>1. SetTop(p, g)
    BY <1>1, <1>7
  <2>2. f.pos + 1 \in 1 .. MaxBatch /\ f.pos + 1 \in 1 .. Len(f.batch)
    BY <1>3, <1>7
  <2>3. g \in Frames /\ g.batch = f.batch /\ g.pos = f.pos + 1 /\ g.at = "materialize"
        /\ g.failures = f.failures /\ g.ran = f.ran /\ g.raised = f.raised
    BY <1>2, <2>2 DEF Frames
  <2>. HIDE DEF g
  <2>4. g.pos - 1 = f.pos
    BY <1>3, <2>3
  <2>5. FrameOK(p, g)
    BY <1>3, <1>5, <1>7, <2>2, <2>3, <2>4 DEF FrameOK
  <2>. QED  BY <1>1, <2>1, <2>3, <2>5, SetTopKeeps
<1>8. CASE ~f.failures /\ ~(f.pos < Len(f.batch))
  <2>1. End(p, "ok")
    BY <1>1, <1>8
  <2>2. f.pos = Len(f.batch)
    BY <1>3, <1>8
  <2>3. EndOK(p, e("ok"))
    BY <1>3, <1>5, <1>8, <2>2 DEF EndOK
  <2>. QED  BY <1>1, <2>1, <2>3, EndKeeps
<1>. QED  BY <1>6, <1>7, <1>8

LEMMA CrashKeeps ==
    ASSUME IInv, NEW p \in Processes, Crash(p)
    PROVE  IInv'
<1>1. /\ log' = log /\ calls' = calls /\ ended' = [ended EXCEPT ![p] = NeverEnded]
      /\ stack' = [stack EXCEPT ![p] = <<>>]
  BY DEF Crash
<1>2. /\ log \in Logs /\ ended \in [Processes -> Ends] /\ calls \in 0 .. MaxCalls /\ EndsOK
  BY Parts
<1>3. log' \in Logs /\ Extends(log, log')
  BY <1>1, <1>2 DEF Logs, Extends
<1>4. NeverEnded \in Ends /\ EndOK(p, NeverEnded)
  BY DEF NeverEnded, Ends, EndOK
<1>5. ended' \in [Processes -> Ends] /\ EndsOK'
  BY <1>1, <1>2, <1>4, NewEnd
<1>6. <<>> \in Seq(Frames) /\ DOMAIN <<>> = {}
  OBVIOUS
<1>7. stack' \in [Processes -> Seq(Frames)] /\ FramesOK' /\ DispatchAfterCommit'
  BY <1>1, <1>3, <1>6, NewStack
<1>. QED  BY <1>1, <1>2, <1>5, <1>7, Whole

LEMMA Inductive ==
    IInv /\ [Next]_vars => IInv'
<1>. SUFFICES ASSUME IInv, [Next]_vars PROVE IInv'
  OBVIOUS
<1>1. CASE UNCHANGED vars
  <2>1. log' = log /\ stack' = stack /\ ended' = ended /\ calls' = calls
    BY <1>1 DEF vars
  <2>2. FramesOK' /\ DispatchAfterCommit'
    BY <2>1 DEF IInv, FramesOK, DispatchAfterCommit, Durable
  <2>3. EndsOK'
    BY <2>1, Parts DEF EndsOK
  <2>. QED  BY <2>1, <2>2, <2>3, Parts, Whole
<1>2. CASE Next
  BY <1>2, CallKeeps, MaterializeKeeps, StartHandlerKeeps, HandlerEndKeeps,
     EndDispatchKeeps, CrashKeeps DEF Next
<1>. QED  BY <1>1, <1>2

LEMMA Starts ==
    Init => IInv /\ Ordered(log)
<1>. SUFFICES ASSUME Init PROVE IInv /\ Ordered(log)
  OBVIOUS
<1>1. TypeOK
  BY RuntimeAssumption DEF Init, TypeOK, NeverEnded
<1>2. FramesOK /\ DispatchAfterCommit
  BY DEF Init, FramesOK, DispatchAfterCommit
<1>3. DispatchIsWhole /\ FailuresSurface /\ ConflictMeansNotCommitted
  BY DEF Init, NeverEnded, DispatchIsWhole, FailuresSurface, ConflictMeansNotCommitted
<1>4. Ordered(log)
  BY DEF Init, Ordered
<1>. QED  BY <1>1, <1>2, <1>3, <1>4 DEF IInv

LEMMA Always ==
    Spec => []IInv
BY Starts, Inductive, PTL DEF Spec

-----------------------------------------------------------------------------
(* Inline handlers run after the commit (dispatch.py, runtime.py): while a *)
(* call is in its dispatch, however deeply nested, every request of it is  *)
(* durable, whoever else has written since.                                *)
THEOREM HandlersSeeWhatIsDurable ==
    Spec => []DispatchAfterCommit
<1>1. IInv => DispatchAfterCommit
  BY DEF IInv
<1>. QED  BY <1>1, Always, PTL

(* A call that returns has run every matching handler of every request,    *)
(* and one that raises InlineDispatchError those up to the failed request. *)
THEOREM DispatchesStayWhole ==
    Spec => []DispatchIsWhole
<1>1. IInv => DispatchIsWhole
  BY DEF IInv
<1>. QED  BY <1>1, Always, PTL

(* What the caller is told is what happened: no failure is swallowed, and  *)
(* a conflict means that nothing was committed.                            *)
THEOREM CallersAreToldTheTruth ==
    Spec => []AnswersAreTrue
<1>1. IInv => AnswersAreTrue
  BY DEF IInv, AnswersAreTrue
<1>. QED  BY <1>1, Always, PTL

(* No build writes on top of a row whose schema version it cannot read, so *)
(* versions never decrease along a log (hydrate, in the planning of every  *)
(* write).                                                                 *)
THEOREM OldBuildsStopWriting ==
    Spec => []VersionsNeverDecrease
<1>1. IInv /\ Ordered(log) /\ [Next]_vars => Ordered(log)'
  BY LogGrows DEF IInv, Ordered
<1>2. Ordered(log) => VersionsNeverDecrease
  BY DEF Ordered, VersionsNeverDecrease
<1>. QED  BY <1>1, <1>2, Starts, Always, PTL DEF Spec

=============================================================================
