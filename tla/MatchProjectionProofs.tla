------------------------ MODULE MatchProjectionProofs ------------------------
(* For any number of matchers, accounts and rows: the fencing epoch keeps  *)
(* the cursor of a projection from going back, whatever matchers do with a *)
(* lease they have lost; and until a matcher begins with a state that was  *)
(* written for another cursor, what is stored and emitted is what a replay *)
(* of the log by one matcher finds.                                        *)
EXTENDS MatchProjection, NaturalsInduction, SequenceTheorems, WellFoundedInduction, TLAPS

-----------------------------------------------------------------------------
(* The inductive invariant.                                                *)

IsProcess(p) ==
    p \in [at : {p.at}, epoch : {p.epoch}, cursor : {p.cursor}, until : {p.until},
          partials : {p.partials}, todo : {p.todo}]

FenceTypes ==
    /\ log \in Seq([account : Accounts, failed : BOOLEAN, at : Times])
    /\ cursor \in Nat /\ leaseEpoch \in Nat
    /\ matcher = [m \in Matchers |-> matcher[m]]
    /\ \A m \in Matchers :
          /\ IsProcess(matcher[m])
          /\ matcher[m].epoch \in Nat /\ matcher[m].cursor \in Nat /\ matcher[m].until \in Nat

(* An epoch is handed out once, and never one of the future.               *)
EpochsDiffer ==
    /\ \A m \in Matchers : matcher[m].at # "down" => matcher[m].epoch <= leaseEpoch
    /\ \A m, n \in Matchers :
          /\ matcher[m].at # "down" /\ matcher[n].at # "down"
          /\ matcher[m].epoch = matcher[n].epoch
          => m = n

(* Who has the epoch of the lease has begun where the cursor is, and what  *)
(* a process has planned lies ahead of where it began.                     *)
Running == {"holds", "emits", "saved"}

BeginsAtCursor ==
    \A m \in Matchers :
        /\ matcher[m].at \in Running /\ matcher[m].epoch = leaseEpoch
              => matcher[m].cursor = cursor
        /\ matcher[m].at \in {"emits", "saved"} => matcher[m].until >= matcher[m].cursor

FenceInv == FenceTypes /\ EpochsDiffer /\ BeginsAtCursor

-----------------------------------------------------------------------------

LEMMA FenceStarts == Init => FenceInv
BY DEF Init, Down, FenceInv, FenceTypes, EpochsDiffer, BeginsAtCursor, IsProcess, Running

(* One process goes on as p, in the epoch it has; the lease and the cursor *)
(* stay.                                                                   *)
LEMMA GoesOn ==
    ASSUME FenceInv, NEW m \in Matchers, NEW p,
           matcher' = [matcher EXCEPT ![m] = p],
           UNCHANGED <<log, cursor, leaseEpoch>>,
           IsProcess(p), p.until \in Nat, p.epoch \in Nat, p.cursor \in Nat,
           p.at = "down" \/ (matcher[m].at # "down" /\ p.epoch = matcher[m].epoch),
           p.at \in Running => matcher[m].at \in Running /\ p.cursor = matcher[m].cursor,
           p.at \in {"emits", "saved"} => p.until >= p.cursor
    PROVE  FenceInv'
<1>1. /\ matcher'[m] = p
      /\ \A n \in Matchers : n # m => matcher'[n] = matcher[n]
      /\ matcher' = [n \in Matchers |-> matcher'[n]]
  BY DEF FenceInv, FenceTypes
<1>2. FenceTypes'
  BY <1>1 DEF FenceInv, FenceTypes
<1>3. EpochsDiffer'
  BY <1>1 DEF FenceInv, EpochsDiffer
<1>4. BeginsAtCursor'
  BY <1>1 DEF FenceInv, BeginsAtCursor, Running
<1>. QED  BY <1>2, <1>3, <1>4 DEF FenceInv

(* A process that ends keeps nothing.                                      *)
LEMMA Ends ==
    ASSUME FenceInv, NEW m \in Matchers, matcher' = [matcher EXCEPT ![m] = Down],
           UNCHANGED <<log, cursor, leaseEpoch>>
    PROVE  FenceInv'
<1>1. /\ IsProcess(Down) /\ Down.until \in Nat /\ Down.epoch \in Nat /\ Down.cursor \in Nat
      /\ Down.at = "down" /\ Down.at \notin Running /\ Down.at \notin {"emits", "saved"}
  BY DEF Down, IsProcess, Running
<1>. QED  BY <1>1, GoesOn

LEMMA FenceSteps == FenceInv /\ [Next]_vars => FenceInv'
<1>. SUFFICES ASSUME FenceInv, [Next]_vars PROVE FenceInv'
  OBVIOUS
<1>0. \A m \in Matchers : IsProcess(matcher[m])
  BY DEF FenceInv, FenceTypes
<1>1. ASSUME NEW k \in Accounts, NEW f \in BOOLEAN, NEW t \in Times, AppendRow(k, f, t)
      PROVE  FenceInv'
  <2>1. log' \in Seq([account : Accounts, failed : BOOLEAN, at : Times])
    BY <1>1 DEF AppendRow, FenceInv, FenceTypes
  <2>. QED  BY <1>1, <2>1 DEF AppendRow, FenceInv, FenceTypes, EpochsDiffer, BeginsAtCursor
<1>2. CASE LeaseExpires
  BY <1>2 DEF LeaseExpires, FenceInv, FenceTypes, EpochsDiffer, BeginsAtCursor
<1>3. ASSUME NEW m \in Matchers, Acquire(m) PROVE FenceInv'
  <2>1. PICK p : p = [Down EXCEPT !.at = "holds", !.epoch = leaseEpoch + 1,
                                  !.cursor = cursor, !.partials = partials]
    OBVIOUS
  <2>2. cursor \in Nat /\ leaseEpoch \in Nat /\ leaseEpoch + 1 \in Nat
    BY DEF FenceInv, FenceTypes
  <2>3. /\ IsProcess(p) /\ p.at = "holds" /\ p.epoch = leaseEpoch + 1
        /\ p.cursor = cursor /\ p.until = 0
    BY <2>1 DEF Down, IsProcess
  <2>4. /\ matcher'[m] = p
        /\ \A n \in Matchers : n # m => matcher'[n] = matcher[n]
        /\ matcher' = [n \in Matchers |-> matcher'[n]]
        /\ log' = log /\ cursor' = cursor /\ leaseEpoch' = leaseEpoch + 1
    BY <1>3, <2>1 DEF Acquire, FenceInv, FenceTypes
  <2>5. FenceTypes'
    <3>1. \A n \in Matchers :
            /\ IsProcess(matcher'[n])
            /\ matcher'[n].epoch \in Nat /\ matcher'[n].cursor \in Nat /\ matcher'[n].until \in Nat
      BY <1>0, <2>2, <2>3, <2>4 DEF FenceInv, FenceTypes
    <3>2. log' \in Seq([account : Accounts, failed : BOOLEAN, at : Times])
      BY <2>4 DEF FenceInv, FenceTypes
    <3>. QED  BY <2>2, <2>4, <3>1, <3>2, Zenon DEF FenceTypes
  <2>6. \A n \in Matchers :
          n # m => /\ matcher'[n].epoch \in Nat
                   /\ matcher'[n].at # "down" => matcher'[n].epoch <= leaseEpoch
    BY <2>4 DEF FenceInv, FenceTypes, EpochsDiffer
  <2>7. EpochsDiffer'
    <3>1. \A n \in Matchers : matcher'[n].at # "down" => matcher'[n].epoch <= leaseEpoch'
      BY <2>2, <2>3, <2>4, <2>6
    <3>2. \A n, o \in Matchers : n # m /\ o # m
             /\ matcher'[n].at # "down" /\ matcher'[o].at # "down"
             /\ matcher'[n].epoch = matcher'[o].epoch => n = o
      BY <2>4 DEF FenceInv, EpochsDiffer
    <3>3. \A n \in Matchers : n # m /\ matcher'[n].at # "down"
             => matcher'[n].epoch # matcher'[m].epoch
      BY <2>2, <2>3, <2>4, <2>6
    <3>. QED  BY <3>1, <3>2, <3>3 DEF EpochsDiffer
  <2>8. BeginsAtCursor'
    BY <2>2, <2>3, <2>4 DEF FenceInv, FenceTypes, EpochsDiffer, BeginsAtCursor, Running
  <2>. QED  BY <2>5, <2>7, <2>8 DEF FenceInv
<1>4. ASSUME NEW m \in Matchers, Plan(m) PROVE FenceInv'
  <2>1. PICK last \in PageEnds(matcher[m].cursor) :
           LET run == Matching(matcher[m].partials, matcher[m].cursor, last)
           IN  matcher' = [matcher EXCEPT ![m] =
                 [matcher[m] EXCEPT !.at = "emits", !.until = last,
                                    !.partials = run.state, !.todo = run.found]]
    BY <1>4 DEF Plan
  <2>2. matcher[m].cursor \in Nat /\ Len(log) \in Nat
    BY DEF FenceInv, FenceTypes
  <2>3. last \in Nat /\ last >= matcher[m].cursor
    BY <2>2 DEF PageEnds
  <2>. DEFINE run == Matching(matcher[m].partials, matcher[m].cursor, last)
              p == [matcher[m] EXCEPT !.at = "emits", !.until = last,
                                      !.partials = run.state, !.todo = run.found]
  <2>. HIDE DEF run
  <2>4. matcher' = [matcher EXCEPT ![m] = p]
    BY <2>1 DEF run
  <2>5. /\ IsProcess(p) /\ p.at = "emits" /\ p.until = last
        /\ p.cursor = matcher[m].cursor /\ p.epoch = matcher[m].epoch
    BY <1>0 DEF IsProcess
  <2>. HIDE DEF p
  <2>6. matcher[m].at = "holds" /\ UNCHANGED <<log, cursor, leaseEpoch>>
    BY <1>4 DEF Plan
  <2>7. matcher[m].epoch \in Nat
    BY DEF FenceInv, FenceTypes
  <2>. QED  BY <2>2, <2>3, <2>4, <2>5, <2>6, <2>7, GoesOn DEF Running
<1>5. ASSUME NEW m \in Matchers, Emit(m) PROVE FenceInv'
  <2>. DEFINE p == [Down EXCEPT !.at = "poisoned", !.epoch = matcher[m].epoch]
              q == [matcher[m] EXCEPT !.todo = Tail(matcher[m].todo)]
  <2>1. matcher[m].at = "emits" /\ UNCHANGED <<log, cursor, leaseEpoch>>
    BY <1>5 DEF Emit
  <2>2. /\ matcher[m].epoch \in Nat /\ matcher[m].cursor \in Nat /\ matcher[m].until \in Nat
        /\ matcher[m].until >= matcher[m].cursor
    BY <2>1 DEF FenceInv, FenceTypes, BeginsAtCursor
  <2>3. /\ IsProcess(p) /\ p.at = "poisoned" /\ p.until = 0
        /\ p.cursor = 0 /\ p.epoch = matcher[m].epoch
    BY DEF IsProcess, Down
  <2>4. /\ IsProcess(q) /\ q.at = matcher[m].at /\ q.until = matcher[m].until
        /\ q.cursor = matcher[m].cursor /\ q.epoch = matcher[m].epoch
    BY <1>0 DEF IsProcess
  <2>5. \/ matcher' = [matcher EXCEPT ![m] = p]
        \/ matcher' = [matcher EXCEPT ![m] = q]
    BY <1>5 DEF Emit
  <2>. HIDE DEF p, q
  <2>6. CASE matcher' = [matcher EXCEPT ![m] = p]
    <3>1. p.at \notin Running /\ p.at \notin {"emits", "saved"} /\ p.until \in Nat /\ p.cursor \in Nat
      BY <2>3 DEF Running
    <3>. QED  BY <2>1, <2>2, <2>3, <2>6, <3>1, GoesOn
  <2>7. CASE matcher' = [matcher EXCEPT ![m] = q]
    BY <2>1, <2>2, <2>4, <2>7, GoesOn DEF Running
  <2>. QED  BY <2>5, <2>6, <2>7
<1>8. ASSUME NEW m \in Matchers, Save(m) PROVE FenceInv'
  <2>. DEFINE p == [matcher[m] EXCEPT !.at = "saved"]
  <2>1. matcher[m].at = "emits" /\ UNCHANGED <<log, cursor, leaseEpoch>>
    BY <1>8 DEF Save
  <2>2. /\ matcher[m].epoch \in Nat /\ matcher[m].cursor \in Nat /\ matcher[m].until \in Nat
        /\ matcher[m].until >= matcher[m].cursor
    BY <2>1 DEF FenceInv, FenceTypes, BeginsAtCursor
  <2>3. /\ IsProcess(p) /\ p.at = "saved" /\ p.until = matcher[m].until
        /\ p.cursor = matcher[m].cursor /\ p.epoch = matcher[m].epoch
    BY <1>0 DEF IsProcess
  <2>4. matcher' = [matcher EXCEPT ![m] = p]
    BY <1>8 DEF Save
  <2>. HIDE DEF p
  <2>. QED  BY <2>1, <2>2, <2>3, <2>4, GoesOn DEF Running
<1>6. ASSUME NEW m \in Matchers, Checkpoint(m) PROVE FenceInv'
  <2>. DEFINE p == [matcher[m] EXCEPT !.at = "holds", !.cursor = matcher[m].until]
  <2>1. matcher[m].at = "saved" /\ UNCHANGED <<log, leaseEpoch>>
    BY <1>6 DEF Checkpoint
  <2>2. CASE Owns(matcher[m])
    <3>1. /\ IsProcess(p) /\ p.at = "holds" /\ p.until = matcher[m].until
          /\ p.cursor = matcher[m].until /\ p.epoch = matcher[m].epoch
      BY <1>0 DEF IsProcess
    <3>. HIDE DEF p
    <3>2. /\ matcher'[m] = p
          /\ \A n \in Matchers : n # m => matcher'[n] = matcher[n]
          /\ matcher' = [n \in Matchers |-> matcher'[n]]
          /\ cursor' = matcher[m].until
      BY <1>6, <2>2 DEF Checkpoint, FenceInv, FenceTypes, p
    <3>3. FenceTypes'
      BY <2>1, <3>1, <3>2 DEF FenceInv, FenceTypes
    <3>4. EpochsDiffer'
      BY <2>1, <3>1, <3>2 DEF FenceInv, EpochsDiffer
    <3>5. BeginsAtCursor'
      BY <2>1, <2>2, <3>1, <3>2 DEF FenceInv, EpochsDiffer, BeginsAtCursor, Owns, Running
    <3>. QED  BY <3>3, <3>4, <3>5 DEF FenceInv
  <2>3. CASE ~Owns(matcher[m])
    BY <1>6, <2>3, Ends DEF Checkpoint
  <2>. QED  BY <2>2, <2>3
<1>7. ASSUME NEW m \in Matchers, Crash(m) PROVE FenceInv'
  BY <1>7, Ends DEF Crash
<1>9. CASE UNCHANGED vars
  BY <1>9 DEF vars, FenceInv, FenceTypes, EpochsDiffer, BeginsAtCursor
<1>. QED  BY <1>1, <1>2, <1>3, <1>4, <1>5, <1>6, <1>7, <1>8, <1>9 DEF Next

-----------------------------------------------------------------------------

(* Only Checkpoint writes the cursor, and only for the process that has    *)
(* begun where it is.                                                      *)
LEMMA StepKeepsCursor ==
    ASSUME FenceInv, [Next]_vars
    PROVE  cursor' >= cursor
<1>0. cursor \in Nat
  BY DEF FenceInv, FenceTypes
<1>1. ASSUME NEW m \in Matchers, Checkpoint(m) PROVE cursor' >= cursor
  <2>1. CASE Owns(matcher[m])
    <3>1. cursor' = matcher[m].until /\ matcher[m].at = "saved"
      BY <1>1, <2>1 DEF Checkpoint
    <3>. QED  BY <2>1, <3>1 DEF Owns, FenceInv, BeginsAtCursor, Running
  <2>2. CASE ~Owns(matcher[m])
    BY <1>0, <1>1, <2>2 DEF Checkpoint
  <2>. QED  BY <2>1, <2>2
<1>2. CASE UNCHANGED cursor
  BY <1>0, <1>2
<1>. QED  BY <1>1, <1>2
     DEF Next, vars, AppendRow, LeaseExpires, Acquire, Plan, Emit, Save, Crash

(* The cursor of the projection never goes back: a matcher that has lost   *)
(* the lease cannot move it (p11's fenced lease).                          *)
THEOREM CursorMovesOn == Spec => CursorNeverGoesBack
<1>1. FenceInv /\ [Next]_vars => cursor' >= cursor
  BY StepKeepsCursor
<1>2. Spec => []FenceInv
  BY FenceStarts, FenceSteps, PTL DEF Spec
<1>3. [Next]_vars /\ FenceInv => [cursor' >= cursor]_vars
  BY <1>1
<1>. QED  BY <1>2, <1>3, PTL DEF Spec, CursorNeverGoesBack

-----------------------------------------------------------------------------
(* The transition over any rows.                                           *)

RowTypes == [account : Accounts, failed : BOOLEAN, at : Times]

(* Rows as a log has them.                                                 *)
IsLog(rows) == rows \in Seq(RowTypes) /\ Len(rows) <= MaxRows

Opens ==
    {None} \cup
    {p \in [steps : Seq(1 .. MaxRows), deadline : Nat] : Len(p.steps) \in 1 .. Wanted - 1}
States == [Accounts -> Opens]
RunTypes == [state : States, found : Seq(Matches)]

ExtendOn(rows, partial, n) ==
    IF partial = None THEN [steps |-> <<n>>, deadline |-> rows[n].at + Window]
    ELSE [partial EXCEPT !.steps = Append(@, n)]

SelectsOn(rows, partial, n) == IF rows[n].failed THEN ExtendOn(rows, partial, n) ELSE None

AdvanceOn(rows, run, n) ==
    LET k == rows[n].account
        open == Expire(run.state, rows[n])
        next == SelectsOn(rows, open[k], n)
    IN  IF Len(next.steps) = Wanted
        THEN [state |-> [open EXCEPT ![k] = None],
              found |-> Append(run.found, Match(k, next.steps))]
        ELSE [run EXCEPT !.state = [open EXCEPT ![k] = next]]

Begin(state) == [state |-> state, found |-> <<>>]

IsRun(r, rows, state, first, last) ==
    r = [n \in first .. last |->
           IF n = first THEN Begin(state) ELSE AdvanceOn(rows, r[n - 1], n)]

RunOf(rows, state, first, last) == (CHOOSE r : IsRun(r, rows, state, first, last))[last]

LEMMA MatchingIs ==
    ASSUME NEW state, NEW first, NEW last
    PROVE  /\ Matching(state, first, last) = RunOf(log, state, first, last)
           /\ Matching(state, first, last)' = RunOf(log', state, first, last)
BY DEF Matching, Advance, Selects, Extend, RunOf, IsRun, Begin, AdvanceOn, SelectsOn, ExtendOn

LEMMA LeastOf ==
    ASSUME NEW T, T \subseteq Nat, T # {}
    PROVE  \E x \in T : \A y \in T : x <= y
<1>1. PICK x \in T : \A y \in T : ~(<<y, x>> \in OpToRel(<, Nat))
  BY NatLessThanWellFounded, WFMin
<1>2. \A y \in T : ~(y < x)
  BY <1>1 DEF OpToRel
<1>. QED  BY <1>2

LEMMA RunExists ==
    ASSUME NEW rows, NEW state, NEW first \in Nat, NEW last \in Nat, first <= last
    PROVE  \E r : IsRun(r, rows, state, first, last)
<1>. DEFINE Bad == {j \in Nat : first <= j /\ ~\E r : IsRun(r, rows, state, first, j)}
<1>. SUFFICES ASSUME Bad # {} PROVE FALSE
  OBVIOUS
<1>1. PICK j \in Bad : \A i \in Bad : j <= i
  BY LeastOf
<1>2. CASE j = first
  <2>1. IsRun([n \in first .. first |-> Begin(state)], rows, state, first, first)
    BY DEF IsRun
  <2>. QED  BY <1>2, <2>1
<1>3. CASE j # first
  <2>1. j - 1 \in Nat /\ first <= j - 1 /\ j - 1 \notin Bad
    BY <1>1, <1>3
  <2>2. PICK r : IsRun(r, rows, state, first, j - 1)
    BY <2>1
  <2>. DEFINE g == [n \in first .. j |-> IF n = j THEN AdvanceOn(rows, r[j - 1], j) ELSE r[n]]
  <2>3. ASSUME NEW n \in first .. j
        PROVE  g[n] = IF n = first THEN Begin(state) ELSE AdvanceOn(rows, g[n - 1], n)
    <3>1. CASE n = j
      BY <1>3, <2>1, <3>1
    <3>2. CASE n # j
      <4>1. n \in first .. j - 1 /\ g[n] = r[n]
        BY <2>1, <3>2
      <4>2. r[n] = IF n = first THEN Begin(state) ELSE AdvanceOn(rows, r[n - 1], n)
        BY <2>2, <4>1, Zenon DEF IsRun
      <4>3. n # first => n - 1 \in first .. j /\ g[n - 1] = r[n - 1]
        BY <2>1, <3>2
      <4>. HIDE DEF g
      <4>. QED  BY <4>1, <4>2, <4>3
    <3>. QED  BY <3>1, <3>2
  <2>4. IsRun(g, rows, state, first, j)
    BY <2>3 DEF IsRun
  <2>. QED  BY <2>4
<1>. QED  BY <1>2, <1>3

LEMMA RunChosen ==
    ASSUME NEW rows, NEW state, NEW first \in Nat, NEW last \in Nat, first <= last
    PROVE  \E r : IsRun(r, rows, state, first, last) /\ RunOf(rows, state, first, last) = r[last]
<1>1. \E r : IsRun(r, rows, state, first, last)
  BY RunExists
<1>2. PICK d : d = CHOOSE r : IsRun(r, rows, state, first, last)
  OBVIOUS
<1>3. IsRun(d, rows, state, first, last)
  BY <1>1, <1>2
<1>. QED  BY <1>2, <1>3 DEF RunOf

(* Two runs over the same rows agree.                                      *)
LEMMA RunsAgree ==
    ASSUME NEW rows, NEW more, NEW state, NEW first \in Nat, NEW last \in Nat, NEW end \in Nat,
           first <= last, last <= end, \A n \in 1 .. last : more[n] = rows[n],
           NEW r, IsRun(r, rows, state, first, last), NEW q, IsRun(q, more, state, first, end)
    PROVE  r[last] = q[last]
<1>. DEFINE Bad == {j \in first .. last : r[j] # q[j]}
<1>. SUFFICES ASSUME Bad # {} PROVE FALSE
  OBVIOUS
<1>1. Bad \subseteq Nat
  OBVIOUS
<1>2. PICK j \in Bad : \A i \in Bad : j <= i
  BY <1>1, LeastOf
<1>3. /\ r[j] = IF j = first THEN Begin(state) ELSE AdvanceOn(rows, r[j - 1], j)
      /\ q[j] = IF j = first THEN Begin(state) ELSE AdvanceOn(more, q[j - 1], j)
  <2>1. j \in first .. last /\ j \in first .. end
    BY <1>2
  <2>2. r[j] = IF j = first THEN Begin(state) ELSE AdvanceOn(rows, r[j - 1], j)
    BY <2>1, Zenon DEF IsRun
  <2>3. q[j] = IF j = first THEN Begin(state) ELSE AdvanceOn(more, q[j - 1], j)
    BY <2>1, Zenon DEF IsRun
  <2>. QED  BY <2>2, <2>3
<1>4. j # first
  BY <1>2, <1>3
<1>5. r[j - 1] = q[j - 1]
  BY <1>2, <1>4
<1>6. more[j] = rows[j]
  BY <1>2, <1>4
<1>7. AdvanceOn(rows, r[j - 1], j) = AdvanceOn(more, q[j - 1], j)
  BY <1>5, <1>6 DEF AdvanceOn, SelectsOn, ExtendOn
<1>. QED  BY <1>2, <1>3, <1>4, <1>7

LEMMA RunIs ==
    ASSUME NEW rows, NEW state, NEW first \in Nat, NEW last \in Nat, first <= last
    PROVE  RunOf(rows, state, first, last) =
             IF last = first THEN Begin(state)
             ELSE AdvanceOn(rows, RunOf(rows, state, first, last - 1), last)
<1>1. PICK q : IsRun(q, rows, state, first, last) /\ RunOf(rows, state, first, last) = q[last]
  BY RunChosen
<1>2. q[last] = IF last = first THEN Begin(state) ELSE AdvanceOn(rows, q[last - 1], last)
  BY <1>1 DEF IsRun
<1>3. CASE last = first
  BY <1>1, <1>2, <1>3
<1>4. CASE last # first
  <2>1. last - 1 \in Nat /\ first <= last - 1 /\ last - 1 <= last
    BY <1>4
  <2>2. PICK r : /\ IsRun(r, rows, state, first, last - 1)
                 /\ RunOf(rows, state, first, last - 1) = r[last - 1]
    BY <2>1, RunChosen
  <2>3. r[last - 1] = q[last - 1]
    BY <1>1, <2>1, <2>2, RunsAgree
  <2>. QED  BY <1>1, <1>2, <1>4, <2>2, <2>3
<1>. QED  BY <1>3, <1>4

LEMMA RunBegins ==
    ASSUME NEW rows, NEW state, NEW first \in Nat
    PROVE  RunOf(rows, state, first, first) = Begin(state)
<1>1. first <= first
  OBVIOUS
<1>. QED  BY <1>1, RunIs

(* Rows appended later are not looked at.                                  *)
LEMMA RunPrefix ==
    ASSUME NEW rows, NEW more, NEW state, NEW first \in Nat, NEW last \in Nat, first <= last,
           \A n \in 1 .. last : more[n] = rows[n]
    PROVE  RunOf(rows, state, first, last) = RunOf(more, state, first, last)
<1>1. PICK r : IsRun(r, rows, state, first, last) /\ RunOf(rows, state, first, last) = r[last]
  BY RunChosen
<1>2. PICK q : IsRun(q, more, state, first, last) /\ RunOf(more, state, first, last) = q[last]
  BY RunChosen
<1>3. r[last] = q[last]
  BY <1>1, <1>2, RunsAgree
<1>. QED  BY <1>1, <1>2, <1>3

-----------------------------------------------------------------------------
(* One step of the transition, taken apart.                                *)

LEMMA AppendToSet ==
    ASSUME NEW S, NEW x \in S, NEW s \in Seq(S)
    PROVE  ToSet(Append(s, x)) = ToSet(s) \cup {x}
<1>1. /\ Len(s) \in Nat /\ DOMAIN s = 1 .. Len(s) /\ DOMAIN Append(s, x) = 1 .. Len(s) + 1
      /\ Append(s, x)[Len(s) + 1] = x /\ \A i \in 1 .. Len(s) : Append(s, x)[i] = s[i]
  OBVIOUS
<1>2. PICK t : t = Append(s, x)
  OBVIOUS
<1>. QED  BY <1>1, <1>2 DEF ToSet

(* The partial match of the row's account once the row is counted.         *)
NextOn(rows, state, n) ==
    SelectsOn(rows, Expire(state, rows[n])[rows[n].account], n)

Hit(rows, state, n) == Len(NextOn(rows, state, n).steps) = Wanted
FoundAt(rows, state, n) == Match(rows[n].account, NextOn(rows, state, n).steps)
AfterOn(rows, state, n) ==
    [Expire(state, rows[n]) EXCEPT ![rows[n].account] =
        IF Hit(rows, state, n) THEN None ELSE NextOn(rows, state, n)]

LEMMA AdvanceIs ==
    ASSUME NEW rows, IsLog(rows), NEW n \in 1 .. Len(rows), NEW run \in RunTypes
    PROVE  AdvanceOn(rows, run, n) =
             [state |-> AfterOn(rows, run.state, n),
              found |-> IF Hit(rows, run.state, n)
                        THEN Append(run.found, FoundAt(rows, run.state, n)) ELSE run.found]
<1>1. run = [state |-> run.state, found |-> run.found]
  BY DEF RunTypes
<1>. QED  BY <1>1 DEF AdvanceOn, AfterOn, Hit, FoundAt, NextOn

(* The rows a run of steps of an account stands for: all its rows from the *)
(* first step on, failures within the window of the first.                 *)
StepsOK(rows, key, steps, last) ==
    /\ ToSet(steps) = {i \in steps[1] .. last : rows[i].account = key}
    /\ \A i \in DOMAIN steps :
          /\ rows[steps[i]].failed
          /\ rows[steps[i]].at <= rows[steps[1]].at + Window

OpenOK(rows, key, partial, last) ==
    partial # None =>
       /\ StepsOK(rows, key, partial.steps, last)
       /\ \A i \in DOMAIN partial.steps : partial.steps[i] <= last
       /\ partial.deadline = rows[partial.steps[1]].at + Window

MatchOK(rows, match, last) ==
    /\ Len(match.steps) = Wanted /\ Last(match.steps) <= last
    /\ StepsOK(rows, match.key, match.steps, Last(match.steps))

(* The match counted with the row: it ends with that row, and it begins    *)
(* there or where the partial match began.                                 *)
LEMMA NextOK ==
    ASSUME NEW rows, IsLog(rows), NEW n \in 1 .. Len(rows), NEW state \in States,
           \A k \in Accounts : OpenOK(rows, k, state[k], n - 1),
           NextOn(rows, state, n) # None
    PROVE  LET next == NextOn(rows, state, n)
               key == rows[n].account
           IN  /\ next \in [steps : Seq(1 .. MaxRows), deadline : Nat]
               /\ Len(next.steps) \in 1 .. Wanted /\ Last(next.steps) = n
               /\ OpenOK(rows, key, next, n)
               /\ \/ next.steps[1] = n
                  \/ state[key] # None /\ next.steps[1] = state[key].steps[1]
<1>. DEFINE key == rows[n].account
            open == Expire(state, rows[n])[key]
            next == NextOn(rows, state, n)
<1>1. /\ rows[n] \in RowTypes /\ key \in Accounts /\ rows[n].at \in Nat
      /\ n \in 1 .. MaxRows /\ n \in Nat /\ Window \in Nat /\ Wanted \in Nat /\ Wanted > 1
  <2>1. rows[n] \in RowTypes
    BY DEF IsLog
  <2>2. key \in Accounts /\ rows[n].at \in Nat
    BY <2>1, MatchAssumption DEF RowTypes
  <2>3. n \in 1 .. MaxRows /\ n \in Nat
    BY MatchAssumption DEF IsLog
  <2>. QED  BY <2>1, <2>2, <2>3, MatchAssumption
<1>2. open = IF state[key].deadline < rows[n].at THEN None ELSE state[key]
  BY <1>1 DEF Expire
<1>3. rows[n].failed /\ next = ExtendOn(rows, open, n)
  BY DEF NextOn, SelectsOn, None
<1>4. CASE open = None
  <2>1. next = [steps |-> <<n>>, deadline |-> rows[n].at + Window]
    BY <1>3, <1>4 DEF ExtendOn
  <2>2. next.steps = <<n>> /\ next.deadline = rows[n].at + Window
    BY <2>1
  <2>3. next \in [steps : Seq(1 .. MaxRows), deadline : Nat]
    BY <1>1, <2>1
  <2>4. Len(next.steps) = 1 /\ DOMAIN next.steps = {1} /\ next.steps[1] = n
        /\ Last(next.steps) = n /\ ToSet(next.steps) = {n}
    BY <2>2 DEF Last, ToSet
  <2>5. StepsOK(rows, key, next.steps, n)
    BY <1>1, <1>3, <2>4 DEF StepsOK
  <2>. QED  BY <1>1, <2>2, <2>3, <2>4, <2>5 DEF OpenOK
<1>5. CASE open # None
  <2>1. open = state[key] /\ state[key] # None /\ rows[n].at <= state[key].deadline
    <3>1. state[key] \in Opens
      BY <1>1 DEF States
    <3>2. state[key].deadline \in Nat
      BY <3>1 DEF Opens, None
    <3>. QED  BY <1>1, <1>2, <1>5, <3>2
  <2>2. /\ state[key] \in [steps : Seq(1 .. MaxRows), deadline : Nat]
        /\ Len(state[key].steps) \in 1 .. Wanted - 1
    BY <1>1, <2>1 DEF States, Opens
  <2>3. PICK s \in Seq(1 .. MaxRows) : s = state[key].steps
    BY <2>2
  <2>4. next = [steps |-> Append(s, n), deadline |-> state[key].deadline]
    BY <1>3, <1>5, <2>1, <2>2, <2>3 DEF ExtendOn
  <2>5. next.steps = Append(s, n) /\ next.deadline = state[key].deadline
    BY <2>4
  <2>6. Append(s, n) \in Seq(1 .. MaxRows)
    BY <1>1, <2>3
  <2>7. next \in [steps : Seq(1 .. MaxRows), deadline : Nat]
    BY <2>2, <2>4, <2>6
  <2>8. /\ Len(s) \in 1 .. Wanted - 1 /\ Len(Append(s, n)) = Len(s) + 1
        /\ DOMAIN s = 1 .. Len(s) /\ DOMAIN Append(s, n) = 1 .. Len(s) + 1
        /\ Append(s, n)[Len(s) + 1] = n
        /\ \A i \in 1 .. Len(s) : Append(s, n)[i] = s[i] /\ s[i] \in 1 .. MaxRows
    <3>1. Len(s) \in 1 .. Wanted - 1 /\ DOMAIN s = 1 .. Len(s)
      BY <1>1, <2>2, <2>3
    <3>2. /\ Len(Append(s, n)) = Len(s) + 1 /\ DOMAIN Append(s, n) = 1 .. Len(s) + 1
          /\ Append(s, n)[Len(s) + 1] = n
      BY <1>1, <2>3
    <3>3. ASSUME NEW i \in 1 .. Len(s) PROVE Append(s, n)[i] = s[i] /\ s[i] \in 1 .. MaxRows
      <4>1. s[i] \in 1 .. MaxRows
        BY <2>3, <3>1, ElementOfSeq
      <4>2. Append(s, n)[i] = s[i]
        BY <2>3
      <4>. QED  BY <4>1, <4>2
    <3>. QED  BY <3>1, <3>2, <3>3
  <2>9. /\ ToSet(Append(s, n)) = ToSet(s) \cup {n}
        /\ Last(Append(s, n)) = n /\ Append(s, n)[1] = s[1] /\ s[1] \in 1 .. MaxRows
    BY <1>1, <2>8 DEF ToSet, Last
  <2>10. /\ ToSet(s) = {i \in s[1] .. n - 1 : rows[i].account = key}
         /\ \A i \in DOMAIN s : /\ rows[s[i]].failed /\ s[i] <= n - 1
                               /\ rows[s[i]].at <= rows[s[1]].at + Window
         /\ state[key].deadline = rows[s[1]].at + Window
    BY <1>1, <2>1, <2>3 DEF OpenOK, StepsOK
  <2>11. StepsOK(rows, key, Append(s, n), n)
    <3>1. s[1] <= n - 1
      BY <2>8, <2>10
    <3>2. ToSet(Append(s, n)) = {i \in s[1] .. n : rows[i].account = key}
      BY <1>1, <2>9, <2>10, <3>1
    <3>3. \A i \in DOMAIN Append(s, n) :
            /\ rows[Append(s, n)[i]].failed
            /\ rows[Append(s, n)[i]].at <= rows[s[1]].at + Window
      BY <1>1, <1>3, <2>1, <2>8, <2>10
    <3>. QED  BY <2>9, <3>2, <3>3 DEF StepsOK
  <2>12. \A i \in DOMAIN Append(s, n) : Append(s, n)[i] <= n
    BY <1>1, <2>8, <2>10
  <2>13. OpenOK(rows, key, next, n)
    BY <2>5, <2>9, <2>10, <2>11, <2>12 DEF OpenOK
  <2>14. Len(next.steps) \in 1 .. Wanted /\ Last(next.steps) = n /\ next.steps[1] = state[key].steps[1]
    BY <1>1, <2>3, <2>5, <2>8, <2>9
  <2>. QED  BY <2>1, <2>7, <2>13, <2>14
<1>. QED  BY <1>4, <1>5

(* What the row leaves behind: every partial match is still a run of       *)
(* steps, new ones begin behind the old, and a match found is complete.    *)
LEMMA AfterOK ==
    ASSUME NEW rows, IsLog(rows), NEW n \in 1 .. Len(rows), NEW state \in States,
           \A k \in Accounts : OpenOK(rows, k, state[k], n - 1)
    PROVE  LET after == AfterOn(rows, state, n)
               match == FoundAt(rows, state, n)
           IN  /\ after \in States
               /\ \A k \in Accounts :
                     /\ OpenOK(rows, k, after[k], n)
                     /\ after[k] # None =>
                           \/ after[k].steps[1] = n
                           \/ state[k] # None /\ after[k].steps[1] = state[k].steps[1]
               /\ Hit(rows, state, n) =>
                     /\ match \in Matches /\ MatchOK(rows, match, n)
                     /\ Last(match.steps) = n /\ after[match.key] = None
                     /\ \/ match.steps[1] = n
                        \/ state[match.key] # None
                           /\ match.steps[1] = state[match.key].steps[1]
<1>. DEFINE key == rows[n].account
            open == Expire(state, rows[n])
            next == NextOn(rows, state, n)
            put == IF Hit(rows, state, n) THEN None ELSE next
            after == AfterOn(rows, state, n)
            match == FoundAt(rows, state, n)
<1>1. key \in Accounts /\ n \in Nat /\ Wanted \in Nat /\ Wanted > 1 /\ MaxRows \in Nat
  <2>1. rows[n] \in RowTypes
    BY DEF IsLog
  <2>. QED  BY <2>1, MatchAssumption DEF RowTypes
<1>2. open = [k \in Accounts |-> open[k]] /\ \A k \in Accounts : open[k] \in {None, state[k]}
  BY DEF Expire
<1>3. after = [open EXCEPT ![key] = put]
  BY DEF AfterOn
<1>4. next # None =>
        /\ next \in [steps : Seq(1 .. MaxRows), deadline : Nat]
        /\ Len(next.steps) \in 1 .. Wanted /\ Last(next.steps) = n
        /\ OpenOK(rows, key, next, n)
        /\ \/ next.steps[1] = n
           \/ state[key] # None /\ next.steps[1] = state[key].steps[1]
  BY NextOK
<1>5. Hit(rows, state, n) <=> Len(next.steps) = Wanted
  BY DEF Hit
<1>6. Hit(rows, state, n) => next # None
  <2>1. Len(None.steps) = 0
    BY DEF None
  <2>. QED  BY <1>1, <1>5, <2>1
<1>7. match.key = key /\ match.steps = next.steps /\ match = [key |-> key, steps |-> next.steps]
  BY DEF FoundAt, Match
<1>. HIDE DEF next, after, match, open
<1>8. /\ after = [k \in Accounts |-> after[k]] /\ after[key] = put
      /\ \A k \in Accounts : k # key => after[k] \in {None, state[k]}
  BY <1>1, <1>2, <1>3
<1>9. put = None \/ (put = next /\ next # None /\ Len(next.steps) \in 1 .. Wanted - 1)
  BY <1>1, <1>4, <1>5
<1>10. put \in Opens
  BY <1>4, <1>9 DEF Opens
<1>11. after \in States
  <2>1. \A k \in Accounts : after[k] \in Opens
    BY <1>8, <1>10 DEF States, Opens
  <2>. QED  BY <1>8, <2>1 DEF States
<1>12. ASSUME NEW k \in Accounts, after[k] # None
       PROVE  /\ OpenOK(rows, k, after[k], n)
              /\ \/ after[k].steps[1] = n
                 \/ state[k] # None /\ after[k].steps[1] = state[k].steps[1]
  <2>1. CASE k = key
    BY <1>4, <1>8, <1>9, <1>12, <2>1
  <2>2. CASE k # key
    <3>1. after[k] = state[k] /\ state[k] # None
      BY <1>8, <1>12, <2>2
    <3>2. /\ ToSet(state[k].steps) = {i \in state[k].steps[1] .. n - 1 : rows[i].account = k}
          /\ \A i \in DOMAIN state[k].steps :
                /\ rows[state[k].steps[i]].failed
                /\ rows[state[k].steps[i]].at <= rows[state[k].steps[1]].at + Window
          /\ \A i \in DOMAIN state[k].steps : state[k].steps[i] <= n - 1
          /\ state[k].deadline = rows[state[k].steps[1]].at + Window
      BY <3>1 DEF OpenOK, StepsOK
    <3>3. PICK first : first = state[k].steps[1]
      OBVIOUS
    <3>4. first \in Nat /\ first <= n - 1
      <4>1. /\ state[k].steps \in Seq(1 .. MaxRows) /\ Len(state[k].steps) \in 1 .. Wanted - 1
        BY <3>1 DEF States, Opens
      <4>2. 1 \in DOMAIN state[k].steps /\ 1 \in 1 .. Len(state[k].steps)
        BY <1>1, <4>1
      <4>3. state[k].steps[1] \in 1 .. MaxRows
        BY <4>1, <4>2, ElementOfSeq
      <4>. QED  BY <1>1, <3>2, <3>3, <4>2, <4>3
    <3>5. {i \in first .. n - 1 : rows[i].account = k} = {i \in first .. n : rows[i].account = k}
      BY <1>1, <2>2, <3>4
    <3>6. \A i \in DOMAIN state[k].steps : state[k].steps[i] <= n
      <4>1. ASSUME NEW i \in DOMAIN state[k].steps PROVE state[k].steps[i] <= n
        <5>1. state[k].steps[i] \in ToSet(state[k].steps)
          BY DEF ToSet
        <5>. QED  BY <1>1, <3>2, <3>3, <3>5, <5>1
      <4>. QED  BY <4>1
    <3>. QED  BY <3>1, <3>2, <3>3, <3>5, <3>6 DEF OpenOK, StepsOK
  <2>. QED  BY <2>1, <2>2
<1>13. ASSUME Hit(rows, state, n)
       PROVE  /\ match \in Matches /\ MatchOK(rows, match, n)
              /\ Last(match.steps) = n /\ after[match.key] = None
              /\ \/ match.steps[1] = n
                 \/ state[match.key] # None
                    /\ match.steps[1] = state[match.key].steps[1]
  <2>1. match \in Matches
    BY <1>1, <1>4, <1>6, <1>7, <1>13 DEF Matches
  <2>2. MatchOK(rows, match, n)
    BY <1>1, <1>4, <1>5, <1>6, <1>7, <1>13 DEF MatchOK, OpenOK
  <2>. QED  BY <1>4, <1>6, <1>7, <1>8, <1>13, <2>1, <2>2
<1>. QED  BY <1>11, <1>12, <1>13 DEF OpenOK, next, after, match, open

(* Whatever the partial matches are, the row makes partial matches of them. *)
LEMMA NextTypes ==
    ASSUME NEW rows, IsLog(rows), NEW n \in 1 .. Len(rows), NEW state \in States
    PROVE  LET next == NextOn(rows, state, n)
           IN  \/ next = None
               \/ /\ next \in [steps : Seq(1 .. MaxRows), deadline : Nat]
                  /\ Len(next.steps) \in 1 .. Wanted
<1>. DEFINE key == rows[n].account
            open == Expire(state, rows[n])[key]
            next == NextOn(rows, state, n)
<1>. SUFFICES ASSUME next # None
              PROVE  /\ next \in [steps : Seq(1 .. MaxRows), deadline : Nat]
                     /\ Len(next.steps) \in 1 .. Wanted
  OBVIOUS
<1>1. /\ key \in Accounts /\ rows[n].at \in Nat
      /\ n \in 1 .. MaxRows /\ Window \in Nat /\ Wanted \in Nat /\ Wanted > 1
  <2>1. rows[n] \in RowTypes
    BY DEF IsLog
  <2>2. key \in Accounts /\ rows[n].at \in Nat
    BY <2>1, MatchAssumption DEF RowTypes
  <2>3. n \in 1 .. MaxRows
    BY MatchAssumption DEF IsLog
  <2>. QED  BY <2>2, <2>3, MatchAssumption
<1>2. open \in {None, state[key]} /\ state[key] \in Opens
  BY <1>1 DEF Expire, States
<1>3. next = ExtendOn(rows, open, n)
  BY DEF NextOn, SelectsOn
<1>4. CASE open = None
  <2>1. next = [steps |-> <<n>>, deadline |-> rows[n].at + Window]
    BY <1>3, <1>4 DEF ExtendOn
  <2>2. next.steps = <<n>> /\ Len(next.steps) = 1
    BY <2>1
  <2>. QED  BY <1>1, <2>1, <2>2
<1>5. CASE open # None
  <2>1. /\ open \in [steps : Seq(1 .. MaxRows), deadline : Nat]
        /\ Len(open.steps) \in 1 .. Wanted - 1
    BY <1>2, <1>5 DEF Opens
  <2>2. PICK s \in Seq(1 .. MaxRows) : s = open.steps
    BY <2>1
  <2>3. next = [steps |-> Append(s, n), deadline |-> open.deadline]
    BY <1>3, <1>5, <2>1, <2>2 DEF ExtendOn
  <2>4. Append(s, n) \in Seq(1 .. MaxRows) /\ Len(Append(s, n)) = Len(s) + 1
    BY <1>1, <2>2
  <2>5. next.steps = Append(s, n)
    BY <2>3
  <2>. QED  BY <1>1, <2>1, <2>2, <2>3, <2>4, <2>5
<1>. QED  BY <1>4, <1>5

LEMMA AdvanceTypes ==
    ASSUME NEW rows, IsLog(rows), NEW n \in 1 .. Len(rows), NEW run \in RunTypes
    PROVE  AdvanceOn(rows, run, n) \in RunTypes
<1>. DEFINE key == rows[n].account
            open == Expire(run.state, rows[n])
            next == NextOn(rows, run.state, n)
            hit == Hit(rows, run.state, n)
            put == IF hit THEN None ELSE next
            after == AfterOn(rows, run.state, n)
            match == FoundAt(rows, run.state, n)
<1>1. run.state \in States /\ run.found \in Seq(Matches) /\ Wanted \in Nat /\ Wanted > 1
  BY MatchAssumption DEF RunTypes
<1>2. key \in Accounts
  <2>1. rows[n] \in RowTypes
    BY DEF IsLog
  <2>. QED  BY <2>1 DEF RowTypes
<1>3. \/ next = None
      \/ /\ next \in [steps : Seq(1 .. MaxRows), deadline : Nat]
         /\ Len(next.steps) \in 1 .. Wanted
  BY <1>1, NextTypes
<1>4. hit <=> Len(next.steps) = Wanted
  BY DEF Hit
<1>5. hit => next # None
  <2>1. Len(None.steps) = 0
    BY DEF None
  <2>. QED  BY <1>1, <1>4, <2>1
<1>6. open = [k \in Accounts |-> open[k]] /\ \A k \in Accounts : open[k] \in Opens
  BY <1>1 DEF Expire, States, Opens
<1>7. after = [open EXCEPT ![key] = put]
  BY DEF AfterOn
<1>8. match = [key |-> key, steps |-> next.steps]
  BY DEF FoundAt, Match
<1>9. AdvanceOn(rows, run, n)
        = [state |-> after, found |-> IF hit THEN Append(run.found, match) ELSE run.found]
  BY AdvanceIs
<1>. HIDE DEF next, hit, after, match, open, key
<1>10. put \in Opens
  BY <1>1, <1>3, <1>4 DEF Opens
<1>11. after \in States
  BY <1>6, <1>7, <1>10 DEF States
<1>12. hit => match \in Matches
  BY <1>2, <1>3, <1>5, <1>8 DEF Matches
<1>. QED  BY <1>1, <1>9, <1>11, <1>12 DEF RunTypes

LEMMA RunTyped ==
    ASSUME NEW rows, IsLog(rows), NEW state \in States,
           NEW first \in 0 .. Len(rows), NEW last \in first .. Len(rows)
    PROVE  RunOf(rows, state, first, last) \in RunTypes
<1>. DEFINE Bad == {j \in first .. Len(rows) : RunOf(rows, state, first, j) \notin RunTypes}
<1>. SUFFICES ASSUME Bad # {} PROVE FALSE
  OBVIOUS
<1>0. Len(rows) \in Nat /\ first \in Nat
  BY DEF IsLog
<1>1. Bad \subseteq Nat
  BY <1>0
<1>2. PICK j \in Bad : \A i \in Bad : j <= i
  BY <1>1, LeastOf
<1>3. CASE j = first
  <2>1. RunOf(rows, state, first, j) = Begin(state)
    BY <1>0, <1>3, RunBegins
  <2>2. Begin(state) \in RunTypes
    BY DEF Begin, RunTypes
  <2>. QED  BY <1>2, <2>1, <2>2
<1>4. CASE j # first
  <2>1. j - 1 \in first .. Len(rows) /\ j \in 1 .. Len(rows) /\ j \in Nat /\ first <= j
    BY <1>0, <1>2, <1>4
  <2>2. RunOf(rows, state, first, j - 1) \in RunTypes
    BY <1>2, <2>1
  <2>3. RunOf(rows, state, first, j) = AdvanceOn(rows, RunOf(rows, state, first, j - 1), j)
    BY <1>0, <1>4, <2>1, RunIs
  <2>. QED  BY <1>2, <2>1, <2>2, <2>3, AdvanceTypes
<1>. QED  BY <1>3, <1>4

(* The state of a run that began with no partial match, and its matches:   *)
(* no two of them share a row, and none shares one with a partial match.   *)
GoodRun(rows, run, n) ==
    /\ run \in RunTypes
    /\ \A k \in Accounts : OpenOK(rows, k, run.state[k], n)
    /\ \A d \in ToSet(run.found) :
          /\ MatchOK(rows, d, n)
          /\ run.state[d.key] # None => Last(d.steps) < run.state[d.key].steps[1]
    /\ \A d, e \in ToSet(run.found) :
          d # e /\ d.key = e.key => Last(d.steps) < e.steps[1] \/ Last(e.steps) < d.steps[1]

LEMMA AdvanceGood ==
    ASSUME NEW rows, IsLog(rows), NEW n \in 1 .. Len(rows), NEW run, GoodRun(rows, run, n - 1)
    PROVE  GoodRun(rows, AdvanceOn(rows, run, n), n)
<1>. DEFINE after == AfterOn(rows, run.state, n)
            match == FoundAt(rows, run.state, n)
            hit == Hit(rows, run.state, n)
            result == AdvanceOn(rows, run, n)
<1>1. run \in RunTypes /\ run.state \in States /\ run.found \in Seq(Matches) /\ n \in Nat
  BY DEF GoodRun, RunTypes
<1>2. \A k \in Accounts : OpenOK(rows, k, run.state[k], n - 1)
  BY DEF GoodRun
<1>3. /\ after \in States
      /\ \A k \in Accounts :
            /\ OpenOK(rows, k, after[k], n)
            /\ after[k] # None =>
                  \/ after[k].steps[1] = n
                  \/ run.state[k] # None /\ after[k].steps[1] = run.state[k].steps[1]
      /\ hit => /\ match \in Matches /\ MatchOK(rows, match, n)
                /\ Last(match.steps) = n /\ after[match.key] = None
                /\ \/ match.steps[1] = n
                   \/ run.state[match.key] # None
                      /\ match.steps[1] = run.state[match.key].steps[1]
  BY <1>1, <1>2, AfterOK
<1>4. result = [state |-> after, found |-> IF hit THEN Append(run.found, match) ELSE run.found]
  BY <1>1, AdvanceIs
<1>. HIDE DEF after, match, hit, result
<1>5. result.state = after /\ result.found = IF hit THEN Append(run.found, match) ELSE run.found
  BY <1>4
<1>6. result \in RunTypes
  BY <1>1, <1>3, <1>4 DEF RunTypes
<1>7. ToSet(result.found) = IF hit THEN ToSet(run.found) \cup {match} ELSE ToSet(run.found)
  <2>1. CASE hit
    BY <1>1, <1>3, <1>5, <2>1, AppendToSet
  <2>2. CASE ~hit
    BY <1>5, <2>2
  <2>. QED  BY <2>1, <2>2
<1>8. ASSUME NEW d \in ToSet(run.found)
      PROVE  /\ d \in Matches /\ MatchOK(rows, d, n) /\ Last(d.steps) <= n - 1
             /\ Last(d.steps) \in Nat
             /\ run.state[d.key] # None => Last(d.steps) < run.state[d.key].steps[1]
  <2>1. d \in Matches
    BY <1>1 DEF ToSet
  <2>2. /\ MatchOK(rows, d, n - 1)
        /\ run.state[d.key] # None => Last(d.steps) < run.state[d.key].steps[1]
    BY DEF GoodRun
  <2>3. Last(d.steps) \in 1 .. MaxRows
    <3>1. d.steps \in Seq(1 .. MaxRows) /\ Len(d.steps) = Wanted
      BY <2>1, <2>2 DEF Matches, MatchOK
    <3>. QED  BY <3>1, ElementOfSeq, MatchAssumption DEF Last
  <2>. QED  BY <1>1, <2>1, <2>2, <2>3, MatchAssumption DEF MatchOK
<1>9. ASSUME NEW d \in ToSet(result.found)
      PROVE  /\ MatchOK(rows, d, n)
             /\ after[d.key] # None => Last(d.steps) < after[d.key].steps[1]
  <2>1. CASE d \in ToSet(run.found)
    <3>1. d.key \in Accounts
      BY <1>8, <2>1 DEF Matches
    <3>. QED  BY <1>1, <1>3, <1>8, <2>1, <3>1
  <2>2. CASE d \notin ToSet(run.found)
    BY <1>3, <1>7, <2>2
  <2>. QED  BY <2>1, <2>2
<1>10. ASSUME NEW d \in ToSet(run.found), hit, d.key = match.key
       PROVE  Last(d.steps) < match.steps[1]
  BY <1>1, <1>3, <1>8, <1>10
<1>11. ASSUME NEW d \in ToSet(result.found), NEW e \in ToSet(result.found), d # e, d.key = e.key
       PROVE  Last(d.steps) < e.steps[1] \/ Last(e.steps) < d.steps[1]
  <2>1. CASE d \in ToSet(run.found) /\ e \in ToSet(run.found)
    BY <1>11, <2>1 DEF GoodRun
  <2>2. CASE d \notin ToSet(run.found) \/ e \notin ToSet(run.found)
    BY <1>7, <1>10, <1>11, <2>2
  <2>. QED  BY <2>1, <2>2
<1>. QED  BY <1>3, <1>5, <1>6, <1>9, <1>11 DEF GoodRun, result

-----------------------------------------------------------------------------
(* A replay of the log: the run with no partial match from the first row.  *)

Replay(rows, n) == RunOf(rows, NoPartials, 0, n)
Finds(rows, n) == ToSet(Replay(rows, n).found)

LEMMA ReplayStarts ==
    ASSUME NEW rows
    PROVE  /\ Replay(rows, 0) = Begin(NoPartials) /\ Finds(rows, 0) = {}
           /\ GoodRun(rows, Begin(NoPartials), 0)
<1>1. Replay(rows, 0) = Begin(NoPartials)
  BY RunIs DEF Replay
<1>2. Begin(NoPartials).found = <<>> /\ Begin(NoPartials).state = NoPartials
  BY DEF Begin
<1>3. Begin(NoPartials) \in RunTypes
  BY DEF Begin, RunTypes, NoPartials, States, Opens
<1>4. ToSet(<<>>) = {}
  BY DEF ToSet
<1>5. \A k \in Accounts : NoPartials[k] = None
  BY DEF NoPartials
<1>. QED  BY <1>1, <1>2, <1>3, <1>4, <1>5 DEF GoodRun, OpenOK, Finds

LEMMA ReplayGoesOn ==
    ASSUME NEW rows, NEW n \in Nat \ {0}
    PROVE  Replay(rows, n) = AdvanceOn(rows, Replay(rows, n - 1), n)
<1>1. n \in Nat /\ 0 <= n /\ n # 0
  OBVIOUS
<1>. QED  BY <1>1, RunIs DEF Replay

LEMMA ReplayGood ==
    ASSUME NEW rows, IsLog(rows), NEW n \in 0 .. Len(rows)
    PROVE  GoodRun(rows, Replay(rows, n), n)
<1>. DEFINE Bad == {j \in 0 .. Len(rows) : ~GoodRun(rows, Replay(rows, j), j)}
<1>. SUFFICES ASSUME Bad # {} PROVE FALSE
  OBVIOUS
<1>0. Len(rows) \in Nat
  BY DEF IsLog
<1>1. Bad \subseteq Nat
  BY <1>0
<1>2. PICK j \in Bad : \A i \in Bad : j <= i
  BY <1>1, LeastOf
<1>3. j # 0
  BY <1>2, ReplayStarts
<1>4. j - 1 \in 0 .. Len(rows) /\ j \in 1 .. Len(rows) /\ j \in Nat \ {0}
  BY <1>0, <1>2, <1>3
<1>5. GoodRun(rows, Replay(rows, j - 1), j - 1)
  BY <1>2, <1>4
<1>6. GoodRun(rows, Replay(rows, j), j)
  BY <1>4, <1>5, AdvanceGood, ReplayGoesOn
<1>. QED  BY <1>2, <1>6

(* A replay that is stopped and begun again with its state finds the same. *)
LEMMA ReplayComposes ==
    ASSUME NEW rows, IsLog(rows), NEW first \in 0 .. Len(rows), NEW last \in first .. Len(rows)
    PROVE  LET run == RunOf(rows, Replay(rows, first).state, first, last)
           IN  /\ run \in RunTypes /\ run.state = Replay(rows, last).state
               /\ Finds(rows, last) = Finds(rows, first) \cup ToSet(run.found)
<1>. DEFINE run(j) == RunOf(rows, Replay(rows, first).state, first, j)
            OK(j) == /\ run(j) \in RunTypes /\ run(j).state = Replay(rows, j).state
                     /\ Finds(rows, j) = Finds(rows, first) \cup ToSet(run(j).found)
            Bad == {j \in first .. Len(rows) : ~OK(j)}
<1>. SUFFICES ASSUME Bad # {} PROVE FALSE
  OBVIOUS
<1>0. Len(rows) \in Nat /\ first \in Nat
  BY DEF IsLog
<1>1. Bad \subseteq Nat
  BY <1>0
<1>. HIDE DEF run
<1>2. PICK j \in Bad : \A i \in Bad : j <= i
  BY <1>1, LeastOf
<1>3. ASSUME NEW i \in 0 .. Len(rows)
      PROVE  Replay(rows, i) \in RunTypes
  BY <1>3, ReplayGood DEF GoodRun
<1>4. j # first
  <2>1. run(first) = Begin(Replay(rows, first).state)
    BY <1>0, RunBegins DEF run
  <2>2. OK(first)
    <3>1. Replay(rows, first).state \in States
      BY <1>3 DEF RunTypes
    <3>. QED  BY <2>1, <3>1 DEF Begin, RunTypes, ToSet
  <2>. QED  BY <1>2, <2>2
<1>5. /\ j - 1 \in first .. Len(rows) /\ j \in 1 .. Len(rows) /\ j \in Nat \ {0}
      /\ j - 1 \in 0 .. Len(rows) /\ j \in Nat /\ first <= j
  BY <1>0, <1>2, <1>4
<1>6. OK(j - 1)
  BY <1>2, <1>5
<1>. DEFINE state == Replay(rows, j - 1).state
            hit == Hit(rows, state, j)
            match == FoundAt(rows, state, j)
            after == AfterOn(rows, state, j)
<1>7. run(j) = AdvanceOn(rows, run(j - 1), j)
  BY <1>0, <1>4, <1>5, RunIs DEF run
<1>8. run(j) = [state |-> after,
                found |-> IF hit THEN Append(run(j - 1).found, match) ELSE run(j - 1).found]
  <2>1. run(j - 1) \in RunTypes /\ run(j - 1).state = state
    BY <1>6
  <2>2. AdvanceOn(rows, run(j - 1), j)
          = [state |-> AfterOn(rows, run(j - 1).state, j),
             found |-> IF Hit(rows, run(j - 1).state, j)
                       THEN Append(run(j - 1).found, FoundAt(rows, run(j - 1).state, j))
                       ELSE run(j - 1).found]
    BY <1>5, <2>1, AdvanceIs
  <2>. QED  BY <1>7, <2>1, <2>2
<1>9. Replay(rows, j) = [state |-> after, found |-> IF hit THEN Append(Replay(rows, j - 1).found, match)
                                                    ELSE Replay(rows, j - 1).found]
  BY <1>3, <1>5, ReplayGoesOn, AdvanceIs
<1>10. after \in States /\ (hit => match \in Matches)
  <2>1. GoodRun(rows, Replay(rows, j - 1), j - 1)
    BY <1>5, ReplayGood
  <2>. QED  BY <1>5, <2>1, AfterOK DEF GoodRun, RunTypes
<1>. HIDE DEF state, hit, match, after
<1>11. /\ run(j - 1).found \in Seq(Matches) /\ Replay(rows, j - 1).found \in Seq(Matches)
  BY <1>3, <1>5, <1>6 DEF RunTypes
<1>12. run(j) \in RunTypes /\ run(j).state = Replay(rows, j).state
  BY <1>8, <1>9, <1>10, <1>11 DEF RunTypes
<1>13. ASSUME NEW f \in Seq(Matches), hit PROVE ToSet(Append(f, match)) = ToSet(f) \cup {match}
  BY <1>10, <1>13, AppendToSet
<1>14. Finds(rows, j) = Finds(rows, first) \cup ToSet(run(j).found)
  BY <1>6, <1>8, <1>9, <1>11, <1>13 DEF Finds
<1>. QED  BY <1>2, <1>12, <1>14

LEMMA ReplayFindsMore ==
    ASSUME NEW rows, IsLog(rows), NEW first \in 0 .. Len(rows), NEW last \in first .. Len(rows)
    PROVE  Finds(rows, first) \subseteq Finds(rows, last)
BY ReplayComposes

LEMMA ReplayStays ==
    ASSUME NEW rows \in Seq(RowTypes), NEW row \in RowTypes, NEW n \in 0 .. Len(rows)
    PROVE  /\ Replay(Append(rows, row), n) = Replay(rows, n)
           /\ Finds(Append(rows, row), n) = Finds(rows, n)
<1>0. PICK more : more = Append(rows, row)
  OBVIOUS
<1>1. 0 \in Nat /\ n \in Nat /\ 0 <= n /\ \A i \in 1 .. n : Append(rows, row)[i] = rows[i]
  OBVIOUS
<1>2. RunOf(rows, NoPartials, 0, n) = RunOf(more, NoPartials, 0, n)
  <2>1. \A i \in 1 .. n : more[i] = rows[i]
    BY <1>0, <1>1
  <2>2. 0 \in Nat /\ n \in Nat /\ 0 <= n
    BY <1>1
  <2>. HIDE <1>0
  <2>. QED  BY <2>1, <2>2, RunPrefix
<1>3. Replay(Append(rows, row), n) = Replay(rows, n)
  BY <1>0, <1>2 DEF Replay
<1>. QED  BY <1>3 DEF Finds

-----------------------------------------------------------------------------
(* Projection and matchers are where a replay of the log would be.         *)

(* What a process has in memory, given the documents emitted so far.       *)
MatcherOK(rows, documents, p) ==
    /\ p.at \in {"down", "holds", "emits", "saved"}
    /\ p.at = "holds" =>
          /\ p.cursor \in 0 .. Len(rows) /\ p.partials = Replay(rows, p.cursor).state
          /\ Finds(rows, p.cursor) \subseteq documents
    /\ p.at = "emits" =>
          /\ p.until \in 0 .. Len(rows) /\ p.partials = Replay(rows, p.until).state
          /\ p.todo \in Seq(Matches) /\ ToSet(p.todo) \subseteq Finds(rows, p.until)
          /\ Finds(rows, p.until) \subseteq documents \cup ToSet(p.todo)
    /\ p.at = "saved" =>
          /\ p.until \in 0 .. Len(rows) /\ p.partials = Replay(rows, p.until).state
          /\ Finds(rows, p.until) \subseteq documents

(* A row of the emit stream has the id of its match, which a replay finds. *)
EmittedOK(rows, stream) ==
    \A e \in stream :
        e = [id |-> MatchId(e.match), match |-> e.match] /\ e.match \in Finds(rows, Len(rows))

CursorOK ==
    /\ cursor \in 0 .. Len(log) /\ Finds(log, cursor) \subseteq Documents
    /\ saved \in 0 .. Len(log) /\ partials = Replay(log, saved).state

(* This holds until a matcher begins with a state for another cursor.      *)
ReplayInv ==
    /\ IsLog(log) /\ CursorOK /\ EmittedOK(log, emitted)
    /\ \A m \in Matchers : MatcherOK(log, Documents, matcher[m])

LEMMA FindsMatches ==
    ASSUME NEW rows, IsLog(rows), NEW n \in 0 .. Len(rows), NEW d \in Finds(rows, n)
    PROVE  d \in Matches /\ d.steps \in Seq(1 .. MaxRows) /\ MatchOK(rows, d, n)
<1>1. GoodRun(rows, Replay(rows, n), n)
  BY ReplayGood
<1>2. d \in Matches
  BY <1>1 DEF GoodRun, RunTypes, Finds, ToSet
<1>3. MatchOK(rows, d, n)
  BY <1>1 DEF GoodRun, Finds
<1>. QED  BY <1>2, <1>3 DEF Matches

(* A match lies between its first step and its last.                       *)
LEMMA MatchSpans ==
    ASSUME NEW rows, IsLog(rows), NEW n \in 0 .. Len(rows), NEW d \in Finds(rows, n)
    PROVE  /\ d.steps[1] \in Nat /\ Last(d.steps) \in Nat /\ d.steps[1] <= Last(d.steps)
           /\ Last(d.steps) <= n
           /\ ToSet(d.steps) = {i \in d.steps[1] .. Last(d.steps) : rows[i].account = d.key}
<1>1. d \in Matches /\ d.steps \in Seq(1 .. MaxRows) /\ MatchOK(rows, d, n)
  BY FindsMatches
<1>2. 1 \in 1 .. Len(d.steps) /\ Len(d.steps) \in 1 .. Len(d.steps)
  BY <1>1, MatchAssumption DEF MatchOK
<1>3. d.steps[1] \in 1 .. MaxRows /\ d.steps[Len(d.steps)] \in 1 .. MaxRows
  BY <1>1, <1>2, ElementOfSeq
<1>4. ToSet(d.steps) = {i \in d.steps[1] .. Last(d.steps) : rows[i].account = d.key}
  BY <1>1 DEF MatchOK, StepsOK
<1>5. d.steps[1] \in ToSet(d.steps)
  BY <1>1, <1>2 DEF ToSet
<1>6. Last(d.steps) \in 1 .. MaxRows
  BY <1>3 DEF Last
<1>7. Last(d.steps) <= n
  BY <1>1 DEF MatchOK
<1>. QED  BY <1>3, <1>4, <1>5, <1>6, <1>7

(* The id of a match tells it from every other.                            *)
LEMMA IdsDiffer ==
    ASSUME NEW rows, IsLog(rows), NEW n \in 0 .. Len(rows),
           NEW d \in Finds(rows, n), NEW e \in Finds(rows, n), d # e, d.key = e.key
    PROVE  /\ Last(d.steps) < e.steps[1] \/ Last(e.steps) < d.steps[1]
           /\ MatchId(d) # MatchId(e)
<1>1. Last(d.steps) < e.steps[1] \/ Last(e.steps) < d.steps[1]
  BY ReplayGood DEF GoodRun, Finds
<1>2. /\ d.steps[1] \in Nat /\ Last(d.steps) \in Nat /\ d.steps[1] <= Last(d.steps)
      /\ e.steps[1] \in Nat /\ Last(e.steps) \in Nat /\ e.steps[1] <= Last(e.steps)
  BY MatchSpans
<1>3. Last(d.steps) # Last(e.steps)
  BY <1>1, <1>2
<1>. QED  BY <1>1, <1>3 DEF MatchId

LEMMA IdIsMatch ==
    ASSUME NEW rows, IsLog(rows), NEW n \in 0 .. Len(rows),
           NEW d \in Finds(rows, n), NEW e \in Finds(rows, n), MatchId(d) = MatchId(e)
    PROVE  d = e
<1>1. d.key = e.key
  BY DEF MatchId
<1>. QED  BY <1>1, IdsDiffer

LEMMA ReplayInvStarts == Init => ReplayInv
<1>. SUFFICES ASSUME Init PROVE ReplayInv
  OBVIOUS
<1>1. IsLog(log)
  <2>1. log = <<>>
    BY DEF Init
  <2>2. <<>> \in Seq(RowTypes) /\ Len(<<>>) = 0
    BY EmptySeq, Zenon
  <2>. QED  BY <2>1, <2>2, MatchAssumption DEF IsLog
<1>2. CursorOK
  BY ReplayStarts DEF Init, CursorOK, Begin
<1>3. \A m \in Matchers : MatcherOK(log, Documents, matcher[m])
  BY DEF Init, MatcherOK, Down
<1>. QED  BY <1>1, <1>2, <1>3 DEF ReplayInv, EmittedOK, Init

(* A process keeps its place when rows and documents are added.            *)
LEMMA PlaceStays ==
    ASSUME NEW rows \in Seq(RowTypes), NEW row \in RowTypes, NEW documents, NEW p,
           MatcherOK(rows, documents, p)
    PROVE  MatcherOK(Append(rows, row), documents, p)
<1>1. \A n \in 0 .. Len(rows) :
        /\ n \in 0 .. Len(Append(rows, row))
        /\ Replay(Append(rows, row), n) = Replay(rows, n)
        /\ Finds(Append(rows, row), n) = Finds(rows, n)
  BY ReplayStays
<1>. QED  BY <1>1 DEF MatcherOK

LEMMA MoreDocuments ==
    ASSUME NEW rows, NEW documents, NEW more, documents \subseteq more, NEW p,
           MatcherOK(rows, documents, p)
    PROVE  MatcherOK(rows, more, p)
BY DEF MatcherOK

(* One process goes on, the projection stays where it is.                  *)
LEMMA MatcherGoesOn ==
    ASSUME ReplayInv, FenceInv, NEW m \in Matchers, NEW p, matcher' = [matcher EXCEPT ![m] = p],
           UNCHANGED <<log, emitted, cursor, partials, saved>>,
           MatcherOK(log, Documents, p)
    PROVE  ReplayInv'
<1>1. \A n \in Matchers : matcher'[n] = IF n = m THEN p ELSE matcher[n]
  BY DEF FenceInv, FenceTypes
<1>2. Documents' = Documents
  BY DEF Documents
<1>3. \A n \in Matchers : MatcherOK(log', Documents', matcher'[n])
  BY <1>1, <1>2 DEF ReplayInv
<1>4. CursorOK' /\ IsLog(log') /\ EmittedOK(log', emitted')
  BY <1>2 DEF ReplayInv, CursorOK
<1>. QED  BY <1>3, <1>4 DEF ReplayInv

LEMMA AppendKeepsReplay ==
    ASSUME ReplayInv, NEW k \in Accounts, NEW f \in BOOLEAN, NEW t \in Times, AppendRow(k, f, t)
    PROVE  ReplayInv'
<1>1. PICK row \in RowTypes : log' = Append(log, row)
  BY DEF AppendRow, RowTypes
<1>2. log \in Seq(RowTypes) /\ Len(log) \in Nat /\ Len(log) < MaxRows /\ IsLog(log)
  BY DEF AppendRow, ReplayInv, IsLog
<1>3. IsLog(log') /\ Len(log') = Len(log) + 1
  <2>1. log' \in Seq(RowTypes) /\ Len(log') = Len(log) + 1
    BY <1>1, <1>2
  <2>. QED  BY <1>2, <2>1, MatchAssumption DEF IsLog
<1>4. \A n \in 0 .. Len(log) : Replay(log', n) = Replay(log, n) /\ Finds(log', n) = Finds(log, n)
  BY <1>1, <1>2, ReplayStays
<1>5. UNCHANGED <<emitted, cursor, partials, saved, matcher>> /\ Documents' = Documents
  BY DEF AppendRow, Documents
<1>6. CursorOK'
  BY <1>2, <1>3, <1>4, <1>5 DEF ReplayInv, CursorOK
<1>7. EmittedOK(log', emitted')
  <2>1. Len(log) \in 0 .. Len(log') /\ Len(log') \in Len(log) .. Len(log') /\ Len(log) \in 0 .. Len(log)
    BY <1>2, <1>3
  <2>2. Finds(log', Len(log)) \subseteq Finds(log', Len(log'))
    BY <1>3, <2>1, ReplayFindsMore
  <2>3. Finds(log', Len(log)) = Finds(log, Len(log))
    BY <1>4, <2>1
  <2>. QED  BY <1>5, <2>2, <2>3 DEF ReplayInv, EmittedOK
<1>8. \A m \in Matchers : MatcherOK(log', Documents', matcher'[m])
  BY <1>1, <1>2, <1>5, PlaceStays DEF ReplayInv
<1>. QED  BY <1>3, <1>5, <1>6, <1>7, <1>8 DEF ReplayInv

LEMMA AcquireKeepsReplay ==
    ASSUME ReplayInv, FenceInv, NEW m \in Matchers, Acquire(m), ~mixed'
    PROVE  ReplayInv'
<1>1. PICK p : p = [Down EXCEPT !.at = "holds", !.epoch = leaseEpoch + 1,
                                !.cursor = cursor, !.partials = partials]
  OBVIOUS
<1>2. p.at = "holds" /\ p.cursor = cursor /\ p.partials = partials
  BY <1>1 DEF Down
<1>3. saved = cursor
  BY DEF Acquire
<1>4. MatcherOK(log, Documents, p)
  BY <1>2, <1>3 DEF MatcherOK, ReplayInv, CursorOK
<1>5. matcher' = [matcher EXCEPT ![m] = p] /\ UNCHANGED <<log, emitted, cursor, partials, saved>>
  BY <1>1 DEF Acquire
<1>. QED  BY <1>4, <1>5, MatcherGoesOn

(* A page read from a place of the replay leads to one.                    *)
LEMMA PlanKeepsReplay ==
    ASSUME ReplayInv, FenceInv, NEW m \in Matchers, Plan(m)
    PROVE  ReplayInv'
<1>. DEFINE old == matcher[m]
<1>1. PICK last \in PageEnds(old.cursor) :
         LET run == Matching(old.partials, old.cursor, last)
         IN  matcher' = [matcher EXCEPT ![m] =
               [old EXCEPT !.at = "emits", !.until = last,
                           !.partials = run.state, !.todo = run.found]]
  BY DEF Plan
<1>2. /\ old.at = "holds" /\ UNCHANGED <<log, emitted, cursor, partials, saved>>
      /\ IsProcess(old)
  BY DEF Plan, FenceInv, FenceTypes
<1>3. /\ IsLog(log) /\ Len(log) \in Nat
      /\ old.cursor \in 0 .. Len(log) /\ old.partials = Replay(log, old.cursor).state
      /\ Finds(log, old.cursor) \subseteq Documents
  BY <1>2 DEF ReplayInv, MatcherOK, IsLog
<1>4. last \in old.cursor .. Len(log) /\ last \in 0 .. Len(log)
  BY <1>3 DEF PageEnds
<1>5. PICK run : run = RunOf(log, Replay(log, old.cursor).state, old.cursor, last)
  OBVIOUS
<1>6. Matching(old.partials, old.cursor, last) = run
  BY <1>3, <1>5, MatchingIs
<1>7. /\ run \in RunTypes /\ run.state = Replay(log, last).state
      /\ Finds(log, last) = Finds(log, old.cursor) \cup ToSet(run.found)
  BY <1>3, <1>4, <1>5, ReplayComposes
<1>8. PICK p : p = [old EXCEPT !.at = "emits", !.until = last,
                               !.partials = run.state, !.todo = run.found]
  OBVIOUS
<1>9. p.at = "emits" /\ p.until = last /\ p.partials = run.state /\ p.todo = run.found
  BY <1>2, <1>8 DEF IsProcess
<1>10. MatcherOK(log, Documents, p)
  BY <1>3, <1>4, <1>7, <1>9 DEF MatcherOK, RunTypes
<1>11. matcher' = [matcher EXCEPT ![m] = p]
  BY <1>1, <1>6, <1>8
<1>. QED  BY <1>2, <1>10, <1>11, MatcherGoesOn

(* A matcher never meets another match under the id of its own.            *)
LEMMA EmitKeepsReplay ==
    ASSUME ReplayInv, FenceInv, NEW m \in Matchers, Emit(m)
    PROVE  ReplayInv'
<1>. DEFINE old == matcher[m]
            match == Head(old.todo)
<1>1. /\ old.at = "emits" /\ old.todo # <<>> /\ IsProcess(old)
      /\ UNCHANGED <<log, cursor, partials, saved>>
  BY DEF Emit, FenceInv, FenceTypes
<1>2. /\ IsLog(log) /\ Len(log) \in Nat
      /\ old.until \in 0 .. Len(log) /\ old.partials = Replay(log, old.until).state
      /\ old.todo \in Seq(Matches) /\ ToSet(old.todo) \subseteq Finds(log, old.until)
      /\ Finds(log, old.until) \subseteq Documents \cup ToSet(old.todo)
  BY <1>1 DEF ReplayInv, MatcherOK, IsLog
<1>3. /\ ToSet(old.todo) = {match} \cup ToSet(Tail(old.todo)) /\ Tail(old.todo) \in Seq(Matches)
  <2>1. PICK s \in Seq(Matches) : s = old.todo /\ s # <<>>
    BY <1>1, <1>2
  <2>2. /\ Len(s) \in Nat \ {0} /\ DOMAIN s = 1 .. Len(s) /\ Head(s) = s[1]
        /\ Tail(s) \in Seq(Matches) /\ DOMAIN Tail(s) = 1 .. Len(s) - 1
        /\ \A i \in 1 .. Len(s) - 1 : Tail(s)[i] = s[i + 1]
    BY <2>1
  <2>3. \A i \in 1 .. Len(s) : i # 1 => i - 1 \in 1 .. Len(s) - 1 /\ Tail(s)[i - 1] = s[i]
    BY <2>2
  <2>4. PICK rest : rest = Tail(s)
    OBVIOUS
  <2>5. ToSet(s) = {s[1]} \cup ToSet(rest)
    <3>1. ToSet(s) \subseteq {s[1]} \cup ToSet(rest)
      <4>1. ASSUME NEW i \in 1 .. Len(s) PROVE s[i] \in {s[1]} \cup ToSet(rest)
        <5>1. CASE i = 1
          BY <5>1
        <5>2. CASE i # 1
          <6>1. i - 1 \in DOMAIN rest /\ rest[i - 1] = s[i]
            BY <2>2, <2>3, <2>4, <5>2
          <6>. QED  BY <6>1 DEF ToSet
        <5>. QED  BY <5>1, <5>2
      <4>. QED  BY <2>2, <4>1 DEF ToSet
    <3>2. ToSet(rest) \subseteq ToSet(s) /\ s[1] \in ToSet(s)
      BY <2>2, <2>4 DEF ToSet
    <3>. QED  BY <3>1, <3>2
  <2>. QED  BY <2>1, <2>2, <2>4, <2>5
<1>4. match \in Finds(log, Len(log)) /\ Len(log) \in 0 .. Len(log)
  <2>1. Len(log) \in old.until .. Len(log) /\ Len(log) \in 0 .. Len(log)
    BY <1>2
  <2>2. Finds(log, old.until) \subseteq Finds(log, Len(log))
    BY <1>2, <2>1, ReplayFindsMore
  <2>. QED  BY <1>2, <1>3, <2>1, <2>2
<1>5. ~Conflicts(match)
  <2>1. ASSUME NEW e \in emitted, e.id = MatchId(match) PROVE e.match = match
    <3>1. e.id = MatchId(e.match) /\ e.match \in Finds(log, Len(log))
      BY DEF ReplayInv, EmittedOK
    <3>. QED  BY <1>2, <1>4, <2>1, <3>1, IdIsMatch
  <2>. QED  BY <2>1 DEF Conflicts
<1>6. /\ matcher' = [matcher EXCEPT ![m].todo = Tail(old.todo)]
      /\ emitted' = emitted \cup {[id |-> MatchId(match), match |-> match]}
  BY <1>5 DEF Emit
<1>7. PICK p : p = [old EXCEPT !.todo = Tail(old.todo)]
  OBVIOUS
<1>8. p.at = "emits" /\ p.until = old.until /\ p.partials = old.partials /\ p.todo = Tail(old.todo)
  BY <1>1, <1>7 DEF IsProcess
<1>9. \A n \in Matchers : matcher'[n] = IF n = m THEN p ELSE matcher[n]
  BY <1>6, <1>7 DEF FenceInv, FenceTypes
<1>. HIDE DEF match
<1>10. Documents' = Documents \cup {match}
  <2>1. PICK new : new = [id |-> MatchId(match), match |-> match]
    OBVIOUS
  <2>2. new.match = match /\ emitted' = emitted \cup {new}
    BY <1>6, <2>1
  <2>. QED  BY <2>2 DEF Documents
<1>11. MatcherOK(log, Documents', p)
  BY <1>2, <1>3, <1>8, <1>10 DEF MatcherOK
<1>12. \A n \in Matchers : MatcherOK(log', Documents', matcher'[n])
  BY <1>1, <1>9, <1>10, <1>11, MoreDocuments DEF ReplayInv
<1>13. EmittedOK(log', emitted')
  BY <1>1, <1>4, <1>6 DEF ReplayInv, EmittedOK
<1>14. CursorOK'
  BY <1>1, <1>10 DEF ReplayInv, CursorOK
<1>. QED  BY <1>1, <1>12, <1>13, <1>14 DEF ReplayInv

LEMMA SaveKeepsReplay ==
    ASSUME ReplayInv, FenceInv, NEW m \in Matchers, Save(m)
    PROVE  ReplayInv'
<1>. DEFINE old == matcher[m]
<1>1. /\ old.at = "emits" /\ old.todo = <<>> /\ IsProcess(old)
      /\ UNCHANGED <<log, emitted, cursor>> /\ Documents' = Documents
  BY DEF Save, Emitted, FenceInv, FenceTypes, Documents
<1>2. /\ old.until \in 0 .. Len(log) /\ old.partials = Replay(log, old.until).state
      /\ Finds(log, old.until) \subseteq Documents
  BY <1>1 DEF ReplayInv, MatcherOK, ToSet
<1>3. PICK p : p = [old EXCEPT !.at = "saved"]
  OBVIOUS
<1>4. p.at = "saved" /\ p.until = old.until /\ p.partials = old.partials
  BY <1>1, <1>3 DEF IsProcess
<1>5. /\ saved' = old.until /\ partials' = old.partials
      /\ \A n \in Matchers : matcher'[n] = IF n = m THEN p ELSE matcher[n]
  BY <1>3 DEF Save, FenceInv, FenceTypes
<1>6. CursorOK'
  BY <1>1, <1>2, <1>5 DEF ReplayInv, CursorOK
<1>7. MatcherOK(log, Documents, p)
  BY <1>2, <1>4 DEF MatcherOK
<1>. QED  BY <1>1, <1>5, <1>6, <1>7 DEF ReplayInv

LEMMA CheckpointKeepsReplay ==
    ASSUME ReplayInv, FenceInv, NEW m \in Matchers, Checkpoint(m)
    PROVE  ReplayInv'
<1>. DEFINE old == matcher[m]
<1>1. /\ old.at = "saved" /\ IsProcess(old)
      /\ UNCHANGED <<log, emitted, partials, saved>> /\ Documents' = Documents
  BY DEF Checkpoint, FenceInv, FenceTypes, Documents
<1>2. /\ old.until \in 0 .. Len(log) /\ old.partials = Replay(log, old.until).state
      /\ Finds(log, old.until) \subseteq Documents
  BY <1>1 DEF ReplayInv, MatcherOK
<1>3. CASE Owns(old)
  <2>1. PICK p : p = [old EXCEPT !.at = "holds", !.cursor = old.until]
    OBVIOUS
  <2>2. p.at = "holds" /\ p.cursor = old.until /\ p.partials = old.partials
    BY <1>1, <2>1 DEF IsProcess
  <2>3. /\ cursor' = old.until
        /\ \A n \in Matchers : matcher'[n] = IF n = m THEN p ELSE matcher[n]
    BY <1>3, <2>1 DEF Checkpoint, FenceInv, FenceTypes
  <2>4. CursorOK'
    BY <1>1, <1>2, <2>3 DEF ReplayInv, CursorOK
  <2>5. MatcherOK(log, Documents, p)
    BY <1>2, <2>2 DEF MatcherOK
  <2>. QED  BY <1>1, <2>3, <2>4, <2>5 DEF ReplayInv
<1>4. CASE ~Owns(old)
  <2>1. matcher' = [matcher EXCEPT ![m] = Down] /\ UNCHANGED cursor
    BY <1>4 DEF Checkpoint
  <2>2. MatcherOK(log, Documents, Down)
    BY DEF MatcherOK, Down
  <2>. QED  BY <1>1, <2>1, <2>2, MatcherGoesOn
<1>. QED  BY <1>3, <1>4

LEMMA ReplaySteps ==
    ASSUME ReplayInv, FenceInv, [Next]_vars, ~mixed'
    PROVE  ReplayInv'
<1>1. ASSUME UNCHANGED <<log, emitted, cursor, partials, saved, matcher>> PROVE ReplayInv'
  BY <1>1 DEF ReplayInv, CursorOK, Documents
<1>2. CASE LeaseExpires
  BY <1>1, <1>2 DEF LeaseExpires
<1>3. ASSUME NEW m \in Matchers, Crash(m) PROVE ReplayInv'
  <2>1. MatcherOK(log, Documents, Down)
    BY DEF MatcherOK, Down
  <2>. QED  BY <1>3, <2>1, MatcherGoesOn DEF Crash
<1>4. CASE UNCHANGED vars
  BY <1>1, <1>4 DEF vars
<1>. QED  BY <1>2, <1>3, <1>4, AppendKeepsReplay, AcquireKeepsReplay, PlanKeepsReplay,
             EmitKeepsReplay, SaveKeepsReplay, CheckpointKeepsReplay DEF Next

-----------------------------------------------------------------------------
(* The types hold whichever state a matcher begins with.                   *)

MemoryTypes(rows, p) ==
    /\ p.at \in {"down", "holds", "emits", "saved", "poisoned"}
    /\ p.at = "holds" => p.cursor \in 0 .. Len(rows)
    /\ p.at \in {"emits", "saved"} => p.until \in 0 .. Len(rows)
    /\ p.at \in Running => p.partials \in States
    /\ p.at = "emits" => p.todo \in Seq(Matches)

LeaseTypes == leased \in BOOLEAN /\ leaseEpoch \in 0 .. MaxEpoch /\ mixed \in BOOLEAN

TypesInv ==
    /\ IsLog(log) /\ LeaseTypes
    /\ \A e \in emitted : e.match \in Matches
    /\ cursor \in 0 .. Len(log) /\ saved \in 0 .. Len(log) /\ partials \in States
    /\ \A m \in Matchers : MemoryTypes(log, matcher[m])

LEMMA TypesStart == Init => TypesInv
<1>. SUFFICES ASSUME Init PROVE TypesInv
  OBVIOUS
<1>1. IsLog(log) /\ Len(log) = 0
  <2>1. log = <<>>
    BY DEF Init
  <2>2. <<>> \in Seq(RowTypes) /\ Len(<<>>) = 0
    BY EmptySeq, Zenon
  <2>. QED  BY <2>1, <2>2, MatchAssumption DEF IsLog
<1>2. LeaseTypes
  <2>1. leaseEpoch \in 0 .. MaxEpoch
    BY MatchAssumption DEF Init
  <2>2. leased \in BOOLEAN /\ mixed \in BOOLEAN
    BY Zenon DEF Init
  <2>. QED  BY <2>1, <2>2, Zenon DEF LeaseTypes
<1>3. partials \in States
  BY DEF Init, NoPartials, States, Opens
<1>4. \A m \in Matchers : MemoryTypes(log, matcher[m])
  BY DEF Init, Down, MemoryTypes, Running
<1>. QED  BY <1>1, <1>2, <1>3, <1>4 DEF TypesInv, Init

(* One process goes on, and what is stored keeps its types.                *)
LEMMA TypesGoOn ==
    ASSUME TypesInv, FenceInv, NEW m \in Matchers, NEW p, matcher' = [matcher EXCEPT ![m] = p],
           UNCHANGED log, MemoryTypes(log, p), LeaseTypes',
           \A e \in emitted' : e.match \in Matches,
           cursor' \in 0 .. Len(log), saved' \in 0 .. Len(log), partials' \in States
    PROVE  TypesInv'
<1>1. \A n \in Matchers : matcher'[n] = IF n = m THEN p ELSE matcher[n]
  BY DEF FenceInv, FenceTypes
<1>2. \A n \in Matchers : MemoryTypes(log', matcher'[n])
  BY <1>1 DEF TypesInv
<1>. QED  BY <1>2 DEF TypesInv

LEMMA TypesStep ==
    ASSUME TypesInv, FenceInv, [Next]_vars
    PROVE  TypesInv'
<1>0. /\ IsLog(log) /\ Len(log) \in Nat
      /\ \A m \in Matchers : MemoryTypes(log, matcher[m]) /\ IsProcess(matcher[m])
      /\ cursor \in 0 .. Len(log) /\ saved \in 0 .. Len(log) /\ partials \in States
      /\ \A e \in emitted : e.match \in Matches
  BY DEF TypesInv, IsLog, FenceInv, FenceTypes
<1>1. UNCHANGED <<leased, leaseEpoch, mixed>> => LeaseTypes'
  BY DEF TypesInv, LeaseTypes
<1>2. MemoryTypes(log, Down)
  BY DEF Down, MemoryTypes, Running
<1>3. ASSUME NEW k \in Accounts, NEW f \in BOOLEAN, NEW t \in Times, AppendRow(k, f, t)
      PROVE  TypesInv'
  <2>1. PICK row \in RowTypes : log' = Append(log, row)
    BY <1>3 DEF AppendRow, RowTypes
  <2>2. log \in Seq(RowTypes) /\ Len(log) < MaxRows
    BY <1>0, <1>3 DEF AppendRow, IsLog
  <2>3. log' \in Seq(RowTypes) /\ Len(log') = Len(log) + 1
    BY <2>1, <2>2
  <2>4. IsLog(log')
    BY <1>0, <2>2, <2>3, MatchAssumption DEF IsLog
  <2>5. \A n \in 0 .. Len(log) : n \in 0 .. Len(log')
    BY <1>0, <2>3
  <2>6. UNCHANGED <<emitted, cursor, leased, leaseEpoch, partials, saved, mixed, matcher>>
    BY <1>3 DEF AppendRow
  <2>7. \A m \in Matchers : MemoryTypes(log', matcher'[m])
    BY <1>0, <2>5, <2>6 DEF MemoryTypes
  <2>8. LeaseTypes'
    BY <1>1, <2>6
  <2>. QED  BY <1>0, <2>4, <2>5, <2>6, <2>7, <2>8 DEF TypesInv
<1>4. CASE LeaseExpires
  <2>1. LeaseTypes'
    <3>1. leased' \in BOOLEAN
      BY <1>4, Zenon DEF LeaseExpires
    <3>2. UNCHANGED <<leaseEpoch, mixed>>
      BY <1>4 DEF LeaseExpires
    <3>. QED  BY <3>1, <3>2 DEF TypesInv, LeaseTypes
  <2>. QED  BY <1>0, <1>4, <2>1 DEF LeaseExpires, TypesInv
<1>5. ASSUME NEW m \in Matchers, Acquire(m) PROVE TypesInv'
  <2>1. PICK p : p = [Down EXCEPT !.at = "holds", !.epoch = leaseEpoch + 1,
                                  !.cursor = cursor, !.partials = partials]
    OBVIOUS
  <2>2. p.at = "holds" /\ p.cursor = cursor /\ p.partials = partials
    BY <2>1 DEF Down
  <2>3. MemoryTypes(log, p)
    BY <1>0, <2>2 DEF MemoryTypes, Running
  <2>4. LeaseTypes'
    <3>1. leaseEpoch' \in 0 .. MaxEpoch
      BY <1>5, MatchAssumption DEF Acquire, TypesInv, LeaseTypes
    <3>2. leased' \in BOOLEAN /\ mixed' \in BOOLEAN
      BY <1>5, Zenon DEF Acquire
    <3>. QED  BY <3>1, <3>2, Zenon DEF LeaseTypes
  <2>5. matcher' = [matcher EXCEPT ![m] = p] /\ UNCHANGED <<log, emitted, cursor, partials, saved>>
    BY <1>5, <2>1 DEF Acquire
  <2>. QED  BY <1>0, <2>3, <2>4, <2>5, TypesGoOn
<1>6. ASSUME NEW m \in Matchers, Plan(m) PROVE TypesInv'
  <2>. DEFINE old == matcher[m]
  <2>1. PICK last \in PageEnds(old.cursor) :
           LET run == Matching(old.partials, old.cursor, last)
           IN  matcher' = [matcher EXCEPT ![m] =
                 [old EXCEPT !.at = "emits", !.until = last,
                             !.partials = run.state, !.todo = run.found]]
    BY <1>6 DEF Plan
  <2>2. old.at = "holds" /\ IsProcess(old) /\ old.cursor \in 0 .. Len(log) /\ old.partials \in States
    BY <1>0, <1>6 DEF Plan, MemoryTypes, Running
  <2>3. last \in old.cursor .. Len(log) /\ last \in 0 .. Len(log)
    BY <1>0, <2>2 DEF PageEnds
  <2>4. PICK run : run = RunOf(log, old.partials, old.cursor, last)
    OBVIOUS
  <2>5. Matching(old.partials, old.cursor, last) = run /\ run \in RunTypes
    BY <1>0, <2>2, <2>3, <2>4, MatchingIs, RunTyped
  <2>6. PICK p : p = [old EXCEPT !.at = "emits", !.until = last,
                                 !.partials = run.state, !.todo = run.found]
    OBVIOUS
  <2>7. p.at = "emits" /\ p.until = last /\ p.partials = run.state /\ p.todo = run.found
    BY <2>2, <2>6 DEF IsProcess
  <2>8. MemoryTypes(log, p)
    BY <2>3, <2>5, <2>7 DEF MemoryTypes, RunTypes
  <2>9. matcher' = [matcher EXCEPT ![m] = p]
    BY <2>1, <2>5, <2>6
  <2>10. UNCHANGED <<log, emitted, cursor, leased, leaseEpoch, partials, saved, mixed>>
    BY <1>6 DEF Plan
  <2>. QED  BY <1>0, <1>1, <2>8, <2>9, <2>10, TypesGoOn
<1>7. ASSUME NEW m \in Matchers, Emit(m) PROVE TypesInv'
  <2>. DEFINE old == matcher[m]
              match == Head(old.todo)
  <2>1. /\ old.at = "emits" /\ old.todo # <<>> /\ IsProcess(old)
        /\ old.todo \in Seq(Matches) /\ old.until \in 0 .. Len(log) /\ old.partials \in States
    BY <1>0, <1>7 DEF Emit, MemoryTypes, Running
  <2>2. UNCHANGED <<log, cursor, leased, leaseEpoch, partials, saved, mixed>>
    BY <1>7 DEF Emit
  <2>3. match \in Matches /\ Tail(old.todo) \in Seq(Matches)
    BY <2>1
  <2>4. CASE /\ matcher' = [matcher EXCEPT ![m] =
                    [Down EXCEPT !.at = "poisoned", !.epoch = old.epoch]]
             /\ UNCHANGED emitted
    <3>1. PICK p : p = [Down EXCEPT !.at = "poisoned", !.epoch = old.epoch]
      OBVIOUS
    <3>2. MemoryTypes(log, p)
      BY <3>1 DEF Down, MemoryTypes, Running
    <3>3. matcher' = [matcher EXCEPT ![m] = p]
      BY <2>4, <3>1
    <3>. QED  BY <1>0, <1>1, <2>2, <2>4, <3>2, <3>3, TypesGoOn
  <2>5. CASE /\ matcher' = [matcher EXCEPT ![m].todo = Tail(old.todo)]
             /\ emitted' = emitted \cup {[id |-> MatchId(match), match |-> match]}
    <3>1. PICK p : p = [old EXCEPT !.todo = Tail(old.todo)]
      OBVIOUS
    <3>2. p.at = "emits" /\ p.until = old.until /\ p.partials = old.partials /\ p.todo = Tail(old.todo)
      BY <2>1, <3>1 DEF IsProcess
    <3>3. MemoryTypes(log, p)
      BY <2>1, <2>3, <3>2 DEF MemoryTypes
    <3>4. matcher' = [matcher EXCEPT ![m] = p]
      BY <2>5, <3>1
    <3>5. \A e \in emitted' : e.match \in Matches
      <4>1. PICK new : new = [id |-> MatchId(match), match |-> match]
        OBVIOUS
      <4>2. new.match = match /\ emitted' = emitted \cup {new}
        BY <2>5, <4>1
      <4>. QED  BY <1>0, <2>3, <4>2
    <3>. QED  BY <1>0, <1>1, <2>2, <3>3, <3>4, <3>5, TypesGoOn
  <2>. QED  BY <1>7, <2>4, <2>5 DEF Emit
<1>8. ASSUME NEW m \in Matchers, Save(m) PROVE TypesInv'
  <2>. DEFINE old == matcher[m]
  <2>1. old.at = "emits" /\ IsProcess(old) /\ old.until \in 0 .. Len(log) /\ old.partials \in States
    BY <1>0, <1>8 DEF Save, MemoryTypes, Running
  <2>2. PICK p : p = [old EXCEPT !.at = "saved"]
    OBVIOUS
  <2>3. p.at = "saved" /\ p.until = old.until /\ p.partials = old.partials
    BY <2>1, <2>2 DEF IsProcess
  <2>4. MemoryTypes(log, p)
    BY <2>1, <2>3 DEF MemoryTypes
  <2>5. matcher' = [matcher EXCEPT ![m] = p] /\ partials' = old.partials /\ saved' = old.until
    BY <1>8, <2>2 DEF Save
  <2>6. UNCHANGED <<log, emitted, cursor, leased, leaseEpoch, mixed>>
    BY <1>8 DEF Save
  <2>. QED  BY <1>0, <1>1, <2>1, <2>4, <2>5, <2>6, TypesGoOn
<1>9. ASSUME NEW m \in Matchers, Checkpoint(m) PROVE TypesInv'
  <2>. DEFINE old == matcher[m]
  <2>1. old.at = "saved" /\ IsProcess(old) /\ old.until \in 0 .. Len(log) /\ old.partials \in States
    BY <1>0, <1>9 DEF Checkpoint, MemoryTypes, Running
  <2>2. UNCHANGED <<log, emitted, leased, leaseEpoch, partials, saved, mixed>>
    BY <1>9 DEF Checkpoint
  <2>3. CASE Owns(old)
    <3>1. PICK p : p = [old EXCEPT !.at = "holds", !.cursor = old.until]
      OBVIOUS
    <3>2. p.at = "holds" /\ p.cursor = old.until /\ p.partials = old.partials
      BY <2>1, <3>1 DEF IsProcess
    <3>3. MemoryTypes(log, p)
      BY <2>1, <3>2 DEF MemoryTypes
    <3>4. matcher' = [matcher EXCEPT ![m] = p] /\ cursor' = old.until
      BY <1>9, <2>3, <3>1 DEF Checkpoint
    <3>. QED  BY <1>0, <1>1, <2>1, <2>2, <3>3, <3>4, TypesGoOn
  <2>4. CASE ~Owns(old)
    <3>1. matcher' = [matcher EXCEPT ![m] = Down] /\ UNCHANGED cursor
      BY <1>9, <2>4 DEF Checkpoint
    <3>. QED  BY <1>0, <1>1, <1>2, <2>2, <3>1, TypesGoOn
  <2>. QED  BY <2>3, <2>4
<1>10. ASSUME NEW m \in Matchers, Crash(m) PROVE TypesInv'
  <2>1. /\ matcher' = [matcher EXCEPT ![m] = Down]
        /\ UNCHANGED <<log, emitted, cursor, leased, leaseEpoch, partials, saved, mixed>>
    BY <1>10 DEF Crash
  <2>. QED  BY <1>0, <1>1, <1>2, <2>1, TypesGoOn
<1>11. CASE UNCHANGED vars
  BY <1>11 DEF vars, TypesInv, LeaseTypes
<1>. QED  BY <1>3, <1>4, <1>5, <1>6, <1>7, <1>8, <1>9, <1>10, <1>11 DEF Next

(* Once a matcher has begun with a state for another cursor, mixed stays.  *)
LEMMA MixedStays ==
    ASSUME [Next]_vars, mixed
    PROVE  mixed'
BY DEF Next, vars, AppendRow, LeaseExpires, Acquire, Plan, Emit, Save, Checkpoint, Crash

MatchInv == FenceInv /\ TypesInv /\ (~mixed => ReplayInv)

LEMMA AlwaysMatch == Spec => []MatchInv
<1>1. Init => MatchInv
  BY FenceStarts, TypesStart, ReplayInvStarts DEF MatchInv
<1>2. MatchInv /\ [Next]_vars => MatchInv'
  <2>. SUFFICES ASSUME MatchInv, [Next]_vars PROVE MatchInv'
    OBVIOUS
  <2>1. FenceInv' /\ TypesInv'
    BY FenceSteps, TypesStep DEF MatchInv
  <2>2. ASSUME ~mixed' PROVE ReplayInv'
    BY <2>2, MixedStays, ReplaySteps DEF MatchInv
  <2>. QED  BY <2>1, <2>2 DEF MatchInv
<1>. QED  BY <1>1, <1>2, PTL DEF Spec

-----------------------------------------------------------------------------

LEMMA ReplayedIs ==
    ASSUME NEW n
    PROVE  /\ Replayed(n) = Finds(log, n)
           /\ Matching(NoPartials, 0, n) = Replay(log, n)
BY MatchingIs DEF Replayed, Finds, Replay

LEMMA DocumentsAreFound ==
    ASSUME ReplayInv
    PROVE  Documents \subseteq Finds(log, Len(log)) /\ Len(log) \in 0 .. Len(log) /\ IsLog(log)
BY DEF ReplayInv, EmittedOK, Documents, IsLog

(* Whatever crashes, takeovers and stalled owners there have been, the     *)
(* stored partial matches and the emit stream are what one matcher that    *)
(* never fails makes of the log: p11's order of emission and state, with   *)
(* p04's id, neither loses a match nor writes it twice, and no matcher     *)
(* meets a conflict, as long as no matcher began with a state that had     *)
(* been written for another cursor.  The types hold in any case.           *)
THEOREM ProjectionIsReplay == Spec => []ReplayAgrees
<1>1. MatchInv => TypeOK
  <2>. SUFFICES ASSUME MatchInv PROVE TypeOK
    OBVIOUS
  <2>1. log \in Seq([account : Accounts, failed : BOOLEAN, at : Times]) /\ Len(log) <= MaxRows
    BY DEF MatchInv, TypesInv, IsLog, RowTypes
  <2>2. \A e \in emitted : e.match \in Matches
    BY DEF MatchInv, TypesInv
  <2>3. \A m \in Matchers : matcher[m].at \in {"down", "holds", "emits", "saved", "poisoned"}
    BY DEF MatchInv, TypesInv, MemoryTypes
  <2>4. \A k \in Accounts : Len(partials[k].steps) < Wanted
    <3>1. ASSUME NEW p \in Opens PROVE Len(p.steps) < Wanted
      <4>1. CASE p = None
        <5>1. Len(None.steps) = 0
          BY DEF None
        <5>. QED  BY <4>1, <5>1, MatchAssumption
      <4>2. CASE p # None
        BY <4>2, MatchAssumption DEF Opens
      <4>. QED  BY <4>1, <4>2
    <3>. QED  BY <3>1 DEF MatchInv, TypesInv, States
  <2>5. leased \in BOOLEAN /\ leaseEpoch \in 0 .. MaxEpoch /\ mixed \in BOOLEAN
    BY Zenon DEF MatchInv, TypesInv, LeaseTypes
  <2>6. cursor \in 0 .. Len(log) /\ saved \in 0 .. Len(log)
    BY Zenon DEF MatchInv, TypesInv
  <2>. QED  BY <2>1, <2>2, <2>3, <2>4, <2>5, <2>6, Zenon DEF TypeOK
<1>2. ReplayInv => StateIsReplay /\ NoMatchLost /\ OneRowPerMatch /\ NeverPoisoned
  <2>. SUFFICES ASSUME ReplayInv
                PROVE  StateIsReplay /\ NoMatchLost /\ OneRowPerMatch /\ NeverPoisoned
    OBVIOUS
  <2>1. StateIsReplay
    BY ReplayedIs DEF StateIsReplay, ReplayInv, CursorOK
  <2>2. NoMatchLost
    BY DocumentsAreFound, ReplayedIs DEF NoMatchLost, ReplayInv, CursorOK
  <2>3. OneRowPerMatch
    BY DEF OneRowPerMatch, ReplayInv, EmittedOK
  <2>4. NeverPoisoned
    BY DEF NeverPoisoned, ReplayInv, MatcherOK
  <2>. QED  BY <2>1, <2>2, <2>3, <2>4
<1>3. MatchInv => ReplayAgrees
  BY <1>1, <1>2, Zenon DEF MatchInv, ReplayAgrees
<1>. QED  BY <1>3, AlwaysMatch, PTL

(* What is emitted is what the pattern asks for: all rows of an account    *)
(* from a first failure to the last, as many as wanted, within the window; *)
(* no row is in two matches, although processes stop and begin anywhere;   *)
(* the exception is that of ProjectionIsReplay.                            *)
THEOREM MatchesAreRuns == Spec => []StepsAreARun
<1>1. MatchInv => StepsAreARun
  <2>. SUFFICES ASSUME ReplayInv PROVE StepsAreARun
    BY Zenon DEF MatchInv, StepsAreARun
  <2>0. Documents \subseteq Finds(log, Len(log)) /\ Len(log) \in 0 .. Len(log) /\ IsLog(log)
    BY DocumentsAreFound
  <2>1. ASSUME NEW d \in Documents
        PROVE  /\ Len(d.steps) = Wanted
               /\ {n \in d.steps[1] .. Last(d.steps) : log[n].account = d.key} = ToSet(d.steps)
               /\ \A i \in 1 .. Wanted :
                     Resolve(d)[i].failed /\ Resolve(d)[i].at <= Resolve(d)[1].at + Window
    <3>1. d.steps \in Seq(1 .. MaxRows) /\ MatchOK(log, d, Len(log))
      BY <2>0, FindsMatches
    <3>2. Len(d.steps) = Wanted /\ DOMAIN d.steps = 1 .. Wanted /\ 1 \in 1 .. Wanted
      BY <3>1, MatchAssumption DEF MatchOK
    <3>3. \A i \in 1 .. Wanted : Resolve(d)[i] = log[d.steps[i]]
      BY <3>2 DEF Resolve
    <3>. QED  BY <3>1, <3>2, <3>3 DEF MatchOK, StepsOK
  <2>2. ASSUME NEW d \in Documents, NEW e \in Documents, d # e
        PROVE  ToSet(d.steps) \cap ToSet(e.steps) = {}
    <3>1. /\ d.steps[1] \in Nat /\ Last(d.steps) \in Nat
          /\ ToSet(d.steps) = {i \in d.steps[1] .. Last(d.steps) : log[i].account = d.key}
          /\ e.steps[1] \in Nat /\ Last(e.steps) \in Nat
          /\ ToSet(e.steps) = {i \in e.steps[1] .. Last(e.steps) : log[i].account = e.key}
      BY <2>0, MatchSpans
    <3>2. CASE d.key = e.key
      <4>1. Last(d.steps) < e.steps[1] \/ Last(e.steps) < d.steps[1]
        BY <2>0, <2>2, <3>2, IdsDiffer
      <4>. QED  BY <3>1, <4>1
    <3>3. CASE d.key # e.key
      BY <3>1, <3>3
    <3>. QED  BY <3>2, <3>3
  <2>. QED  BY <2>1, <2>2 DEF StepsAreARun
<1>. QED  BY <1>1, AlwaysMatch, PTL

=============================================================================
