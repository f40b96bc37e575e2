--------------------------- MODULE MatchProjection ---------------------------
(***************************************************************************)
(* The matcher of the derived projections.  The prototypes try its parts   *)
(* one by one: the pure transition over the ordered log                    *)
(* (p10_match_state_growth.py, p07_batch_order_and_poison.py), the lease   *)
(* with its fencing epoch and the order of emission and state change       *)
(* (p11_lease_and_crash_order.py), emission under an id that the match     *)
(* itself determines (p04_reemit_idempotent.py) and matches that refer to  *)
(* the rows (p01_match_envelope.py).  Here they are one process: a matcher *)
(* that holds the lease reads a page, emits every match in it, writes the  *)
(* state of the partial matches, and advances the cursor, in transactions  *)
(* of their own as p11 has them.  Only the cursor is fenced by the epoch.  *)
(* A matcher may so find a state that was written for another cursor than  *)
(* the stored one, which is what the properties make an exception of.      *)
(*                                                                         *)
(* The log is the stable order which ScanOrder is about.                   *)
(***************************************************************************)
EXTENDS Integers, Sequences, FiniteSets, SequencesExt

CONSTANTS
    Matchers,
    Accounts,       \* correlation keys
    Times,          \* readings of the database clock, committed_at of the rows
    Window,         \* how long a partial match may stay open, in event time
    Wanted,         \* steps of the pattern
    PageSize,       \* rows of a page
    MaxRows,        \* bound: rows of the log
    MaxEpoch        \* bound: lease epochs

ASSUME MatchAssumption ==
    /\ Times \subseteq Nat /\ Window \in Nat /\ Wanted \in Nat \ {0, 1}
    /\ PageSize \in Nat \ {0} /\ MaxRows \in Nat /\ MaxEpoch \in Nat \ {0}

VARIABLES
    log,        \* rows of all accounts in scan order
    emitted,    \* rows of the emit stream
    cursor,     \* eventic_projection: rows that are done with,
    leased,     \* whether leased_until is still to come,
    leaseEpoch, \* the fencing token
    partials,   \* eventic_match_state
    saved,      \* history: the rows that partials counts
    mixed,      \* history: whether a matcher began with saved # cursor
    matcher     \* [Matchers -> processes]

vars == <<log, emitted, cursor, leased, leaseEpoch, partials, saved, mixed, matcher>>

None == [steps |-> <<>>, deadline |-> 0]
NoPartials == [k \in Accounts |-> None]

(* A process: what it has read under its lease, the rows up to which it    *)
(* has planned, the state after them and the matches still to emit.        *)
Down == [at |-> "down", epoch |-> 0, cursor |-> 0, until |-> 0,
         partials |-> NoPartials, todo |-> <<>>]

Init ==
    /\ log = <<>> /\ emitted = {}
    /\ cursor = 0 /\ leased = FALSE /\ leaseEpoch = 0 /\ partials = NoPartials
    /\ saved = 0 /\ mixed = FALSE
    /\ matcher = [m \in Matchers |-> Down]

-----------------------------------------------------------------------------
(* The transition, a function of the state and the next row alone.         *)

(* Every row carries the time against which all partial matches expire.    *)
Expire(state, row) ==
    [k \in Accounts |-> IF state[k].deadline < row.at THEN None ELSE state[k]]

Extend(partial, n) ==
    IF partial = None THEN [steps |-> <<n>>, deadline |-> log[n].at + Window]
    ELSE [partial EXCEPT !.steps = Append(@, n)]

(* A row of the account that does not match breaks the run.                *)
Skips(partial, n) == IF log[n].failed THEN Extend(partial, n) ELSE partial
Selects(partial, n) == IF log[n].failed THEN Extend(partial, n) ELSE None

(* The document of a match: references to the rows, not copies.            *)
Match(k, steps) == [key |-> k, steps |-> steps]

(* run: the state so far and the matches found, oldest first.              *)
Advance(run, n) ==
    LET k == log[n].account
        open == Expire(run.state, log[n])
        next == Selects(open[k], n)
    IN  IF Len(next.steps) = Wanted
        THEN [state |-> [open EXCEPT ![k] = None],
              found |-> Append(run.found, Match(k, next.steps))]
        ELSE [run EXCEPT !.state = [open EXCEPT ![k] = next]]

(* run_matcher over the rows first + 1 .. last.                            *)
Matching(state, first, last) ==
    LET run[n \in first .. last] ==
            IF n = first THEN [state |-> state, found |-> <<>>] ELSE Advance(run[n - 1], n)
    IN  run[last]

(* The id of the emitted aggregate: the key and the terminal row.          *)
MatchId(match) == <<match.key, Last(match.steps)>>

(* The steps of a match, read back from the log.                           *)
Resolve(match) == [i \in DOMAIN match.steps |-> log[match.steps[i]]]

(* create under an id that exists: the same document is a replay, another  *)
(* one a RevisionConflict, with which every further attempt ends as well.  *)
Conflicts(match) == \E e \in emitted : e.id = MatchId(match) /\ e.match # match

-----------------------------------------------------------------------------

AppendRow(k, failed, t) ==
    /\ Len(log) < MaxRows
    /\ log' = Append(log, [account |-> k, failed |-> failed, at |-> t])
    /\ UNCHANGED <<emitted, cursor, leased, leaseEpoch, partials, saved, mixed, matcher>>

(* leased_until passes while its holder still runs, stalls or is dead.     *)
LeaseExpires ==
    /\ leased /\ leaseEpoch < MaxEpoch /\ leased' = FALSE
    /\ UNCHANGED <<log, emitted, cursor, leaseEpoch, partials, saved, mixed, matcher>>

Acquire(m) ==
    /\ matcher[m].at = "down" /\ ~leased /\ leaseEpoch < MaxEpoch
    /\ leased' = TRUE /\ leaseEpoch' = leaseEpoch + 1
    /\ matcher' = [matcher EXCEPT ![m] =
         [Down EXCEPT !.at = "holds", !.epoch = leaseEpoch + 1,
                      !.cursor = cursor, !.partials = partials]]
    /\ mixed' = (mixed \/ saved # cursor)
    /\ UNCHANGED <<log, emitted, cursor, partials, saved>>

(* A page ends with the log, or where its limit is, or earlier when the    *)
(* scan was made before the last rows came.                                *)
FullPages(first) == {n \in first + 1 .. Len(log) : n = first + PageSize}
PageEnds(first) == {n \in first + 1 .. Len(log) : n <= first + PageSize}

(* A page of the log, and everything that follows from it, in memory.      *)
Plan(m) ==
    LET p == matcher[m]
    IN  /\ p.at = "holds"
        /\ \E last \in PageEnds(p.cursor) :
              LET run == Matching(p.partials, p.cursor, last)
              IN  matcher' = [matcher EXCEPT ![m] =
                    [p EXCEPT !.at = "emits", !.until = last,
                              !.partials = run.state, !.todo = run.found]]
        /\ UNCHANGED <<log, emitted, cursor, leased, leaseEpoch, partials, saved, mixed>>

(* One match becomes an aggregate of the emit stream.                      *)
Emit(m) ==
    LET p == matcher[m]
        match == Head(p.todo)
    IN  /\ p.at = "emits" /\ p.todo # <<>>
        /\ IF Conflicts(match)
           THEN /\ matcher' = [matcher EXCEPT ![m] =
                     [Down EXCEPT !.at = "poisoned", !.epoch = p.epoch]]
                /\ UNCHANGED emitted
           ELSE /\ matcher' = [matcher EXCEPT ![m].todo = Tail(p.todo)]
                /\ emitted' = emitted \cup {[id |-> MatchId(match), match |-> match]}
        /\ UNCHANGED <<log, cursor, leased, leaseEpoch, partials, saved, mixed>>

StateFirst(p) == TRUE
Emitted(p) == p.todo = <<>>

NaiveLease(p) == TRUE
Owns(p) == p.epoch = leaseEpoch

(* The state after the page, in a transaction of its own; it is not asked  *)
(* whose lease it is.                                                      *)
Save(m) ==
    LET p == matcher[m]
    IN  /\ p.at = "emits" /\ Emitted(p)
        /\ partials' = p.partials /\ saved' = p.until
        /\ matcher' = [matcher EXCEPT ![m].at = "saved"]
        /\ UNCHANGED <<log, emitted, cursor, leased, leaseEpoch, mixed>>

(* The cursor is a compare-and-swap on the epoch; a matcher that has lost  *)
(* the lease leaves it and stops.                                          *)
Checkpoint(m) ==
    LET p == matcher[m]
    IN  /\ p.at = "saved"
        /\ IF Owns(p)
           THEN /\ cursor' = p.until
                /\ matcher' = [matcher EXCEPT ![m] = [p EXCEPT !.at = "holds", !.cursor = p.until]]
           ELSE /\ matcher' = [matcher EXCEPT ![m] = Down]
                /\ UNCHANGED cursor
        /\ UNCHANGED <<log, emitted, leased, leaseEpoch, partials, saved, mixed>>

Crash(m) ==
    /\ matcher[m].at # "down" /\ leaseEpoch < MaxEpoch
    /\ matcher' = [matcher EXCEPT ![m] = Down]
    /\ UNCHANGED <<log, emitted, cursor, leased, leaseEpoch, partials, saved, mixed>>

Next ==
    \/ \E k \in Accounts, f \in BOOLEAN, t \in Times : AppendRow(k, f, t)
    \/ LeaseExpires
    \/ \E m \in Matchers :
          Acquire(m) \/ Plan(m) \/ Emit(m) \/ Save(m) \/ Checkpoint(m) \/ Crash(m)

(* A lease whose holder is dead expires, some process takes it over, and a *)
(* process that runs goes on.                                              *)
Fairness ==
    /\ WF_vars(LeaseExpires)
    /\ \A m \in Matchers :
          /\ WF_vars(Acquire(m)) /\ WF_vars(Plan(m)) /\ WF_vars(Emit(m))
          /\ WF_vars(Save(m)) /\ WF_vars(Checkpoint(m))

Spec == Init /\ [][Next]_vars /\ Fairness

-----------------------------------------------------------------------------
(* Properties.                                                             *)

Matches == [key : Accounts, steps : Seq(1 .. MaxRows)]

(* Every variable keeps its type.                                          *)
TypeOK ==
    /\ log \in Seq([account : Accounts, failed : BOOLEAN, at : Times]) /\ Len(log) <= MaxRows
    /\ \A e \in emitted : e.match \in Matches
    /\ cursor \in 0 .. Len(log) /\ leased \in BOOLEAN /\ leaseEpoch \in 0 .. MaxEpoch
    /\ saved \in 0 .. Len(log) /\ mixed \in BOOLEAN
    /\ \A m \in Matchers : matcher[m].at \in {"down", "holds", "emits", "saved", "poisoned"}
    /\ \A k \in Accounts : Len(partials[k].steps) < Wanted

(* What a replay of the first n rows by one matcher that never fails finds. *)
Replayed(n) == ToSet(Matching(NoPartials, 0, n).found)
Documents == {e.match : e \in emitted}

(* The stored partial matches are those of a replay of the rows they count. *)
StateIsReplay == partials = Matching(NoPartials, 0, saved).state

(* Once the cursor has passed a match it has been emitted, and nothing is  *)
(* emitted that a replay of the log would not find.                        *)
NoMatchLost ==
    /\ Replayed(cursor) \subseteq Documents
    /\ Documents \subseteq Replayed(Len(log))

(* A match is one row of the emit stream, however often it is emitted.     *)
OneRowPerMatch == \A e, f \in emitted : e.match = f.match => e = f

(* No matcher meets its own match under the same id with another path: the *)
(* terminal row determines the steps.                                      *)
NeverPoisoned == \A m \in Matchers : matcher[m].at # "poisoned"

(* Whatever crashes, takeovers and stalled owners there have been, state    *)
(* and emit stream are what one matcher that never fails would have made   *)
(* of the log, unless a matcher began with a state that had been written   *)
(* for another cursor.                                                     *)
ReplayAgrees ==
    /\ TypeOK
    /\ ~mixed => StateIsReplay /\ NoMatchLost /\ OneRowPerMatch /\ NeverPoisoned

(* The rows a match refers to are what the pattern asks for: failures of   *)
(* one account with none of its other rows in between, the last one within *)
(* the window of the first; and no row serves two matches.  The exception  *)
(* is that of ReplayAgrees.                                                *)
StepsAreARun ==
    ~mixed =>
    /\ \A d \in Documents :
        /\ Len(d.steps) = Wanted
        /\ {n \in d.steps[1] .. Last(d.steps) : log[n].account = d.key} = ToSet(d.steps)
        /\ \A i \in 1 .. Wanted :
              Resolve(d)[i].failed /\ Resolve(d)[i].at <= Resolve(d)[1].at + Window
    /\ \A d, e \in Documents : d # e => ToSet(d.steps) \cap ToSet(e.steps) = {}

(* The cursor never goes back, whatever a matcher does whose lease is lost. *)
CursorNeverGoesBack == [][cursor' >= cursor]_vars

(* The projection catches up with the log, and stays so, unless the matcher *)
(* with the lease has met a conflict.                                      *)
CatchesUp ==
    <>[](\/ cursor = Len(log)
         \/ \E m \in Matchers : matcher[m].at = "poisoned" /\ matcher[m].epoch = leaseEpoch)

=============================================================================
