------------------------------- MODULE Runtime -------------------------------
(***************************************************************************)
(* Writes through Collection and Batch (runtime.py) and the inline         *)
(* dispatch after each commit (dispatch.py), in several processes that run *)
(* different builds of one application.                                    *)
(*                                                                         *)
(* The store is atomic here, as VersionedLog has it: what SqlStore does in *)
(* many statements is one step.  A process is one thread; its calls nest   *)
(* when a handler writes, so it has a stack of calls, innermost first.     *)
(***************************************************************************)
EXTENDS Integers, Sequences

CONSTANTS
    Processes,
    Keys,            \* aggregates of one stream
    Contents,        \* documents
    Unreadable,      \* those whose canonical form does not validate again
    Subs,            \* the inline subscriptions, in declaration order
    Kinds,           \* [ids -> SUBSET {"create", "change"}]
    OnError,         \* [Processes -> {"raise", "log"}], App.on_inline_error
    Version,         \* [Processes -> Nat], schema_version of the stream
    MaxBatch,        \* bound: requests in a call
    MaxRevision,     \* bound: revisions 0 .. MaxRevision
    MaxCalls,        \* bound: calls in one behaviour
    MaxDepth         \* bound: calls nested in each other

ASSUME RuntimeAssumption ==
    /\ Unreadable \subseteq Contents
    /\ OnError \in [Processes -> {"raise", "log"}]
    /\ Version \in [Processes -> Nat]
    /\ DOMAIN Subs \subseteq Nat
    /\ MaxBatch \in Nat \ {0} /\ {MaxRevision, MaxCalls, MaxDepth} \subseteq Nat

VARIABLES
    log,      \* [Keys -> Seq(Rows)], revision n at log[k][n + 1]
    stack,    \* the calls each process is in
    ended,    \* how the last call of each process to end has ended
    calls     \* calls so far

vars == <<log, stack, ended, calls>>

NoRevision == -1

Rows == [content : Contents, version : {Version[p] : p \in Processes}]
Requests == [key : Keys, expected : NoRevision .. MaxRevision - 1, content : Contents]
SubIds == {Subs[i] : i \in DOMAIN Subs}

(* A call that has committed: its requests, the one at hand, the places of *)
(* the subscriptions still to be served for it, whether a handler is       *)
(* running, whether one has raised for this request; for the properties,   *)
(* the handlers that ran and those that raised, as <<request, id>>.        *)
Runs == (1 .. MaxBatch) \X SubIds
Frames ==
    [batch : Seq(Requests), pos : 1 .. MaxBatch, todo : SUBSET DOMAIN Subs,
     at : {"materialize", "dispatch", "handler"}, failures : BOOLEAN,
     ran : SUBSET Runs, raised : SUBSET Runs]

NeverEnded == [how |-> "none", batch |-> <<>>, committed |-> FALSE, ran |-> {}, raised |-> {}]

Init ==
    /\ log = [k \in Keys |-> <<>>]
    /\ stack = [p \in Processes |-> <<>>]
    /\ ended = [p \in Processes |-> NeverEnded]
    /\ calls = 0

-----------------------------------------------------------------------------
(* Planning and the store.                                                 *)

(* hydrate: no row of a newer schema version, none that does not validate. *)
HydratesAny(p, row) == row.content \notin Unreadable
Hydrates(p, row) == row.version <= Version[p] /\ row.content \notin Unreadable

(* A request names a base that its process has read, or none.              *)
Plannable(p, q) ==
    q.expected # NoRevision =>
        /\ q.expected < Len(log[q.key])
        /\ Hydrates(p, log[q.key][q.expected + 1])

Target(q) == q.expected + 1
RowOf(p, q) == [content |-> q.content, version |-> Version[p]]

Replays(rows, p, q) ==
    Target(q) < Len(rows[q.key]) /\ rows[q.key][Target(q) + 1] = RowOf(p, q)

Fits(rows, p, q) == Replays(rows, p, q) \/ Target(q) = Len(rows[q.key])

(* The log after the first n requests of a batch.                          *)
After(p, batch) ==
    LET rows[n \in 0 .. Len(batch)] ==
          IF n = 0 THEN log
          ELSE IF Replays(rows[n - 1], p, batch[n]) THEN rows[n - 1]
          ELSE [rows[n - 1] EXCEPT ![batch[n].key] = Append(@, RowOf(p, batch[n]))]
    IN  rows

Accepted(p, batch) ==
    \A n \in 1 .. Len(batch) : Fits(After(p, batch)[n - 1], p, batch[n])

-----------------------------------------------------------------------------
(* Calls.                                                                  *)

Top(p) == stack[p][1]
Running(p, at) == stack[p] # <<>> /\ Top(p).at = at

SetTop(p, frame) ==
    /\ stack' = [stack EXCEPT ![p] = <<frame>> \o Tail(@)]
    /\ UNCHANGED <<log, ended, calls>>

(* The call returns or raises; an exception reaches the handler that made  *)
(* the call, which may raise in turn or not.                               *)
End(p, how) ==
    /\ stack' = [stack EXCEPT ![p] = Tail(@)]
    /\ ended' = [ended EXCEPT ![p] =
         [how |-> how, batch |-> Top(p).batch, committed |-> TRUE,
          ran |-> Top(p).ran, raised |-> Top(p).raised]]
    /\ UNCHANGED <<log, calls>>

(* The call ends without dispatch.                                         *)
Refuse(p, batch, how, committed) ==
    /\ ended' = [ended EXCEPT ![p] =
         [NeverEnded EXCEPT !.how = how, !.batch = batch, !.committed = committed]]
    /\ UNCHANGED stack

Dispatch(p, batch) ==
    /\ stack' = [stack EXCEPT ![p] =
         <<[batch |-> batch, pos |-> 1, todo |-> {}, at |-> "materialize",
            failures |-> FALSE, ran |-> {}, raised |-> {}]>> \o @]
    /\ UNCHANGED ended

DispatchAll(p, batch) ==
    /\ calls' = calls + 1
    /\ log' = IF Accepted(p, batch) THEN After(p, batch)[Len(batch)] ELSE log
    /\ Dispatch(p, batch)

(* store.commit, for one request or for those of a Batch.  An exception    *)
(* may hide a commit: the answer was lost.                                 *)
Commit(p, batch) ==
    /\ calls' = calls + 1
    /\ \/ /\ Accepted(p, batch)
          /\ log' = After(p, batch)[Len(batch)]
          /\ Dispatch(p, batch) \/ Refuse(p, batch, "store_error", TRUE)
       \/ /\ ~Accepted(p, batch)
          /\ UNCHANGED log
          /\ Refuse(p, batch, "conflict", FALSE)

(* A caller outside of any dispatch, or a handler.                         *)
MayCall(p) ==
    /\ stack[p] = <<>> \/ Running(p, "handler")
    /\ calls < MaxCalls /\ Len(stack[p]) < MaxDepth

(* Collection.create, change and replace: one request, sent at once.       *)
Write(p) ==
    /\ MayCall(p)
    /\ \E q \in Requests : Plannable(p, q) /\ Commit(p, <<q>>)

(* The end of a `with runtime.batch()` block: what it has accumulated.     *)
LeaveBatch(p) ==
    /\ MayCall(p)
    /\ \E n \in 1 .. MaxBatch : \E batch \in [1 .. n -> Requests] :
          /\ \A i \in 1 .. n : Plannable(p, batch[i])
          /\ Commit(p, batch)

Kind(q) == IF q.expected = NoRevision THEN "create" ELSE "change"
Matching(q) == {i \in DOMAIN Subs : Kind(q) \in Kinds[Subs[i]]}

(* The subscription whose turn it is: the loop follows their declaration.  *)
First(f) == CHOOSE i \in f.todo : \A j \in f.todo : i <= j
Served(f) == <<f.pos, Subs[First(f)]>>

(* _materialize: hydrate the request's own document, then dispatch it.     *)
Materialize(p) ==
    LET f == Top(p)
        q == f.batch[f.pos]
    IN  /\ Running(p, "materialize")
        /\ IF Hydrates(p, RowOf(p, q))
           THEN SetTop(p, [f EXCEPT !.at = "dispatch", !.failures = FALSE,
                  !.todo = Matching(q)])
           ELSE End(p, "invalid")

(* The next matching handler starts.                                       *)
StartHandler(p) ==
    LET f == Top(p)
    IN  /\ Running(p, "dispatch") /\ f.todo # {}
        /\ SetTop(p, [f EXCEPT !.at = "handler", !.ran = @ \cup {Served(f)}])

HandlerReturns(p) ==
    LET f == Top(p)
    IN  /\ Running(p, "handler")
        /\ SetTop(p, [f EXCEPT !.at = "dispatch", !.todo = @ \ {First(f)}])

(* It raises, anything, also the exception of a call it made: dispatch     *)
(* catches it, and collects it or logs it.                                 *)
Uncaught(p) ==
    /\ Running(p, "handler")
    /\ End(p, "conflict")

FirstFailureStops(p) ==
    LET f == Top(p)
    IN  /\ Running(p, "handler")
        /\ SetTop(p, [f EXCEPT !.at = "dispatch", !.todo = {},
                      !.failures = @ \/ OnError[p] = "raise",
                      !.raised = @ \cup {Served(f)}])

HandlerRaises(p) ==
    LET f == Top(p)
    IN  /\ Running(p, "handler")
        /\ SetTop(p, [f EXCEPT !.at = "dispatch", !.todo = @ \ {First(f)},
                      !.failures = @ \/ OnError[p] = "raise",
                      !.raised = @ \cup {Served(f)}])

(* dispatch_inline returns or raises InlineDispatchError, which leaves     *)
(* _commit_all at once; else the batch goes on.                            *)
EndDispatch(p) ==
    LET f == Top(p)
    IN  /\ Running(p, "dispatch") /\ f.todo = {}
        /\ IF f.failures
           THEN End(p, "dispatch")
           ELSE IF f.pos < Len(f.batch)
                THEN SetTop(p, [f EXCEPT !.pos = @ + 1, !.at = "materialize"])
                ELSE End(p, "ok")

(* The process dies; it comes back with nothing to do.                     *)
Crash(p) ==
    /\ stack[p] # <<>>
    /\ stack' = [stack EXCEPT ![p] = <<>>]
    /\ ended' = [ended EXCEPT ![p] = NeverEnded]
    /\ UNCHANGED <<log, calls>>

Next ==
    \E p \in Processes :
        \/ Write(p) \/ LeaveBatch(p) \/ Materialize(p) \/ StartHandler(p)
        \/ HandlerReturns(p) \/ HandlerRaises(p) \/ EndDispatch(p) \/ Crash(p)

Spec == Init /\ [][Next]_vars

-----------------------------------------------------------------------------
(* Properties.                                                             *)

(* Every variable keeps its type.                                          *)
TypeOK ==
    /\ log \in [Keys -> Seq(Rows)]
    /\ stack \in [Processes -> Seq(Frames)]
    /\ ended \in [Processes ->
         [how : {"none", "ok", "conflict", "store_error", "dispatch", "invalid"},
          batch : Seq(Requests), committed : BOOLEAN, ran : SUBSET Runs, raised : SUBSET Runs]]
    /\ calls \in 0 .. MaxCalls

Durable(p, q) ==
    Target(q) < Len(log[q.key]) /\ log[q.key][Target(q) + 1] = RowOf(p, q)

(* "Inline handlers run after COMMIT" (I9): while a call dispatches,       *)
(* nested however deeply, everything it asked for is durable.              *)
DispatchAfterCommit ==
    \A p \in Processes : \A i \in DOMAIN stack[p] :
        \A n \in DOMAIN stack[p][i].batch : Durable(p, stack[p][i].batch[n])

Owed(batch, n) == {n} \X {s \in SubIds : Kind(batch[n]) \in Kinds[s]}
OwedUpTo(batch, m) == UNION {Owed(batch, n) : n \in 1 .. m}

(* "Every matching handler runs even if an earlier one raises"             *)
(* (dispatch.py:3), for each commit that dispatch_inline gets: a call that *)
(* returns has run those of all its commits, one that raises               *)
(* InlineDispatchError all those of the commits up to the one it is about. *)
DispatchIsWhole ==
    \A p \in Processes :
        LET e == ended[p]
        IN  /\ e.how = "ok" => e.ran = OwedUpTo(e.batch, Len(e.batch))
            /\ e.how = "dispatch" =>
                 \E m \in DOMAIN e.batch :
                    /\ e.ran = OwedUpTo(e.batch, m)
                    /\ e.raised # {} /\ e.raised \subseteq Owed(e.batch, m)

(* "Inline failures are collected - every handler still runs - and raised  *)
(* as InlineDispatchError" (docs/DELIVERY.md:51), for everything a call    *)
(* has made durable.  Batch._commit_all stops at the first commit whose    *)
(* handlers fail, so this does not hold.                                   *)
EveryHandlerRuns ==
    \A p \in Processes :
        ended[p].how = "dispatch" =>
            ended[p].ran = OwedUpTo(ended[p].batch, Len(ended[p].batch))

(* "Never silently swallowed": a call that returns had no handler raise,   *)
(* unless the application asked for logging only.                          *)
FailuresSurface ==
    \A p \in Processes :
        /\ ended[p].how = "ok" => ended[p].raised = {} \/ OnError[p] = "log"
        /\ ended[p].how = "dispatch" => OnError[p] = "raise"

(* RevisionConflict means that nothing of the call is durable and that it  *)
(* can be tried again; the conflict of a call made by a handler does not   *)
(* look like one of the call that was dispatched.                          *)
ConflictMeansNotCommitted ==
    \A p \in Processes : ended[p].how = "conflict" => ~ended[p].committed

(* What the caller is told is what happened.                               *)
AnswersAreTrue == TypeOK /\ FailuresSurface /\ ConflictMeansNotCommitted

(* In a rolling deploy an old build never writes on top of a newer row:    *)
(* schema versions do not decrease along a log.                            *)
VersionsNeverDecrease ==
    \A k \in Keys : \A m, n \in DOMAIN log[k] :
        m <= n => log[k][m].version <= log[k][n].version

=============================================================================
