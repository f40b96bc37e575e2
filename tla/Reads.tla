-------------------------------- MODULE Reads --------------------------------
(***************************************************************************)
(* Reading while others write: paging through the history of an aggregate, *)
(* through the heads that match a filter, and through the outbox           *)
(* (Collection.history and where, SQLite.history and search,               *)
(* SqlAdmin.list_intents), and what a build makes of rows that other       *)
(* builds have written (hydrate, upcast).                                  *)
(*                                                                         *)
(* A commit is one step here; SqlStore and VersionedLog say why.           *)
(***************************************************************************)
EXTENDS Integers, Sequences, FiniteSets, SequencesExt

CONSTANTS
    Aggregates,      \* their ids, of which only the order matters
    MaxRevision,     \* bound: revisions 0 .. MaxRevision
    MaxTime,         \* bound: readings of the database clock 0 .. MaxTime
    Builds,          \* the schema versions that builds of the application declare
    Limits,          \* page sizes
    IntentId(_, _)   \* the id of the intent for a revision, a hash

ASSUME ReadsAssumption ==
    /\ Aggregates \subseteq Nat /\ IsFiniteSet(Aggregates)
    /\ MaxRevision \in Nat /\ MaxTime \in Nat
    /\ Builds \subseteq Nat \ {0} /\ Builds # {} /\ IsFiniteSet(Builds)
    /\ Limits \subseteq Nat \ {0}
    /\ \A a, b \in Aggregates : \A m, n \in 0 .. MaxRevision :
          /\ IntentId(a, m) \in Nat
          /\ (IntentId(a, m) = IntentId(b, n)) => (a = b /\ m = n)

VARIABLES
    subscribed, \* whether an outbox subscription stages intents
    log,        \* [Aggregates -> Seq(rows)]; the head is the last row
    intents,    \* [aggregate, revision, created, status] of the outbox
    clock,
    upcasters,  \* those the newest build brings: from_version -> to_version
    declared,   \* the version of the build that reads
    reader,     \* the traversal under way
    always      \* what has matched ever since it began

vars == <<subscribed, log, intents, clock, upcasters, declared, reader, always>>

Newest == CHOOSE b \in Builds : \A c \in Builds : c <= b

-----------------------------------------------------------------------------
(* Documents.  Each schema version renames the one field that the streams  *)
(* of this model have, and leaves its value alone.                         *)

Field(v) == <<"field", v>>
Doc(v, x) == [f \in {Field(v)} |-> x]
Documents == {Doc(v, x) : v \in Builds, x \in {0, 1}}
ValueOf(doc) == doc[CHOOSE f \in DOMAIN doc : TRUE]

(* An entry may be missing, or lead too far.                               *)
Chains == UNION {[S -> 1 .. Newest] : S \in SUBSET (1 .. Newest - 1)}

(* What validate_chain accepts for a declaration of version `to`.          *)
AnyEntries(chain, to) == \A v \in 1 .. to - 1 : v \in DOMAIN chain
Connected(chain, to) ==
    \A v \in 1 .. to - 1 : v \in DOMAIN chain /\ chain[v] = v + 1

(* upcast: the transitions from one version on until `to` is reached; an   *)
(* upcaster of this model gives the document the fields of its target.     *)
Gap == 0     \* IncompleteUpcasterChain
Upcast(doc, from, to) ==
    LET at[n \in 0 .. to] ==        \* the version after n transitions
            IF n = 0 THEN from
            ELSE IF at[n - 1] = Gap THEN Gap
            ELSE IF at[n - 1] >= to THEN at[n - 1]
            ELSE IF at[n - 1] \in DOMAIN upcasters THEN upcasters[at[n - 1]]
            ELSE Gap
    IN  IF at[to] = Gap THEN Gap ELSE Doc(at[to], ValueOf(doc))

(* hydrate, for a row that is not newer than the build.                    *)
Decodable(row, build) == row.version <= build
Hydrated(row, build) == Upcast(row.doc, row.version, build)

RowAt(k, n) == log[k][n + 1]

Rows == [version : Builds, doc : Documents]

-----------------------------------------------------------------------------
(* What is paged through: places of one traversal's order, as pairs.       *)

Revisions == 0 .. MaxRevision
IntentTypes == [aggregate : Aggregates, revision : Revisions,
                created : 0 .. MaxTime, status : {"pending", "dead"}]

HistoryOf(k) == {<<n, 0>> : n \in 0 .. Len(log[k]) - 1}

(* path_equals on the stored head.                                         *)
Matches(row, filter) == filter[1] \in DOMAIN row.doc /\ row.doc[filter[1]] = filter[2]
HeadsWith(filter) == {<<k, 0>> : k \in {a \in Aggregates : log[a] # <<>> /\ Matches(Last(log[a]), filter)}}

PlaceOf(i) == <<i.created, IntentId(i.aggregate, i.revision)>>
IntentsWith(status) == {PlaceOf(i) : i \in {j \in intents : status \in {"any", j.status}}}

Listed(r) ==
    CASE r.kind = "none" -> {}
      [] r.kind = "history" -> HistoryOf(r.what)
      [] r.kind = "search" -> HeadsWith(r.what)
      [] r.kind = "intents" -> IntentsWith(r.what)

Before(p, q) == p[1] < q[1] \/ (p[1] = q[1] /\ p[2] < q[2])

FromCursor(cursor, p) == p = cursor \/ Before(cursor, p)
Beyond(cursor, p) == Before(cursor, p)

(* ORDER BY key: the only sequence of S that is in its order.              *)
InOrder(S) ==
    CHOOSE s \in SetToSeqs(S) : \A i, j \in DOMAIN s : i < j => Before(s[i], s[j])

(* WHERE key > cursor ORDER BY key LIMIT n.                                *)
Page(r) ==
    LET beyond == InOrder({p \in Listed(r) : Beyond(r.cursor, p)})
    IN  SubSeq(beyond, 1, IF Len(beyond) < r.limit THEN Len(beyond) ELSE r.limit)

(* A page that is not full has no cursor.                                  *)
Exhausted(page, limit) == Len(page) # limit

(* The rows of a page that are hydrated.                                   *)
RowsOf(r, page) ==
    CASE r.kind = "history" -> {RowAt(r.what, p[1]) : p \in ToSet(page)}
      [] r.kind = "search" -> {Last(log[p[1]]) : p \in ToSet(page)}
      [] OTHER -> {}

Writing == IF subscribed THEN {<<Newest, 0>>} ELSE Builds \X {0, 1}

Lowest == <<-1, 0>>
NoReader == [kind |-> "none", what |-> "any", limit |-> 1, cursor |-> Lowest,
             out |-> <<>>, done |-> FALSE]

(* Only the listing looks at intents, and it looks at nothing else: the    *)
(* other traversals, and rows that differ in more than their place, are    *)
(* left to applications without a subscription.                            *)
Traversals ==
    IF subscribed THEN {<<"intents", s>> : s \in {"any", "pending"}}
    ELSE {<<"history", k>> : k \in Aggregates} \cup {<<"search", <<Field(b), 1>>>> : b \in Builds}

Init ==
    /\ subscribed \in BOOLEAN
    /\ log = [k \in Aggregates |-> <<>>] /\ intents = {} /\ clock = 0
    /\ upcasters \in {c \in Chains : Connected(c, Newest)}
    /\ declared \in Builds
    /\ reader = NoReader /\ always = {}

(* A step of a writer or a worker happens under the reader's eyes.         *)
Observed == always' = always \cap Listed(reader)'

-----------------------------------------------------------------------------
(* A build that can decode the head writes the next revision, in a         *)
(* transaction that began at t: now() is the time of its first statement.  *)
Commit(k, build, x, t) ==
    /\ Len(log[k]) <= MaxRevision /\ t <= clock
    /\ log[k] # <<>> => Decodable(Last(log[k]), build)
    /\ log' = [log EXCEPT ![k] = Append(@, [version |-> build, doc |-> Doc(build, x)])]
    /\ intents' = intents \cup (IF ~subscribed THEN {} ELSE
         {[aggregate |-> k, revision |-> Len(log[k]), created |-> t, status |-> "pending"]})
    /\ UNCHANGED <<subscribed, clock, upcasters, declared, reader>> /\ Observed

(* A delivered intent is deleted, a dead one stays until it is redriven.   *)
Delivered(i) ==
    /\ i.status = "pending" /\ intents' = intents \ {i}
    /\ UNCHANGED <<subscribed, log, clock, upcasters, declared, reader>> /\ Observed

DeadLettered(i) ==
    /\ i.status = "pending"
    /\ intents' = (intents \ {i}) \cup {[i EXCEPT !.status = "dead"]}
    /\ UNCHANGED <<subscribed, log, clock, upcasters, declared, reader>> /\ Observed

Redriven(i) ==
    /\ i.status = "dead"
    /\ intents' = (intents \ {i}) \cup {[i EXCEPT !.status = "pending"]}
    /\ UNCHANGED <<subscribed, log, clock, upcasters, declared, reader>> /\ Observed

Tick ==
    /\ subscribed /\ clock < MaxTime /\ clock' = clock + 1
    /\ UNCHANGED <<subscribed, log, intents, upcasters, declared, reader, always>>

(* The reader's process is replaced by one of the newest build.            *)
Deploy ==
    /\ declared # Newest /\ declared' = Newest
    /\ UNCHANGED <<subscribed, log, intents, clock, upcasters, reader, always>>

Start(t, limit) ==
    /\ reader.kind = "none"
    /\ reader' = [NoReader EXCEPT !.kind = t[1], !.what = t[2], !.limit = limit]
    /\ always' = Listed(reader')
    /\ UNCHANGED <<subscribed, log, intents, clock, upcasters, declared>>

(* One call; a row the build cannot decode refuses the whole page, and the *)
(* caller asks again with the cursor it has.                               *)
ReadPage ==
    /\ reader.kind # "none" /\ ~reader.done
    /\ LET page == Page(reader)
       IN  /\ \A row \in RowsOf(reader, page) : Decodable(row, declared)
           /\ reader' = [reader EXCEPT
                !.out = @ \o page,
                !.cursor = IF page = <<>> THEN @ ELSE Last(page),
                !.done = Exhausted(page, reader.limit)]
    /\ UNCHANGED <<subscribed, log, intents, clock, upcasters, declared, always>>

Next ==
    \/ \E k \in Aggregates, w \in Writing, t \in 0 .. MaxTime : Commit(k, w[1], w[2], t)
    \/ \E i \in intents : Delivered(i) \/ DeadLettered(i) \/ Redriven(i)
    \/ \E t \in Traversals, n \in Limits : Start(t, n)
    \/ ReadPage \/ Tick \/ Deploy

Spec == Init /\ [][Next]_vars

-----------------------------------------------------------------------------
(* Properties.                                                             *)

(* Every variable keeps its type, and a traversal its order.               *)
TypeOK ==
    /\ subscribed \in BOOLEAN /\ log \in [Aggregates -> Seq(Rows)]
    /\ intents \subseteq IntentTypes /\ clock \in 0 .. MaxTime
    /\ upcasters \in Chains /\ declared \in Builds
    /\ reader.limit \in Nat \ {0} /\ reader.done \in BOOLEAN
    /\ always \in SUBSET (Int \X Int)

(* Paging sees what is there all along: a finished traversal has returned  *)
(* whatever matched from its first page to its last, however rows came,    *)
(* changed and went in between.                                            *)
NothingSkipped == reader.done => always \subseteq ToSet(reader.out)

(* No aggregate, revision or intent is returned twice, and the order of    *)
(* the pages is that of the key.                                           *)
NothingRepeated ==
    \A i, j \in DOMAIN reader.out : i < j => Before(reader.out[i], reader.out[j])

(* The pages of a history are the log itself: every revision, without a    *)
(* gap, up to the newest when the last page was read.                      *)
HistoryIsLog ==
    reader.kind = "history" =>
        \A i \in DOMAIN reader.out : reader.out[i] = <<i - 1, 0>>

(* A traversal returns each element once, in order, and misses none.       *)
TraversalsAreWhole == TypeOK /\ NothingSkipped /\ NothingRepeated /\ HistoryIsLog

(* A chain of upcasters that passed validate_chain takes every row which a *)
(* build agrees to decode to the version the build declares, and neither   *)
(* breaks off nor overshoots.                                              *)
ChainsReachDeclared ==
    \A k \in Aggregates : \A i \in DOMAIN log[k] :
        Decodable(log[k][i], declared) =>
            Hydrated(log[k][i], declared) = Doc(declared, ValueOf(log[k][i].doc))

=============================================================================
