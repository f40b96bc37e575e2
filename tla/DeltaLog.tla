------------------------------ MODULE DeltaLog ------------------------------
(* How the log of one aggregate is encoded and decoded: snapshot/1 and     *)
(* delta/1 rows (encodings/), written by _commit_one and read back through *)
(* _decode_log_revision and _decode_window (sql/store.py) and the fold of  *)
(* heads rebuild (sql/admin.py).                                           *)
(*                                                                         *)
(* Which encoding a stream has is deployment configuration, so processes   *)
(* with different configurations share one log, at the same time or one    *)
(* after the other.  A configuration is the interval of delta/1, or        *)
(* Unconfigured for the default snapshot/1.                                *)
(*                                                                         *)
(* A document maps its top-level fields to values.  The digest of a row is *)
(* the document it was computed from.                                      *)
(***************************************************************************)
EXTENDS Integers, Sequences

CONSTANTS
    Fields,        \* top-level keys of documents
    Values,        \* their JSON values, told apart by canonical_bytes
    Lax,           \* pairs of different values that Python's == cannot tell apart
    Intervals,     \* the intervals of delta/1 in use
    MaxRevision    \* bound: revisions 0 .. MaxRevision

ASSUME DeltaAssumption ==
    /\ Lax \subseteq Values \X Values
    /\ Intervals \subseteq Nat \ {0}
    /\ MaxRevision \in Nat

VARIABLES
    log,     \* the rows of the aggregate, revision n at log[n + 1]
    head,    \* the state of the head row
    last     \* the last call of commit: its configuration, document and end

vars == <<log, head, last>>

Unconfigured == 0
Configs == Intervals \cup {Unconfigured}

Documents == UNION {[S -> Values] : S \in SUBSET Fields}
Deltas == [every : Intervals, base : Nat, set : Documents, del : SUBSET Fields]
RowTypes ==
    [encoding : {"snapshot/1"}, payload : Documents, digest : Documents] \cup
    [encoding : {"delta/1"}, payload : Deltas, digest : Documents]

Empty == [f \in {} |-> f]

(* What a decode returns: the document, or UndecodableRevision.            *)
Decoded(doc) == [ok |-> TRUE, doc |-> doc]
Undecodable == [ok |-> FALSE, doc |-> Empty]

Init ==
    /\ log = <<>>
    /\ head = Empty
    /\ last = [config |-> Unconfigured, doc |-> Empty, end |-> "none"]

-----------------------------------------------------------------------------
(* Delta.encode and Delta.decode.                                          *)

Unchanged(u, v) == u = v \/ <<u, v>> \in Lax

NoTombstones(doc, base) ==
    [set |-> [f \in {g \in DOMAIN doc : g \in DOMAIN base => ~Unchanged(base[g], doc[g])}
                |-> doc[f]],
     del |-> {}]

Diff(doc, base) ==
    [set |-> [f \in {g \in DOMAIN doc : g \in DOMAIN base => ~Unchanged(base[g], doc[g])}
                |-> doc[f]],
     del |-> DOMAIN base \ DOMAIN doc]

Apply(delta, doc) ==
    [f \in (DOMAIN doc \ delta.del) \cup DOMAIN delta.set |->
       IF f \in DOMAIN delta.set THEN delta.set[f] ELSE doc[f]]

-----------------------------------------------------------------------------
(* Decoding a window of the log, a function from its revisions to rows.    *)

Window(rows, from, to) == [n \in from .. to |-> rows[n + 1]]

Checkpoints(w) == {n \in DOMAIN w : w[n].encoding = "snapshot/1"}

(* The rows after a checkpoint applied to it, each to its predecessor.     *)
Chain(w, from, to) ==
    LET doc[n \in from .. to] ==
          IF n = from THEN Decoded(w[from].payload)
          ELSE IF doc[n - 1].ok /\ w[n].payload.base = n - 1
               THEN Decoded(Apply(w[n].payload, doc[n - 1].doc))
               ELSE Undecodable
    IN  doc[to]

Newest(S) == CHOOSE n \in S : \A m \in S : n >= m

(* _decode_window: from the newest checkpoint of the window.               *)
DecodeWindow(rows, from, to) ==
    LET found == Checkpoints(Window(rows, from, to))
    IN  IF found = {}
        THEN Undecodable
        ELSE Chain(Window(rows, Newest(found), to), Newest(found), to)

(* n % every == 0                                                          *)
Divides(d, n) == \E k \in 0 .. n : n = d * k
IsCheckpoint(n, every) == Divides(every, n)

Back(n, every) == IF n >= every THEN n - every ELSE 0

DefaultWindow(rows, config, n) ==
    IF config # Unconfigured
    THEN IF IsCheckpoint(n, config) THEN n ELSE Back(n, config)
    ELSE IF rows[n + 1].encoding = "snapshot/1" THEN n ELSE Back(n, 2)

(* Where the window of revision n starts: by the reader's own interval if  *)
(* it has one, else by the interval the row itself records.                *)
WindowStart(rows, config, n) ==
    IF config # Unconfigured
    THEN IF IsCheckpoint(n, config) THEN n ELSE Back(n, config)
    ELSE IF rows[n + 1].encoding = "snapshot/1" THEN n
         ELSE Back(n, rows[n + 1].payload.every)

(* _decode_log_revision, and _decode_row of verify, which is Unconfigured. *)
Decode(rows, config, n) == DecodeWindow(rows, WindowStart(rows, config, n), n)

(* _accumulate_into: the fold of a rebuild has no window and no base check. *)
Fold(rows) ==
    LET doc[n \in 0 .. Len(rows)] ==
          IF n = 0 THEN Empty
          ELSE IF rows[n].encoding = "snapshot/1" THEN rows[n].payload
          ELSE Apply(rows[n].payload, doc[n - 1])
    IN  doc[Len(rows)]

-----------------------------------------------------------------------------
(* The encoding part of _commit_one.                                       *)

Snapshot(config, n) == n = 0 \/ config = Unconfigured \/ IsCheckpoint(n, config)

RowFor(config, doc) ==
    LET n == Len(log)
    IN  IF Snapshot(config, n)
        THEN [encoding |-> "snapshot/1", payload |-> doc, digest |-> doc]
        ELSE [encoding |-> "delta/1", digest |-> doc,
              payload |-> [every |-> config, base |-> n - 1,
                           set |-> Diff(doc, head).set, del |-> Diff(doc, head).del]]

(* The inserted row is decoded again, and the bytes compared.              *)
TrustEncoder(decoded, doc) == TRUE
Faithful(decoded, doc) == decoded = Decoded(doc)

HeadBeforeCheck(config, doc) ==
    LET rows == Append(log, RowFor(config, doc))
        decoded == Decode(rows, config, Len(log))
    IN  /\ Len(log) <= MaxRevision
        /\ head' = decoded.doc
        /\ last' = [config |-> config, doc |-> doc,
                    end |-> IF decoded = Decoded(doc) THEN "ok" ELSE "mismatch"]
        /\ log' = IF decoded = Decoded(doc) THEN rows ELSE log

Commit(config, doc) ==
    LET rows == Append(log, RowFor(config, doc))
        decoded == Decode(rows, config, Len(log))
    IN  /\ Len(log) <= MaxRevision
        /\ \/ /\ Faithful(decoded, doc)
              /\ log' = rows
              /\ head' = decoded.doc
              /\ last' = [config |-> config, doc |-> doc, end |-> "ok"]
           \/ /\ ~Faithful(decoded, doc)
              /\ last' = [config |-> config, doc |-> doc,
                          end |-> IF decoded.ok THEN "mismatch" ELSE "undecodable"]
              /\ UNCHANGED <<log, head>>

Next == \E config \in Configs, doc \in Documents : Commit(config, doc)

Spec == Init /\ [][Next]_vars

-----------------------------------------------------------------------------
(* Properties.                                                             *)

(* Every variable keeps its type.                                          *)
TypeOK ==
    /\ log \in Seq(RowTypes)
    /\ head \in Documents
    /\ last \in [config : Configs, doc : Documents,
                 end : {"none", "ok", "mismatch", "undecodable"}]

Revisions == 0 .. Len(log) - 1
DigestAt(n) == log[n + 1].digest

(* Whatever configurations wrote the log, a store without one, and verify, *)
(* decode every row to the document whose digest it has (I3, I10).         *)
EveryRowDecodes ==
    \A n \in Revisions : Decode(log, Unconfigured, n) = Decoded(DigestAt(n))

(* Every delta row was written with an interval that divides the given one. *)
Aligned(every) ==
    \A n \in Revisions :
        log[n + 1].encoding = "delta/1" => Divides(log[n + 1].payload.every, every)

(* A store configured for delta/1 decodes the whole log as long as all     *)
(* intervals that were ever used divide its own: an interval can safely be *)
(* replaced by a multiple.                                                 *)
MultiplesDecode ==
    \A every \in Intervals :
        Aligned(every) =>
            \A n \in Revisions : Decode(log, every, n) = Decoded(DigestAt(n))

(* A change that only replaces values by others Python holds equal.        *)
Conflated(doc, base) ==
    \E f \in DOMAIN doc \cap DOMAIN base : <<base[f], doc[f]>> \in Lax

(* A commit is refused by the encoding only where the interval of the      *)
(* store does not fit the log, or for values Python conflates.             *)
RefusedForCause ==
    [][/\ last'.end = "undecodable" => ~Aligned(last'.config)
       /\ last'.end = "mismatch" => Conflated(last'.doc, head)]_vars

(* The head is what heads rebuild would compute from the log (I2), and a   *)
(* removed field never comes back.                                         *)
HeadIsFold == head = Fold(log)

(* The head is a document, derived from rows that have their types.        *)
HeadIsDerived == TypeOK /\ HeadIsFold

=============================================================================
