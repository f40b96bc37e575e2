--------------------------- MODULE DeltaLogProofs ---------------------------
(* What decodes, for every set of fields, values and intervals and every   *)
(* length of the log, whichever configurations wrote it.                   *)
EXTENDS DeltaScan, TLAPS, WellFoundedInduction, NaturalsInduction

-----------------------------------------------------------------------------
(* Windows and their checkpoints.                                          *)

(* A non-empty set of revisions up to n has a newest one.                  *)
LEMMA NewestExists ==
    ASSUME NEW n \in Nat, NEW S, S \subseteq 0 .. n, S # {}
    PROVE  Newest(S) \in S /\ \A m \in S : Newest(S) >= m
<1>. DEFINE T == {n - m : m \in S}
<1>1. T \subseteq Nat /\ T # {}
  <2>1. \A m \in S : n - m \in Nat
    OBVIOUS
  <2>2. PICK m \in S : TRUE
    OBVIOUS
  <2>3. n - m \in T
    OBVIOUS
  <2>. QED  BY <2>1, <2>3
<1>. HIDE DEF T
<1>2. PICK x \in T : \A y \in T : ~(<<y, x>> \in OpToRel(<, Nat))
  BY <1>1, NatLessThanWellFounded, WFMin
<1>3. \A y \in T : ~(y < x)
  BY <1>1, <1>2 DEF OpToRel
<1>4. PICK k \in S : x = n - k
  BY DEF T
<1>5. \A m \in S : k >= m
  <2>. TAKE m \in S
  <2>1. ~(n - m < n - k)
    BY <1>3, <1>4 DEF T
  <2>. QED  BY <2>1
<1>. QED  BY <1>4, <1>5 DEF Newest

(* c is the newest checkpoint of the revisions from .. n.                  *)
Starts(rows, from, c, n) ==
    /\ c \in from .. n
    /\ rows[c + 1].encoding = "snapshot/1"
    /\ \A m \in c + 1 .. n : rows[m + 1].encoding # "snapshot/1"

FromCheckpoint(rows, c, n) == Chain(Window(rows, c, n), c, n)

LEMMA CheckpointsOf ==
    ASSUME NEW rows, NEW from \in Nat, NEW n \in Nat
    PROVE  Checkpoints(Window(rows, from, n)) =
             {m \in from .. n : rows[m + 1].encoding = "snapshot/1"}
BY DEF Checkpoints, Window

(* What a window decodes to depends only on its newest checkpoint.         *)
LEMMA DecodeFrom ==
    ASSUME NEW rows, NEW from \in Nat, NEW n \in Nat, NEW c, Starts(rows, from, c, n)
    PROVE  DecodeWindow(rows, from, n) = FromCheckpoint(rows, c, n)
<1>. DEFINE found == Checkpoints(Window(rows, from, n))
<1>1. found = {m \in from .. n : rows[m + 1].encoding = "snapshot/1"}
  BY CheckpointsOf
<1>2. c \in found /\ \A m \in found : c >= m
  BY <1>1 DEF Starts
<1>3. found \subseteq 0 .. n
  BY <1>1
<1>4. Newest(found) \in found /\ \A m \in found : Newest(found) >= m
  BY <1>2, <1>3, NewestExists
<1>5. Newest(found) = c
  BY <1>2, <1>3, <1>4
<1>. QED  BY <1>2, <1>5 DEF DecodeWindow, FromCheckpoint

(* A window that decodes has a checkpoint.                                 *)
LEMMA DecodeStarts ==
    ASSUME NEW rows, NEW from \in Nat, NEW n \in Nat, NEW doc,
           DecodeWindow(rows, from, n) = Decoded(doc)
    PROVE  \E c : Starts(rows, from, c, n) /\ FromCheckpoint(rows, c, n) = Decoded(doc)
<1>. DEFINE found == Checkpoints(Window(rows, from, n))
<1>1. found = {m \in from .. n : rows[m + 1].encoding = "snapshot/1"}
  BY CheckpointsOf
<1>2. found # {}
  BY DEF DecodeWindow, Decoded, Undecodable
<1>3. found \subseteq 0 .. n
  BY <1>1
<1>4. Newest(found) \in found /\ \A m \in found : Newest(found) >= m
  BY <1>2, <1>3, NewestExists
<1>. HIDE DEF found
<1>5. Starts(rows, from, Newest(found), n)
  <2>1. Newest(found) \in from .. n /\ rows[Newest(found) + 1].encoding = "snapshot/1"
    BY <1>1, <1>4
  <2>2. ASSUME NEW m \in Newest(found) + 1 .. n PROVE rows[m + 1].encoding # "snapshot/1"
    <3>1. m \in from .. n /\ ~(Newest(found) >= m)
      BY <2>1
    <3>. QED  BY <1>1, <1>4, <3>1
  <2>. QED  BY <2>1, <2>2 DEF Starts
<1>. QED  BY <1>5, DecodeFrom

-----------------------------------------------------------------------------
(* Divisibility.                                                           *)

LEMMA DividesTransitive ==
    ASSUME NEW a \in Nat \ {0}, NEW b \in Nat, NEW n \in Nat, Divides(a, b), Divides(b, n)
    PROVE  Divides(a, n)
<1>1. PICK j \in 0 .. b : b = a * j
  BY DEF Divides
<1>2. PICK k \in 0 .. n : n = b * k
  BY DEF Divides
<1>3. j * k \in Nat
  BY <1>1, <1>2
<1>4. n = a * (j * k)
  BY <1>1, <1>2
<1>5. \A m \in Nat : a * m >= m
  <2>. TAKE m \in Nat
  <2>1. a * m = m + (a - 1) * m
    OBVIOUS
  <2>2. (a - 1) * m \in Nat
    OBVIOUS
  <2>. QED  BY <2>1, <2>2
<1>6. j * k \in 0 .. n
  BY <1>3, <1>4, <1>5
<1>. QED  BY <1>4, <1>6 DEF Divides

LEMMA DividesBounds ==
    ASSUME NEW a \in Nat \ {0}, NEW b \in Nat \ {0}, Divides(a, b)
    PROVE  a <= b
<1>1. PICK j \in 0 .. b : b = a * j
  BY DEF Divides
<1>2. CASE j = 0
  BY <1>1, <1>2
<1>3. CASE j >= 1
  <2>1. b = a + a * (j - 1)
    BY <1>1
  <2>2. a * (j - 1) \in Nat
    BY <1>1, <1>3
  <2>. QED  BY <2>1, <2>2
<1>. QED  BY <1>1, <1>2, <1>3

-----------------------------------------------------------------------------
(* Types.                                                                  *)

LEMMA RowForType ==
    ASSUME TypeOK, NEW config \in Configs, NEW doc \in Documents
    PROVE  /\ RowFor(config, doc) \in RowTypes
           /\ RowFor(config, doc).digest = doc
           /\ RowFor(config, doc).encoding = "delta/1" =>
                /\ RowFor(config, doc).payload.every = config
                /\ config \in Intervals /\ ~IsCheckpoint(Len(log), config)
<1>1. CASE Snapshot(config, Len(log))
  BY <1>1 DEF RowFor, RowTypes
<1>2. CASE ~Snapshot(config, Len(log))
  <2>1. Len(log) \in Nat \ {0} /\ config \in Intervals /\ ~IsCheckpoint(Len(log), config)
    BY <1>2 DEF Snapshot, Configs, TypeOK
  <2>2. PICK S \in SUBSET Fields : doc \in [S -> Values]
    BY DEF Documents
  <2>3. PICK B \in SUBSET Fields : head \in [B -> Values]
    BY DEF Documents, TypeOK
  <2>. DEFINE changed == {g \in DOMAIN doc : g \in DOMAIN head => ~Unchanged(head[g], doc[g])}
  <2>4. Diff(doc, head).set \in [changed -> Values] /\ changed \in SUBSET Fields
    BY <2>2 DEF Diff
  <2>5. Diff(doc, head).set \in Documents
    BY <2>4 DEF Documents
  <2>6. Diff(doc, head).del \in SUBSET Fields
    BY <2>3 DEF Diff
  <2>7. Len(log) - 1 \in Nat
    BY <2>1
  <2>. QED  BY <1>2, <2>1, <2>5, <2>6, <2>7 DEF RowFor, RowTypes, Deltas
<1>. QED  BY <1>1, <1>2

(* What an accepted commit does.                                           *)
LEMMA Accepted ==
    ASSUME TypeOK, NEW config \in Configs, NEW doc \in Documents, Commit(config, doc),
           log' # log
    PROVE  /\ log' = Append(log, RowFor(config, doc))
           /\ head' = doc
           /\ Decode(log', config, Len(log)) = Decoded(doc)
<1>. DEFINE rows == Append(log, RowFor(config, doc))
            decoded == Decode(rows, config, Len(log))
<1>1. Faithful(decoded, doc) /\ log' = rows /\ head' = decoded.doc
  BY DEF Commit
<1>. HIDE DEF decoded
<1>2. decoded = Decoded(doc)
  BY <1>1 DEF Faithful
<1>3. head' = doc
  BY <1>1, <1>2 DEF Decoded
<1>. QED  BY <1>1, <1>2, <1>3 DEF decoded

LEMMA TypeStep == TypeOK /\ [Next]_vars => TypeOK'
<1>. SUFFICES ASSUME TypeOK, [Next]_vars PROVE TypeOK'
  OBVIOUS
<1>1. CASE UNCHANGED vars
  BY <1>1 DEF vars, TypeOK
<1>2. ASSUME NEW config \in Configs, NEW doc \in Documents, Commit(config, doc) PROVE TypeOK'
  <2>1. last' \in [config : Configs, doc : Documents,
                   end : {"none", "ok", "mismatch", "undecodable"}]
    BY <1>2 DEF Commit
  <2>2. log' \in Seq(RowTypes) /\ head' \in Documents
    <3>1. CASE Faithful(Decode(Append(log, RowFor(config, doc)), config, Len(log)), doc)
      <4>1. log' = Append(log, RowFor(config, doc)) /\ head' = doc
        BY <1>2, <3>1 DEF Commit, Faithful, Decoded
      <4>. QED  BY <4>1, RowForType DEF TypeOK
    <3>2. CASE ~Faithful(Decode(Append(log, RowFor(config, doc)), config, Len(log)), doc)
      BY <1>2, <3>2 DEF Commit, TypeOK
    <3>. QED  BY <3>1, <3>2
  <2>. QED  BY <2>1, <2>2 DEF TypeOK
<1>. QED  BY <1>1, <1>2 DEF Next

LEMMA TypeInit == Init => TypeOK
<1>1. Empty \in [{} -> Values]
  BY DEF Empty
<1>2. Empty \in Documents
  BY <1>1 DEF Documents
<1>. QED  BY <1>2 DEF Init, TypeOK, Configs

-----------------------------------------------------------------------------
(* The inductive invariant: each row still decodes, from the checkpoint    *)
(* its own writer found, to its own document; and no delta row sits where  *)
(* its interval wants a checkpoint.                                        *)

RowDecodes(rows, n) ==
    LET row == rows[n + 1]
    IN  \/ /\ row.encoding = "snapshot/1"
           /\ FromCheckpoint(rows, n, n) = Decoded(row.digest)
        \/ /\ row.encoding = "delta/1"
           /\ ~IsCheckpoint(n, row.payload.every)
           /\ \E c : /\ Starts(rows, Back(n, row.payload.every), c, n)
                     /\ FromCheckpoint(rows, c, n) = Decoded(row.digest)

RowsDecode == \A n \in Revisions : RowDecodes(log, n)

(* Rows appended later are not looked at.                                  *)
LEMMA Appended ==
    ASSUME NEW rows \in Seq(RowTypes), NEW more \in Seq(RowTypes), NEW n \in 0 .. Len(rows) - 1,
           \A m \in 0 .. n : more[m + 1] = rows[m + 1],
           RowDecodes(rows, n)
    PROVE  RowDecodes(more, n)
<1>1. more[n + 1] = rows[n + 1]
  OBVIOUS
<1>2. ASSUME NEW c \in 0 .. n PROVE FromCheckpoint(more, c, n) = FromCheckpoint(rows, c, n)
  <2>1. Window(more, c, n) = Window(rows, c, n)
    BY DEF Window
  <2>. QED  BY <2>1 DEF FromCheckpoint
<1>3. CASE rows[n + 1].encoding = "snapshot/1" /\ FromCheckpoint(rows, n, n) = Decoded(rows[n + 1].digest)
  BY <1>1, <1>2, <1>3 DEF RowDecodes
<1>4. CASE ~(rows[n + 1].encoding = "snapshot/1" /\ FromCheckpoint(rows, n, n) = Decoded(rows[n + 1].digest))
  <2>. DEFINE row == rows[n + 1]
              from == Back(n, row.payload.every)
  <2>1. /\ row.encoding = "delta/1" /\ ~IsCheckpoint(n, row.payload.every)
        /\ \E c : Starts(rows, from, c, n) /\ FromCheckpoint(rows, c, n) = Decoded(row.digest)
    BY <1>4 DEF RowDecodes
  <2>2. PICK c : Starts(rows, from, c, n) /\ FromCheckpoint(rows, c, n) = Decoded(row.digest)
    BY <2>1
  <2>3. row.payload.every \in Nat
    <3>1. row \in RowTypes
      OBVIOUS
    <3>. QED  BY <2>1, <3>1, DeltaAssumption DEF RowTypes, Deltas
  <2>4. from \in Nat
    BY <2>3 DEF Back
  <2>5. c \in 0 .. n
    BY <2>2, <2>4 DEF Starts
  <2>6. Starts(more, from, c, n)
    BY <2>2, <2>4, <2>5 DEF Starts
  <2>7. FromCheckpoint(more, c, n) = Decoded(row.digest)
    BY <1>2, <2>2, <2>5
  <2>. QED  BY <1>1, <2>1, <2>6, <2>7 DEF RowDecodes
<1>. QED  BY <1>3, <1>4

(* The writer's own check establishes it for the new row.                  *)
LEMMA NewRow ==
    ASSUME TypeOK, NEW config \in Configs, NEW doc \in Documents, Commit(config, doc),
           log' # log
    PROVE  RowDecodes(log', Len(log))
<1>. DEFINE n == Len(log)
            row == RowFor(config, doc)
            rows == Append(log, row)
<1>1. log' = rows /\ Decode(rows, config, n) = Decoded(doc)
  BY Accepted
<1>2. n \in Nat /\ rows[n + 1] = row /\ row \in RowTypes /\ row.digest = doc
  BY RowForType DEF TypeOK
<1>3. config \in Nat /\ (config # Unconfigured => config \in Intervals /\ config \in Nat \ {0})
  BY DeltaAssumption DEF Configs, Unconfigured
<1>. DEFINE from == WindowStart(rows, config, n)
<1>. HIDE DEF row, rows
<1>4. from \in 0 .. n
  <2>1. CASE config # Unconfigured
    BY <1>2, <1>3, <2>1 DEF WindowStart, Back
  <2>2. CASE config = Unconfigured
    <3>1. row.encoding = "snapshot/1"
      BY <2>2 DEF RowFor, Snapshot, row
    <3>. QED  BY <1>2, <2>2, <3>1 DEF WindowStart
  <2>. QED  BY <2>1, <2>2
<1>. HIDE DEF from
<1>5. DecodeWindow(rows, from, n) = Decoded(doc)
  BY <1>1 DEF Decode, from
<1>6. PICK c : Starts(rows, from, c, n) /\ FromCheckpoint(rows, c, n) = Decoded(doc)
  BY <1>2, <1>4, <1>5, DecodeStarts
<1>7. CASE row.encoding = "snapshot/1"
  <2>1. c = n
    BY <1>2, <1>4, <1>6, <1>7 DEF Starts
  <2>. QED  BY <1>1, <1>2, <1>6, <1>7, <2>1 DEF RowDecodes
<1>8. CASE row.encoding = "delta/1"
  <2>1. row.payload.every = config /\ config \in Intervals /\ ~IsCheckpoint(n, config)
    BY <1>8, RowForType DEF row
  <2>2. from = Back(n, row.payload.every)
    BY <1>3, <2>1, DeltaAssumption DEF from, WindowStart, Unconfigured
  <2>. QED  BY <1>1, <1>2, <1>6, <1>8, <2>1, <2>2 DEF RowDecodes
<1>. QED  BY <1>2, <1>7, <1>8 DEF RowTypes

LEMMA RowsDecodeStep == TypeOK /\ RowsDecode /\ [Next]_vars => RowsDecode'
<1>. SUFFICES ASSUME TypeOK, RowsDecode, [Next]_vars, log' # log PROVE RowsDecode'
  BY DEF RowsDecode, Revisions
<1>1. PICK config \in Configs, doc \in Documents : Commit(config, doc)
  BY DEF Next, vars
<1>2. log' = Append(log, RowFor(config, doc)) /\ RowFor(config, doc) \in RowTypes
  BY <1>1, Accepted, RowForType
<1>3. /\ log \in Seq(RowTypes) /\ log' \in Seq(RowTypes) /\ Len(log') = Len(log) + 1
      /\ \A m \in 0 .. Len(log) - 1 : log'[m + 1] = log[m + 1]
  BY <1>2 DEF TypeOK
<1>4. ASSUME NEW n \in 0 .. Len(log') - 1 PROVE RowDecodes(log', n)
  <2>1. CASE n = Len(log)
    BY <1>1, <2>1, NewRow
  <2>2. CASE n \in 0 .. Len(log) - 1
    <3>1. RowDecodes(log, n)
      BY <2>2 DEF RowsDecode, Revisions
    <3>2. \A m \in 0 .. n : log'[m + 1] = log[m + 1]
      BY <1>3, <2>2
    <3>. QED  BY <1>3, <2>2, <3>1, <3>2, Appended
  <2>. QED  BY <1>3, <2>1, <2>2
<1>. QED  BY <1>4 DEF RowsDecode, Revisions

LEMMA Decodes == Spec => [](TypeOK /\ RowsDecode)
<1>1. Init => TypeOK /\ RowsDecode
  BY TypeInit DEF Init, RowsDecode, Revisions
<1>2. TypeOK /\ RowsDecode /\ [Next]_vars => (TypeOK /\ RowsDecode)'
  BY TypeStep, RowsDecodeStep
<1>. QED  BY <1>1, <1>2, PTL DEF Spec

-----------------------------------------------------------------------------

(* Every row stays decodable by what it records itself, whichever          *)
(* configurations wrote the log.                                           *)
THEOREM RowsSufficeToDecode == Spec => []EveryRowDecodes
<1>1. TypeOK /\ RowsDecode => EveryRowDecodes
  <2>. SUFFICES ASSUME TypeOK, RowsDecode, NEW n \in Revisions
                PROVE  Decode(log, Unconfigured, n) = Decoded(DigestAt(n))
    BY DEF EveryRowDecodes
  <2>. DEFINE row == log[n + 1]
  <2>1. n \in Nat /\ row \in RowTypes /\ RowDecodes(log, n)
    BY DEF Revisions, TypeOK, RowsDecode
  <2>2. CASE row.encoding = "snapshot/1"
    <3>1. FromCheckpoint(log, n, n) = Decoded(row.digest)
      BY <2>1, <2>2 DEF RowDecodes
    <3>2. Starts(log, n, n, n)
      BY <2>1, <2>2 DEF Starts
    <3>. QED  BY <2>1, <2>2, <3>1, <3>2, DecodeFrom DEF Decode, WindowStart, DigestAt
  <2>3. CASE row.encoding = "delta/1"
    <3>1. PICK c : /\ Starts(log, Back(n, row.payload.every), c, n)
                   /\ FromCheckpoint(log, c, n) = Decoded(row.digest)
      BY <2>1, <2>3 DEF RowDecodes
    <3>2. row.payload.every \in Nat
      BY <2>1, <2>3, DeltaAssumption DEF RowTypes, Deltas
    <3>3. Back(n, row.payload.every) \in Nat
      BY <2>1, <3>2 DEF Back
    <3>. QED  BY <2>1, <2>3, <3>1, <3>3, DecodeFrom DEF Decode, WindowStart, DigestAt
  <2>. QED  BY <2>1, <2>2, <2>3 DEF RowTypes
<1>. QED  BY <1>1, Decodes, PTL

(* A store whose interval is a multiple of all that were used decodes the  *)
(* whole log.                                                              *)
THEOREM MultiplesStayReadable == Spec => []MultiplesDecode
<1>1. TypeOK /\ RowsDecode => MultiplesDecode
  <2>. SUFFICES ASSUME TypeOK, RowsDecode, NEW every \in Intervals, Aligned(every),
                       NEW n \in Revisions
                PROVE  Decode(log, every, n) = Decoded(DigestAt(n))
    BY DEF MultiplesDecode
  <2>. DEFINE row == log[n + 1]
              from == IF IsCheckpoint(n, every) THEN n ELSE Back(n, every)
  <2>1. n \in Nat /\ row \in RowTypes /\ RowDecodes(log, n) /\ every \in Nat \ {0}
    BY DeltaAssumption DEF Revisions, TypeOK, RowsDecode
  <2>2. WindowStart(log, every, n) = from
    BY <2>1 DEF WindowStart, Unconfigured
  <2>3. from \in 0 .. n
    BY <2>1 DEF Back
  <2>4. CASE row.encoding = "snapshot/1"
    <3>1. FromCheckpoint(log, n, n) = Decoded(row.digest)
      BY <2>1, <2>4 DEF RowDecodes
    <3>2. Starts(log, from, n, n)
      BY <2>1, <2>3, <2>4 DEF Starts
    <3>. HIDE DEF from
    <3>. QED  BY <2>1, <2>2, <2>3, <3>1, <3>2, DecodeFrom DEF Decode, DigestAt
  <2>5. CASE row.encoding = "delta/1"
    <3>. DEFINE own == row.payload.every
    <3>1. own \in Nat \ {0} /\ Divides(own, every) /\ ~Divides(own, n)
      BY <2>1, <2>5, DeltaAssumption DEF RowTypes, Deltas, Aligned, RowDecodes, IsCheckpoint
    <3>2. PICK c : Starts(log, Back(n, own), c, n) /\ FromCheckpoint(log, c, n) = Decoded(row.digest)
      BY <2>1, <2>5 DEF RowDecodes
    <3>. HIDE DEF own
    <3>3. ~IsCheckpoint(n, every)
      BY <2>1, <3>1, DividesTransitive DEF IsCheckpoint
    <3>4. own <= every
      BY <2>1, <3>1, DividesBounds
    <3>5. from = Back(n, every) /\ from <= Back(n, own) /\ Back(n, own) \in Nat
      BY <2>1, <3>1, <3>3, <3>4 DEF Back
    <3>6. Starts(log, from, c, n)
      BY <2>1, <2>3, <3>2, <3>5 DEF Starts
    <3>. HIDE DEF from
    <3>. QED  BY <2>1, <2>2, <2>3, <3>2, <3>6, DecodeFrom DEF Decode, DigestAt
  <2>. QED  BY <2>1, <2>4, <2>5 DEF RowTypes
<1>. QED  BY <1>1, Decodes, PTL

-----------------------------------------------------------------------------
(* A chain of rows, applied one by one.                                    *)

LEMMA LeastOf ==
    ASSUME NEW T, T \subseteq Nat, T # {}
    PROVE  \E x \in T : \A y \in T : x <= y
<1>1. PICK x \in T : \A y \in T : ~(<<y, x>> \in OpToRel(<, Nat))
  BY NatLessThanWellFounded, WFMin
<1>2. \A y \in T : ~(y < x)
  BY <1>1 DEF OpToRel
<1>. QED  BY <1>2

NextOf(w, n, doc) ==
    IF doc.ok /\ w[n].payload.base = n - 1 THEN Decoded(Apply(w[n].payload, doc.doc))
    ELSE Undecodable

IsChain(f, w, from, to) ==
    f = [n \in from .. to |-> IF n = from THEN Decoded(w[from].payload) ELSE NextOf(w, n, f[n - 1])]

LEMMA ChainExists ==
    ASSUME NEW w, NEW from \in Nat, NEW to \in Nat, from <= to
    PROVE  \E f : IsChain(f, w, from, to)
<1>. DEFINE Bad == {j \in Nat : from <= j /\ ~\E f : IsChain(f, w, from, j)}
<1>. SUFFICES ASSUME Bad # {} PROVE FALSE
  OBVIOUS
<1>1. PICK j \in Bad : \A i \in Bad : j <= i
  BY LeastOf
<1>2. CASE j = from
  <2>1. IsChain([n \in from .. from |-> Decoded(w[from].payload)], w, from, from)
    BY DEF IsChain
  <2>. QED  BY <1>2, <2>1
<1>3. CASE j # from
  <2>1. j - 1 \in Nat /\ from <= j - 1 /\ j - 1 \notin Bad
    BY <1>1, <1>3
  <2>2. PICK f : IsChain(f, w, from, j - 1)
    BY <2>1
  <2>. DEFINE g == [n \in from .. j |-> IF n = j THEN NextOf(w, j, f[j - 1]) ELSE f[n]]
  <2>3. \A n \in from .. j - 1 :
          f[n] = IF n = from THEN Decoded(w[from].payload) ELSE NextOf(w, n, f[n - 1])
    BY <2>2 DEF IsChain
  <2>4. \A n \in from .. j :
          g[n] = IF n = from THEN Decoded(w[from].payload) ELSE NextOf(w, n, g[n - 1])
    BY <1>3, <2>1, <2>3
  <2>5. IsChain(g, w, from, j)
    BY <2>4 DEF IsChain
  <2>. QED  BY <2>5
<1>. QED  BY <1>2, <1>3

LEMMA ChainIs ==
    ASSUME NEW w, NEW from \in Nat, NEW to \in Nat, from <= to
    PROVE  \E f : f[to] = Chain(w, from, to) /\ IsChain(f, w, from, to)
<1>1. \E f : IsChain(f, w, from, to)
  BY ChainExists
<1>2. PICK d : d = CHOOSE f : IsChain(f, w, from, to)
  OBVIOUS
<1>3. IsChain(d, w, from, to)
  BY <1>1, <1>2
<1>4. Chain(w, from, to) = d[to]
  BY <1>2 DEF Chain, IsChain, NextOf
<1>. QED  BY <1>3, <1>4

(* Two chains over the same rows agree, whatever comes after.              *)
LEMMA ChainsAgree ==
    ASSUME NEW rows, NEW c \in Nat, NEW m \in Nat, NEW n \in Nat, c <= m, m <= n,
           NEW f, IsChain(f, Window(rows, c, m), c, m),
           NEW g, IsChain(g, Window(rows, c, n), c, n)
    PROVE  f[m] = g[m]
<1>. DEFINE Bad == {j \in c .. m : f[j] # g[j]}
<1>1. \A j \in c .. m :
        f[j] = IF j = c THEN Decoded(rows[c + 1].payload)
               ELSE IF f[j - 1].ok /\ rows[j + 1].payload.base = j - 1
                    THEN Decoded(Apply(rows[j + 1].payload, f[j - 1].doc)) ELSE Undecodable
  BY DEF IsChain, NextOf, Window
<1>2. \A j \in c .. n :
        g[j] = IF j = c THEN Decoded(rows[c + 1].payload)
               ELSE IF g[j - 1].ok /\ rows[j + 1].payload.base = j - 1
                    THEN Decoded(Apply(rows[j + 1].payload, g[j - 1].doc)) ELSE Undecodable
  BY DEF IsChain, NextOf, Window
<1>. SUFFICES ASSUME Bad # {} PROVE FALSE
  OBVIOUS
<1>3. Bad \subseteq Nat
  OBVIOUS
<1>4. PICK j \in Bad : \A i \in Bad : j <= i
  BY <1>3, LeastOf
<1>5. j # c
  <2>1. c \in c .. m /\ c \in c .. n
    OBVIOUS
  <2>2. f[c] = Decoded(rows[c + 1].payload)
    BY <1>1, <2>1
  <2>3. g[c] = Decoded(rows[c + 1].payload)
    BY <1>2, <2>1
  <2>4. f[j] # g[j]
    BY <1>4
  <2>. QED  BY <2>2, <2>3, <2>4
<1>6. j - 1 \in c .. m /\ f[j - 1] = g[j - 1]
  BY <1>4, <1>5
<1>. QED  BY <1>1, <1>2, <1>4, <1>5, <1>6

LEMMA FromCheckpointIs ==
    ASSUME NEW rows, NEW c \in Nat, NEW n \in Nat, c <= n
    PROVE  FromCheckpoint(rows, c, n) =
             IF n = c THEN Decoded(rows[c + 1].payload)
             ELSE IF /\ FromCheckpoint(rows, c, n - 1).ok
                     /\ rows[n + 1].payload.base = n - 1
                  THEN Decoded(Apply(rows[n + 1].payload, FromCheckpoint(rows, c, n - 1).doc))
                  ELSE Undecodable
<1>1. PICK g : g[n] = FromCheckpoint(rows, c, n) /\ IsChain(g, Window(rows, c, n), c, n)
  BY ChainIs DEF FromCheckpoint
<1>2. g[n] = IF n = c THEN Decoded(rows[c + 1].payload)
             ELSE IF g[n - 1].ok /\ rows[n + 1].payload.base = n - 1
                  THEN Decoded(Apply(rows[n + 1].payload, g[n - 1].doc)) ELSE Undecodable
  BY <1>1 DEF IsChain, NextOf, Window
<1>3. CASE n = c
  BY <1>1, <1>2, <1>3
<1>4. CASE n # c
  <2>1. n - 1 \in Nat /\ c <= n - 1 /\ n - 1 <= n
    BY <1>4
  <2>2. PICK f : /\ f[n - 1] = FromCheckpoint(rows, c, n - 1)
                 /\ IsChain(f, Window(rows, c, n - 1), c, n - 1)
    BY <2>1, ChainIs DEF FromCheckpoint
  <2>3. f[n - 1] = g[n - 1]
    BY <1>1, <2>1, <2>2, ChainsAgree
  <2>. QED  BY <1>1, <1>2, <1>4, <2>2, <2>3
<1>. QED  BY <1>3, <1>4

(* There is one newest checkpoint, wherever a window that has it starts.   *)
LEMMA StartsOnce ==
    ASSUME NEW rows, NEW a \in Nat, NEW b \in Nat, NEW n \in Nat, NEW c, NEW d,
           Starts(rows, a, c, n), Starts(rows, b, d, n)
    PROVE  c = d
<1>1. c \in 0 .. n /\ d \in 0 .. n
  BY DEF Starts
<1>2. ~(c < d) /\ ~(d < c)
  BY <1>1 DEF Starts
<1>. QED  BY <1>1, <1>2

LEMMA DecodedIs ==
    ASSUME NEW doc, NEW other
    PROVE  /\ Decoded(doc).ok /\ Decoded(doc).doc = doc /\ Decoded(doc) # Undecodable
           /\ (Decoded(doc) = Decoded(other)) => doc = other
<1>1. Decoded(doc).ok /\ Decoded(doc).doc = doc /\ Decoded(other).doc = other
  BY DEF Decoded
<1>2. ~Undecodable.ok
  BY DEF Undecodable
<1>. QED  BY <1>1, <1>2

LEMMA RowAnchored ==
    ASSUME TypeOK, RowsDecode, NEW n \in Revisions
    PROVE  /\ log[n + 1] \in RowTypes /\ n \in Nat
           /\ \E c : /\ Starts(log, 0, c, n)
                     /\ FromCheckpoint(log, c, n) = Decoded(DigestAt(n))
           /\ log[n + 1].encoding = "delta/1" =>
                /\ n > 0 /\ log[n + 1].payload.every \in Nat \ {0}
                /\ ~IsCheckpoint(n, log[n + 1].payload.every)
<1>1. n \in Nat /\ log[n + 1] \in RowTypes /\ RowDecodes(log, n)
  BY DEF Revisions, TypeOK, RowsDecode
<1>2. CASE log[n + 1].encoding = "snapshot/1"
  <2>1. Starts(log, 0, n, n)
    BY <1>1, <1>2 DEF Starts
  <2>. QED  BY <1>1, <1>2, <2>1 DEF RowDecodes, DigestAt
<1>3. CASE log[n + 1].encoding = "delta/1"
  <2>. DEFINE own == log[n + 1].payload.every
  <2>1. own \in Nat \ {0} /\ ~Divides(own, n)
    BY <1>1, <1>3, DeltaAssumption DEF RowTypes, Deltas, RowDecodes, IsCheckpoint
  <2>2. PICK c : Starts(log, Back(n, own), c, n)
                 /\ FromCheckpoint(log, c, n) = Decoded(log[n + 1].digest)
    BY <1>1, <1>3 DEF RowDecodes
  <2>. HIDE DEF own
  <2>3. Starts(log, 0, c, n)
    BY <1>1, <2>1, <2>2 DEF Starts, Back
  <2>4. n # 0
    <3>1. 0 = own * 0 /\ 0 \in 0 .. 0
      BY <2>1
    <3>. QED  BY <2>1, <3>1 DEF Divides
  <2>. QED  BY <1>1, <2>1, <2>2, <2>3, <2>4 DEF DigestAt, IsCheckpoint, own
<1>. QED  BY <1>1, <1>2, <1>3 DEF RowTypes

(* Each row's document is its payload, or its payload applied to the       *)
(* document of the row before.                                             *)
LEMMA Consecutive ==
    ASSUME TypeOK, RowsDecode, NEW n \in Revisions
    PROVE  DigestAt(n) = IF log[n + 1].encoding = "snapshot/1" THEN log[n + 1].payload
                         ELSE Apply(log[n + 1].payload, DigestAt(n - 1))
<1>0. n \in Nat /\ log[n + 1] \in RowTypes
  BY RowAnchored
<1>1. PICK c : Starts(log, 0, c, n) /\ FromCheckpoint(log, c, n) = Decoded(DigestAt(n))
  BY RowAnchored
<1>2. CASE log[n + 1].encoding = "snapshot/1"
  <2>1. Starts(log, 0, n, n)
    BY <1>0, <1>2 DEF Starts
  <2>2. c = n
    BY <1>0, <1>1, <2>1, StartsOnce
  <2>3. Decoded(DigestAt(n)) = Decoded(log[n + 1].payload)
    BY <1>0, <1>1, <2>2, FromCheckpointIs
  <2>. QED  BY <1>2, <2>3, DecodedIs
<1>3. CASE log[n + 1].encoding = "delta/1"
  <2>1. c \in 0 .. n /\ c # n /\ n > 0
    BY <1>1, <1>3, RowAnchored DEF Starts
  <2>2. n - 1 \in Revisions /\ n - 1 \in Nat
    BY <1>0, <2>1 DEF Revisions
  <2>3. PICK d : Starts(log, 0, d, n - 1) /\ FromCheckpoint(log, d, n - 1) = Decoded(DigestAt(n - 1))
    BY <2>2, RowAnchored
  <2>4. Starts(log, 0, c, n - 1)
    BY <1>0, <1>1, <2>1 DEF Starts
  <2>5. c = d
    BY <2>2, <2>3, <2>4, StartsOnce
  <2>6. FromCheckpoint(log, c, n - 1).doc = DigestAt(n - 1)
    BY <2>3, <2>5, DecodedIs
  <2>7. Decoded(DigestAt(n)) =
          IF FromCheckpoint(log, c, n - 1).ok /\ log[n + 1].payload.base = n - 1
          THEN Decoded(Apply(log[n + 1].payload, DigestAt(n - 1))) ELSE Undecodable
    <3>1. c \in Nat /\ c <= n
      BY <2>1
    <3>2. FromCheckpoint(log, c, n) =
             IF n = c THEN Decoded(log[c + 1].payload)
             ELSE IF /\ FromCheckpoint(log, c, n - 1).ok
                     /\ log[n + 1].payload.base = n - 1
                  THEN Decoded(Apply(log[n + 1].payload, FromCheckpoint(log, c, n - 1).doc))
                  ELSE Undecodable
      BY <1>0, <3>1, FromCheckpointIs
    <3>. QED  BY <1>1, <2>1, <2>6, <3>2
  <2>8. Decoded(DigestAt(n)) = Decoded(Apply(log[n + 1].payload, DigestAt(n - 1)))
    BY <2>7, DecodedIs
  <2>. QED  BY <1>3, <2>8, DecodedIs
<1>. QED  BY <1>0, <1>2, <1>3 DEF RowTypes

-----------------------------------------------------------------------------
(* The fold of a rebuild.                                                  *)

IsFold(f, rows, m) ==
    f = [n \in 0 .. m |->
           IF n = 0 THEN Empty
           ELSE IF rows[n].encoding = "snapshot/1" THEN rows[n].payload
           ELSE Apply(rows[n].payload, f[n - 1])]

LEMMA FoldExists ==
    ASSUME NEW rows, NEW m \in Nat
    PROVE  \E f : IsFold(f, rows, m)
<1>. DEFINE Bad == {j \in Nat : ~\E f : IsFold(f, rows, j)}
<1>. SUFFICES ASSUME Bad # {} PROVE FALSE
  OBVIOUS
<1>1. PICK j \in Bad : \A i \in Bad : j <= i
  BY LeastOf
<1>2. CASE j = 0
  <2>1. IsFold([n \in 0 .. 0 |-> Empty], rows, 0)
    BY DEF IsFold
  <2>. QED  BY <1>2, <2>1
<1>3. CASE j # 0
  <2>1. j - 1 \in Nat /\ j - 1 \notin Bad
    BY <1>1, <1>3
  <2>2. PICK f : IsFold(f, rows, j - 1)
    BY <2>1
  <2>. DEFINE top == IF rows[j].encoding = "snapshot/1" THEN rows[j].payload
                     ELSE Apply(rows[j].payload, f[j - 1])
              g == [n \in 0 .. j |-> IF n = j THEN top ELSE f[n]]
  <2>3. \A n \in 0 .. j - 1 :
          f[n] = IF n = 0 THEN Empty
                 ELSE IF rows[n].encoding = "snapshot/1" THEN rows[n].payload
                 ELSE Apply(rows[n].payload, f[n - 1])
    BY <2>2 DEF IsFold
  <2>4. \A n \in 0 .. j :
          g[n] = IF n = 0 THEN Empty
                 ELSE IF rows[n].encoding = "snapshot/1" THEN rows[n].payload
                 ELSE Apply(rows[n].payload, g[n - 1])
    BY <1>3, <2>1, <2>3
  <2>5. IsFold(g, rows, j)
    BY <2>4 DEF IsFold
  <2>. QED  BY <2>5
<1>. QED  BY <1>2, <1>3

LEMMA FoldIs ==
    ASSUME NEW rows, Len(rows) \in Nat
    PROVE  \E f : Fold(rows) = f[Len(rows)] /\ IsFold(f, rows, Len(rows))
<1>1. \E f : IsFold(f, rows, Len(rows))
  BY FoldExists
<1>2. PICK d : d = CHOOSE f : IsFold(f, rows, Len(rows))
  OBVIOUS
<1>3. IsFold(d, rows, Len(rows))
  BY <1>1, <1>2
<1>4. Fold(rows) = d[Len(rows)]
  BY <1>2 DEF Fold, IsFold
<1>. QED  BY <1>3, <1>4

(* The head has the newest row's document.                                 *)
HeadInv == head = IF log = <<>> THEN Empty ELSE DigestAt(Len(log) - 1)

LEMMA FoldIsHead ==
    ASSUME TypeOK, RowsDecode
    PROVE  HeadIsFold <=> HeadInv
<1>0. Len(log) \in Nat /\ (log = <<>> <=> Len(log) = 0)
  BY DEF TypeOK
<1>1. PICK f : Fold(log) = f[Len(log)] /\ IsFold(f, log, Len(log))
  BY <1>0, FoldIs
<1>2. \A n \in 0 .. Len(log) :
        f[n] = IF n = 0 THEN Empty
               ELSE IF log[n].encoding = "snapshot/1" THEN log[n].payload
               ELSE Apply(log[n].payload, f[n - 1])
  BY <1>1 DEF IsFold
<1>. DEFINE Bad == {n \in 1 .. Len(log) : f[n] # DigestAt(n - 1)}
<1>3. Bad = {}
  <2>. SUFFICES ASSUME Bad # {} PROVE FALSE
    OBVIOUS
  <2>1. Bad \subseteq Nat
    OBVIOUS
  <2>2. PICK n \in Bad : \A i \in Bad : n <= i
    BY <2>1, LeastOf
  <2>3. n - 1 \in Revisions /\ n \in 0 .. Len(log) /\ n # 0 /\ n \in Nat
    BY <1>0, <2>2 DEF Revisions
  <2>4. DigestAt(n - 1) = IF log[n].encoding = "snapshot/1" THEN log[n].payload
                          ELSE Apply(log[n].payload, DigestAt(n - 2))
    <3>1. (n - 1) + 1 = n /\ (n - 1) - 1 = n - 2
      BY <2>3
    <3>. QED  BY <2>3, <3>1, Consecutive
  <2>5. CASE log[n].encoding = "snapshot/1"
    BY <1>2, <2>2, <2>3, <2>4, <2>5
  <2>6. CASE log[n].encoding # "snapshot/1"
    <3>1. n > 1
      <4>1. log[(n - 1) + 1] \in RowTypes /\ (n - 1) + 1 = n
        BY <2>3, RowAnchored
      <4>2. log[(n - 1) + 1].encoding = "delta/1"
        BY <2>6, <4>1 DEF RowTypes
      <4>. QED  BY <2>3, <4>2, RowAnchored
    <3>2. n - 1 \in 1 .. Len(log) /\ n - 1 \notin Bad /\ (n - 1) - 1 = n - 2
      BY <1>0, <2>2, <2>3, <3>1
    <3>3. f[n - 1] = DigestAt(n - 2)
      BY <3>2
    <3>. QED  BY <1>2, <2>2, <2>3, <2>4, <2>6, <3>3
  <2>. QED  BY <2>5, <2>6
<1>4. CASE Len(log) = 0
  BY <1>0, <1>1, <1>2, <1>4 DEF HeadIsFold, HeadInv
<1>5. CASE Len(log) # 0
  <2>1. f[Len(log)] = DigestAt(Len(log) - 1)
    BY <1>0, <1>3, <1>5
  <2>. QED  BY <1>0, <1>1, <1>5, <2>1 DEF HeadIsFold, HeadInv
<1>. QED  BY <1>4, <1>5

LEMMA HeadStep == TypeOK /\ HeadInv /\ [Next]_vars => HeadInv'
<1>. SUFFICES ASSUME TypeOK, HeadInv, [Next]_vars PROVE HeadInv'
  OBVIOUS
<1>1. CASE log' = log
  <2>1. head' = head
    <3>1. CASE UNCHANGED vars
      BY <3>1 DEF vars
    <3>2. ASSUME NEW config \in Configs, NEW doc \in Documents, Commit(config, doc)
          PROVE  head' = head
      <4>1. Append(log, RowFor(config, doc)) # log
        <5>1. log \in Seq(RowTypes) /\ RowFor(config, doc) \in RowTypes
          BY RowForType DEF TypeOK
        <5>2. Len(Append(log, RowFor(config, doc))) = Len(log) + 1 /\ Len(log) \in Nat
          BY <5>1
        <5>. QED  BY <5>2
      <4>. QED  BY <1>1, <3>2, <4>1 DEF Commit
    <3>. QED  BY <3>1, <3>2 DEF Next
  <2>. QED  BY <1>1, <2>1 DEF HeadInv, DigestAt
<1>2. CASE log' # log
  <2>1. PICK config \in Configs, doc \in Documents : Commit(config, doc)
    BY <1>2 DEF Next, vars
  <2>2. /\ log' = Append(log, RowFor(config, doc)) /\ head' = doc
        /\ RowFor(config, doc).digest = doc /\ RowFor(config, doc) \in RowTypes
    BY <1>2, <2>1, Accepted, RowForType
  <2>3. Len(log') = Len(log) + 1 /\ Len(log) \in Nat /\ log'[Len(log')] = RowFor(config, doc)
        /\ log' # <<>>
    BY <2>2 DEF TypeOK
  <2>. QED  BY <2>2, <2>3 DEF HeadInv, DigestAt
<1>. QED  BY <1>1, <1>2

LEMMA Derived == Spec => [](TypeOK /\ RowsDecode /\ HeadInv)
<1>1. Init => HeadInv
  BY DEF Init, HeadInv
<1>. QED  BY <1>1, Decodes, HeadStep, PTL DEF Spec

(* The head of an aggregate is what a rebuild folds its log to, and every  *)
(* variable keeps its type.                                                *)
THEOREM HeadsAreDerived == Spec => []HeadIsDerived
<1>1. TypeOK /\ RowsDecode /\ HeadInv => HeadIsDerived
  BY FoldIsHead DEF HeadIsDerived
<1>. QED  BY <1>1, Derived, PTL

-----------------------------------------------------------------------------
(* What a commit's own check decodes.                                      *)

LEMMA SnapshotIsFaithful ==
    ASSUME TypeOK, NEW config \in Configs, NEW doc \in Documents, Snapshot(config, Len(log))
    PROVE  Decode(Append(log, RowFor(config, doc)), config, Len(log)) = Decoded(doc)
<1>. DEFINE n == Len(log)
            rows == Append(log, RowFor(config, doc))
<1>1. /\ RowFor(config, doc).encoding = "snapshot/1" /\ RowFor(config, doc).payload = doc
      /\ RowFor(config, doc) \in RowTypes
  BY RowForType DEF RowFor
<1>2. n \in Nat /\ rows[n + 1] = RowFor(config, doc)
  BY <1>1 DEF TypeOK
<1>3. WindowStart(rows, config, n) \in 0 .. n
  <2>1. CASE config # Unconfigured
    <3>1. config \in Nat
      BY <2>1, DeltaAssumption DEF Configs
    <3>. QED  BY <1>2, <2>1, <3>1 DEF WindowStart, Back
  <2>2. CASE config = Unconfigured
    BY <1>1, <1>2, <2>2 DEF WindowStart
  <2>. QED  BY <2>1, <2>2
<1>. HIDE DEF rows
<1>4. Starts(rows, WindowStart(rows, config, n), n, n)
  BY <1>1, <1>2, <1>3 DEF Starts
<1>5. DecodeWindow(rows, WindowStart(rows, config, n), n) = FromCheckpoint(rows, n, n)
  BY <1>2, <1>3, <1>4, DecodeFrom
<1>6. FromCheckpoint(rows, n, n) = Decoded(doc)
  BY <1>1, <1>2, FromCheckpointIs
<1>. QED  BY <1>5, <1>6 DEF Decode, rows

(* A delta is applied to the head, if the store's interval reaches back to *)
(* a checkpoint.                                                           *)
LEMMA DeltaIsApplied ==
    ASSUME TypeOK, RowsDecode, HeadInv, NEW config \in Configs, NEW doc \in Documents,
           ~Snapshot(config, Len(log))
    PROVE  LET decoded == Decode(Append(log, RowFor(config, doc)), config, Len(log))
           IN  /\ decoded = Undecodable \/ decoded = Decoded(Apply(Diff(doc, head), head))
               /\ (\E m \in Back(Len(log), config) .. Len(log) - 1 :
                     log[m + 1].encoding = "snapshot/1") => decoded # Undecodable
<1>. DEFINE n == Len(log)
            row == RowFor(config, doc)
            rows == Append(log, row)
            from == Back(n, config)
<1>1. /\ n \in Nat \ {0} /\ config \in Intervals /\ config \in Nat \ {0}
      /\ config # Unconfigured /\ ~IsCheckpoint(n, config)
  BY DeltaAssumption DEF Snapshot, Configs, TypeOK, Unconfigured
<1>2. /\ row.encoding = "delta/1" /\ row.payload.base = n - 1
      /\ Apply(row.payload, head) = Apply(Diff(doc, head), head)
  BY DEF RowFor, Apply
<1>3. row \in RowTypes
  BY RowForType
<1>4. /\ rows[n + 1] = row /\ \A m \in 0 .. n - 1 : rows[m + 1] = log[m + 1]
      /\ rows \in Seq(RowTypes)
  BY <1>3 DEF TypeOK
<1>5. WindowStart(rows, config, n) = from /\ from \in 0 .. n
  BY <1>1 DEF WindowStart, Back
<1>. DEFINE found == Checkpoints(Window(rows, from, n))
<1>. HIDE DEF rows, row, from
<1>6. Decode(rows, config, n) = DecodeWindow(rows, from, n)
  BY <1>5 DEF Decode
<1>7. found = {m \in from .. n : rows[m + 1].encoding = "snapshot/1"}
  BY <1>1, <1>5, CheckpointsOf
<1>. HIDE DEF found
<1>8. CASE found = {}
  <2>1. DecodeWindow(rows, from, n) = Undecodable
    BY <1>8 DEF DecodeWindow, found
  <2>2. ASSUME NEW m \in from .. n - 1 PROVE log[m + 1].encoding # "snapshot/1"
    <3>1. m \in 0 .. n - 1 /\ m \in from .. n
      BY <1>1, <1>5
    <3>. QED  BY <1>4, <1>7, <1>8, <3>1
  <2>. QED  BY <1>6, <2>1, <2>2 DEF rows, row, from
<1>9. CASE found # {}
  <2>1. found \subseteq 0 .. n
    BY <1>5, <1>7
  <2>2. Newest(found) \in found /\ \A m \in found : Newest(found) >= m
    BY <1>1, <1>9, <2>1, NewestExists
  <2>3. PICK c : c = Newest(found)
    OBVIOUS
  <2>4. c \in from .. n /\ rows[c + 1].encoding = "snapshot/1"
    BY <1>7, <2>2, <2>3
  <2>5. ASSUME NEW m \in c + 1 .. n PROVE rows[m + 1].encoding # "snapshot/1"
    <3>1. m \in from .. n /\ ~(c >= m)
      BY <1>5, <2>4
    <3>. QED  BY <1>7, <2>2, <2>3, <3>1
  <2>6. Starts(rows, from, c, n)
    BY <2>4, <2>5 DEF Starts
  <2>7. c # n /\ c \in 0 .. n - 1 /\ n - 1 \in Nat
    BY <1>1, <1>2, <1>4, <1>5, <2>4
  <2>8. Starts(log, 0, c, n - 1)
    <3>1. log[c + 1].encoding = "snapshot/1"
      BY <1>4, <2>4, <2>7
    <3>2. ASSUME NEW m \in c + 1 .. n - 1 PROVE log[m + 1].encoding # "snapshot/1"
      <4>1. m \in 0 .. n - 1 /\ m \in c + 1 .. n
        BY <1>1, <2>7
      <4>. QED  BY <1>4, <2>5, <4>1
    <3>. QED  BY <2>7, <3>1, <3>2 DEF Starts
  <2>9. n - 1 \in Revisions
    BY <1>1 DEF Revisions
  <2>10. PICK d : Starts(log, 0, d, n - 1) /\ FromCheckpoint(log, d, n - 1) = Decoded(DigestAt(n - 1))
    BY <2>9, RowAnchored
  <2>11. FromCheckpoint(log, c, n - 1) = Decoded(head)
    <3>1. c = d
      BY <2>7, <2>8, <2>10, StartsOnce
    <3>2. head = DigestAt(n - 1)
      BY <1>1 DEF HeadInv
    <3>. QED  BY <2>10, <3>1, <3>2
  <2>12. FromCheckpoint(rows, c, n - 1) = FromCheckpoint(log, c, n - 1)
    <3>1. Window(rows, c, n - 1) = Window(log, c, n - 1)
      BY <1>4, <2>7 DEF Window
    <3>. QED  BY <3>1 DEF FromCheckpoint
  <2>13. FromCheckpoint(rows, c, n) = Decoded(Apply(row.payload, head))
    <3>1. FromCheckpoint(rows, c, n - 1).ok /\ FromCheckpoint(rows, c, n - 1).doc = head
      BY <2>11, <2>12, DecodedIs
    <3>2. c \in Nat /\ c <= n
      BY <2>7
    <3>3. FromCheckpoint(rows, c, n) =
             IF n = c THEN Decoded(rows[c + 1].payload)
             ELSE IF /\ FromCheckpoint(rows, c, n - 1).ok
                     /\ rows[n + 1].payload.base = n - 1
                  THEN Decoded(Apply(rows[n + 1].payload, FromCheckpoint(rows, c, n - 1).doc))
                  ELSE Undecodable
      BY <1>1, <3>2, FromCheckpointIs
    <3>. QED  BY <1>2, <1>4, <2>7, <3>1, <3>3
  <2>14. DecodeWindow(rows, from, n) = Decoded(Apply(row.payload, head))
    BY <1>1, <1>5, <2>6, <2>13, DecodeFrom
  <2>15. DecodeWindow(rows, from, n) # Undecodable
    BY <2>14, DecodedIs
  <2>. QED  BY <1>2, <1>6, <2>14, <2>15 DEF rows, row, from
<1>. QED  BY <1>8, <1>9

(* An interval that all those in the log divide reaches a checkpoint.      *)
LEMMA AlignedReaches ==
    ASSUME TypeOK, RowsDecode, NEW config \in Intervals, Aligned(config),
           NEW n \in 1 .. Len(log), ~IsCheckpoint(n, config)
    PROVE  \E m \in Back(n, config) .. n - 1 : log[m + 1].encoding = "snapshot/1"
<1>. DEFINE T == {n - config * k : k \in {j \in Nat : config * j <= n}}
<1>0. n \in Nat \ {0} /\ Len(log) \in Nat /\ n <= Len(log) /\ config \in Nat \ {0}
  BY DeltaAssumption DEF TypeOK
<1>1. \A j \in Nat : config * j \in Nat
  BY <1>0
<1>2. T \subseteq Nat
  <2>. SUFFICES ASSUME NEW j \in Nat, config * j <= n PROVE n - config * j \in Nat
    OBVIOUS
  <2>1. config * j \in Nat
    BY <1>1
  <2>. QED  BY <1>0, <2>1
<1>3. n - config * 0 \in T /\ T # {}
  <2>1. 0 \in {j \in Nat : config * j <= n}
    BY <1>0
  <2>. QED  BY <2>1
<1>4. PICK r \in T : \A y \in T : r <= y
  BY <1>2, <1>3, LeastOf
<1>5. PICK k \in Nat : config * k <= n /\ r = n - config * k
  BY <1>4
<1>6. ~(config * (k + 1) <= n)
  <2>. SUFFICES ASSUME config * (k + 1) <= n PROVE FALSE
    OBVIOUS
  <2>1. n - config * (k + 1) \in T
    BY <1>5
  <2>2. config * (k + 1) = config * k + config
    BY <1>0, <1>5
  <2>3. r <= n - config * (k + 1)
    BY <1>4, <2>1
  <2>4. config * k \in Nat
    BY <1>1, <1>5
  <2>5. n - config * k <= n - (config * k + config)
    BY <1>5, <2>2, <2>3
  <2>6. PICK x \in Nat : x = config * k
    BY <2>4
  <2>. QED  BY <1>0, <2>5, <2>6
<1>. DEFINE m == config * k
<1>7. config * (k + 1) = m + config /\ m \in Nat
  BY <1>0, <1>1, <1>5
<1>8. Divides(config, m)
  <2>1. k <= m
    <3>1. (config - 1) * k \in Nat /\ m = k + (config - 1) * k
      BY <1>0, <1>5
    <3>. QED  BY <1>5, <3>1
  <2>2. k \in 0 .. m /\ m = config * k
    BY <1>5, <1>7, <2>1
  <2>. QED  BY <2>2 DEF Divides
<1>9. m <= n /\ m + config > n
  BY <1>0, <1>5, <1>6, <1>7
<1>. HIDE DEF m, T
<1>10. m # n
  BY <1>8 DEF IsCheckpoint
<1>11. m \in Revisions /\ m \in Back(n, config) .. n - 1
  BY <1>0, <1>7, <1>9, <1>10 DEF Revisions, Back
<1>12. log[m + 1].encoding = "snapshot/1"
  <2>. SUFFICES ASSUME log[m + 1].encoding # "snapshot/1" PROVE FALSE
    OBVIOUS
  <2>1. log[m + 1] \in RowTypes
    BY <1>11, RowAnchored
  <2>2. log[m + 1].encoding = "delta/1"
    BY <2>1 DEF RowTypes
  <2>3. /\ log[m + 1].payload.every \in Nat \ {0}
        /\ ~Divides(log[m + 1].payload.every, m)
    BY <1>11, <2>2, RowAnchored DEF IsCheckpoint
  <2>4. Divides(log[m + 1].payload.every, config)
    BY <1>11, <2>2 DEF Aligned
  <2>. QED  BY <1>0, <1>7, <1>8, <2>3, <2>4, DividesTransitive
<1>. QED  BY <1>11, <1>12

(* Applying a difference gives the document, unless values are conflated.  *)
LEMMA DiffApplies ==
    ASSUME NEW doc \in Documents, NEW base \in Documents, ~Conflated(doc, base)
    PROVE  Apply(Diff(doc, base), base) = doc
<1>1. PICK S \in SUBSET Fields : doc \in [S -> Values]
  BY DEF Documents
<1>2. PICK B \in SUBSET Fields : base \in [B -> Values]
  BY DEF Documents
<1>. DEFINE changed == {g \in S : g \in B => ~Unchanged(base[g], doc[g])}
            delta == Diff(doc, base)
<1>3. delta.set = [f \in changed |-> doc[f]] /\ delta.del = B \ S
  BY <1>1, <1>2 DEF Diff
<1>4. \A g \in S : g \notin changed => g \in B /\ base[g] = doc[g]
  BY <1>1, <1>2 DEF Conflated, Unchanged
<1>5. (DOMAIN base \ delta.del) \cup DOMAIN delta.set = S
  BY <1>2, <1>3, <1>4
<1>6. Apply(delta, base) =
        [f \in S |-> IF f \in changed THEN delta.set[f] ELSE base[f]]
  BY <1>3, <1>5 DEF Apply
<1>7. \A f \in S : (IF f \in changed THEN delta.set[f] ELSE base[f]) = doc[f]
  BY <1>3, <1>4
<1>. QED  BY <1>1, <1>6, <1>7

(* A commit is refused by the encoding only when the store's interval does *)
(* not fit the log, or for values that Python conflates.                   *)
THEOREM RefusalsHaveACause == Spec => RefusedForCause
<1>. DEFINE Cause == /\ last'.end = "undecodable" => ~Aligned(last'.config)
                     /\ last'.end = "mismatch" => Conflated(last'.doc, head)
<1>1. TypeOK /\ RowsDecode /\ HeadInv /\ [Next]_vars => [Cause]_vars
  <2>. SUFFICES ASSUME TypeOK, RowsDecode, HeadInv, Next PROVE Cause
    OBVIOUS
  <2>1. PICK config \in Configs, doc \in Documents : Commit(config, doc)
    BY DEF Next
  <2>. DEFINE decoded == Decode(Append(log, RowFor(config, doc)), config, Len(log))
  <2>2. \/ last'.end = "ok"
        \/ /\ decoded # Decoded(doc)
           /\ last' = [config |-> config, doc |-> doc,
                       end |-> IF decoded.ok THEN "mismatch" ELSE "undecodable"]
    BY <2>1 DEF Commit, Faithful
  <2>. HIDE DEF decoded
  <2>3. CASE last'.end = "ok"
    BY <2>3
  <2>4. CASE /\ decoded # Decoded(doc)
             /\ last' = [config |-> config, doc |-> doc,
                         end |-> IF decoded.ok THEN "mismatch" ELSE "undecodable"]
    <3>1. ~Snapshot(config, Len(log))
      BY <2>4, SnapshotIsFaithful DEF decoded
    <3>2. /\ decoded = Undecodable \/ decoded = Decoded(Apply(Diff(doc, head), head))
          /\ (\E m \in Back(Len(log), config) .. Len(log) - 1 :
                log[m + 1].encoding = "snapshot/1") => decoded # Undecodable
      BY <3>1, DeltaIsApplied DEF decoded
    <3>3. CASE decoded = Undecodable
      <4>1. last'.end = "undecodable" /\ last'.config = config
        BY <2>4, <3>3 DEF Undecodable
      <4>2. /\ config \in Intervals /\ ~IsCheckpoint(Len(log), config)
            /\ Len(log) \in 1 .. Len(log)
        BY <3>1 DEF Snapshot, Configs, TypeOK
      <4>. QED  BY <3>2, <3>3, <4>1, <4>2, AlignedReaches
    <3>4. CASE decoded = Decoded(Apply(Diff(doc, head), head))
      <4>1. decoded.ok
        BY <3>4, DecodedIs
      <4>2. last'.end = "mismatch" /\ last'.doc = doc
        BY <2>4, <4>1
      <4>3. head \in Documents /\ Apply(Diff(doc, head), head) # doc
        BY <2>4, <3>4 DEF TypeOK
      <4>. QED  BY <4>2, <4>3, DiffApplies
    <3>. QED  BY <3>2, <3>3, <3>4
  <2>. QED  BY <2>2, <2>3, <2>4
<1>2. Spec => [][Next]_vars
  BY DEF Spec
<1>. QED  BY <1>1, <1>2, Derived, PTL DEF RefusedForCause

-----------------------------------------------------------------------------
(* Predicates: their evaluation is defined by the depth of the tree.       *)

NodeHolds(h, p, view) ==
    \/ p.op = "became" /\ p.key \in view.changed /\ IsValue(view, p)
    \/ p.op = "equals" /\ IsValue(view, p)
    \/ /\ p.op = "at_least" /\ p.key \in DOMAIN view.state
       /\ Number[view.state[p.key]] >= Number[p.value]
    \/ p.op = "and" /\ \A q \in p.terms : h[q]
    \/ p.op = "or" /\ \E q \in p.terms : h[q]

IsTruth(h, S, view) == h = [p \in S |-> NodeHolds(h, p, view)]

UpTo(d) == {p \in Predicates : Depth[p] <= d}

LEMMA TermsAreLess ==
    ASSUME NEW p \in Predicates
    PROVE  /\ Depth[p] \in Nat /\ p.op \in {"became", "equals", "at_least", "and", "or"}
           /\ p.op \in {"and", "or"} =>
                 \A q \in p.terms : q \in Predicates /\ Depth[q] \in Nat /\ Depth[q] < Depth[p]
<1>1. Depth \in [Predicates -> Nat]
  BY ScanAssumption
<1>2. /\ p.op \in {"became", "equals", "at_least", "and", "or"}
      /\ p.op \in {"and", "or"} => \A q \in p.terms : q \in Predicates /\ Depth[q] < Depth[p]
  BY ScanAssumption
<1>. QED  BY <1>1, <1>2

(* What holds of a predicate depends on its terms alone.                   *)
LEMMA SameTerms ==
    ASSUME NEW p \in Predicates, NEW view, NEW g, NEW h,
           p.op \in {"and", "or"} => \A q \in p.terms : g[q] = h[q]
    PROVE  NodeHolds(g, p, view) = NodeHolds(h, p, view)
<1>1. CASE p.op \in {"became", "equals", "at_least"}
  BY <1>1 DEF NodeHolds
<1>2. CASE p.op = "and"
  <2>1. (\A q \in p.terms : g[q]) = (\A q \in p.terms : h[q])
    BY <1>2
  <2>. QED  BY <1>2, <2>1 DEF NodeHolds
<1>3. CASE p.op = "or"
  <2>1. (\E q \in p.terms : g[q]) = (\E q \in p.terms : h[q])
    BY <1>3
  <2>. QED  BY <1>3, <2>1 DEF NodeHolds
<1>. QED  BY <1>1, <1>2, <1>3, TermsAreLess

LEMMA TruthsAgree ==
    ASSUME NEW view, NEW d \in Nat, NEW e \in Nat, d <= e,
           NEW g, IsTruth(g, UpTo(d), view), NEW h, IsTruth(h, UpTo(e), view)
    PROVE  \A p \in UpTo(d) : g[p] = h[p]
<1>. DEFINE Bad == {n \in Nat : \E p \in UpTo(d) : Depth[p] = n /\ g[p] # h[p]}
<1>. SUFFICES ASSUME Bad # {} PROVE FALSE
  BY TermsAreLess DEF UpTo
<1>1. PICK n \in Bad : \A m \in Bad : n <= m
  BY LeastOf
<1>2. PICK p \in UpTo(d) : Depth[p] = n /\ g[p] # h[p]
  BY <1>1
<1>3. p \in Predicates /\ p \in UpTo(e)
  BY <1>2, TermsAreLess DEF UpTo
<1>4. p.op \in {"and", "or"} => \A q \in p.terms : g[q] = h[q]
  <2>. SUFFICES ASSUME p.op \in {"and", "or"}, NEW q \in p.terms PROVE g[q] = h[q]
    OBVIOUS
  <2>1. q \in Predicates /\ Depth[q] \in Nat /\ Depth[q] < n
    BY <1>2, <1>3, TermsAreLess
  <2>2. q \in UpTo(d) /\ Depth[q] \notin Bad
    BY <1>1, <1>2, <2>1, TermsAreLess DEF UpTo
  <2>. QED  BY <2>1, <2>2
<1>5. NodeHolds(g, p, view) = NodeHolds(h, p, view)
  BY <1>3, <1>4, SameTerms
<1>6. g[p] = NodeHolds(g, p, view) /\ h[p] = NodeHolds(h, p, view)
  BY <1>2, <1>3 DEF IsTruth
<1>. QED  BY <1>2, <1>5, <1>6

LEMMA TruthUpTo ==
    ASSUME NEW view, NEW d \in Nat
    PROVE  \E h : IsTruth(h, UpTo(d), view)
<1>. DEFINE Bad == {n \in Nat : ~\E h : IsTruth(h, UpTo(n), view)}
<1>. SUFFICES ASSUME Bad # {} PROVE FALSE
  OBVIOUS
<1>1. PICK n \in Bad : \A m \in Bad : n <= m
  BY LeastOf
<1>2. \E g : \A p \in UpTo(n) :
               p.op \in {"and", "or"} => \A q \in p.terms : g[q] = NodeHolds(g, q, view)
  <2>1. CASE n = 0
    <3>1. ASSUME NEW p \in UpTo(n), p.op \in {"and", "or"}, NEW q \in p.terms PROVE FALSE
      BY <2>1, <3>1, TermsAreLess DEF UpTo
    <3>. QED  BY <3>1
  <2>2. CASE n # 0
    <3>1. n - 1 \in Nat /\ n - 1 \notin Bad
      BY <1>1, <2>2
    <3>2. PICK g : IsTruth(g, UpTo(n - 1), view)
      BY <3>1
    <3>3. ASSUME NEW p \in UpTo(n), p.op \in {"and", "or"}, NEW q \in p.terms
          PROVE  g[q] = NodeHolds(g, q, view)
      <4>1. p \in Predicates /\ Depth[p] <= n
        BY DEF UpTo
      <4>2. q \in Predicates /\ Depth[q] \in Nat /\ Depth[p] \in Nat /\ Depth[q] < Depth[p]
        BY <3>3, <4>1, TermsAreLess
      <4>3. q \in UpTo(n - 1)
        BY <1>1, <4>1, <4>2 DEF UpTo
      <4>. QED  BY <3>2, <4>3 DEF IsTruth
    <3>. QED  BY <3>3
  <2>. QED  BY <2>1, <2>2
<1>3. PICK g : \A p \in UpTo(n) :
                 p.op \in {"and", "or"} => \A q \in p.terms : g[q] = NodeHolds(g, q, view)
  BY <1>2
<1>. DEFINE h == [p \in UpTo(n) |-> NodeHolds(g, p, view)]
<1>4. ASSUME NEW p \in UpTo(n) PROVE h[p] = NodeHolds(h, p, view)
  <2>1. p \in Predicates /\ Depth[p] <= n
    BY DEF UpTo
  <2>2. p.op \in {"and", "or"} => \A q \in p.terms : g[q] = h[q]
    <3>. SUFFICES ASSUME p.op \in {"and", "or"}, NEW q \in p.terms PROVE g[q] = h[q]
      OBVIOUS
    <3>1. q \in Predicates /\ Depth[q] \in Nat /\ Depth[p] \in Nat /\ Depth[q] < Depth[p]
      BY <2>1, TermsAreLess
    <3>2. q \in UpTo(n)
      BY <1>1, <2>1, <3>1 DEF UpTo
    <3>3. g[q] = NodeHolds(g, q, view)
      BY <1>3
    <3>. QED  BY <3>2, <3>3
  <2>. HIDE DEF h
  <2>3. NodeHolds(g, p, view) = NodeHolds(h, p, view)
    BY <2>1, <2>2, SameTerms
  <2>. QED  BY <2>3 DEF h
<1>5. h = [p \in UpTo(n) |-> h[p]]
  OBVIOUS
<1>. HIDE DEF h
<1>6. IsTruth(h, UpTo(n), view)
  <2>1. h = [p \in UpTo(n) |-> NodeHolds(h, p, view)]
    BY <1>4, <1>5
  <2>. QED  BY <2>1 DEF IsTruth
<1>. QED  BY <1>1, <1>6

(* A predicate holds by what holds of its terms.                           *)
LEMMA EvaluateIs ==
    ASSUME NEW view
    PROVE  \E h : /\ \A p \in Predicates : Evaluate(p, view) = h[p]
                  /\ \A p \in Predicates : h[p] = NodeHolds(h, p, view)
<1>. DEFINE T(d) == CHOOSE h : IsTruth(h, UpTo(d), view)
            whole == [p \in Predicates |-> T(Depth[p])[p]]
<1>1. \A d \in Nat : IsTruth(T(d), UpTo(d), view)
  BY TruthUpTo
<1>. HIDE DEF T
<1>2. ASSUME NEW p \in Predicates PROVE whole[p] = NodeHolds(whole, p, view)
  <2>1. PICK d \in Nat : d = Depth[p]
    BY TermsAreLess
  <2>2. p \in UpTo(d) /\ IsTruth(T(d), UpTo(d), view)
    BY <1>1, <2>1 DEF UpTo
  <2>3. p.op \in {"and", "or"} => \A q \in p.terms : T(d)[q] = whole[q]
    <3>. SUFFICES ASSUME p.op \in {"and", "or"}, NEW q \in p.terms PROVE T(d)[q] = whole[q]
      OBVIOUS
    <3>1. PICK e \in Nat : e = Depth[q] /\ q \in Predicates /\ e <= d
      BY <2>1, TermsAreLess
    <3>2. q \in UpTo(e) /\ IsTruth(T(e), UpTo(e), view)
      BY <1>1, <3>1 DEF UpTo
    <3>3. T(e)[q] = T(d)[q]
      BY <2>2, <3>1, <3>2, TruthsAgree
    <3>. QED  BY <3>1, <3>3
  <2>4. T(d)[p] = NodeHolds(T(d), p, view)
    BY <2>2 DEF IsTruth
  <2>5. whole[p] = T(d)[p]
    BY <2>1
  <2>. HIDE DEF whole
  <2>6. NodeHolds(T(d), p, view) = NodeHolds(whole, p, view)
    BY <2>3, SameTerms
  <2>. QED  BY <2>4, <2>5, <2>6
<1>3. whole = [p \in Predicates |-> whole[p]]
  OBVIOUS
<1>. HIDE DEF whole
<1>4. IsTruth(whole, Predicates, view)
  <2>1. whole = [p \in Predicates |-> NodeHolds(whole, p, view)]
    BY <1>2, <1>3
  <2>. QED  BY <2>1 DEF IsTruth
<1>5. PICK h : h = CHOOSE g : IsTruth(g, Predicates, view)
  OBVIOUS
<1>6. IsTruth(h, Predicates, view)
  BY <1>4, <1>5
<1>7. \A p \in Predicates : Evaluate(p, view) = h[p]
  BY <1>5, Zenon DEF Evaluate, IsTruth, NodeHolds
<1>8. \A p \in Predicates : h[p] = NodeHolds(h, p, view)
  BY <1>6 DEF IsTruth
<1>. QED  BY <1>7, <1>8

(* Whoever sees the same document, and of its keys no fewer as changed,    *)
(* finds no fewer predicates to hold: none of them negates.                *)
LEMMA EvaluateGrows ==
    ASSUME NEW one, NEW two, one.state = two.state,
           \A f \in DOMAIN one.state : f \in one.changed => f \in two.changed
    PROVE  FilteredIntents(one) \subseteq FilteredIntents(two)
<1>1. PICK g : /\ \A p \in Predicates : Evaluate(p, one) = g[p]
               /\ \A p \in Predicates : g[p] = NodeHolds(g, p, one)
  BY EvaluateIs
<1>2. PICK h : /\ \A p \in Predicates : Evaluate(p, two) = h[p]
               /\ \A p \in Predicates : h[p] = NodeHolds(h, p, two)
  BY EvaluateIs
<1>. DEFINE Bad == {n \in Nat : \E p \in Predicates : Depth[p] = n /\ g[p] /\ ~h[p]}
<1>3. Bad = {}
  <2>. SUFFICES ASSUME Bad # {} PROVE FALSE
    OBVIOUS
  <2>1. PICK n \in Bad : \A m \in Bad : n <= m
    BY LeastOf
  <2>2. PICK p \in Predicates : Depth[p] = n /\ g[p] /\ ~h[p]
    BY <2>1
  <2>3. NodeHolds(g, p, one) /\ ~NodeHolds(h, p, two)
    BY <1>1, <1>2, <2>2
  <2>4. ASSUME p.op \in {"and", "or"}, NEW q \in p.terms, g[q] PROVE h[q]
    <3>1. q \in Predicates /\ Depth[q] \in Nat /\ Depth[q] < n
      BY <2>2, <2>4, TermsAreLess
    <3>2. Depth[q] \notin Bad
      BY <2>1, <3>1
    <3>. QED  BY <2>4, <3>1, <3>2
  <2>5. IsValue(one, p) = IsValue(two, p)
    BY DEF IsValue
  <2>6. CASE p.op = "became"
    <3>1. p.key \in one.changed /\ IsValue(one, p)
      BY <2>3, <2>6 DEF NodeHolds
    <3>2. p.key \in two.changed
      BY <3>1 DEF IsValue
    <3>. QED  BY <2>3, <2>5, <2>6, <3>1, <3>2 DEF NodeHolds
  <2>7. CASE p.op \in {"equals", "at_least"}
    BY <2>3, <2>5, <2>7 DEF NodeHolds
  <2>8. CASE p.op = "and"
    <3>1. (\A q \in p.terms : g[q]) /\ ~(\A q \in p.terms : h[q])
      BY <2>3, <2>8 DEF NodeHolds
    <3>. QED  BY <2>4, <2>8, <3>1
  <2>9. CASE p.op = "or"
    <3>1. (\E q \in p.terms : g[q]) /\ ~(\E q \in p.terms : h[q])
      BY <2>3, <2>9 DEF NodeHolds
    <3>. QED  BY <2>4, <2>9, <3>1
  <2>. QED  BY <2>6, <2>7, <2>8, <2>9, TermsAreLess
<1>4. \A p \in Predicates : g[p] => h[p]
  BY <1>3, TermsAreLess
<1>5. \A s \in Subs : When[s] \in Predicates
  BY ScanAssumption
<1>. QED  BY <1>1, <1>2, <1>4, <1>5 DEF FilteredIntents

-----------------------------------------------------------------------------
(* The fold of a scan.                                                     *)

IsFoldWindow(f, w, from, to) ==
    f = [n \in from .. to |->
           IF w[n].encoding = "snapshot/1" THEN w[n].payload
           ELSE Apply(w[n].payload, IF n = from THEN Empty ELSE f[n - 1])]

LEMMA FoldWindowExists ==
    ASSUME NEW w, NEW from \in Nat, NEW to \in Nat, from <= to
    PROVE  \E f : IsFoldWindow(f, w, from, to)
<1>. DEFINE Bad == {j \in Nat : from <= j /\ ~\E f : IsFoldWindow(f, w, from, j)}
<1>. SUFFICES ASSUME Bad # {} PROVE FALSE
  OBVIOUS
<1>1. PICK j \in Bad : \A i \in Bad : j <= i
  BY LeastOf
<1>2. CASE j = from
  <2>1. IsFoldWindow([n \in from .. from |->
                        IF w[n].encoding = "snapshot/1" THEN w[n].payload
                        ELSE Apply(w[n].payload, Empty)], w, from, from)
    BY DEF IsFoldWindow
  <2>. QED  BY <1>2, <2>1
<1>3. CASE j # from
  <2>1. j - 1 \in Nat /\ from <= j - 1 /\ j - 1 \notin Bad
    BY <1>1, <1>3
  <2>2. PICK f : IsFoldWindow(f, w, from, j - 1)
    BY <2>1
  <2>. DEFINE top == IF w[j].encoding = "snapshot/1" THEN w[j].payload
                     ELSE Apply(w[j].payload, f[j - 1])
              g == [n \in from .. j |-> IF n = j THEN top ELSE f[n]]
  <2>3. \A n \in from .. j - 1 :
          f[n] = IF w[n].encoding = "snapshot/1" THEN w[n].payload
                 ELSE Apply(w[n].payload, IF n = from THEN Empty ELSE f[n - 1])
    BY <2>2 DEF IsFoldWindow
  <2>4. \A n \in from .. j :
          g[n] = IF w[n].encoding = "snapshot/1" THEN w[n].payload
                 ELSE Apply(w[n].payload, IF n = from THEN Empty ELSE g[n - 1])
    BY <1>3, <2>1, <2>3
  <2>5. IsFoldWindow(g, w, from, j)
    BY <2>4 DEF IsFoldWindow
  <2>. QED  BY <2>5
<1>. QED  BY <1>2, <1>3

LEMMA FoldWindowIs ==
    ASSUME NEW w, NEW from \in Nat, NEW to \in Nat, from <= to
    PROVE  IsFoldWindow(FoldWindow(w, from, to), w, from, to)
<1>1. \E f : IsFoldWindow(f, w, from, to)
  BY FoldWindowExists
<1>2. PICK d : d = CHOOSE f : IsFoldWindow(f, w, from, to)
  OBVIOUS
<1>3. IsFoldWindow(d, w, from, to)
  BY <1>1, <1>2
<1>4. FoldWindow(w, from, to) = d
  BY <1>2 DEF FoldWindow, IsFoldWindow
<1>. QED  BY <1>3, <1>4

(* From the first checkpoint on, a fold has every document.                *)
LEMMA FoldFinds ==
    ASSUME TypeOK, RowsDecode, NEW from \in Nat, NEW to \in Revisions,
           NEW m \in from .. to, log[m + 1].encoding = "snapshot/1",
           NEW n \in m .. to
    PROVE  FoldWindow(Window(log, from, to), from, to)[n] = DigestAt(n)
<1>0. to \in Nat /\ from <= to /\ m \in Nat /\ \A k \in m .. to : k \in Revisions
  BY DEF Revisions, TypeOK
<1>1. PICK docs : docs = FoldWindow(Window(log, from, to), from, to)
  OBVIOUS
<1>2. \A k \in from .. to :
        docs[k] = IF log[k + 1].encoding = "snapshot/1" THEN log[k + 1].payload
                  ELSE Apply(log[k + 1].payload, IF k = from THEN Empty ELSE docs[k - 1])
  <2>1. IsFoldWindow(docs, Window(log, from, to), from, to)
    BY <1>0, <1>1, FoldWindowIs
  <2>. QED  BY <2>1 DEF IsFoldWindow, Window
<1>. DEFINE Bad == {k \in m .. to : docs[k] # DigestAt(k)}
<1>3. Bad = {}
  <2>. SUFFICES ASSUME Bad # {} PROVE FALSE
    OBVIOUS
  <2>1. Bad \subseteq Nat
    BY <1>0
  <2>2. PICK k \in Bad : \A i \in Bad : k <= i
    BY <2>1, LeastOf
  <2>3. k \in from .. to /\ k \in Revisions /\ docs[k] # DigestAt(k)
    BY <1>0, <2>2
  <2>4. DigestAt(k) = IF log[k + 1].encoding = "snapshot/1" THEN log[k + 1].payload
                      ELSE Apply(log[k + 1].payload, DigestAt(k - 1))
    BY <2>3, Consecutive
  <2>5. log[k + 1].encoding # "snapshot/1"
    BY <1>2, <2>3, <2>4
  <2>6. k # m /\ k # from /\ k - 1 \in m .. to /\ ~(k <= k - 1)
    BY <1>0, <2>2, <2>5
  <2>7. docs[k - 1] = DigestAt(k - 1)
    BY <2>2, <2>6
  <2>. QED  BY <1>2, <2>3, <2>4, <2>5, <2>6, <2>7
<1>. QED  BY <1>1, <1>3

-----------------------------------------------------------------------------
(* The scans.                                                              *)

(* The newest row, and the first, which is a snapshot.                     *)
LEMMA NewestRow ==
    ASSUME TypeOK, RowsDecode, log # <<>>
    PROVE  /\ Latest \in Revisions /\ Latest \in Nat /\ Latest <= Len(log)
           /\ Latest # 0 => Latest - 1 \in Revisions /\ Latest \in 1 .. Len(log)
           /\ log[1].encoding = "snapshot/1"
<1>1. Len(log) \in Nat \ {0}
  BY DEF TypeOK
<1>2. 0 \in Revisions
  BY <1>1 DEF Revisions
<1>3. log[0 + 1].encoding = "snapshot/1"
  BY <1>2, RowAnchored DEF RowTypes
<1>. QED  BY <1>1, <1>3 DEF Latest, Revisions

LEMMA SnapshotScansSee ==
    ASSUME TypeOK, RowsDecode
    PROVE  SnapshotScansAgree
<1>. SUFFICES ASSUME log # <<>>, AllSnapshots PROVE SnapshotScansAgree
  BY DEF SnapshotScansAgree
<1>1. \A n \in Revisions : log[n + 1].payload = DigestAt(n)
  BY Consecutive DEF AllSnapshots
<1>2. PICK n : n = Latest
  OBVIOUS
<1>3. /\ n \in Revisions /\ n \in Nat
      /\ n # 0 => n - 1 \in Revisions /\ n - 1 \in Nat /\ (n - 1) + 1 = n
  BY <1>2, NewestRow DEF Revisions
<1>4. log[n + 1].payload = DigestAt(n) /\ (n # 0 => log[n].payload = DigestAt(n - 1))
  BY <1>1, <1>3
<1>5. SnapshotView(n) = PlanView(n)
  BY <1>3, <1>4 DEF SnapshotView, PlanView
<1>6. ASSUME NEW first \in Revisions PROVE BatchedView(first .. n, n) = PlanView(n)
  <2>. DEFINE wanted == {m - 1 : m \in {k \in first .. n : k > 0}}
              prev == [m \in wanted |-> log[m + 1].payload]
  <2>1. n \in first .. n
    BY <1>2, <1>3 DEF Revisions, Latest
  <2>2. n # 0 => prev[n - 1] = DigestAt(n - 1)
    <3>. SUFFICES ASSUME n # 0 PROVE prev[n - 1] = DigestAt(n - 1)
      OBVIOUS
    <3>1. n - 1 \in wanted
      BY <1>3, <2>1
    <3>2. prev[n - 1] = log[(n - 1) + 1].payload
      BY <3>1
    <3>. QED  BY <1>3, <1>4, <3>2
  <2>3. BatchedView(first .. n, n) =
          View(IF n = 0 THEN NoDocument ELSE Decoded(prev[n - 1]), log[n + 1].payload)
    BY DEF BatchedView
  <2>. HIDE DEF prev
  <2>. QED  BY <1>4, <2>2, <2>3 DEF PlanView
<1>. QED  BY <1>2, <1>5, <1>6 DEF SnapshotScansAgree

(* What a scan of a delta log sees of its newest row: what was planned, or *)
(* at a checkpoint of the interval, a part of the document before.         *)
LEMMA DeltaScanSees ==
    ASSUME TypeOK, RowsDecode, log # <<>>, NEW every \in Intervals, Aligned(every)
    PROVE  \/ DeltaView(Latest, every) = PlanView(Latest)
           \/ /\ Latest # 0 /\ IsCheckpoint(Latest, every)
              /\ \E part : /\ DeltaView(Latest, every) = View(Decoded(part), DigestAt(Latest))
                           /\ DOMAIN part \subseteq DOMAIN DigestAt(Latest - 1)
                           /\ \A f \in DOMAIN part : part[f] = DigestAt(Latest - 1)[f]
<1>1. PICK n : n = Latest
  OBVIOUS
<1>2. /\ n \in Revisions /\ n \in Nat /\ every \in Nat \ {0}
      /\ n # 0 => n - 1 \in Revisions /\ n - 1 \in Nat /\ n \in 1 .. Len(log)
      /\ log[1].encoding = "snapshot/1"
  BY <1>1, NewestRow, DeltaAssumption DEF Revisions
<1>3. PICK from : from = ScanStart(n, every)
  OBVIOUS
<1>4. from \in Nat /\ from <= n /\ (n # 0 => from <= n - 1)
  BY <1>2, <1>3 DEF ScanStart, Back
<1>5. PICK docs : docs = FoldWindow(Window(log, from, n), from, n)
  OBVIOUS
<1>6. DeltaView(n, every) = View(IF n = 0 THEN NoDocument ELSE Decoded(docs[n - 1]), docs[n])
  BY <1>3, <1>5 DEF DeltaView
<1>7. ASSUME NEW m \in from .. n, log[m + 1].encoding = "snapshot/1", NEW k \in m .. n
      PROVE  docs[k] = DigestAt(k)
  BY <1>2, <1>4, <1>5, <1>7, FoldFinds
<1>8. CASE n = 0
  <2>1. docs[0] = DigestAt(0)
    <3>1. 0 \in from .. n /\ 0 \in 0 .. n /\ log[0 + 1].encoding = "snapshot/1"
      BY <1>2, <1>4, <1>8
    <3>. QED  BY <1>7, <3>1
  <2>. QED  BY <1>1, <1>6, <1>8, <2>1 DEF PlanView
<1>9. CASE n # 0 /\ ~IsCheckpoint(n, every)
  <2>1. from = Back(n, every)
    BY <1>3, <1>9 DEF ScanStart
  <2>2. PICK m \in from .. n - 1 : log[m + 1].encoding = "snapshot/1"
    BY <1>2, <1>9, <2>1, AlignedReaches
  <2>3. m \in from .. n /\ n - 1 \in m .. n /\ n \in m .. n
    BY <1>2, <1>4, <1>9, <2>2
  <2>4. docs[n - 1] = DigestAt(n - 1) /\ docs[n] = DigestAt(n)
    BY <1>7, <2>2, <2>3
  <2>. QED  BY <1>1, <1>6, <1>9, <2>4 DEF PlanView
<1>10. CASE n # 0 /\ IsCheckpoint(n, every)
  <2>1. from = n - 1
    BY <1>3, <1>10 DEF ScanStart
  <2>2. log[n + 1].encoding = "snapshot/1"
    <3>. SUFFICES ASSUME log[n + 1].encoding # "snapshot/1" PROVE FALSE
      OBVIOUS
    <3>1. log[n + 1].encoding = "delta/1"
      BY <1>2, RowAnchored DEF RowTypes
    <3>2. /\ log[n + 1].payload.every \in Nat \ {0}
          /\ ~Divides(log[n + 1].payload.every, n)
      BY <1>2, <3>1, RowAnchored DEF IsCheckpoint
    <3>3. Divides(log[n + 1].payload.every, every)
      BY <1>2, <3>1 DEF Aligned
    <3>. QED  BY <1>2, <1>10, <3>2, <3>3, DividesTransitive DEF IsCheckpoint
  <2>3. docs[n] = DigestAt(n)
    BY <1>2, <1>4, <1>7, <2>2
  <2>4. n - 1 \in from .. n /\ (n - 1) + 1 = n
    BY <1>2, <1>10, <2>1
  <2>5. CASE log[n].encoding = "snapshot/1"
    <3>1. docs[n - 1] = DigestAt(n - 1)
      BY <1>2, <1>7, <1>10, <2>4, <2>5
    <3>. QED  BY <1>1, <1>6, <1>10, <2>3, <3>1 DEF PlanView
  <2>6. CASE log[n].encoding # "snapshot/1"
    <3>. DEFINE part == docs[n - 1]
                delta == log[n].payload
    <3>1. part = Apply(delta, Empty)
      <4>1. \A k \in from .. n :
              docs[k] = IF log[k + 1].encoding = "snapshot/1" THEN log[k + 1].payload
                        ELSE Apply(log[k + 1].payload, IF k = from THEN Empty ELSE docs[k - 1])
        <5>1. IsFoldWindow(docs, Window(log, from, n), from, n)
          BY <1>2, <1>4, <1>5, FoldWindowIs
        <5>. QED  BY <5>1 DEF IsFoldWindow, Window
      <4>. QED  BY <2>1, <2>4, <2>6, <4>1
    <3>2. DigestAt(n - 1) = Apply(delta, DigestAt(n - 2))
      <4>1. (n - 1) - 1 = n - 2 /\ n - 1 \in Revisions
        BY <1>2, <1>10
      <4>. QED  BY <2>4, <2>6, <4>1, Consecutive
    <3>3. part = [f \in DOMAIN delta.set |-> delta.set[f]]
      BY <3>1 DEF Apply, Empty
    <3>. HIDE DEF part, delta
    <3>4. /\ DOMAIN part \subseteq DOMAIN DigestAt(n - 1)
          /\ \A f \in DOMAIN part : part[f] = DigestAt(n - 1)[f]
      BY <3>2, <3>3 DEF Apply
    <3>5. DeltaView(n, every) = View(Decoded(part), DigestAt(n))
      BY <1>6, <1>10, <2>3 DEF part
    <3>. QED  BY <1>1, <1>10, <3>4, <3>5
  <2>. QED  BY <2>5, <2>6
<1>. QED  BY <1>8, <1>9, <1>10

(* A scan of the log sees what the planner saw, whatever configurations    *)
(* wrote the rows: on snapshots the same view; on deltas the same document *)
(* and between checkpoints the same changes; and always, for every         *)
(* predicate, at least the intents that were sent.                         *)
THEOREM ScansAlwaysAgree == Spec => []ScansAgree
<1>1. TypeOK /\ RowsDecode => ScansAgree
  <2>. SUFFICES ASSUME TypeOK, RowsDecode PROVE ScansAgree
    OBVIOUS
  <2>1. SnapshotScansAgree
    BY SnapshotScansSee
  <2>2. ASSUME log # <<>>, NEW every \in Intervals, Aligned(every)
        PROVE  LET seen == DeltaView(Latest, every)
                   planned == PlanView(Latest)
               IN  /\ seen.state = planned.state /\ seen.kind = planned.kind
                   /\ ~IsCheckpoint(Latest, every) => seen.changed = planned.changed
                   /\ FilteredIntents(planned) \subseteq FilteredIntents(seen)
    <3>1. CASE DeltaView(Latest, every) = PlanView(Latest)
      BY <3>1
    <3>2. CASE DeltaView(Latest, every) # PlanView(Latest)
      <4>. DEFINE before == DigestAt(Latest - 1)
                  after == DigestAt(Latest)
                  planned == PlanView(Latest)
      <4>1. PICK part : /\ Latest # 0 /\ IsCheckpoint(Latest, every)
                        /\ DeltaView(Latest, every) = View(Decoded(part), after)
                        /\ DOMAIN part \subseteq DOMAIN before
                        /\ \A f \in DOMAIN part : part[f] = before[f]
        BY <2>2, <3>2, DeltaScanSees
      <4>2. planned = View(Decoded(before), after)
        BY <4>1 DEF PlanView
      <4>. DEFINE seen == View(Decoded(part), after)
      <4>3. /\ seen = [kind |-> "change", state |-> after, changed |-> ChangedKeys(part, after)]
            /\ planned = [kind |-> "change", state |-> after, changed |-> ChangedKeys(before, after)]
        BY <4>2, DecodedIs DEF View
      <4>. HIDE DEF seen, planned, before, after
      <4>4. \A f \in DOMAIN planned.state : f \in planned.changed => f \in seen.changed
        BY <4>1, <4>3 DEF ChangedKeys
      <4>5. seen.state = planned.state /\ seen.kind = planned.kind
        BY <4>3
      <4>6. FilteredIntents(planned) \subseteq FilteredIntents(seen)
        BY <4>4, <4>5, EvaluateGrows
      <4>. QED  BY <4>1, <4>5, <4>6 DEF seen, planned
    <3>. QED  BY <3>1, <3>2
  <2>3. DeltaScanAgrees
    BY <2>2 DEF DeltaScanAgrees
  <2>4. ScanFindsIntents
    BY <2>2 DEF ScanFindsIntents
  <2>. QED  BY <2>1, <2>3, <2>4 DEF ScansAgree
<1>. QED  BY <1>1, Decodes, PTL

=============================================================================
