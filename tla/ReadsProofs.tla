----------------------------- MODULE ReadsProofs -----------------------------
(* For any number of aggregates, revisions, builds and page sizes, and any *)
(* order of the intents' ids: paging misses nothing that is there all      *)
(* along, and a row that a build agrees to decode reaches the version the  *)
(* build declares.                                                         *)
EXTENDS Reads, FiniteSetTheorems, NaturalsInduction, SequenceTheorems, WellFoundedInduction, TLAPS

-----------------------------------------------------------------------------
(* Least elements, and sets of places in their order.                      *)

LEMMA LeastExists ==
    ASSUME NEW T, T \subseteq Nat, T # {}
    PROVE  \E x \in T : \A y \in T : x <= y
<1>1. PICK x \in T : \A y \in T : ~(<<y, x>> \in OpToRel(<, Nat))
  BY NatLessThanWellFounded, WFMin
<1>2. \A y \in T : ~(y < x)
  BY <1>1 DEF OpToRel
<1>. QED  BY <1>2

Places == Nat \X Nat

(* A cursor is a place, or below them all.                                 *)
Cursors == Int \X Int

LEMMA BeforeIsOrder ==
    ASSUME NEW p \in Cursors, NEW q \in Cursors, NEW r \in Cursors
    PROVE  /\ ~Before(p, p) /\ (Before(p, q) \/ Before(q, p) \/ p = q)
           /\ Before(p, q) => ~Before(q, p)
           /\ Before(p, q) /\ Before(q, r) => Before(p, r)
BY DEF Cursors, Before

LEMMA PlacesAreCursors == Places \subseteq Cursors /\ Lowest \in Cursors
BY DEF Places, Cursors, Lowest

LEMMA FirstExists ==
    ASSUME NEW S, S \subseteq Places, S # {}
    PROVE  \E p \in S : \A q \in S \ {p} : Before(p, q)
<1>1. \A p \in S : p[1] \in Nat /\ p[2] \in Nat /\ p = <<p[1], p[2]>>
  BY DEF Places
<1>. DEFINE F == {p[1] : p \in S}
<1>2. F \subseteq Nat /\ F # {}
  BY <1>1
<1>3. PICK a \in F : \A b \in F : a <= b
  BY <1>2, LeastExists
<1>. DEFINE G == {p[2] : p \in {q \in S : q[1] = a}}
<1>4. G \subseteq Nat /\ G # {}
  BY <1>1, <1>3
<1>5. PICK c \in G : \A d \in G : c <= d
  BY <1>4, LeastExists
<1>6. PICK p \in S : p[1] = a /\ p[2] = c
  BY <1>5
<1>7. ASSUME NEW q \in S \ {p} PROVE Before(p, q)
  <2>1. a <= q[1]
    BY <1>3
  <2>2. q[1] = a => c <= q[2]
    BY <1>5
  <2>. QED  BY <1>1, <1>6, <2>1, <2>2 DEF Before
<1>. QED  BY <1>7

Ordered(s) == \A i, j \in DOMAIN s : i < j => Before(s[i], s[j])

(* A finite set can be put in order: otherwise take a smallest one that    *)
(* cannot, and put its first element before the rest.                      *)
LEMMA OrderExists ==
    ASSUME NEW S, IsFiniteSet(S), S \subseteq Places
    PROVE  \E s \in SetToSeqs(S) : Ordered(s)
<1>. DEFINE Bad == {n \in Nat : \E T \in SUBSET S :
                       Cardinality(T) = n /\ ~\E s \in SetToSeqs(T) : Ordered(s)}
<1>0. Cardinality(S) \in Nat
  BY FS_CardinalityType
<1>. SUFFICES ASSUME Bad # {} PROVE FALSE
  BY <1>0
<1>1. PICK n \in Bad : \A m \in Bad : n <= m
  BY LeastExists
<1>2. PICK T \in SUBSET S : Cardinality(T) = n /\ ~\E s \in SetToSeqs(T) : Ordered(s)
  BY <1>1
<1>3. IsFiniteSet(T) /\ T \subseteq Places /\ n \in Nat
  BY <1>1, FS_Subset
<1>4. T # {}
  <2>. SUFFICES ASSUME T = {} PROVE FALSE
    OBVIOUS
  <2>1. n = 0
    BY <1>2, FS_EmptySet
  <2>2. <<>> \in SetToSeqs(T) /\ Ordered(<<>>)
    BY <1>2, <2>1 DEF SetToSeqs, Ordered
  <2>. QED  BY <1>2, <2>2
<1>5. PICK p \in T : \A q \in T \ {p} : Before(p, q)
  BY <1>3, <1>4, FirstExists
<1>6. Cardinality(T \ {p}) = n - 1 /\ n - 1 \in Nat /\ T \ {p} \in SUBSET S
  <2>1. Cardinality(T \ {p}) = n - 1 /\ IsFiniteSet(T \ {p})
    BY <1>2, <1>3, FS_RemoveElement
  <2>2. Cardinality(T \ {p}) \in Nat
    BY <2>1, FS_CardinalityType
  <2>. QED  BY <2>1, <2>2
<1>7. n - 1 \notin Bad
  BY <1>1, <1>6
<1>8. PICK t \in SetToSeqs(T \ {p}) : Ordered(t)
  BY <1>6, <1>7
<1>9. /\ t \in [1 .. n - 1 -> T \ {p}]
      /\ \A i, j \in 1 .. n - 1 : i # j => t[i] # t[j]
      /\ \A i, j \in 1 .. n - 1 : i < j => Before(t[i], t[j])
  BY <1>6, <1>8 DEF SetToSeqs, Ordered
<1>. DEFINE s == [i \in 1 .. n |-> IF i = 1 THEN p ELSE t[i - 1]]
<1>10. \A i \in 1 .. n : i # 1 => i - 1 \in 1 .. n - 1 /\ s[i] = t[i - 1] /\ s[i] \in T \ {p}
  BY <1>3, <1>9
<1>11. s[1] = p /\ s \in [1 .. n -> T]
  BY <1>3, <1>6, <1>10
<1>. HIDE DEF s
<1>12. \A i, j \in 1 .. n : i # j => s[i] # s[j]
  <2>. SUFFICES ASSUME NEW i \in 1 .. n, NEW j \in 1 .. n, i # j PROVE s[i] # s[j]
    OBVIOUS
  <2>1. CASE i = 1 \/ j = 1
    BY <1>10, <1>11, <2>1
  <2>2. CASE i # 1 /\ j # 1
    <3>1. i - 1 \in 1 .. n - 1 /\ j - 1 \in 1 .. n - 1 /\ i - 1 # j - 1
      BY <1>3, <1>10, <2>2
    <3>. QED  BY <1>9, <1>10, <2>2, <3>1
  <2>. QED  BY <2>1, <2>2
<1>13. \A i, j \in 1 .. n : i < j => Before(s[i], s[j])
  <2>. SUFFICES ASSUME NEW i \in 1 .. n, NEW j \in 1 .. n, i < j
                PROVE  Before(s[i], s[j])
    OBVIOUS
  <2>1. CASE i = 1
    BY <1>3, <1>5, <1>10, <1>11, <2>1
  <2>2. CASE i # 1
    <3>1. i - 1 \in 1 .. n - 1 /\ j - 1 \in 1 .. n - 1 /\ i - 1 < j - 1 /\ j # 1
      BY <1>3, <1>10, <2>2
    <3>. QED  BY <1>9, <1>10, <2>2, <3>1
  <2>. QED  BY <2>1, <2>2
<1>14. s \in SetToSeqs(T) /\ Ordered(s)
  <2>1. DOMAIN s = 1 .. n
    BY <1>11
  <2>. QED  BY <1>2, <1>11, <1>12, <1>13, <2>1 DEF SetToSeqs, Ordered
<1>. QED  BY <1>2, <1>14

(* InOrder is such an order, and lists every element.                      *)
LEMMA InOrderIs ==
    ASSUME NEW S, IsFiniteSet(S), S \subseteq Places
    PROVE  \E n \in Nat :
              /\ InOrder(S) \in [1 .. n -> S]
              /\ \A p \in S : \E i \in 1 .. n : InOrder(S)[i] = p
              /\ \A i, j \in 1 .. n : i < j => Before(InOrder(S)[i], InOrder(S)[j])
<1>1. PICK n : n = Cardinality(S)
  OBVIOUS
<1>2. n \in Nat
  BY <1>1, FS_CardinalityType
<1>3. PICK s : s = InOrder(S)
  OBVIOUS
<1>4. s \in SetToSeqs(S) /\ Ordered(s)
  BY <1>3, OrderExists DEF InOrder, Ordered
<1>5. s \in [1 .. n -> S] /\ \A i, j \in 1 .. n : i # j => s[i] # s[j]
  BY <1>1, <1>4 DEF SetToSeqs
<1>6. s \in Injection(1 .. n, S)
  BY <1>5 DEF Injection, IsInjective
<1>7. Cardinality(1 .. n) = n
  BY <1>2, FS_Interval
<1>8. s \in Surjection(1 .. n, S)
  BY <1>1, <1>6, <1>7, FS_Injection
<1>. QED  BY <1>2, <1>3, <1>4, <1>5, <1>8 DEF Surjection, Ordered

(* The values of a function on a finite set are finite in number.          *)
LEMMA ImageFinite ==
    ASSUME NEW S, IsFiniteSet(S), NEW f, DOMAIN f = S, f = [x \in S |-> f[x]]
    PROVE  IsFiniteSet({f[x] : x \in S})
<1>1. f \in Surjection(S, {f[x] : x \in S})
  BY DEF Surjection
<1>. QED  BY <1>1, FS_Surjection

-----------------------------------------------------------------------------
(* Builds and their upcasters.                                             *)

LEMMA NewestIs == Newest \in Builds /\ Newest \in Nat \ {0} /\ \A c \in Builds : c <= Newest
<1>. DEFINE f == [b \in Builds |-> <<b, 0>>]
            S == {f[b] : b \in Builds}
<1>1. IsFiniteSet(Builds) /\ Builds # {} /\ \A b \in Builds : b \in Nat \ {0}
  BY ReadsAssumption
<1>2. IsFiniteSet(S)
  BY <1>1, ImageFinite
<1>3. S \subseteq Places /\ S # {} /\ \A p \in S : \E b \in Builds : p = <<b, 0>>
  <2>1. \A b \in Builds : f[b] = <<b, 0>> /\ <<b, 0>> \in Places
    BY <1>1 DEF Places
  <2>. QED  BY <1>1, <2>1
<1>. HIDE DEF S
<1>4. PICK n \in Nat : /\ InOrder(S) \in [1 .. n -> S]
                       /\ \A p \in S : \E i \in 1 .. n : InOrder(S)[i] = p
                       /\ \A i, j \in 1 .. n : i < j => Before(InOrder(S)[i], InOrder(S)[j])
  BY <1>2, <1>3, InOrderIs
<1>5. PICK s : s = InOrder(S)
  OBVIOUS
<1>6. n \in 1 .. n /\ s[n] \in S
  BY <1>3, <1>4, <1>5
<1>7. PICK b \in Builds : s[n] = <<b, 0>>
  BY <1>3, <1>6
<1>8. ASSUME NEW c \in Builds PROVE c <= b
  <2>1. <<c, 0>> \in S
    BY DEF S
  <2>2. PICK i \in 1 .. n : s[i] = <<c, 0>>
    BY <1>4, <1>5, <2>1
  <2>3. i = n \/ Before(s[i], s[n])
    BY <1>4, <1>5, <1>6
  <2>4. b \in Nat /\ c \in Nat
    BY <1>1
  <2>5. s[i][1] = c /\ s[n][1] = b /\ s[i][2] = 0 /\ s[n][2] = 0
    BY <1>7, <2>2
  <2>6. CASE i = n
    BY <2>4, <2>5, <2>6
  <2>7. CASE Before(s[i], s[n])
    BY <2>4, <2>5, <2>7 DEF Before
  <2>. QED  BY <2>3, <2>6, <2>7
<1>. QED  BY <1>1, <1>8 DEF Newest

(* One transition at a time, and none past the target.                     *)
Reached(from, to, n) == IF from + n <= to THEN from + n ELSE to

LEMMA DocIs ==
    ASSUME NEW v, NEW x
    PROVE  ValueOf(Doc(v, x)) = x /\ DOMAIN Doc(v, x) = {Field(v)} /\ Doc(v, x)[Field(v)] = x
BY DEF Doc, ValueOf

Transition(at, from, to, n) ==
    IF n = 0 THEN from
    ELSE IF at[n - 1] = Gap THEN Gap
    ELSE IF at[n - 1] >= to THEN at[n - 1]
    ELSE IF at[n - 1] \in DOMAIN upcasters THEN upcasters[at[n - 1]]
    ELSE Gap

IsPath(at, from, to) == at = [n \in 0 .. to |-> Transition(at, from, to, n)]

LEMMA UpcastReaches ==
    ASSUME NEW from \in Nat \ {0}, NEW to \in Nat \ {0}, from <= to, Connected(upcasters, to),
           NEW x
    PROVE  Upcast(Doc(from, x), from, to) = Doc(to, x)
<1>. DEFINE F == [n \in 0 .. to |-> Reached(from, to, n)]
<1>1. ASSUME NEW at, NEW n \in 0 .. to, n # 0 => at[n - 1] = Reached(from, to, n - 1)
      PROVE  Transition(at, from, to, n) = Reached(from, to, n)
  <2>1. CASE n = 0
    BY <2>1 DEF Transition, Reached
  <2>2. CASE n # 0 /\ from + (n - 1) <= to - 1
    <3>1. PICK v \in Nat : v = from + (n - 1)
      BY <2>2
    <3>2. at[n - 1] = v /\ v # Gap /\ ~(v >= to) /\ v \in 1 .. to - 1
      BY <1>1, <2>2, <3>1 DEF Reached, Gap
    <3>3. v \in DOMAIN upcasters /\ upcasters[v] = v + 1
      BY <3>2 DEF Connected
    <3>4. Transition(at, from, to, n) = v + 1
      BY <2>2, <3>2, <3>3 DEF Transition
    <3>. QED  BY <2>2, <3>1, <3>4 DEF Reached
  <2>3. CASE n # 0 /\ ~(from + (n - 1) <= to - 1)
    <3>1. at[n - 1] = to
      BY <1>1, <2>3 DEF Reached
    <3>. QED  BY <2>3, <3>1 DEF Transition, Reached, Gap
  <2>. QED  BY <2>1, <2>2, <2>3
<1>2. IsPath(F, from, to)
  <2>1. \A n \in 0 .. to : n # 0 => F[n - 1] = Reached(from, to, n - 1)
    OBVIOUS
  <2>2. \A n \in 0 .. to : Transition(F, from, to, n) = Reached(from, to, n)
    BY <1>1, <2>1
  <2>. QED  BY <2>2 DEF IsPath
<1>3. PICK at : at = CHOOSE g : IsPath(g, from, to)
  OBVIOUS
<1>4. IsPath(at, from, to)
  BY <1>2, <1>3
<1>5. \A n \in 0 .. to : at[n] = Transition(at, from, to, n)
  BY <1>4 DEF IsPath
<1>. DEFINE Bad == {n \in 0 .. to : at[n] # Reached(from, to, n)}
<1>6. Bad = {}
  <2>. SUFFICES ASSUME Bad # {} PROVE FALSE
    OBVIOUS
  <2>1. Bad \subseteq Nat
    OBVIOUS
  <2>2. PICK n \in Bad : \A m \in Bad : n <= m
    BY <2>1, LeastExists
  <2>3. n # 0 => at[n - 1] = Reached(from, to, n - 1)
    BY <2>2
  <2>. QED  BY <1>1, <1>5, <2>2, <2>3
<1>7. at[to] = to
  BY <1>6 DEF Reached
<1>8. Upcast(Doc(from, x), from, to) =
         IF at[to] = Gap THEN Gap ELSE Doc(at[to], ValueOf(Doc(from, x)))
  BY <1>3 DEF Upcast, IsPath, Transition
<1>. QED  BY <1>7, <1>8, DocIs DEF Gap

(* What a build makes of a row it agrees to decode.                        *)
LEMMA HydratedIs ==
    ASSUME Connected(upcasters, Newest), NEW build \in Builds, NEW row, row.version \in Builds,
           Decodable(row, build), NEW x, row.doc = Doc(row.version, x)
    PROVE  Hydrated(row, build) = Doc(build, x)
<1>1. /\ row.version \in Nat \ {0} /\ build \in Nat \ {0} /\ row.version <= build
      /\ Newest \in Nat /\ build <= Newest
  BY NewestIs, ReadsAssumption DEF Decodable
<1>2. Connected(upcasters, build)
  BY <1>1 DEF Connected
<1>. QED  BY <1>1, <1>2, UpcastReaches DEF Hydrated

-----------------------------------------------------------------------------
(***************************************************************************)
(* The inductive invariant.                                                *)

(* A row has the fields of its version.                                    *)
RowOK(row) == row \in Rows /\ \E x \in {0, 1} : row.doc = Doc(row.version, x)

LogOK ==
    /\ log \in [Aggregates -> Seq(Rows)]
    /\ \A k \in Aggregates : \A n \in 1 .. Len(log[k]) : RowOK(log[k][n])

ConfigOK ==
    /\ subscribed \in BOOLEAN /\ clock \in 0 .. MaxTime /\ declared \in Builds
    /\ upcasters \in Chains /\ Connected(upcasters, Newest)

IntentsOK == intents \subseteq IntentTypes /\ IsFiniteSet(intents)

ReaderShape ==
    /\ reader = [kind |-> reader.kind, what |-> reader.what, limit |-> reader.limit,
                 cursor |-> reader.cursor, out |-> reader.out, done |-> reader.done]
    /\ reader.limit \in Nat \ {0} /\ reader.done \in BOOLEAN
    /\ reader.out \in Seq(Places)
    /\ \/ reader = NoReader
       \/ <<reader.kind, reader.what>> \in Traversals /\ reader.kind # "none"

(* What is there all along has been returned, or lies beyond the cursor,   *)
(* which is at the last place returned.                                    *)
ReaderOK ==
    /\ reader.cursor = IF reader.out = <<>> THEN Lowest ELSE Last(reader.out)
    /\ NothingRepeated
    /\ always \subseteq Listed(reader)
    /\ \A p \in always : p \in ToSet(reader.out) \/ (~reader.done /\ Before(reader.cursor, p))
    /\ HistoryIsLog
    /\ reader.kind = "history" => Len(reader.out) <= Len(log[reader.what])

IInv == LogOK /\ ConfigOK /\ IntentsOK /\ ReaderShape /\ ReaderOK

-----------------------------------------------------------------------------
(* Rows.                                                                   *)

LEMMA WritingIs == \A w \in Writing : w[1] \in Builds /\ w[2] \in {0, 1}
BY NewestIs DEF Writing

LEMMA DocType ==
    ASSUME NEW build \in Builds, NEW x \in {0, 1}
    PROVE  Doc(build, x) \in Documents
BY DEF Documents

LEMMA CommitLog ==
    ASSUME IInv, NEW k \in Aggregates, NEW build \in Builds, NEW x \in {0, 1}, NEW t,
           Commit(k, build, x, t)
    PROVE  LogOK'
<1>. DEFINE row == [version |-> build, doc |-> Doc(build, x)]
            rows == log[k]
<1>1. PICK n \in Nat : n = Len(rows)
  BY DEF IInv, LogOK
<1>2. rows \in Seq(Rows) /\ log' = [log EXCEPT ![k] = Append(rows, row)]
  BY DEF Commit, IInv, LogOK
<1>3. row \in Rows /\ RowOK(row)
  BY DocType DEF Rows, RowOK
<1>. HIDE DEF row
<1>4. PICK more : more = Append(rows, row)
  OBVIOUS
<1>5. /\ more \in Seq(Rows) /\ Len(more) = n + 1 /\ more[n + 1] = row
      /\ \A i \in 1 .. n : more[i] = rows[i]
  BY <1>1, <1>2, <1>3, <1>4
<1>6. ASSUME NEW j \in Aggregates, NEW i \in 1 .. Len(log'[j]) PROVE RowOK(log'[j][i])
  <2>1. CASE j = k
    <3>1. log'[j] = more
      BY <1>2, <1>4, <2>1 DEF IInv, LogOK
    <3>2. CASE i = n + 1
      BY <1>3, <1>5, <3>1, <3>2
    <3>3. CASE i \in 1 .. n
      <4>1. RowOK(rows[i])
        BY <1>1, <3>3 DEF IInv, LogOK
      <4>. QED  BY <1>5, <3>1, <3>3, <4>1
    <3>. QED  BY <1>5, <3>1, <3>2, <3>3
  <2>2. CASE j # k
    BY <1>2, <2>2 DEF IInv, LogOK
  <2>. QED  BY <2>1, <2>2
<1>7. log' \in [Aggregates -> Seq(Rows)]
  BY <1>2, <1>4, <1>5 DEF IInv, LogOK
<1>. QED  BY <1>6, <1>7 DEF LogOK

(* A log only grows.                                                       *)
LEMMA CommitGrows ==
    ASSUME IInv, NEW k \in Aggregates, NEW build, NEW x, NEW t, Commit(k, build, x, t),
           NEW j \in Aggregates
    PROVE  Len(log[j]) <= Len(log'[j])
<1>1. log[k] \in Seq(Rows) /\ log[j] \in Seq(Rows)
  BY DEF IInv, LogOK
<1>2. PICK row : log' = [log EXCEPT ![k] = Append(@, row)]
  BY DEF Commit
<1>3. j = k => log'[j] = Append(log[k], row)
  BY <1>2 DEF IInv, LogOK
<1>4. j # k => log'[j] = log[j]
  BY <1>2 DEF IInv, LogOK
<1>5. Len(log[j]) \in Nat /\ Len(Append(log[k], row)) = Len(log[k]) + 1
  BY <1>1
<1>. QED  BY <1>3, <1>4, <1>5

LEMMA CommitIntents ==
    ASSUME IInv, NEW k \in Aggregates, NEW build, NEW x, NEW t \in 0 .. MaxTime,
           Commit(k, build, x, t)
    PROVE  IntentsOK'
<1>1. PICK i : i = [aggregate |-> k, revision |-> Len(log[k]), created |-> t, status |-> "pending"]
  OBVIOUS
<1>2. intents' = intents \cup (IF ~subscribed THEN {} ELSE {i})
  BY <1>1 DEF Commit
<1>3. Len(log[k]) \in Revisions
  BY ReadsAssumption DEF Commit, IInv, LogOK, Revisions
<1>4. i \in IntentTypes
  BY <1>1, <1>3 DEF IntentTypes
<1>5. IsFiniteSet(intents')
  <2>1. CASE subscribed
    <3>1. intents' = intents \cup {i}
      BY <1>2, <2>1
    <3>. QED  BY <3>1, FS_AddElement DEF IInv, IntentsOK
  <2>2. CASE ~subscribed
    <3>1. intents' = intents
      BY <1>2, <2>2
    <3>. QED  BY <3>1 DEF IInv, IntentsOK
  <2>. QED  BY <2>1, <2>2
<1>. QED  BY <1>2, <1>4, <1>5 DEF IInv, IntentsOK

LEMMA DeliveryIntents ==
    ASSUME IInv, NEW i \in intents, Delivered(i) \/ DeadLettered(i) \/ Redriven(i)
    PROVE  IntentsOK'
<1>1. IsFiniteSet(intents) /\ intents \subseteq IntentTypes
  BY DEF IInv, IntentsOK
<1>2. IsFiniteSet(intents \ {i})
  BY <1>1, FS_RemoveElement
<1>3. CASE Delivered(i)
  BY <1>1, <1>2, <1>3 DEF Delivered, IntentsOK
<1>4. ASSUME NEW s \in {"pending", "dead"},
             intents' = (intents \ {i}) \cup {[i EXCEPT !.status = s]}
      PROVE  IntentsOK'
  <2>1. [i EXCEPT !.status = s] \in IntentTypes
    BY <1>1 DEF IntentTypes
  <2>2. IsFiniteSet(intents')
    BY <1>2, <1>4, FS_AddElement
  <2>. QED  BY <1>1, <1>4, <2>1, <2>2 DEF IntentsOK
<1>5. CASE DeadLettered(i)
  BY <1>4, <1>5 DEF DeadLettered
<1>6. CASE Redriven(i)
  BY <1>4, <1>6 DEF Redriven
<1>. QED  BY <1>3, <1>5, <1>6

-----------------------------------------------------------------------------
(* What a traversal lists.                                                 *)

LEMMA ListedIs ==
    ASSUME LogOK, IntentsOK, NEW r, r.kind = "none" \/ <<r.kind, r.what>> \in Traversals
    PROVE  Listed(r) \subseteq Places /\ IsFiniteSet(Listed(r))
<1>1. CASE r.kind = "none"
  BY <1>1, FS_EmptySet DEF Listed
<1>2. CASE r.kind = "history" /\ r.what \in Aggregates
  <2>1. PICK n \in Nat : n = Len(log[r.what])
    BY <1>2 DEF LogOK
  <2>. DEFINE f == [m \in 0 .. n - 1 |-> <<m, 0>>]
  <2>2. Listed(r) = {f[m] : m \in 0 .. n - 1}
    BY <1>2, <2>1 DEF Listed, HistoryOf
  <2>3. \A m \in 0 .. n - 1 : f[m] \in Places
    BY DEF Places
  <2>4. IsFiniteSet(0 .. n - 1)
    BY FS_Interval
  <2>5. IsFiniteSet({f[m] : m \in 0 .. n - 1})
    BY <2>4, ImageFinite
  <2>. QED  BY <2>2, <2>3, <2>5
<1>3. CASE r.kind = "search"
  <2>. DEFINE S == {a \in Aggregates : log[a] # <<>> /\ Matches(Last(log[a]), r.what)}
              f == [k \in S |-> <<k, 0>>]
  <2>1. Listed(r) = {f[k] : k \in S}
    BY <1>3 DEF Listed, HeadsWith
  <2>2. \A k \in S : f[k] \in Places
    BY ReadsAssumption DEF Places
  <2>3. IsFiniteSet(S)
    BY ReadsAssumption, FS_Subset
  <2>. HIDE DEF S
  <2>4. IsFiniteSet({f[k] : k \in S})
    BY <2>3, ImageFinite
  <2>. QED  BY <2>1, <2>2, <2>4
<1>4. CASE r.kind = "intents"
  <2>. DEFINE S == {j \in intents : r.what \in {"any", j.status}}
              f == [i \in S |-> PlaceOf(i)]
  <2>1. Listed(r) = {f[i] : i \in S}
    BY <1>4 DEF Listed, IntentsWith
  <2>2. ASSUME NEW i \in S PROVE f[i] \in Places
    <3>1. i \in IntentTypes
      BY DEF IntentsOK
    <3>2. i.created \in Nat /\ i.aggregate \in Aggregates /\ i.revision \in 0 .. MaxRevision
      BY <3>1, ReadsAssumption DEF IntentTypes, Revisions
    <3>3. \A a \in Aggregates, m \in 0 .. MaxRevision : IntentId(a, m) \in Nat
      BY ReadsAssumption
    <3>. QED  BY <3>2, <3>3 DEF PlaceOf, Places
  <2>3. IsFiniteSet(S)
    BY FS_Subset DEF IntentsOK
  <2>. HIDE DEF S
  <2>4. IsFiniteSet({f[i] : i \in S})
    BY <2>3, ImageFinite
  <2>. QED  BY <2>1, <2>2, <2>4
<1>. QED  BY <1>1, <1>2, <1>3, <1>4 DEF Traversals

(* A page is the first places beyond the cursor: if it leaves any out, it  *)
(* is full and they come after it.                                         *)
IsPage(page, m, r) ==
    /\ page \in [1 .. m -> Listed(r)] /\ m <= r.limit
    /\ \A i, j \in 1 .. m : i < j => Before(page[i], page[j])
    /\ \A i \in 1 .. m : Before(r.cursor, page[i])
    /\ \A p \in Listed(r) :
          Before(r.cursor, p) =>
             (\E i \in 1 .. m : page[i] = p) \/ (m = r.limit /\ Before(page[m], p))

LEMMA PageIs ==
    ASSUME NEW r, Listed(r) \subseteq Places, IsFiniteSet(Listed(r)), r.limit \in Nat \ {0}
    PROVE  \E m \in Nat : IsPage(Page(r), m, r) /\ Len(Page(r)) = m /\ Page(r) \in Seq(Places)
<1>. DEFINE S == {p \in Listed(r) : Beyond(r.cursor, p)}
<1>1. S \subseteq Places /\ IsFiniteSet(S)
  BY FS_Subset
<1>2. PICK s : s = InOrder(S)
  OBVIOUS
<1>3. PICK n \in Nat : /\ s \in [1 .. n -> S]
                       /\ \A p \in S : \E i \in 1 .. n : s[i] = p
                       /\ \A i, j \in 1 .. n : i < j => Before(s[i], s[j])
  BY <1>1, <1>2, InOrderIs
<1>4. s \in Seq(Places) /\ Len(s) = n
  BY <1>1, <1>3
<1>5. PICK m : m = IF n < r.limit THEN n ELSE r.limit
  OBVIOUS
<1>6. m \in Nat /\ m <= n /\ m <= r.limit /\ (m # n => m = r.limit)
  BY <1>5
<1>7. PICK page : page = SubSeq(s, 1, m)
  OBVIOUS
<1>8. Page(r) = page
  BY <1>2, <1>4, <1>5, <1>7 DEF Page
<1>9. page \in Seq(Places) /\ Len(page) = m /\ \A i \in 1 .. m : page[i] = s[i]
  BY <1>4, <1>6, <1>7
<1>10. page \in [1 .. m -> Listed(r)] /\ \A i \in 1 .. m : Before(r.cursor, page[i])
  <2>1. \A i \in 1 .. m : page[i] \in S
    BY <1>3, <1>6, <1>9
  <2>2. DOMAIN page = 1 .. m /\ page = [i \in 1 .. m |-> page[i]]
    BY <1>9
  <2>. QED  BY <2>1, <2>2 DEF Beyond
<1>11. ASSUME NEW p \in Listed(r), Before(r.cursor, p)
       PROVE  (\E i \in 1 .. m : page[i] = p) \/ (m = r.limit /\ Before(page[m], p))
  <2>1. PICK i \in 1 .. n : s[i] = p
    BY <1>3, <1>11 DEF Beyond
  <2>2. CASE i <= m
    BY <1>6, <1>9, <2>1, <2>2
  <2>3. CASE i > m
    <3>1. m = r.limit /\ m \in 1 .. n /\ m \in 1 .. m /\ m < i
      BY <1>6, <2>3
    <3>2. Before(s[m], s[i])
      BY <1>3, <3>1
    <3>. QED  BY <1>9, <2>1, <3>1, <3>2
  <2>. QED  BY <1>6, <2>2, <2>3
<1>12. \A i, j \in 1 .. m : i < j => Before(page[i], page[j])
  BY <1>3, <1>6, <1>9
<1>. QED  BY <1>6, <1>8, <1>9, <1>10, <1>11, <1>12 DEF IsPage

(* From revision c on, a page of the history is c, c + 1, ...              *)
LEMMA HistoryPage ==
    ASSUME LogOK, NEW r, r.kind = "history", r.what \in Aggregates,
           NEW c \in Nat, r.cursor = <<c - 1, 0>>, c <= Len(log[r.what]),
           NEW m \in Nat, NEW page, IsPage(page, m, r)
    PROVE  (\A i \in 1 .. m : page[i] = <<c + i - 1, 0>>) /\ c + m <= Len(log[r.what])
<1>1. PICK n \in Nat : n = Len(log[r.what])
  BY DEF LogOK
<1>2. Listed(r) = {<<v, 0>> : v \in 0 .. n - 1}
  BY <1>1 DEF Listed, HistoryOf
<1>3. ASSUME NEW i \in 1 .. m
      PROVE  /\ page[i] = <<page[i][1], 0>> /\ page[i][1] \in 0 .. n - 1 /\ page[i][1] >= c
  <2>1. page[i] \in Listed(r) /\ Before(r.cursor, page[i])
    BY DEF IsPage
  <2>2. PICK v \in 0 .. n - 1 : page[i] = <<v, 0>>
    BY <1>2, <2>1
  <2>. QED  BY <2>1, <2>2 DEF Before
<1>4. ASSUME NEW i \in 1 .. m, NEW j \in 1 .. m, i < j PROVE page[i][1] < page[j][1]
  <2>1. Before(page[i], page[j])
    BY <1>4 DEF IsPage
  <2>2. page[i][2] = 0 /\ page[j][2] = 0
    BY <1>3
  <2>. QED  BY <2>1, <2>2 DEF Before
<1>. DEFINE Bad == {i \in 1 .. m : page[i][1] # c + i - 1}
<1>5. Bad = {}
  <2>. SUFFICES ASSUME Bad # {} PROVE FALSE
    OBVIOUS
  <2>1. Bad \subseteq Nat
    OBVIOUS
  <2>2. PICK i \in Bad : \A j \in Bad : i <= j
    BY <2>1, LeastExists
  <2>3. PICK b \in Nat : b = page[i][1]
    BY <1>3, <2>2
  <2>4. b > c + i - 1 /\ b <= n - 1
    <3>1. CASE i = 1
      BY <1>3, <2>2, <2>3, <3>1
    <3>2. CASE i # 1
      <4>1. i - 1 \in 1 .. m /\ i - 1 < i /\ i - 1 \notin Bad
        BY <2>2, <3>2
      <4>2. page[i - 1][1] = c + (i - 1) - 1 /\ page[i - 1][1] < b
        BY <1>4, <2>2, <2>3, <4>1
      <4>. QED  BY <1>3, <2>2, <2>3, <4>2
    <3>. QED  BY <3>1, <3>2
  <2>5. PICK v \in Nat : v = c + i - 1
    BY <2>2
  <2>6. <<v, 0>> \in Listed(r) /\ Before(r.cursor, <<v, 0>>)
    <3>1. v \in 0 .. n - 1 /\ v > c - 1
      BY <2>2, <2>4, <2>5
    <3>. QED  BY <1>2, <3>1 DEF Before
  <2>7. CASE \E j \in 1 .. m : page[j] = <<v, 0>>
    <3>1. PICK j \in 1 .. m : page[j] = <<v, 0>>
      BY <2>7
    <3>2. page[j][1] = v
      BY <3>1
    <3>3. ~(i < j) /\ i # j
      <4>1. i < j => page[i][1] < page[j][1]
        BY <1>4, <2>2
      <4>. QED  BY <2>3, <2>4, <2>5, <3>2, <4>1
    <3>4. j < i /\ j \notin Bad
      BY <2>2, <3>3
    <3>. QED  BY <2>5, <3>2, <3>4
  <2>8. CASE m = r.limit /\ Before(page[m], <<v, 0>>)
    <3>1. m \in 1 .. m /\ i \in 1 .. m
      BY <2>2
    <3>2. page[m][2] = 0
      BY <1>3, <3>1
    <3>3. page[m][1] < v
      BY <2>8, <3>2 DEF Before
    <3>4. page[i][1] <= page[m][1]
      <4>1. CASE i = m
        BY <1>3, <3>1, <4>1
      <4>2. CASE i < m
        <5>1. page[i][1] < page[m][1]
          BY <1>4, <3>1, <4>2
        <5>. QED  BY <1>3, <3>1, <5>1
      <4>. QED  BY <3>1, <4>1, <4>2
    <3>5. PICK d \in Nat : d = page[m][1]
      BY <1>3, <3>1
    <3>. QED  BY <2>3, <2>4, <2>5, <3>3, <3>4, <3>5
  <2>. QED  BY <2>6, <2>7, <2>8 DEF IsPage
<1>6. \A i \in 1 .. m : page[i] = <<c + i - 1, 0>>
  BY <1>3, <1>5
<1>7. c + m <= n
  <2>1. CASE m = 0
    BY <1>1, <2>1
  <2>2. CASE m # 0
    <3>1. m \in 1 .. m
      BY <2>2
    <3>2. page[m][1] = c + m - 1 /\ page[m][1] \in 0 .. n - 1
      BY <1>3, <1>5, <3>1
    <3>. QED  BY <3>2
  <2>. QED  BY <2>1, <2>2
<1>. QED  BY <1>1, <1>6, <1>7

-----------------------------------------------------------------------------
(* The traversal under way.                                                *)

LEMMA ReaderTypes ==
    ASSUME IInv
    PROVE  /\ Listed(reader) \subseteq Places /\ IsFiniteSet(Listed(reader))
           /\ always \subseteq Places /\ reader.cursor \in Cursors
           /\ reader.limit \in Nat \ {0} /\ reader.out \in Seq(Places)
           /\ reader.kind = "history" => reader.what \in Aggregates
<1>1. reader.kind = "none" \/ <<reader.kind, reader.what>> \in Traversals
  BY DEF IInv, ReaderShape, NoReader
<1>2. Listed(reader) \subseteq Places /\ IsFiniteSet(Listed(reader))
  BY <1>1, ListedIs DEF IInv
<1>3. reader.limit \in Nat \ {0} /\ reader.out \in Seq(Places)
  BY DEF IInv, ReaderShape
<1>4. reader.cursor \in Cursors
  <2>1. CASE reader.out = <<>>
    BY <2>1, PlacesAreCursors DEF IInv, ReaderOK
  <2>2. CASE reader.out # <<>>
    <3>1. Last(reader.out) \in Places
      BY <1>3, <2>2 DEF Last
    <3>. QED  BY <2>2, <3>1, PlacesAreCursors DEF IInv, ReaderOK
  <2>. QED  BY <2>1, <2>2
<1>5. reader.kind = "history" => reader.what \in Aggregates
  BY <1>1 DEF Traversals
<1>. QED  BY <1>2, <1>3, <1>4, <1>5 DEF IInv, ReaderOK

(* What writers and workers do under the reader's eyes.                    *)
LEMMA ObservedStep ==
    ASSUME IInv, reader' = reader, subscribed' = subscribed,
           \A j \in Aggregates : Len(log[j]) <= Len(log'[j]),
           always' = always \cap Listed(reader)', LogOK'
    PROVE  ReaderShape' /\ ReaderOK'
<1>1. ReaderShape'
  BY DEF IInv, ReaderShape, Traversals
<1>2. always' \subseteq always /\ always' \subseteq Listed(reader)'
  OBVIOUS
<1>3. reader.kind = "history" => Len(reader.out) <= Len(log'[reader.what])
  <2>. SUFFICES ASSUME reader.kind = "history" PROVE Len(reader.out) <= Len(log'[reader.what])
    OBVIOUS
  <2>1. PICK k \in Aggregates : k = reader.what
    BY ReaderTypes
  <2>2. Len(reader.out) \in Nat /\ Len(log[k]) \in Nat /\ Len(log'[k]) \in Nat
    BY ReaderTypes DEF IInv, LogOK
  <2>3. Len(reader.out) <= Len(log[k]) /\ Len(log[k]) <= Len(log'[k])
    BY <2>1 DEF IInv, ReaderOK
  <2>. QED  BY <2>1, <2>2, <2>3
<1>. QED  BY <1>1, <1>2, <1>3 DEF IInv, ReaderOK, NothingRepeated, HistoryIsLog

LEMMA StillStep ==
    ASSUME IInv, UNCHANGED <<reader, subscribed, log, intents, always>>
    PROVE  ReaderShape' /\ ReaderOK'
<1>1. ReaderShape'
  BY DEF IInv, ReaderShape, Traversals
<1>2. Listed(reader)' = Listed(reader)
  BY DEF Listed, HistoryOf, HeadsWith, IntentsWith
<1>. QED  BY <1>1, <1>2 DEF IInv, ReaderOK, NothingRepeated, HistoryIsLog

LEMMA StartStep ==
    ASSUME IInv, NEW t \in Traversals, NEW n \in Limits, Start(t, n)
    PROVE  ReaderShape' /\ ReaderOK'
<1>1. t = <<t[1], t[2]>> /\ t[1] \in {"intents", "history", "search"}
  BY DEF Traversals
<1>2. reader' = [kind |-> t[1], what |-> t[2], limit |-> n, cursor |-> Lowest, out |-> <<>>,
                 done |-> FALSE]
  BY DEF Start, NoReader
<1>3. n \in Nat \ {0} /\ <<>> \in Seq(Places)
  BY ReadsAssumption
<1>4. UNCHANGED <<subscribed, log, intents>> /\ always' = Listed(reader')
  BY DEF Start
<1>5. ReaderShape'
  BY <1>1, <1>2, <1>3, <1>4 DEF ReaderShape, Traversals
<1>6. Listed(reader)' = Listed(reader')
  BY <1>4 DEF Listed, HistoryOf, HeadsWith, IntentsWith
<1>7. Listed(reader') \subseteq Places
  BY <1>1, <1>2, ListedIs DEF IInv
<1>8. \A p \in always' : Before(Lowest, p)
  BY <1>4, <1>7 DEF Places, Before, Lowest
<1>9. reader'.kind = "history" => reader'.what \in Aggregates /\ Len(log'[reader'.what]) \in Nat
  BY <1>1, <1>2, <1>4 DEF Traversals, IInv, LogOK
<1>10. /\ reader'.cursor = Lowest /\ reader'.out = <<>> /\ ~reader'.done
       /\ reader'.kind = "history" => Len(reader'.out) <= Len(log'[reader'.what])
  BY <1>2, <1>9
<1>11. always' \subseteq Listed(reader)'
  BY <1>4, <1>6
<1>12. NothingRepeated' /\ HistoryIsLog'
  BY <1>10 DEF NothingRepeated, HistoryIsLog
<1>. QED  BY <1>5, <1>8, <1>10, <1>11, <1>12 DEF ReaderOK

(* The pages so far and the next one, all of it after the cursor.          *)
LEMMA PageAppended ==
    ASSUME NEW s \in Seq(Places), Ordered(s), NEW page \in Seq(Places), Ordered(page),
           s # <<>> => \A i \in 1 .. Len(page) : Before(s[Len(s)], page[i])
    PROVE  /\ s \o page \in Seq(Places) /\ Len(s \o page) = Len(s) + Len(page)
           /\ \A i \in 1 .. Len(s) : (s \o page)[i] = s[i]
           /\ \A i \in 1 .. Len(page) : (s \o page)[Len(s) + i] = page[i]
           /\ ToSet(s \o page) = ToSet(s) \cup ToSet(page)
           /\ Ordered(s \o page)
<1>0. PICK out, n, m : out = s \o page /\ n = Len(s) /\ m = Len(page)
  OBVIOUS
<1>1. n \in Nat /\ m \in Nat /\ DOMAIN s = 1 .. n /\ DOMAIN page = 1 .. m
  BY <1>0
<1>2. /\ out \in Seq(Places) /\ Len(out) = n + m /\ DOMAIN out = 1 .. n + m
      /\ \A i \in 1 .. n : out[i] = s[i]
      /\ \A i \in 1 .. m : out[n + i] = page[i]
  BY <1>0, ConcatProperties
<1>3. ToSet(out) = ToSet(s) \cup ToSet(page)
  <2>0. /\ ToSet(out) = {out[i] : i \in 1 .. n + m} /\ ToSet(s) = {s[i] : i \in 1 .. n}
        /\ ToSet(page) = {page[i] : i \in 1 .. m}
    BY <1>1, <1>2 DEF ToSet
  <2>1. ASSUME NEW i \in 1 .. n + m PROVE out[i] \in ToSet(s) \cup ToSet(page)
    <3>1. CASE i <= n
      BY <1>1, <1>2, <2>0, <3>1
    <3>2. CASE i > n
      <4>1. i - n \in 1 .. m /\ n + (i - n) = i
        BY <1>1, <3>2
      <4>. QED  BY <1>2, <2>0, <4>1
    <3>. QED  BY <1>1, <3>1, <3>2
  <2>2. ASSUME NEW i \in 1 .. n PROVE s[i] \in ToSet(out)
    BY <1>1, <1>2, <2>0
  <2>3. ASSUME NEW i \in 1 .. m PROVE page[i] \in ToSet(out)
    <3>1. n + i \in 1 .. n + m
      BY <1>1
    <3>. QED  BY <1>2, <2>0, <3>1
  <2>. QED  BY <2>0, <2>1, <2>2, <2>3
<1>4. ASSUME NEW i \in 1 .. n + m, NEW j \in 1 .. n + m, i < j PROVE Before(out[i], out[j])
  <2>1. CASE j <= n
    <3>1. i \in 1 .. n /\ j \in 1 .. n
      BY <1>1, <1>4, <2>1
    <3>. QED  BY <1>1, <1>2, <1>4, <3>1 DEF Ordered
  <2>2. CASE j > n
    <3>1. j - n \in 1 .. m /\ out[j] = page[j - n]
      <4>1. j - n \in 1 .. m /\ n + (j - n) = j
        BY <1>1, <2>2
      <4>. QED  BY <1>2, <4>1
    <3>2. CASE i > n
      <4>1. i - n \in 1 .. m /\ n + (i - n) = i /\ i - n < j - n
        BY <1>1, <1>4, <3>2
      <4>2. out[i] = page[i - n]
        BY <1>2, <4>1
      <4>. QED  BY <1>1, <3>1, <4>1, <4>2 DEF Ordered
    <3>3. CASE i <= n
      <4>1. i \in 1 .. n /\ n \in 1 .. n /\ s # <<>>
        BY <1>0, <1>1, <3>3
      <4>2. Before(s[n], out[j])
        BY <1>0, <3>1, <4>1
      <4>3. i = n \/ Before(s[i], s[n])
        BY <1>1, <4>1 DEF Ordered
      <4>4. s[i] \in Cursors /\ s[n] \in Cursors /\ out[j] \in Cursors
        BY <1>1, <1>2, <4>1, PlacesAreCursors
      <4>5. out[i] = s[i]
        BY <1>2, <4>1
      <4>6. CASE i = n
        BY <4>2, <4>5, <4>6
      <4>7. CASE Before(s[i], s[n])
        BY <4>2, <4>4, <4>5, <4>7, BeforeIsOrder
      <4>. QED  BY <4>3, <4>6, <4>7
    <3>. QED  BY <1>1, <3>2, <3>3
  <2>. QED  BY <1>1, <2>1, <2>2
<1>5. Ordered(out)
  BY <1>2, <1>4 DEF Ordered
<1>. QED  BY <1>0, <1>2, <1>3, <1>5

LEMMA ReadStep ==
    ASSUME IInv, ReadPage
    PROVE  ReaderShape' /\ ReaderOK'
<1>1. PICK page : page = Page(reader)
  OBVIOUS
<1>2. PICK m \in Nat : IsPage(page, m, reader) /\ Len(page) = m /\ page \in Seq(Places)
  BY <1>1, ReaderTypes, PageIs
<1>3. PICK out : out = reader.out \o page
  OBVIOUS
<1>4. PICK n \in Nat : n = Len(reader.out)
  BY ReaderTypes
<1>5. /\ out \in Seq(Places) /\ Len(out) = n + m
      /\ \A i \in 1 .. n : out[i] = reader.out[i]
      /\ \A i \in 1 .. m : out[n + i] = page[i]
      /\ ToSet(out) = ToSet(reader.out) \cup ToSet(page)
      /\ Ordered(out)
  <2>1. PICK s \in Seq(Places) : s = reader.out
    BY ReaderTypes
  <2>2. Ordered(s)
    BY <2>1 DEF Ordered, IInv, ReaderOK, NothingRepeated
  <2>3. Ordered(page)
    BY <1>2 DEF Ordered, IsPage
  <2>4. ASSUME s # <<>>, NEW i \in 1 .. Len(page) PROVE Before(s[Len(s)], page[i])
    <3>1. reader.cursor = s[Len(s)]
      BY <2>1, <2>4 DEF IInv, ReaderOK, Last
    <3>. QED  BY <1>2, <2>4, <3>1 DEF IsPage
  <2>. QED  BY <1>2, <1>3, <1>4, <2>1, <2>2, <2>3, <2>4, PageAppended
<1>6. PICK cursor : cursor = IF page = <<>> THEN reader.cursor ELSE Last(page)
  OBVIOUS
<1>7. /\ reader.kind # "none" /\ ~reader.done
      /\ UNCHANGED <<subscribed, log, intents, clock, upcasters, declared, always>>
      /\ reader' = [reader EXCEPT !.out = out, !.cursor = cursor, !.done = (m # reader.limit)]
  BY <1>1, <1>2, <1>3, <1>6 DEF ReadPage, Exhausted
<1>8. reader' = [kind |-> reader.kind, what |-> reader.what, limit |-> reader.limit,
                 cursor |-> cursor, out |-> out, done |-> (m # reader.limit)]
  <2>1. reader = [kind |-> reader.kind, what |-> reader.what, limit |-> reader.limit,
                  cursor |-> reader.cursor, out |-> reader.out, done |-> reader.done]
    BY DEF IInv, ReaderShape
  <2>. QED  BY <1>7, <2>1
<1>9. ReaderShape'
  <2>1. <<reader.kind, reader.what>> \in Traversals /\ reader.limit \in Nat \ {0}
    BY <1>7 DEF IInv, ReaderShape, NoReader
  <2>. QED  BY <1>5, <1>7, <1>8, <2>1 DEF ReaderShape, Traversals
<1>10. Listed(reader)' = Listed(reader)
  BY <1>7, <1>8 DEF Listed, HistoryOf, HeadsWith, IntentsWith
<1>11. out = <<>> <=> reader.out = <<>> /\ page = <<>>
  BY <1>2, <1>4, <1>5, ReaderTypes, EmptySeq
<1>12. cursor = IF out = <<>> THEN Lowest ELSE Last(out)
  <2>1. CASE page = <<>>
    <3>1. out = reader.out
      BY <1>3, <2>1, ReaderTypes, ConcatEmptySeq
    <3>. QED  BY <1>6, <2>1, <3>1 DEF IInv, ReaderOK
  <2>2. CASE page # <<>>
    <3>1. m \in 1 .. m
      BY <1>2, <2>2, EmptySeq
    <3>2. out # <<>> /\ out[n + m] = page[m]
      BY <1>5, <1>11, <2>2, <3>1
    <3>. QED  BY <1>2, <1>5, <1>6, <2>2, <3>2 DEF Last
  <2>. QED  BY <2>1, <2>2
<1>13. ASSUME NEW p \in always
       PROVE  p \in ToSet(out) \/ (m = reader.limit /\ Before(cursor, p))
  <2>1. CASE p \in ToSet(reader.out)
    BY <1>5, <2>1
  <2>2. CASE p \notin ToSet(reader.out)
    <3>1. p \in Listed(reader) /\ Before(reader.cursor, p)
      BY <2>2 DEF IInv, ReaderOK
    <3>2. CASE \E i \in 1 .. m : page[i] = p
      <4>1. p \in ToSet(page)
        BY <1>2, <3>2 DEF ToSet
      <4>. QED  BY <1>5, <4>1
    <3>3. CASE m = reader.limit /\ Before(page[m], p)
      <4>1. m # 0 /\ page # <<>>
        BY <1>2, <3>3, ReaderTypes, EmptySeq
      <4>2. cursor = page[m]
        BY <1>2, <1>6, <4>1 DEF Last
      <4>. QED  BY <3>3, <4>2
    <3>. QED  BY <1>2, <3>1, <3>2, <3>3 DEF IsPage
  <2>. QED  BY <2>1, <2>2
<1>14. ASSUME reader.kind = "history"
       PROVE  (\A i \in 1 .. n + m : out[i] = <<i - 1, 0>>) /\ n + m <= Len(log[reader.what])
  <2>1. \A i \in 1 .. n : reader.out[i] = <<i - 1, 0>>
    BY <1>4, <1>14, ReaderTypes DEF IInv, ReaderOK, HistoryIsLog
  <2>2. reader.cursor = <<n - 1, 0>>
    <3>1. CASE n = 0
      <4>1. reader.out = <<>>
        BY <1>4, <3>1, ReaderTypes, EmptySeq
      <4>. QED  BY <3>1, <4>1 DEF IInv, ReaderOK, Lowest
    <3>2. CASE n # 0
      <4>1. n \in 1 .. n /\ reader.out # <<>>
        BY <1>4, <3>2, EmptySeq
      <4>. QED  BY <1>4, <2>1, <4>1 DEF IInv, ReaderOK, Last
    <3>. QED  BY <3>1, <3>2
  <2>3. n <= Len(log[reader.what])
    BY <1>4, <1>14 DEF IInv, ReaderOK
  <2>4. /\ \A i \in 1 .. m : page[i] = <<n + i - 1, 0>>
        /\ n + m <= Len(log[reader.what])
    BY <1>2, <1>14, <2>2, <2>3, ReaderTypes, HistoryPage DEF IInv
  <2>5. ASSUME NEW i \in 1 .. n + m PROVE out[i] = <<i - 1, 0>>
    <3>1. CASE i <= n
      BY <1>5, <2>1, <3>1
    <3>2. CASE i > n
      <4>1. i - n \in 1 .. m /\ n + (i - n) = i /\ n + (i - n) - 1 = i - 1
        BY <3>2
      <4>. QED  BY <1>5, <2>4, <4>1
    <3>. QED  BY <3>1, <3>2
  <2>. QED  BY <2>4, <2>5
<1>15. NothingRepeated' /\ HistoryIsLog'
  <2>1. DOMAIN out = 1 .. n + m
    BY <1>5
  <2>2. reader'.out = out /\ reader'.kind = reader.kind
    BY <1>8
  <2>. QED  BY <1>5, <1>14, <2>1, <2>2 DEF NothingRepeated, HistoryIsLog, Ordered
<1>. QED
  BY <1>5, <1>7, <1>8, <1>9, <1>10, <1>12, <1>13, <1>14, <1>15 DEF IInv, ReaderOK

-----------------------------------------------------------------------------
(* The theorems.                                                           *)

LEMMA InitIInv == Init => IInv
<1>. SUFFICES ASSUME Init PROVE IInv
  OBVIOUS
<1>1. LogOK
  BY DEF Init, LogOK
<1>2. ConfigOK
  BY ReadsAssumption DEF Init, ConfigOK
<1>3. IntentsOK
  BY FS_EmptySet DEF Init, IntentsOK
<1>4. reader = NoReader /\ always = {} /\ <<>> \in Seq(Places)
  BY DEF Init
<1>5. ReaderShape
  BY <1>4 DEF ReaderShape, NoReader
<1>6. ReaderOK
  BY <1>4 DEF ReaderOK, NoReader, NothingRepeated, HistoryIsLog
<1>. QED  BY <1>1, <1>2, <1>3, <1>5, <1>6 DEF IInv

LEMMA StepIInv == IInv /\ [Next]_vars => IInv'
<1>. SUFFICES ASSUME IInv, [Next]_vars PROVE IInv'
  OBVIOUS
<1>1. CASE UNCHANGED vars
  <2>1. ReaderShape' /\ ReaderOK'
    BY <1>1, StillStep DEF vars
  <2>. QED  BY <1>1, <2>1 DEF vars, IInv, LogOK, ConfigOK, IntentsOK
<1>2. ASSUME NEW k \in Aggregates, NEW w \in Writing, NEW t \in 0 .. MaxTime,
             Commit(k, w[1], w[2], t)
      PROVE  IInv'
  <2>1. LogOK'
    BY <1>2, WritingIs, CommitLog
  <2>2. IntentsOK'
    BY <1>2, CommitIntents
  <2>3. ConfigOK'
    BY <1>2 DEF Commit, IInv, ConfigOK
  <2>4. \A j \in Aggregates : Len(log[j]) <= Len(log'[j])
    BY <1>2, CommitGrows
  <2>5. ReaderShape' /\ ReaderOK'
    BY <1>2, <2>1, <2>4, ObservedStep DEF Commit, Observed
  <2>. QED  BY <2>1, <2>2, <2>3, <2>5 DEF IInv
<1>3. ASSUME NEW i \in intents, Delivered(i) \/ DeadLettered(i) \/ Redriven(i) PROVE IInv'
  <2>1. /\ UNCHANGED <<subscribed, log, clock, upcasters, declared, reader>>
        /\ always' = always \cap Listed(reader)'
    BY <1>3 DEF Delivered, DeadLettered, Redriven, Observed
  <2>2. LogOK' /\ ConfigOK'
    BY <2>1 DEF IInv, LogOK, ConfigOK
  <2>3. IntentsOK'
    BY <1>3, DeliveryIntents
  <2>4. \A j \in Aggregates : Len(log[j]) <= Len(log'[j])
    BY <2>1 DEF IInv, LogOK
  <2>5. ReaderShape' /\ ReaderOK'
    BY <2>1, <2>2, <2>4, ObservedStep
  <2>. QED  BY <2>2, <2>3, <2>5 DEF IInv
<1>4. ASSUME NEW t \in Traversals, NEW n \in Limits, Start(t, n) PROVE IInv'
  <2>1. ReaderShape' /\ ReaderOK'
    BY <1>4, StartStep
  <2>. QED  BY <1>4, <2>1 DEF Start, IInv, LogOK, ConfigOK, IntentsOK
<1>5. CASE ReadPage
  <2>1. ReaderShape' /\ ReaderOK'
    BY <1>5, ReadStep
  <2>. QED  BY <1>5, <2>1 DEF ReadPage, IInv, LogOK, ConfigOK, IntentsOK
<1>6. CASE Tick
  <2>1. ReaderShape' /\ ReaderOK'
    BY <1>6, StillStep DEF Tick
  <2>2. clock' \in 0 .. MaxTime
    BY <1>6, ReadsAssumption DEF Tick, IInv, ConfigOK
  <2>. QED  BY <1>6, <2>1, <2>2 DEF Tick, IInv, LogOK, ConfigOK, IntentsOK
<1>7. CASE Deploy
  <2>1. ReaderShape' /\ ReaderOK'
    BY <1>7, StillStep DEF Deploy
  <2>. QED  BY <1>7, <2>1, NewestIs DEF Deploy, IInv, LogOK, ConfigOK, IntentsOK
<1>. QED  BY <1>1, <1>2, <1>3, <1>4, <1>5, <1>6, <1>7 DEF Next

LEMMA ReadsInvariant == Spec => []IInv
BY InitIInv, StepIInv, PTL DEF Spec

(* A traversal of a history, of the heads that match a filter, or of the   *)
(* outbox returns each element once, in the order of its key, and misses   *)
(* none that is there from its first page to its last, while commits,      *)
(* deliveries and redrives go on between its pages (Collection.history and *)
(* where, SqlAdmin.list_intents).                                          *)
THEOREM TraversalsStayWhole == Spec => []TraversalsAreWhole
<1>1. IInv => TraversalsAreWhole
  <2>. SUFFICES ASSUME IInv PROVE TraversalsAreWhole
    OBVIOUS
  <2>1. TypeOK
    <3>1. Places \subseteq Int \X Int
      BY DEF Places
    <3>2. always \in SUBSET (Int \X Int)
      BY <3>1, ReaderTypes
    <3>. QED  BY <3>2 DEF IInv, LogOK, ConfigOK, IntentsOK, ReaderShape, TypeOK
  <2>2. NothingSkipped /\ NothingRepeated /\ HistoryIsLog
    BY DEF IInv, ReaderOK, NothingSkipped
  <2>. QED  BY <2>1, <2>2 DEF TraversalsAreWhole
<1>. QED  BY <1>1, ReadsInvariant, PTL

(* With a chain of upcasters that validate_chain accepts, every row that a *)
(* build agrees to decode is brought to the version which it declares, and *)
(* its value is kept (upcast, hydrate).                                    *)
THEOREM ChainsAlwaysReach == Spec => []ChainsReachDeclared
<1>1. IInv => ChainsReachDeclared
  <2>. SUFFICES ASSUME IInv, NEW k \in Aggregates, NEW i \in DOMAIN log[k],
                       Decodable(log[k][i], declared)
                PROVE  Hydrated(log[k][i], declared) = Doc(declared, ValueOf(log[k][i].doc))
    BY DEF ChainsReachDeclared
  <2>1. i \in 1 .. Len(log[k])
    BY DEF IInv, LogOK
  <2>2. PICK row : row = log[k][i]
    OBVIOUS
  <2>3. row \in Rows /\ \E x \in {0, 1} : row.doc = Doc(row.version, x)
    BY <2>1, <2>2 DEF IInv, LogOK, RowOK
  <2>4. PICK x \in {0, 1} : row.doc = Doc(row.version, x)
    BY <2>3
  <2>5. row.version \in Builds /\ declared \in Builds /\ Connected(upcasters, Newest)
    BY <2>3 DEF Rows, IInv, ConfigOK
  <2>6. Hydrated(row, declared) = Doc(declared, x)
    BY <2>2, <2>4, <2>5, HydratedIs
  <2>7. ValueOf(Doc(row.version, x)) = x
    BY DocIs
  <2>. QED  BY <2>2, <2>4, <2>6, <2>7
<1>. QED  BY <1>1, ReadsInvariant, PTL

=============================================================================
