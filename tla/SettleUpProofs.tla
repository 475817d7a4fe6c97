--------------------------- MODULE SettleUpProofs ---------------------------
(***************************************************************************)
(* Why settling up always works out, for any people, expenses, weights and  *)
(* order: a split hands out exactly its total, every share finds somebody   *)
(* it is owed to, and both ways of settling leave everybody square.         *)
(*                                                                          *)
(* First the laws of sums over finite sets, from the definition of a sum as *)
(* a fold; then whole-number division and the ranking that hands out what   *)
(* is left over; then the invariant, one step of the program at a time.     *)
(***************************************************************************)
EXTENDS SettleUp, FiniteSetTheorems, WellFoundedInduction, TLAPS

-----------------------------------------------------------------------------
(* Finite sets. *)

\* Something first among any numbers that are not negative.
LEMMA LeastOf ==
    ASSUME NEW S, S \in SUBSET Nat, S # {}
    PROVE  Min(S) \in S /\ \A x \in S : Min(S) <= x
<1> DEFINE R == {ss \in Nat \X Nat : ss[1] < ss[2]}
<1>1. IsWellFoundedOn(R, Nat)
  BY NatLessThanWellFounded DEF OpToRel
<1> HIDE DEF R
<1>2. PICK x \in S : \A y \in S : ~(<<y, x>> \in R)
  BY <1>1, WFMin
<1>3. ASSUME NEW y \in S PROVE x <= y
  <2>1. ~(<<y, x>> \in R)
    BY <1>2
  <2>2. <<y, x>> \in Nat \X Nat => ~(y < x)
    BY <2>1, Zenon DEF R
  <2> QED
    BY <2>2
<1> QED
  BY <1>3 DEF Min

\* A set that holds every finite set all of whose proper subsets it holds.
LEMMA SubsetInduction ==
    ASSUME NEW S, IsFiniteSet(S), NEW U,
           ASSUME NEW s \in SUBSET S, \A r \in SUBSET s : r # s => r \in U
           PROVE  s \in U
    PROVE  \A s \in SUBSET S : s \in U
<1> DEFINE T == {Cardinality(s) : s \in (SUBSET S) \ U}
<1>2. \A s \in SUBSET S : IsFiniteSet(s) /\ Cardinality(s) \in Nat
  BY FS_Subset, FS_CardinalityType
<1>3. T \in SUBSET Nat
  BY <1>2
<1> SUFFICES ASSUME T # {} PROVE FALSE
  BY DEF T
<1> HIDE DEF T
<1>4. PICK n \in T : \A y \in T : n <= y
  BY <1>3, LeastOf
<1>5. PICK s \in (SUBSET S) \ U : n = Cardinality(s)
  BY <1>4 DEF T
<1>6. ASSUME NEW r \in SUBSET s, r # s PROVE r \in U
  <2>1. r \in SUBSET S /\ IsFiniteSet(s)
    BY <1>2
  <2>2. Cardinality(r) < Cardinality(s)
    BY <1>2, <1>6, <2>1, FS_Subset
  <2>3. Cardinality(r) \in Nat /\ Cardinality(s) \in Nat
    BY <1>2, <2>1
  <2>4. Cardinality(r) \notin T
    BY <1>4, <1>5, <2>2, <2>3
  <2> QED
    BY <2>1, <2>4 DEF T
<1> QED
  BY <1>5, <1>6

-----------------------------------------------------------------------------
(* Sums. *)

\* The table a sum is read from: for each subset, an element and the rest.
Element(s) == CHOOSE x \in s : TRUE
Table(g, f, S) ==
    g = [s \in SUBSET S |-> IF s = {} THEN 0 ELSE f[Element(s)] + g[s \ {Element(s)}]]

\* The element is one of the set, and without it the set is a smaller one.
LEMMA ElementIn ==
    ASSUME NEW s, s # {}
    PROVE  Element(s) \in s /\ s \ {Element(s)} \in SUBSET s /\ s \ {Element(s)} # s
BY DEF Element

\* What a table says of each subset.
LEMMA TableEntry ==
    ASSUME NEW g, NEW f, NEW S, Table(g, f, S), NEW s \in SUBSET S
    PROVE  g[s] = IF s = {} THEN 0 ELSE f[Element(s)] + g[s \ {Element(s)}]
<1>1. g = [t \in SUBSET S |-> IF t = {} THEN 0 ELSE f[Element(t)] + g[t \ {Element(t)}]]
  BY DEF Table
<1> QED
  BY <1>1

\* Every finite set has one: the tables of its subsets of at most n elements,
\* for one n after the other.
LEMMA TableExists ==
    ASSUME NEW S, IsFiniteSet(S), NEW f
    PROVE  \E g : Table(g, f, S)
<1> DEFINE Small(n) == {s \in SUBSET S : Cardinality(s) <= n}
           Row(h, s) == IF s = {} THEN 0 ELSE f[Element(s)] + h[s \ {Element(s)}]
           Have == {n \in Nat : \E h : h = [s \in Small(n) |-> Row(h, s)]}
<1>1. \A s \in SUBSET S : IsFiniteSet(s) /\ Cardinality(s) \in Nat
  BY FS_Subset, FS_CardinalityType
<1>2. 0 \in Have
  <2>1. \A s \in Small(0) : s = {}
    <3>1. ASSUME NEW s \in Small(0) PROVE s = {}
      <4>1. Cardinality(s) = 0 /\ IsFiniteSet(s)
        BY <1>1
      <4> QED
        BY <4>1, FS_EmptySet
    <3> QED
      BY <3>1
  <2> DEFINE h == [s \in Small(0) |-> 0]
  <2>2. h = [s \in Small(0) |-> Row(h, s)]
    BY <2>1
  <2> HIDE DEF h, Small, Row
  <2> QED
    BY <2>2
<1>3. ASSUME NEW n \in Have PROVE n + 1 \in Have
  <2>1. PICK h : h = [s \in Small(n) |-> Row(h, s)]
    BY <1>3
  <2> DEFINE k == [s \in Small(n + 1) |-> Row(h, s)]
  <2>2. n \in Nat
    OBVIOUS
  <2>3. ASSUME NEW s \in Small(n + 1), s # {} PROVE s \ {Element(s)} \in Small(n)
    <3>1. IsFiniteSet(s) /\ Element(s) \in s /\ s \in SUBSET S /\ Cardinality(s) <= n + 1
      BY <1>1, <2>3, ElementIn
    <3>2. Cardinality(s \ {Element(s)}) = Cardinality(s) - 1 /\ Cardinality(s) \in Nat
      BY <1>1, <3>1, FS_RemoveElement
    <3> QED
      BY <2>2, <3>1, <3>2
  <2>4. ASSUME NEW s \in Small(n) PROVE h[s] = k[s] /\ s \in Small(n + 1)
    <3>1. s \in Small(n + 1)
      BY <1>1, <2>2
    <3>2. h[s] = Row(h, s) /\ k[s] = Row(h, s)
      <4> HIDE DEF Small, Row
      <4> QED
        BY <2>1, <3>1
    <3> QED
      BY <3>1, <3>2
  <2>5. ASSUME NEW s \in Small(n + 1) PROVE Row(h, s) = Row(k, s)
    <3>1. s # {} => h[s \ {Element(s)}] = k[s \ {Element(s)}]
      BY <2>3, <2>4
    <3> QED
      BY <3>1
  <2>6. k = [s \in Small(n + 1) |-> Row(k, s)]
    BY <2>5
  <2> HIDE DEF k, Small, Row
  <2> QED
    BY <2>2, <2>6
<1>4. Cardinality(S) \in Have
  <2> DEFINE Lack == Nat \ Have
  <2>1. Cardinality(S) \in Nat
    BY FS_CardinalityType
  <2> SUFFICES ASSUME Lack # {} PROVE FALSE
    BY <2>1
  <2> HIDE DEF Have
  <2>2. PICK n \in Lack : \A y \in Lack : n <= y
    BY LeastOf
  <2>3. n # 0 /\ n \in Nat /\ n - 1 \in Nat
    BY <1>2, <2>2
  <2>4. n - 1 \in Have
    BY <2>2, <2>3
  <2> QED
    BY <1>3, <2>2, <2>3, <2>4
<1>5. Small(Cardinality(S)) = SUBSET S
  BY FS_Subset
<1>6. PICK h : h = [s \in Small(Cardinality(S)) |-> Row(h, s)]
  BY <1>4
<1>7. h = [s \in SUBSET S |-> Row(h, s)]
  <2> HIDE DEF Row, Small
  <2> QED
    BY <1>5, <1>6
<1> QED
  BY <1>7 DEF Table

\* Two tables agree on the sets both speak of.
LEMMA TablesAgree ==
    ASSUME NEW S, IsFiniteSet(S), NEW T, NEW V, S \subseteq T, S \subseteq V, NEW f,
           NEW g, Table(g, f, T), NEW h, Table(h, f, V)
    PROVE  \A s \in SUBSET S : g[s] = h[s]
<1> DEFINE U == {s \in SUBSET S : g[s] = h[s]}
<1>1. ASSUME NEW s \in SUBSET S, \A r \in SUBSET s : r # s => r \in U
      PROVE  s \in U
  <2>1. /\ g[s] = IF s = {} THEN 0 ELSE f[Element(s)] + g[s \ {Element(s)}]
        /\ h[s] = IF s = {} THEN 0 ELSE f[Element(s)] + h[s \ {Element(s)}]
    <3>1. s \in SUBSET T /\ s \in SUBSET V
      OBVIOUS
    <3> QED
      BY <3>1, TableEntry
  <2>2. s # {} => s \ {Element(s)} \in U
    BY <1>1, ElementIn
  <2> QED
    BY <2>1, <2>2
<1> HIDE DEF U
<1>2. \A s \in SUBSET S : s \in U
  BY <1>1, SubsetInduction
<1> QED
  BY <1>2 DEF U

\* A sum is read from any table of the set, or of a larger one.
LEMMA SumIsTable ==
    ASSUME NEW S, IsFiniteSet(S), NEW T, S \subseteq T, NEW f, NEW g, Table(g, f, T)
    PROVE  SumOver(f, S) = g[S]
<1> DEFINE Rows(h) == [s \in SUBSET S |-> IF s = {} THEN 0
                                           ELSE f[Element(s)] + h[s \ {Element(s)}]]
           own == CHOOSE h : h = Rows(h)
<1>1. SumOver(f, S) = own[S]
  BY DEF SumOver, MapThenSumSet, MapThenFoldSet, Element
<1>2. own = Rows(own)
  <2>1. PICK h : Table(h, f, S)
    BY TableExists
  <2>2. h = Rows(h)
    BY <2>1 DEF Table
  <2> HIDE DEF Rows
  <2> QED
    BY <2>2
<1>3. Table(own, f, S)
  <2> HIDE DEF own
  <2> QED
    BY <1>2 DEF Table
<1> HIDE DEF own, Rows
<1> QED
  BY <1>1, <1>3, TablesAgree

\* In a table it does not matter which element is taken first.
LEMMA TableAdd ==
    ASSUME NEW S, IsFiniteSet(S), NEW f, \A x \in S : f[x] \in Int, NEW g, Table(g, f, S)
    PROVE  \A s \in SUBSET S : /\ g[s] \in Int
                               /\ \A x \in s : g[s] = f[x] + g[s \ {x}]
<1> DEFINE U == {s \in SUBSET S : g[s] \in Int /\ \A x \in s : g[s] = f[x] + g[s \ {x}]}
<1>1. ASSUME NEW s \in SUBSET S, \A r \in SUBSET s : r # s => r \in U
      PROVE  s \in U
  <2> DEFINE c == Element(s)
             rest == s \ {c}
  <2>1. CASE s = {}
    BY <2>1, TableEntry
  <2>2. CASE s # {}
    <3>1. c \in s /\ rest \in U
      BY <1>1, <2>2, ElementIn
    <3>2. g[s] = f[c] + g[rest]
      BY <2>2, TableEntry
    <3>3. g[rest] \in Int /\ \A x \in rest : g[rest] = f[x] + g[rest \ {x}]
      BY <3>1
    <3>4. ASSUME NEW x \in s PROVE g[s] = f[x] + g[s \ {x}]
      <4>1. CASE x = c
        BY <3>2, <4>1
      <4>2. CASE x # c
        <5>1. s \ {x} \in U /\ rest \ {x} \in U /\ c \in s \ {x}
          BY <1>1, <3>1, <4>2
        <5>2. g[s \ {x}] = f[c] + g[(s \ {x}) \ {c}]
          BY <5>1
        <5>3. g[s \ {x}] = f[c] + g[rest \ {x}]
          <6>1. (s \ {x}) \ {c} = rest \ {x}
            OBVIOUS
          <6> QED
            BY <5>2, <6>1
        <5>4. g[rest] = f[x] + g[rest \ {x}]
          BY <3>3, <4>2
        <5>5. f[x] \in Int /\ f[c] \in Int /\ g[rest \ {x}] \in Int
          BY <3>1, <5>1
        <5> HIDE DEF c, rest, U
        <5> QED
          BY <3>2, <5>3, <5>4, <5>5
      <4> QED
        BY <4>1, <4>2
    <3>5. g[s] \in Int
      BY <3>1, <3>2, <3>3
    <3> HIDE DEF c, rest
    <3> QED
      BY <3>4, <3>5
  <2> QED
    BY <2>1, <2>2
<1> HIDE DEF U
<1>2. \A s \in SUBSET S : s \in U
  BY <1>1, SubsetInduction
<1> QED
  BY <1>2 DEF U

\* Nothing sums to nothing.
LEMMA SumEmpty ==
    ASSUME NEW f
    PROVE  SumOver(f, {}) = 0
<1>1. PICK g : Table(g, f, {})
  BY FS_EmptySet, TableExists
<1>2. SumOver(f, {}) = g[{}]
  BY <1>1, FS_EmptySet, SumIsTable
<1> QED
  BY <1>1, <1>2, TableEntry

\* A sum is one of its terms and the sum of the others.
LEMMA SumAdd ==
    ASSUME NEW S, IsFiniteSet(S), NEW f, \A x \in S : f[x] \in Int
    PROVE  /\ SumOver(f, S) \in Int
           /\ \A x \in S : SumOver(f, S) = f[x] + SumOver(f, S \ {x})
<1>1. PICK g : Table(g, f, S)
  BY TableExists
<1>2. \A s \in SUBSET S : SumOver(f, s) = g[s]
  BY <1>1, FS_Subset, SumIsTable
<1>3. \A s \in SUBSET S : g[s] \in Int /\ \A x \in s : g[s] = f[x] + g[s \ {x}]
  BY <1>1, TableAdd
<1>4. ASSUME NEW x \in S PROVE SumOver(f, S) = f[x] + SumOver(f, S \ {x})
  <2>1. S \ {x} \in SUBSET S /\ S \in SUBSET S
    OBVIOUS
  <2>2. SumOver(f, S) = g[S] /\ SumOver(f, S \ {x}) = g[S \ {x}]
    BY <1>2, <2>1
  <2> QED
    BY <1>3, <2>1, <2>2
<1> QED
  BY <1>2, <1>3, <1>4

\* Sums over finite sets are whole, and stay so over their subsets.
LEMMA SumTaken ==
    ASSUME NEW S, IsFiniteSet(S), NEW f, \A x \in S : f[x] \in Int, NEW s \in SUBSET S
    PROVE  /\ IsFiniteSet(s) /\ SumOver(f, s) \in Int
           /\ \A x \in s : f[x] \in Int /\ SumOver(f, s) = f[x] + SumOver(f, s \ {x})
<1>1. IsFiniteSet(s) /\ \A x \in s : f[x] \in Int
  BY FS_Subset
<1> QED
  BY <1>1, SumAdd

\* A multiple is taken through a product.
LEMMA Distribute ==
    ASSUME NEW k \in Int, NEW a \in Int, NEW b \in Int
    PROVE  k * (a + b) = k * a + k * b /\ k * a \in Int /\ k * b \in Int
OBVIOUS

\* Sums are linear.
LEMMA SumLinear ==
    ASSUME NEW S, IsFiniteSet(S), NEW k \in Int, NEW f, NEW g, NEW h,
           \A x \in S : f[x] \in Int /\ g[x] \in Int /\ h[x] = k * f[x] + g[x]
    PROVE  SumOver(h, S) = k * SumOver(f, S) + SumOver(g, S)
<1> DEFINE U == {s \in SUBSET S : SumOver(h, s) = k * SumOver(f, s) + SumOver(g, s)}
<1>0. \A x \in S : f[x] \in Int /\ g[x] \in Int /\ h[x] \in Int
  BY Distribute
<1>1. ASSUME NEW s \in SUBSET S, \A r \in SUBSET s : r # s => r \in U
      PROVE  s \in U
  <2>1. CASE s = {}
    BY <2>1, SumEmpty
  <2>2. CASE s # {}
    <3>1. PICK x \in s : TRUE
      BY <2>2
    <3> DEFINE r == s \ {x}
    <3>2. SumOver(h, r) = k * SumOver(f, r) + SumOver(g, r)
      BY <1>1
    <3>3. /\ SumOver(f, s) = f[x] + SumOver(f, r)
          /\ SumOver(g, s) = g[x] + SumOver(g, r)
          /\ SumOver(h, s) = h[x] + SumOver(h, r)
      BY <1>0, SumTaken
    <3>4. h[x] = k * f[x] + g[x] /\ f[x] \in Int /\ g[x] \in Int
      OBVIOUS
    <3>5. SumOver(f, r) \in Int /\ SumOver(g, r) \in Int
      <4>1. r \in SUBSET S
        OBVIOUS
      <4> HIDE DEF r
      <4> QED
        BY <1>0, <4>1, SumTaken
    <3> HIDE DEF r
    <3>6. k * SumOver(f, s) = k * f[x] + k * SumOver(f, r)
          /\ k * f[x] \in Int /\ k * SumOver(f, r) \in Int
      BY <3>3, <3>4, <3>5, Distribute
    <3>7. SumOver(h, s) = k * SumOver(f, s) + SumOver(g, s)
      BY <3>2, <3>3, <3>4, <3>5, <3>6
    <3> QED
      BY <3>7
  <2> QED
    BY <2>1, <2>2
<1> HIDE DEF U
<1>2. \A s \in SUBSET S : s \in U
  BY <1>1, SubsetInduction
<1> QED
  BY <1>2 DEF U

\* Equal terms, equal sums.
LEMMA SumSame ==
    ASSUME NEW S, IsFiniteSet(S), NEW f, NEW g, \A x \in S : f[x] \in Int /\ g[x] = f[x]
    PROVE  SumOver(g, S) = SumOver(f, S)
<1>1. \A x \in S : g[x] = 0 * f[x] + f[x]
  OBVIOUS
<1>2. SumOver(g, S) = 0 * SumOver(f, S) + SumOver(f, S)
  BY <1>1, SumLinear
<1> QED
  BY <1>2, SumAdd

\* Term by term, sums add up.
LEMMA SumPlus ==
    ASSUME NEW S, IsFiniteSet(S), NEW f, NEW g, NEW h,
           \A x \in S : f[x] \in Int /\ g[x] \in Int /\ h[x] = f[x] + g[x]
    PROVE  SumOver(h, S) = SumOver(f, S) + SumOver(g, S)
<1>1. \A x \in S : h[x] = 1 * f[x] + g[x]
  OBVIOUS
<1>2. SumOver(h, S) = 1 * SumOver(f, S) + SumOver(g, S)
  BY <1>1, SumLinear
<1> QED
  BY <1>2, SumAdd

\* And take away.
LEMMA SumMinus ==
    ASSUME NEW S, IsFiniteSet(S), NEW f, NEW g, NEW h,
           \A x \in S : f[x] \in Int /\ g[x] \in Int /\ h[x] = g[x] - f[x]
    PROVE  SumOver(h, S) = SumOver(g, S) - SumOver(f, S)
<1>1. \A x \in S : h[x] = (-1) * f[x] + g[x]
  OBVIOUS
<1>2. SumOver(h, S) = (-1) * SumOver(f, S) + SumOver(g, S)
  BY <1>1, SumLinear
<1> QED
  BY <1>2, SumAdd

\* Terms that are all zero.
LEMMA SumZero ==
    ASSUME NEW S, IsFiniteSet(S), NEW f, \A x \in S : f[x] = 0
    PROVE  SumOver(f, S) = 0
<1>1. \A x \in S : f[x] \in Int /\ f[x] = f[x] - f[x]
  OBVIOUS
<1>2. SumOver(f, S) = SumOver(f, S) - SumOver(f, S)
  BY <1>1, SumMinus
<1> QED
  BY <1>1, <1>2, SumAdd

\* Terms that are not negative: neither is their sum, nor less than any of them.
LEMMA SumNat ==
    ASSUME NEW S, IsFiniteSet(S), NEW f, \A x \in S : f[x] \in Nat
    PROVE  SumOver(f, S) \in Nat /\ \A x \in S : f[x] <= SumOver(f, S)
<1> DEFINE U == {s \in SUBSET S : SumOver(f, s) \in Nat}
<1>0. \A x \in S : f[x] \in Int
  OBVIOUS
<1>1. ASSUME NEW s \in SUBSET S, \A r \in SUBSET s : r # s => r \in U
      PROVE  s \in U
  <2>1. CASE s = {}
    BY <2>1, SumEmpty
  <2>2. CASE s # {}
    <3>1. PICK x \in s : TRUE
      BY <2>2
    <3>2. SumOver(f, s) = f[x] + SumOver(f, s \ {x}) /\ SumOver(f, s \ {x}) \in Nat
      BY <1>0, <1>1, SumTaken
    <3> QED
      BY <3>2
  <2> QED
    BY <2>1, <2>2
<1> HIDE DEF U
<1>2. \A s \in SUBSET S : s \in U
  BY <1>1, SubsetInduction
<1>3. ASSUME NEW x \in S PROVE f[x] <= SumOver(f, S)
  <2>1. SumOver(f, S \ {x}) \in Nat
    BY <1>2 DEF U
  <2> QED
    BY <1>0, <2>1, SumAdd
<1> QED
  BY <1>2, <1>3 DEF U

\* Term by term no less, no less in all; and with one of them more, more.
LEMMA SumOrder ==
    ASSUME NEW S, IsFiniteSet(S), NEW f, NEW g,
           \A x \in S : f[x] \in Int /\ g[x] \in Int /\ f[x] <= g[x]
    PROVE  /\ SumOver(f, S) <= SumOver(g, S)
           /\ (\E x \in S : f[x] < g[x]) => SumOver(f, S) < SumOver(g, S)
<1> DEFINE h == [x \in S |-> g[x] - f[x]]
<1>1. \A x \in S : h[x] \in Nat /\ h[x] = g[x] - f[x]
  OBVIOUS
<1> HIDE DEF h
<1>2. SumOver(h, S) = SumOver(g, S) - SumOver(f, S)
  BY <1>1, SumMinus
<1>3. SumOver(h, S) \in Nat /\ \A x \in S : h[x] <= SumOver(h, S)
  BY <1>1, SumNat
<1>4. SumOver(f, S) \in Int /\ SumOver(g, S) \in Int
  BY SumAdd
<1> QED
  BY <1>1, <1>2, <1>3, <1>4

\* One term changes: so does the sum, by as much.
LEMMA SumOne ==
    ASSUME NEW S, IsFiniteSet(S), NEW f, NEW g, NEW x \in S,
           \A y \in S : f[y] \in Int /\ g[y] \in Int,
           \A y \in S \ {x} : g[y] = f[y]
    PROVE  SumOver(g, S) = SumOver(f, S) + g[x] - f[x]
<1>1. SumOver(f, S) = f[x] + SumOver(f, S \ {x}) /\ SumOver(g, S) = g[x] + SumOver(g, S \ {x})
  BY SumAdd
<1>2. IsFiniteSet(S \ {x})
  BY FS_RemoveElement
<1>3. SumOver(g, S \ {x}) = SumOver(f, S \ {x}) /\ SumOver(f, S \ {x}) \in Int
  <2> DEFINE r == S \ {x}
  <2>1. IsFiniteSet(r) /\ \A y \in r : f[y] \in Int /\ g[y] = f[y]
    BY <1>2
  <2> HIDE DEF r
  <2>2. SumOver(g, r) = SumOver(f, r) /\ SumOver(f, r) \in Int
    BY <2>1, SumSame, SumAdd
  <2> QED
    BY <2>2 DEF r
<1> QED
  BY <1>1, <1>3

\* Terms that are zero may be left out.
LEMMA SumPart ==
    ASSUME NEW S, IsFiniteSet(S), NEW f, \A x \in S : f[x] \in Int,
           NEW T \in SUBSET S, \A x \in S \ T : f[x] = 0
    PROVE  SumOver(f, S) = SumOver(f, T)
<1> DEFINE U == {s \in SUBSET S : SumOver(f, s) = SumOver(f, s \cap T)}
<1>1. ASSUME NEW s \in SUBSET S, \A r \in SUBSET s : r # s => r \in U
      PROVE  s \in U
  <2>1. CASE s \subseteq T
    <3>1. s \cap T = s
      BY <2>1
    <3> QED
      BY <3>1
  <2>2. ASSUME NEW x \in s, x \notin T PROVE s \in U
    <3>1. SumOver(f, s) = f[x] + SumOver(f, s \ {x})
      BY SumTaken
    <3>2. SumOver(f, s \ {x}) = SumOver(f, s \cap T)
      <4>1. (s \ {x}) \cap T = s \cap T
        BY <2>2
      <4>2. SumOver(f, s \ {x}) = SumOver(f, (s \ {x}) \cap T)
        BY <1>1
      <4> QED
        BY <4>1, <4>2
    <3>3. f[x] = 0 /\ SumOver(f, s \cap T) \in Int
      <4>1. s \cap T \in SUBSET S
        OBVIOUS
      <4> QED
        BY <2>2, <4>1, SumTaken
    <3>4. SumOver(f, s) = SumOver(f, s \cap T)
      <4> HIDE DEF U
      <4> QED
        BY <3>1, <3>2, <3>3
    <3> QED
      BY <3>4
  <2> QED
    BY <2>1, <2>2
<1> HIDE DEF U
<1>2. \A s \in SUBSET S : s \in U
  BY <1>1, SubsetInduction
<1>3. S \cap T = T
  OBVIOUS
<1> QED
  BY <1>2, <1>3 DEF U

\* Counting: a one for each of a part.
LEMMA SumCount ==
    ASSUME NEW S, IsFiniteSet(S), NEW T \in SUBSET S, NEW f,
           \A x \in S : f[x] = IF x \in T THEN 1 ELSE 0
    PROVE  SumOver(f, S) = Cardinality(T)
<1>0. IsFiniteSet(T) /\ \A x \in S : f[x] \in Int
  BY FS_Subset
<1>1. \A s \in SUBSET T : SumOver(f, s) = Cardinality(s)
  <2> DEFINE V == {s \in SUBSET T : SumOver(f, s) = Cardinality(s)}
  <2>1. ASSUME NEW s \in SUBSET T, \A r \in SUBSET s : r # s => r \in V
        PROVE  s \in V
    <3>1. CASE s = {}
      BY <3>1, SumEmpty, FS_EmptySet
    <3>2. CASE s # {}
      <4>1. PICK x \in s : TRUE
        BY <3>2
      <4>2. SumOver(f, s) = f[x] + SumOver(f, s \ {x}) /\ f[x] = 1
        BY <1>0, SumTaken
      <4>3. SumOver(f, s \ {x}) = Cardinality(s \ {x})
        BY <2>1
      <4>4. IsFiniteSet(s) /\ Cardinality(s) \in Nat
        BY <1>0, FS_Subset, FS_CardinalityType
      <4>5. Cardinality(s \ {x}) = Cardinality(s) - 1
        BY <4>1, <4>4, FS_RemoveElement
      <4> QED
        BY <4>2, <4>3, <4>4, <4>5
    <3> QED
      BY <3>1, <3>2
  <2> HIDE DEF V
  <2>2. \A s \in SUBSET T : s \in V
    BY <1>0, <2>1, SubsetInduction
  <2> QED
    BY <2>2 DEF V
<1>2. SumOver(f, S) = SumOver(f, T)
  BY <1>0, SumPart
<1> QED
  BY <1>1, <1>2

-----------------------------------------------------------------------------
(* Whole numbers. *)

\* Multiplying keeps the order.
LEMMA TimesOrder ==
    ASSUME NEW k \in Nat, NEW a \in Int, NEW b \in Int
    PROVE  /\ a <= b => k * a <= k * b
           /\ k > 0 /\ k * a <= k * b => a <= b
           /\ k > 0 /\ a < b => k * a < k * b
OBVIOUS

\* A quotient and what remains.
LEMMA Division ==
    ASSUME NEW n \in Nat \ {0}, NEW a \in Nat
    PROVE  a \div n \in Nat /\ a % n \in 0..(n - 1) /\ a = n * (a \div n) + (a % n)
OBVIOUS

\* Only one quotient leaves a remainder.
LEMMA DivisionOnly ==
    ASSUME NEW n \in Nat \ {0}, NEW q \in Int, NEW r \in 0..(n - 1), NEW u \in Int,
           NEW v \in 0..(n - 1), n * q + r = n * u + v
    PROVE  q = u /\ r = v
<1>1. ASSUME NEW a \in Int, NEW b \in Int, NEW c \in 0..(n - 1), NEW d \in 0..(n - 1),
             a < b
      PROVE  n * a + c # n * b + d
  <2>1. n * (a + 1) <= n * b
    BY <1>1, TimesOrder
  <2>2. n * (a + 1) = n * a + n
    BY Distribute
  <2>3. n * a \in Int /\ n * b \in Int
    OBVIOUS
  <2> QED
    BY <2>1, <2>2, <2>3
<1>2. q = u
  BY <1>1
<1>3. n * q \in Int
  OBVIOUS
<1> QED
  BY <1>2, <1>3

\* What is less than twice n, modulo n.
LEMMA Around ==
    ASSUME NEW n \in Nat \ {0}, NEW a \in 0..(2 * n - 1)
    PROVE  a % n = IF a < n THEN a ELSE a - n
<1>1. a = n * (a \div n) + (a % n) /\ a \div n \in Int /\ a % n \in 0..(n - 1)
  BY Division
<1>2. CASE a < n
  <2>1. a = n * 0 + a /\ a \in 0..(n - 1)
    BY <1>2
  <2> QED
    BY <1>1, <1>2, <2>1, DivisionOnly
<1>3. CASE a >= n
  <2>1. a = n * 1 + (a - n) /\ a - n \in 0..(n - 1)
    BY <1>3
  <2> QED
    BY <1>1, <1>3, <2>1, DivisionOnly
<1> QED
  BY <1>2, <1>3

-----------------------------------------------------------------------------
(* Who gets a leftover unit before whom. *)

\* No two parties stand in the same place after rotating.
LEMMA RotatedApart ==
    ASSUME NEW S, S \in SUBSET Nat, IsFiniteSet(S), NEW offset \in 0..(Cardinality(S) - 1),
           NEW p \in S, NEW q \in S
    PROVE  /\ Rotated(S, offset, p) \in Int
           /\ p # q => Rotated(S, offset, p) # Rotated(S, offset, q)
<1> DEFINE n == Cardinality(S)
           Below(m) == {x \in S : x < m}
           at(m) == Cardinality(Below(m))
<1>1. n \in Nat \ {0}
  BY FS_CardinalityType
<1>2. ASSUME NEW m \in S PROVE at(m) \in 0..(n - 1)
  <2>1. IsFiniteSet(Below(m)) /\ at(m) <= n /\ (n = at(m) => S = Below(m))
    BY FS_Subset
  <2>2. m \in S \ Below(m)
    OBVIOUS
  <2>3. at(m) \in Nat
    BY <2>1, FS_CardinalityType
  <2> QED
    BY <1>1, <2>1, <2>2, <2>3
<1>3. ASSUME NEW m \in S, NEW k \in S, m < k PROVE at(m) < at(k)
  <2>1. IsFiniteSet(Below(k))
    BY FS_Subset
  <2>2. Below(m) \in SUBSET Below(k) /\ m \in Below(k) \ Below(m)
    <3>1. \A x \in S : x \in Nat
      OBVIOUS
    <3>2. \A x \in S : x < m => x < k
      BY <1>3, <3>1
    <3>3. ~(m < m)
      BY <3>1
    <3> QED
      BY <1>3, <3>2, <3>3
  <2> HIDE DEF Below
  <2>3. Cardinality(Below(m)) <= Cardinality(Below(k))
        /\ (Cardinality(Below(k)) = Cardinality(Below(m)) => Below(k) = Below(m))
    BY <2>1, <2>2, FS_Subset
  <2> QED
    BY <1>2, <2>2, <2>3
<1>4. ASSUME NEW m \in S
      PROVE  /\ Rotated(S, offset, m) = IF at(m) < offset THEN at(m) - offset + n ELSE at(m) - offset
             /\ Rotated(S, offset, m) \in Int
  <2> DEFINE k == at(m) - offset + n
  <2>1. Rotated(S, offset, m) = k % n
    BY DEF Rotated
  <2> HIDE DEF at, n
  <2>2. k \in 0..(2 * n - 1)
    BY <1>1, <1>2 DEF n
  <2>3. k % n = IF k < n THEN k ELSE k - n
    <3> HIDE DEF k
    <3> QED
      BY <1>1, <2>2, Around
  <2>4. offset \in Nat /\ at(m) \in Nat
    BY <1>2
  <2> QED
    BY <1>1, <2>1, <2>3, <2>4
<1>5. at(p) \in 0..(n - 1) /\ at(q) \in 0..(n - 1) /\ (p # q => at(p) # at(q))
  <2>1. p \in Nat /\ q \in Nat
    OBVIOUS
  <2>2. p < q \/ q < p \/ p = q
    BY <2>1
  <2> HIDE DEF at, n
  <2> QED
    BY <1>2, <1>3, <2>2
<1>6. offset \in 0..(n - 1)
  OBVIOUS
<1> HIDE DEF at, n
<1> QED
  BY <1>1, <1>4, <1>5, <1>6

\* The parties before one of them.
Before(rests, offset, m) == {q \in DOMAIN rests : First(rests, offset, q, m)}

\* What a ranking is made of: remainders of some parties, and an offset.
Ranking(rests, offset) ==
    /\ \E S \in SUBSET Nat : IsFiniteSet(S) /\ rests \in [S -> Int]
    /\ offset \in 0..(Cardinality(DOMAIN rests) - 1)

\* Being first is a strict order, of any two.
LEMMA FirstOrders ==
    ASSUME NEW rests, NEW offset, Ranking(rests, offset),
           NEW p \in DOMAIN rests, NEW q \in DOMAIN rests, NEW m \in DOMAIN rests
    PROVE  /\ ~First(rests, offset, p, p)
           /\ p # q => First(rests, offset, p, q) \/ First(rests, offset, q, p)
           /\ First(rests, offset, p, q) /\ First(rests, offset, q, m) => First(rests, offset, p, m)
<1> DEFINE D == DOMAIN rests
           at(x) == Rotated(D, offset, x)
<1>1. D \in SUBSET Nat /\ IsFiniteSet(D) /\ rests \in [D -> Int] /\ offset \in 0..(Cardinality(D) - 1)
  BY DEF Ranking
<1> HIDE DEF D
<1>2. \A x, y \in D : at(x) \in Int /\ (x # y => at(x) # at(y))
  BY <1>1, RotatedApart
<1>3. \A x, y \in D : First(rests, offset, x, y)
                      <=> rests[x] > rests[y] \/ (rests[x] = rests[y] /\ at(x) < at(y))
  BY DEF First, D
<1>4. p \in D /\ q \in D /\ m \in D
  BY DEF D
<1> HIDE DEF at
<1>5. \A x \in D : rests[x] \in Int
  BY <1>1
<1> QED
  BY <1>2, <1>3, <1>4, <1>5

\* Whoever is first has fewer before them.
LEMMA FewerBefore ==
    ASSUME NEW rests, NEW offset, Ranking(rests, offset)
    PROVE  /\ IsFiniteSet(DOMAIN rests)
           /\ \A m \in DOMAIN rests :
                  /\ IsFiniteSet(Before(rests, offset, m))
                  /\ Cardinality(Before(rests, offset, m)) \in 0..(Cardinality(DOMAIN rests) - 1)
           /\ \A p, q \in DOMAIN rests :
                  First(rests, offset, p, q)
                  => Cardinality(Before(rests, offset, p)) < Cardinality(Before(rests, offset, q))
<1> DEFINE D == DOMAIN rests
           B(m) == Before(rests, offset, m)
<1>1. IsFiniteSet(D) /\ Cardinality(D) \in Nat
  BY FS_CardinalityType DEF Ranking
<1>2. ASSUME NEW m \in D
      PROVE  IsFiniteSet(B(m)) /\ Cardinality(B(m)) \in 0..(Cardinality(D) - 1)
  <2>1. B(m) \in SUBSET D /\ m \in D \ B(m)
    BY FirstOrders DEF Before
  <2> HIDE DEF D, B
  <2>2. IsFiniteSet(B(m)) /\ Cardinality(B(m)) <= Cardinality(D)
        /\ (Cardinality(D) = Cardinality(B(m)) => D = B(m))
    BY <1>1, <2>1, FS_Subset
  <2>3. Cardinality(B(m)) \in Nat
    BY <2>2, FS_CardinalityType
  <2> QED
    BY <1>1, <2>1, <2>2, <2>3
<1>3. ASSUME NEW p \in D, NEW q \in D, First(rests, offset, p, q)
      PROVE  Cardinality(B(p)) < Cardinality(B(q))
  <2>1. B(p) \in SUBSET B(q) /\ p \in B(q) \ B(p)
    BY <1>3, FirstOrders DEF Before
  <2> HIDE DEF D, B
  <2>2. Cardinality(B(p)) <= Cardinality(B(q))
        /\ (Cardinality(B(q)) = Cardinality(B(p)) => B(q) = B(p))
    BY <1>2, <2>1, FS_Subset
  <2> QED
    BY <1>2, <2>1, <2>2
<1> QED
  BY <1>1, <1>2, <1>3

\* So exactly the first several have fewer than that many before them.
LEMMA FirstSeveral ==
    ASSUME NEW rests, NEW offset, Ranking(rests, offset),
           NEW several \in 0..Cardinality(DOMAIN rests)
    PROVE  Cardinality({m \in DOMAIN rests : Cardinality(Before(rests, offset, m)) < several})
               = several
<1> DEFINE D == DOMAIN rests
           n == Cardinality(D)
           rank == [m \in D |-> Cardinality(Before(rests, offset, m))]
           V == {m \in D : rank[m] < several}
           top == [m \in V |-> rank[m]]
<1>1. IsFiniteSet(D) /\ n \in Nat
  BY FewerBefore, FS_CardinalityType
<1>2. rank \in [D -> 0..(n - 1)]
  BY FewerBefore
<1>3. ASSUME NEW p \in D, NEW q \in D, rank[p] = rank[q] PROVE p = q
  <2> SUFFICES ASSUME p # q PROVE FALSE
    OBVIOUS
  <2>1. First(rests, offset, p, q) \/ First(rests, offset, q, p)
    BY FirstOrders
  <2>2. rank[p] < rank[q] \/ rank[q] < rank[p]
    BY <2>1, FewerBefore
  <2> QED
    BY <1>2, <1>3, <2>2
<1>4. rank \in Injection(D, 0..(n - 1))
  <2> HIDE DEF D, n, rank
  <2> QED
    BY <1>2, <1>3 DEF Injection, IsInjective
<1>5. IsFiniteSet(0..(n - 1)) /\ Cardinality(0..(n - 1)) = n
  <2> HIDE DEF n
  <2>1. 0 \in Int /\ n - 1 \in Int
    BY <1>1
  <2> QED
    BY <1>1, <2>1, FS_Interval
<1>6. rank \in Surjection(D, 0..(n - 1))
  <2> HIDE DEF rank
  <2> QED
    BY <1>4, <1>5, FS_Injection
<1>7. several \in Nat /\ several <= n
  BY <1>1
<1> HIDE DEF D, n, rank
<1>8. top \in [V -> 0..(several - 1)]
  BY <1>1, <1>2, <1>7
<1>9. \A k \in 0..(several - 1) : \E m \in V : top[m] = k
  <2>1. ASSUME NEW k \in 0..(several - 1) PROVE \E m \in V : top[m] = k
    <3>1. k \in 0..(n - 1)
      BY <1>1, <1>7
    <3>2. PICK m \in D : rank[m] = k
      BY <1>6, <3>1 DEF Surjection
    <3> QED
      BY <1>7, <3>2
  <2> QED
    BY <2>1
<1>10. \A p, q \in V : top[p] = top[q] => p = q
  BY <1>3
<1>11. IsFiniteSet(V)
  BY <1>1, FS_Subset
<1> HIDE DEF V, top
<1>12. ExistsBijection(V, 0..(several - 1))
  BY <1>8, <1>9, <1>10 DEF ExistsBijection, Bijection, Injection, Surjection, IsInjective
<1>13. Cardinality(V) = several
  <2>1. Cardinality(0..(several - 1)) = several
    <3>1. 0 \in Int /\ several - 1 \in Int
      BY <1>7
    <3> QED
      BY <1>7, <3>1, FS_Interval
  <2> QED
    BY <1>11, <1>12, <2>1, FS_Bijection
<1> QED
  BY <1>13 DEF V, rank, D

-----------------------------------------------------------------------------
(* Largest remainder. *)

\* What may be divided: a total, by weights of some parties that are not all
\* zero, starting at one of them.
Divisible(total, weights, offset) ==
    /\ total \in Nat
    /\ \E S \in SUBSET Nat : IsFiniteSet(S) /\ weights \in [S -> Nat]
    /\ SumOf(weights) > 0
    /\ offset \in Offsets(weights)

Floors(total, weights) == [m \in DOMAIN weights |-> (total * weights[m]) \div SumOf(weights)]
Rests(total, weights) == [m \in DOMAIN weights |-> (total * weights[m]) % SumOf(weights)]
Left(total, weights) == total - SumOf(Floors(total, weights))

\* The parts of the division, each by its own name.
LEMMA SplitParts ==
    ASSUME NEW total, NEW weights, NEW offset, Divisible(total, weights, offset)
    PROVE  /\ DOMAIN weights \in SUBSET Nat /\ IsFiniteSet(DOMAIN weights)
           /\ weights \in [DOMAIN weights -> Nat]
           /\ SumOf(weights) \in Nat \ {0}
           /\ Floors(total, weights) \in [DOMAIN weights -> Nat]
           /\ Rests(total, weights) \in [DOMAIN weights -> 0..(SumOf(weights) - 1)]
           /\ \A m \in DOMAIN weights :
                  total * weights[m]
                      = SumOf(weights) * Floors(total, weights)[m] + Rests(total, weights)[m]
<1>1. /\ DOMAIN weights \in SUBSET Nat /\ IsFiniteSet(DOMAIN weights)
      /\ weights \in [DOMAIN weights -> Nat]
  BY DEF Divisible
<1>2. SumOf(weights) \in Nat \ {0}
  <2>1. SumOver(weights, DOMAIN weights) \in Nat
    BY <1>1, SumNat
  <2> QED
    BY <2>1 DEF SumOf, Divisible
<1>3. ASSUME NEW m \in DOMAIN weights
      PROVE  /\ (total * weights[m]) \div SumOf(weights) \in Nat
             /\ (total * weights[m]) % SumOf(weights) \in 0..(SumOf(weights) - 1)
             /\ total * weights[m]
                    = SumOf(weights) * ((total * weights[m]) \div SumOf(weights))
                      + ((total * weights[m]) % SumOf(weights))
  <2> DEFINE a == total * weights[m]
             n == SumOf(weights)
  <2>1. a \in Nat /\ n \in Nat \ {0}
    <3>1. weights[m] \in Nat /\ total \in Nat
      BY <1>1 DEF Divisible
    <3> QED
      BY <1>2, <3>1
  <2> HIDE DEF a, n
  <2>2. a \div n \in Nat /\ a % n \in 0..(n - 1) /\ a = n * (a \div n) + (a % n)
    BY <2>1, Division
  <2> QED
    BY <2>2 DEF a, n
<1> QED
  BY <1>1, <1>2, <1>3 DEF Floors, Rests

\* Together the remainders are worth the units that are left over.
LEMMA RestsWorth ==
    ASSUME NEW total, NEW weights, NEW offset, Divisible(total, weights, offset)
    PROVE  /\ SumOf(Floors(total, weights)) \in Nat
           /\ SumOf(Rests(total, weights)) = SumOf(weights) * Left(total, weights)
<1> DEFINE D == DOMAIN weights
           W == SumOf(weights)
           floors == Floors(total, weights)
           rests == Rests(total, weights)
           all == [m \in D |-> total * weights[m]]
           zero == [m \in D |-> 0]
<1>1. /\ IsFiniteSet(D) /\ W \in Nat \ {0} /\ total \in Nat
      /\ weights \in [D -> Nat] /\ floors \in [D -> Nat] /\ rests \in [D -> 0..(W - 1)]
      /\ \A m \in D : total * weights[m] = W * floors[m] + rests[m]
  BY SplitParts DEF Divisible
<1>2. SumOf(weights) = SumOver(weights, D) /\ SumOf(floors) = SumOver(floors, D)
      /\ SumOf(rests) = SumOver(rests, D)
  BY <1>1 DEF SumOf
<1> HIDE DEF D, W, floors, rests
<1>3. SumOver(all, D) = total * SumOver(weights, D) + SumOver(zero, D)
  <2>1. \A m \in D : weights[m] \in Int /\ zero[m] \in Int /\ all[m] = total * weights[m] + zero[m]
    BY <1>1
  <2> HIDE DEF all, zero
  <2> QED
    BY <1>1, <2>1, SumLinear
<1>4. SumOver(zero, D) = 0
  BY <1>1, SumZero
<1>5. SumOver(all, D) = W * SumOver(floors, D) + SumOver(rests, D)
  <2>1. \A m \in D : floors[m] \in Int /\ rests[m] \in Int /\ all[m] = W * floors[m] + rests[m]
    BY <1>1
  <2> HIDE DEF all
  <2> QED
    BY <1>1, <2>1, SumLinear
<1> HIDE DEF all, zero
<1>6. SumOver(floors, D) \in Nat /\ SumOver(rests, D) \in Int
  <2>1. \A m \in D : floors[m] \in Nat /\ rests[m] \in Int
    BY <1>1
  <2> QED
    BY <1>1, <2>1, SumNat, SumAdd
<1>7. total * W = W * SumOver(floors, D) + SumOver(rests, D)
  <2>1. SumOver(weights, D) = W
    BY <1>2 DEF W
  <2>2. total * W \in Int
    BY <1>1
  <2> QED
    BY <1>3, <1>4, <1>5, <2>1, <2>2
<1>8. W * (total - SumOver(floors, D)) = W * total - W * SumOver(floors, D)
  BY <1>1, <1>6
<1>9. SumOver(rests, D) = W * (total - SumOver(floors, D))
  <2>1. W * SumOver(floors, D) \in Int /\ W * total = total * W /\ W * total \in Int
    BY <1>1, <1>6
  <2> QED
    BY <1>6, <1>7, <1>8, <2>1
<1> QED
  BY <1>2, <1>6, <1>9 DEF Left, W, floors, rests

\* There is no unit too many: no more than parties with a remainder.
LEMMA LeftBounds ==
    ASSUME NEW total, NEW weights, NEW offset, Divisible(total, weights, offset)
    PROVE  /\ Left(total, weights) \in Nat
           /\ Left(total, weights)
                  <= Cardinality({m \in DOMAIN weights : Rests(total, weights)[m] > 0})
<1> DEFINE D == DOMAIN weights
           W == SumOf(weights)
           rests == Rests(total, weights)
           some == {m \in D : rests[m] > 0}
           ones == [m \in D |-> IF m \in some THEN 1 ELSE 0]
           zero == [m \in D |-> 0]
           over == [m \in D |-> W * ones[m] + zero[m]]
           L == Left(total, weights)
<1>1. /\ IsFiniteSet(D) /\ W \in Nat \ {0} /\ total \in Nat
      /\ rests \in [D -> 0..(W - 1)]
      /\ SumOf(rests) = SumOver(rests, D)
      /\ SumOf(rests) = W * L
      /\ L \in Int
  BY SplitParts, RestsWorth DEF Divisible, SumOf, Left
<1> HIDE DEF D, W, rests, L
<1>2. SumOver(rests, D) \in Nat
  <2>1. \A m \in D : rests[m] \in Nat
    BY <1>1
  <2> QED
    BY <1>1, <2>1, SumNat
<1>3. SumOver(ones, D) = Cardinality(some) /\ SumOver(zero, D) = 0
  <2>1. some \in SUBSET D
    OBVIOUS
  <2> HIDE DEF some
  <2> QED
    BY <1>1, <2>1, SumCount, SumZero
<1>4. SumOver(over, D) = W * SumOver(ones, D) + SumOver(zero, D)
  <2>1. \A m \in D : ones[m] \in Int /\ zero[m] \in Int /\ over[m] = W * ones[m] + zero[m]
    OBVIOUS
  <2>2. W \in Int /\ IsFiniteSet(D)
    BY <1>1
  <2> HIDE DEF over, ones, zero, some
  <2> QED
    BY <2>1, <2>2, SumLinear
<1>5. SumOver(rests, D) <= SumOver(over, D)
  <2>1. \A m \in D : rests[m] \in Int /\ over[m] \in Int /\ rests[m] <= over[m]
    <3>1. ASSUME NEW m \in D PROVE rests[m] \in Int /\ over[m] \in Int /\ rests[m] <= over[m]
      <4>1. over[m] = IF rests[m] > 0 THEN W ELSE 0
        <5>1. W * 1 + 0 = W /\ W * 0 + 0 = 0
          BY <1>1
        <5> QED
          BY <5>1
      <4>2. rests[m] \in 0..(W - 1)
        BY <1>1
      <4> HIDE DEF over
      <4> QED
        BY <1>1, <4>1, <4>2
    <3> QED
      BY <3>1
  <2> HIDE DEF over
  <2> QED
    BY <1>1, <2>1, SumOrder
<1>6. Cardinality(some) \in Nat
  BY <1>1, FS_Subset, FS_CardinalityType
<1> HIDE DEF some, ones, zero, over
<1>7. W * L <= W * Cardinality(some) /\ W * 0 <= W * L
  <2>1. W * Cardinality(some) \in Int /\ W * 0 = 0
    BY <1>1, <1>6
  <2> QED
    BY <1>1, <1>2, <1>3, <1>4, <1>5, <2>1
<1>8. L <= Cardinality(some) /\ 0 <= L
  <2>1. W \in Nat /\ W > 0
    BY <1>1
  <2> QED
    BY <1>1, <1>6, <1>7, <2>1, TimesOrder
<1> QED
  BY <1>1, <1>8 DEF L, some, rests, D

\* One unit more for those with few enough before them.
Bonus(total, weights, offset, m) ==
    IF Cardinality(Before(Rests(total, weights), offset, m)) < Left(total, weights) THEN 1 ELSE 0

\* The code's division, in these parts.
LEMMA SplitForm ==
    ASSUME NEW total, NEW weights, NEW offset
    PROVE  AllocateLargestRemainder(total, weights, offset)
               = [m \in DOMAIN weights |-> Floors(total, weights)[m] + Bonus(total, weights, offset, m)]
BY DEF AllocateLargestRemainder, Bonus, Left, Leftover, Floors, Rests, Before

\* Its remainders rank the parties.
LEMMA RestsRank ==
    ASSUME NEW total, NEW weights, NEW offset, Divisible(total, weights, offset)
    PROVE  /\ Ranking(Rests(total, weights), offset)
           /\ DOMAIN Rests(total, weights) = DOMAIN weights
           /\ Left(total, weights) \in 0..Cardinality(DOMAIN weights)
           /\ \A m \in DOMAIN weights :
                  Cardinality(Before(Rests(total, weights), offset, m)) \in Nat
<1> DEFINE D == DOMAIN weights
           rests == Rests(total, weights)
           some == {m \in D : rests[m] > 0}
<1>1. /\ D \in SUBSET Nat /\ IsFiniteSet(D) /\ SumOf(weights) \in Nat
      /\ rests \in [D -> 0..(SumOf(weights) - 1)]
  BY SplitParts
<1>2. offset \in 0..(Cardinality(D) - 1)
  BY DEF Divisible, Offsets
<1>3. Left(total, weights) \in Nat /\ Left(total, weights) <= Cardinality(some)
  BY LeftBounds
<1>4. Cardinality(some) <= Cardinality(D) /\ Cardinality(some) \in Nat /\ Cardinality(D) \in Nat
  BY <1>1, FS_Subset, FS_CardinalityType
<1> HIDE DEF D, rests, some
<1>5. DOMAIN rests = D /\ rests \in [D -> Int]
  BY <1>1
<1>6. Ranking(rests, offset)
  BY <1>1, <1>2, <1>5 DEF Ranking
<1>7. \A m \in D : Cardinality(Before(rests, offset, m)) \in Nat
  BY <1>5, <1>6, FewerBefore
<1> QED
  BY <1>3, <1>4, <1>5, <1>6, <1>7 DEF D, rests

\* It hands out the total, nothing less and nothing more.
LEMMA SplitTotal ==
    ASSUME NEW total, NEW weights, NEW offset, Divisible(total, weights, offset)
    PROVE  /\ AllocateLargestRemainder(total, weights, offset) \in [DOMAIN weights -> Nat]
           /\ SumOf(AllocateLargestRemainder(total, weights, offset)) = total
<1> DEFINE D == DOMAIN weights
           floors == Floors(total, weights)
           extra == [m \in D |-> Bonus(total, weights, offset, m)]
           owed == AllocateLargestRemainder(total, weights, offset)
           lucky == {m \in D : Cardinality(Before(Rests(total, weights), offset, m))
                                   < Left(total, weights)}
<1>1. IsFiniteSet(D) /\ floors \in [D -> Nat] /\ SumOf(floors) = SumOver(floors, D)
  BY SplitParts DEF SumOf
<1>2. \A m \in D : extra[m] = IF m \in lucky THEN 1 ELSE 0
  BY DEF Bonus
<1>3. Cardinality(lucky) = Left(total, weights)
  <2>1. Left(total, weights) \in 0..Cardinality(DOMAIN Rests(total, weights))
        /\ DOMAIN Rests(total, weights) = D
    BY RestsRank
  <2> QED
    BY <2>1, RestsRank, FirstSeveral
<1>4. lucky \in SUBSET D
  OBVIOUS
<1>5. owed = [m \in D |-> floors[m] + extra[m]]
  BY SplitForm
<1>6. Left(total, weights) = total - SumOver(floors, D) /\ SumOver(floors, D) \in Nat /\ total \in Nat
  BY <1>1, RestsWorth DEF Left, Divisible
<1> HIDE DEF D, floors, extra, owed, lucky
<1>7. SumOver(extra, D) = Cardinality(lucky)
  BY <1>1, <1>2, <1>4, SumCount
<1>8. \A m \in D : floors[m] \in Nat /\ extra[m] \in Nat /\ owed[m] = floors[m] + extra[m]
  BY <1>1, <1>2, <1>5
<1>9. SumOver(owed, D) = SumOver(floors, D) + SumOver(extra, D)
  <2>1. \A m \in D : floors[m] \in Int /\ extra[m] \in Int /\ owed[m] = floors[m] + extra[m]
    BY <1>8
  <2> QED
    BY <1>1, <2>1, SumPlus
<1>10. SumOver(owed, D) = total
  BY <1>3, <1>6, <1>7, <1>9
<1>11. owed \in [D -> Nat]
  <2>1. \A m \in D : floors[m] + extra[m] \in Nat
    BY <1>8
  <2> QED
    BY <1>5, <2>1
<1>12. SumOf(owed) = SumOver(owed, D)
  BY <1>11 DEF SumOf
<1> QED
  BY <1>10, <1>11, <1>12 DEF owed, D

\* A heavier weight gets no less than a lighter one.
LEMMA SplitOrder ==
    ASSUME NEW total, NEW weights, NEW offset, Divisible(total, weights, offset),
           NEW p \in DOMAIN weights, NEW q \in DOMAIN weights, weights[p] > weights[q]
    PROVE  AllocateLargestRemainder(total, weights, offset)[p]
               >= AllocateLargestRemainder(total, weights, offset)[q]
<1> DEFINE W == SumOf(weights)
           fp == Floors(total, weights)[p]
           fq == Floors(total, weights)[q]
           rp == Rests(total, weights)[p]
           rq == Rests(total, weights)[q]
           bp == Bonus(total, weights, offset, p)
           bq == Bonus(total, weights, offset, q)
<1>1. /\ total \in Nat /\ W \in Nat \ {0} /\ weights[p] \in Nat /\ weights[q] \in Nat
      /\ fp \in Nat /\ fq \in Nat /\ rp \in 0..(W - 1) /\ rq \in 0..(W - 1)
      /\ total * weights[p] = W * fp + rp
      /\ total * weights[q] = W * fq + rq
  BY SplitParts DEF Divisible
<1>2. bp \in {0, 1} /\ bq \in {0, 1}
  BY DEF Bonus
<1>3. AllocateLargestRemainder(total, weights, offset)[p] = fp + bp
      /\ AllocateLargestRemainder(total, weights, offset)[q] = fq + bq
  BY SplitForm
<1>4. fp = fq /\ rp > rq => bp >= bq
  <2> DEFINE rests == Rests(total, weights)
             ahead(m) == Cardinality(Before(rests, offset, m))
  <2> SUFFICES ASSUME fp = fq, rp > rq PROVE bp >= bq
    OBVIOUS
  <2>1. First(rests, offset, p, q)
    BY DEF First
  <2>2. ahead(p) < ahead(q)
    BY <2>1, RestsRank, FewerBefore
  <2>3. ahead(p) \in Nat /\ ahead(q) \in Nat /\ Left(total, weights) \in Nat
    BY RestsRank, LeftBounds
  <2>4. ahead(q) < Left(total, weights) => ahead(p) < Left(total, weights)
    <3> HIDE DEF ahead
    <3> QED
      BY <2>2, <2>3
  <2>5. bp = (IF ahead(p) < Left(total, weights) THEN 1 ELSE 0)
        /\ bq = (IF ahead(q) < Left(total, weights) THEN 1 ELSE 0)
    BY DEF Bonus
  <2> HIDE DEF ahead, bp, bq, rp, rq, fp, fq
  <2> QED
    BY <2>4, <2>5
<1>5. fp = fq /\ rp = rq => bp >= bq
  <2> SUFFICES ASSUME fp = fq, rp = rq PROVE bp >= bq
    OBVIOUS
  <2>1. total * weights[p] = total * weights[q]
    BY <1>1
  <2>2. total = 0
    <3> HIDE DEF W, fp, fq, rp, rq
    <3>1. CASE total > 0
      <4>1. total * weights[q] < total * weights[p]
        BY <1>1, <3>1, TimesOrder
      <4>2. total * weights[p] \in Int /\ total * weights[q] \in Int
        BY <1>1
      <4> QED
        BY <2>1, <4>1, <4>2
    <3> QED
      BY <1>1, <3>1
  <2>3. Left(total, weights) <= 0 /\ Left(total, weights) \in Nat
    <3>1. SumOf(Floors(total, weights)) \in Nat
      BY RestsWorth
    <3>2. Left(total, weights) \in Nat
      BY LeftBounds
    <3>3. Left(total, weights) = total - SumOf(Floors(total, weights))
      BY DEF Left
    <3> HIDE DEF fp, fq, rp, rq, bp, bq
    <3> QED
      BY <2>2, <3>1, <3>2, <3>3
  <2>4. Cardinality(Before(Rests(total, weights), offset, q)) \in Nat
    BY RestsRank
  <2>5. bq = 0
    BY <2>3, <2>4 DEF Bonus
  <2> HIDE DEF bp, bq
  <2> QED
    BY <1>2, <2>5
<1> HIDE DEF W, fp, fq, rp, rq, bp, bq
<1>6. total * weights[q] <= total * weights[p]
  BY <1>1, TimesOrder
<1>7. W * fq + rq <= W * fp + rp
  BY <1>1, <1>6
<1>8. ~(fp < fq)
  <2> SUFFICES ASSUME fp < fq PROVE FALSE
    OBVIOUS
  <2>1. W * (fp + 1) <= W * fq
    BY <1>1, TimesOrder
  <2>2. W * (fp + 1) = W * fp + W
    BY <1>1
  <2>3. W * fp \in Int /\ W * fq \in Int
    BY <1>1
  <2> QED
    BY <1>1, <1>7, <2>1, <2>2, <2>3
<1>9. fp = fq => rp >= rq
  <2>1. W * fp \in Int
    BY <1>1
  <2> QED
    BY <1>1, <1>7, <2>1
<1>10. fp + bp >= fq + bq
  BY <1>1, <1>2, <1>4, <1>5, <1>8, <1>9
<1> QED
  BY <1>3, <1>10

\* Of no more than the weights add up to, nobody gets more than their weight.
LEMMA SplitWithin ==
    ASSUME NEW total, NEW weights, NEW offset, Divisible(total, weights, offset),
           total <= SumOf(weights), NEW m \in DOMAIN weights
    PROVE  AllocateLargestRemainder(total, weights, offset)[m] <= weights[m]
<1> DEFINE W == SumOf(weights)
           f == Floors(total, weights)[m]
           r == Rests(total, weights)[m]
           b == Bonus(total, weights, offset, m)
           w == weights[m]
<1>1. /\ total \in Nat /\ W \in Nat \ {0} /\ w \in Nat
      /\ f \in Nat /\ r \in 0..(W - 1) /\ total * w = W * f + r
  BY SplitParts DEF Divisible
<1>2. b \in {0, 1} /\ AllocateLargestRemainder(total, weights, offset)[m] = f + b
  BY SplitForm DEF Bonus
<1>3. r = 0 => b = 0
  <2> DEFINE rests == Rests(total, weights)
             some == {q \in DOMAIN weights : rests[q] > 0}
             ahead == Before(rests, offset, m)
  <2> SUFFICES ASSUME r = 0 PROVE b = 0
    OBVIOUS
  <2>1. DOMAIN rests = DOMAIN weights /\ Ranking(rests, offset)
    BY RestsRank
  <2>2. some \in SUBSET ahead
    BY <2>1 DEF Before, First
  <2>3. IsFiniteSet(ahead) /\ Cardinality(ahead) \in Nat
    BY <2>1, FewerBefore, FS_CardinalityType
  <2>4. Left(total, weights) <= Cardinality(some) /\ Left(total, weights) \in Nat
    BY LeftBounds
  <2> HIDE DEF some, ahead
  <2>5. IsFiniteSet(some) /\ Cardinality(some) <= Cardinality(ahead)
    BY <2>2, <2>3, FS_Subset
  <2>6. Cardinality(some) \in Nat
    BY <2>5, FS_CardinalityType
  <2>7. ~(Cardinality(ahead) < Left(total, weights))
    BY <2>3, <2>4, <2>5, <2>6
  <2> QED
    BY <2>7 DEF Bonus, ahead
<1>4. total <= W
  OBVIOUS
<1> HIDE DEF W, f, r, b, w
<1>5. W * f + r <= W * w
  <2>1. w * total <= w * W
    BY <1>1, <1>4, TimesOrder
  <2>2. w * total = total * w /\ w * W = W * w
    BY <1>1
  <2> QED
    BY <1>1, <2>1, <2>2
<1>6. W * f \in Int /\ W * w \in Int
  BY <1>1
<1>7. f <= w
  <2>1. W * f <= W * w
    BY <1>1, <1>5, <1>6
  <2>2. W > 0 /\ W \in Nat
    BY <1>1
  <2> QED
    BY <1>1, <2>1, <2>2, TimesOrder
<1>8. r > 0 => f # w
  BY <1>1, <1>5, <1>6
<1>9. f + b <= w
  BY <1>1, <1>2, <1>3, <1>7, <1>8
<1> QED
  BY <1>2, <1>9 DEF w

-----------------------------------------------------------------------------
(* The inductive invariant. *)

\* What is being divided is an expense on record, and only shares that are not
\* zero are still to do.
Dividing ==
    /\ phase = "divide" => count > 0
    /\ count > 0 => expense \in Expenses
    /\ \A m \in todo : shares[m] # 0

\* What q owes m within the expense being divided, less what m owes q.
Between(q, m) == within[<<q, m>>] - within[<<m, q>>]

\* What everybody owes m, over all the expenses and within this one.
Comes(m) == [q \in Members \ {m} |-> Due(q, m) + Between(q, m)]

\* What of m's share is still to do.
Remaining(m) == IF m \in todo THEN shares[m] ELSE 0

\* While an expense is divided, a balance is what others owe, what is still
\* outstanding, less what is still to do.
Underway ==
    phase = "divide" =>
        \A m \in Members :
            balances[m] = SumOver(Comes(m), Members \ {m}) + At(outstanding, m) - Remaining(m)

\* The balances even out.
Even == SumOver(balances, Members) = 0

\* Everybody who is owed something, or owes it.
Involved == {m \in Members : balances[m] # 0}

\* A plan: its payments and what is still open account for every balance, both
\* sides are worth the same, a payment closed one of its two sides for good, and
\* there are fewer payments than the people whose side is closed.
Planning ==
    phase \in {"simplify", "done"} =>
        /\ \A m \in DOMAIN credits : balances[m] > 0
        /\ \A m \in DOMAIN debits : balances[m] < 0
        /\ SumOf(credits) = SumOf(debits)
        /\ \A m \in Members :
               balances[m] = Received(m) - Given(m) + At(credits, m) - At(debits, m)
        /\ IsFiniteSet(transfers)
        /\ \A t \in transfers : ~(t.to \in DOMAIN credits /\ t.from \in DOMAIN debits)
        /\ Cardinality(transfers) + Cardinality(DOMAIN credits) + Cardinality(DOMAIN debits)
               <= Cardinality(Involved)
        /\ DOMAIN credits = {} /\ transfers # {} => Cardinality(transfers) < Cardinality(Involved)
        /\ phase = "done" => DOMAIN credits = {} \/ DOMAIN debits = {}

\* All of it.
SInv ==
    /\ TypeOK /\ Dividing /\ SplitsExactly /\ PaidBackExactly
    /\ PairwiseSettles /\ Underway /\ Even /\ Planning

\* Amounts by member are a function on some of the members.
LEMMA AmountsForm ==
    ASSUME NEW f, NEW V
    PROVE  IsAmounts(f, V) <=> DOMAIN f \in SUBSET Members /\ f \in [DOMAIN f -> V]
BY DEF IsAmounts

\* There are only so many members.
LEMMA SomeMembers ==
    ASSUME NEW S \in SUBSET Members
    PROVE  IsFiniteSet(S) /\ S \in SUBSET Nat
BY MembersAssumption, FS_Subset

\* Amounts add up the same with a zero for everybody else.
LEMMA SumAt ==
    ASSUME NEW f, IsAmounts(f, Int)
    PROVE  /\ \A m \in Members : At(f, m) \in Int
           /\ SumOver([m \in Members |-> At(f, m)], Members) = SumOf(f)
<1> DEFINE D == DOMAIN f
           all == [m \in Members |-> At(f, m)]
<1>1. D \in SUBSET Members /\ f \in [D -> Int] /\ IsFiniteSet(D) /\ IsFiniteSet(Members)
  BY AmountsForm, SomeMembers
<1>2. \A m \in Members : At(f, m) \in Int
  BY <1>1 DEF At
<1>3. /\ \A m \in Members : all[m] \in Int
      /\ \A m \in Members \ D : all[m] = 0
      /\ \A m \in D : f[m] \in Int /\ all[m] = f[m]
  BY <1>1, <1>2 DEF At
<1> HIDE DEF all, D
<1>4. SumOver(all, Members) = SumOver(all, D)
  BY <1>1, <1>3, SumPart
<1>5. SumOver(all, D) = SumOver(f, D)
  BY <1>1, <1>3, SumSame
<1> QED
  BY <1>2, <1>4, <1>5 DEF SumOf, all, D

\* Positive amounts that add up to nothing are none.
LEMMA NothingLeft ==
    ASSUME NEW f, IsAmounts(f, Nat \ {0}), SumOf(f) = 0
    PROVE  DOMAIN f = {}
<1>1. IsFiniteSet(DOMAIN f) /\ \A m \in DOMAIN f : f[m] \in Nat /\ f[m] > 0
  BY AmountsForm, SomeMembers
<1>2. SumOver(f, DOMAIN f) \in Nat /\ \A m \in DOMAIN f : f[m] <= SumOver(f, DOMAIN f)
  BY <1>1, SumNat
<1>3. SumOver(f, DOMAIN f) = 0
  BY DEF SumOf
<1>4. ASSUME NEW m \in DOMAIN f PROVE FALSE
  <2>1. f[m] <= 0 /\ f[m] \in Nat /\ f[m] > 0
    BY <1>1, <1>2, <1>3
  <2> QED
    BY <2>1
<1> QED
  BY <1>4

\* What others owe somebody is whole.
LEMMA ComesWhole ==
    ASSUME TypeOK, NEW m \in Members
    PROVE  /\ \A q \in Members \ {m} : Due(q, m) \in Int /\ Between(q, m) \in Int
           /\ \A q \in Members \ {m} : Comes(m)[q] = Due(q, m) + Between(q, m)
           /\ IsFiniteSet(Members \ {m})
<1>1. ASSUME NEW q \in Members \ {m} PROVE Due(q, m) \in Int /\ Between(q, m) \in Int
  <2>1. m \in Nat /\ q \in Nat
    BY SomeMembers
  <2>2. q < m => <<q, m>> \in Pairs
    BY DEF Pairs
  <2>3. ~(q < m) => <<m, q>> \in Pairs
    BY <2>1 DEF Pairs
  <2>4. within[<<q, m>>] \in Nat /\ within[<<m, q>>] \in Nat
    BY DEF TypeOK
  <2>5. net \in [Pairs -> Int]
    BY DEF TypeOK
  <2> QED
    BY <2>2, <2>3, <2>4, <2>5 DEF Due, Between
<1>2. Members \ {m} \in SUBSET Members
  OBVIOUS
<1> QED
  BY <1>1, <1>2, SomeMembers DEF Comes

\* An expense can be divided by its weights.
LEMMA ExpenseDivisible ==
    ASSUME NEW x \in Expenses, NEW offset \in Offsets(x.weights)
    PROVE  /\ IsAmounts(x.paid, Nat) /\ IsAmounts(x.weights, Nat)
           /\ Divisible(SumOf(x.paid), x.weights, offset)
<1>1. /\ DOMAIN x.paid \in SUBSET Members /\ x.paid \in [DOMAIN x.paid -> Nat \ {0}]
      /\ DOMAIN x.weights \in SUBSET Members /\ x.weights \in [DOMAIN x.weights -> Nat]
      /\ \E m \in DOMAIN x.weights : x.weights[m] > 0
  BY ExpensesAssumption, AmountsForm
<1> DEFINE paid == x.paid
           weights == x.weights
<1> HIDE DEF paid, weights
<1>2. /\ DOMAIN paid \in SUBSET Members /\ paid \in [DOMAIN paid -> Nat \ {0}]
      /\ DOMAIN weights \in SUBSET Members /\ weights \in [DOMAIN weights -> Nat]
      /\ \E m \in DOMAIN weights : weights[m] > 0
  BY <1>1 DEF paid, weights
<1>3. IsFiniteSet(DOMAIN paid) /\ IsFiniteSet(DOMAIN weights) /\ DOMAIN weights \in SUBSET Nat
  BY <1>2, SomeMembers
<1>4. SumOf(paid) \in Nat
  <2>1. \A m \in DOMAIN paid : paid[m] \in Nat
    BY <1>2
  <2> QED
    BY <1>3, <2>1, SumNat DEF SumOf
<1>5. SumOf(weights) > 0
  <2>1. PICK m \in DOMAIN weights : weights[m] > 0
    BY <1>2
  <2>2. \A q \in DOMAIN weights : weights[q] \in Nat
    BY <1>2
  <2>3. SumOver(weights, DOMAIN weights) \in Nat /\ weights[m] <= SumOver(weights, DOMAIN weights)
    BY <1>3, <2>2, SumNat
  <2> QED
    BY <2>1, <2>2, <2>3 DEF SumOf
<1>6. offset \in Offsets(weights)
  BY DEF weights
<1>7. Divisible(SumOf(paid), weights, offset)
  BY <1>2, <1>3, <1>4, <1>5, <1>6 DEF Divisible
<1>8. IsAmounts(paid, Nat) /\ IsAmounts(weights, Nat)
  BY <1>2, AmountsForm
<1> QED
  BY <1>7, <1>8 DEF paid, weights

-----------------------------------------------------------------------------
(* Recording an expense. *)

\* An expense on record: divided exactly, owed to those who paid, and on
\* everybody's balance.
LEMMA RecordKeeps ==
    ASSUME SInv, NEW x \in Expenses, NEW offset \in Offsets(x.weights), Record(x, offset)
    PROVE  SInv'
<1> DEFINE owed == AllocateLargestRemainder(SumOf(x.paid), x.weights, offset)
           paid == x.paid
           weights == x.weights
<1>1. /\ IsAmounts(paid, Nat) /\ DOMAIN weights \in SUBSET Members
      /\ owed \in [DOMAIN weights -> Nat] /\ SumOf(owed) = SumOf(paid)
      /\ \A p, q \in DOMAIN weights : weights[p] > weights[q] => owed[p] >= owed[q]
  BY ExpenseDivisible, AmountsForm, SplitTotal, SplitOrder
<1>2. /\ phase = "record" /\ phase' = "divide" /\ count < MaxExpenses /\ count' = count + 1
      /\ expense' = x /\ shares' = owed /\ todo' = {m \in DOMAIN owed : owed[m] # 0}
      /\ outstanding' = paid
      /\ within' = [d \in Members \X Members |-> 0]
      /\ balances' = [m \in Members |-> balances[m] + Moved(paid, owed, m)]
      /\ UNCHANGED net /\ UNCHANGED planVars
  BY DEF Record
<1>3. TypeOK /\ PairwiseSettles /\ Even
  BY DEF SInv
<1>x. expense'.paid = paid /\ expense'.weights = weights
  BY <1>2
<1> HIDE DEF owed, paid, weights
<1>4. /\ IsAmounts(owed, Nat) /\ IsAmounts(owed, Int) /\ IsAmounts(paid, Int)
      /\ DOMAIN owed = DOMAIN weights
  BY <1>1, AmountsForm
<1>5. /\ \A m \in Members : At(paid, m) \in Int /\ At(owed, m) \in Int
      /\ \A m \in Members : Moved(paid, owed, m) = At(paid, m) - At(owed, m)
      /\ \A m \in Members : balances[m] \in Int
      /\ count + 1 \in 0..MaxExpenses /\ count \in Nat
  <2>1. \A m \in Members : At(paid, m) \in Int /\ At(owed, m) \in Int
    BY <1>4, SumAt
  <2>2. \A m \in Members : Moved(paid, owed, m) = At(paid, m) - At(owed, m)
    BY DEF Moved
  <2>3. balances \in [Members -> Int] /\ count \in 0..MaxExpenses
    BY <1>3 DEF TypeOK
  <2>4. count + 1 \in 0..MaxExpenses /\ count \in Nat
    BY <1>2, <2>3, BoundAssumption
  <2> QED
    BY <2>1, <2>2, <2>3, <2>4
<1>6. TypeOK'
  <2>1. balances' \in [Members -> Int]
    BY <1>2, <1>5
  <2>2. todo' \subseteq DOMAIN shares'
    BY <1>2
  <2>3. within' \in [Members \X Members -> Nat]
    BY <1>2
  <2>4. count' \in 0..MaxExpenses /\ expense' \in Expenses
    BY <1>2, <1>5
  <2>5. IsAmounts(shares', Nat) /\ IsAmounts(outstanding', Int)
    BY <1>2, <1>4
  <2> QED
    BY <1>2, <1>3, <2>1, <2>2, <2>3, <2>4, <2>5 DEF TypeOK, planVars
<1>7. Dividing'
  BY <1>2, <1>5 DEF Dividing
<1>8. SplitsExactly'
  BY <1>1, <1>2, <1>4, <1>x DEF SplitsExactly
<1>9. PaidBackExactly'
  <2>1. \A p \in DOMAIN paid : paid[p] >= 0
    BY <1>1, AmountsForm
  <2>2. SumOf(owed) = SumOver(owed, todo')
    <3> DEFINE D == DOMAIN owed
               T == todo'
    <3>1. IsFiniteSet(D) /\ \A m \in D : owed[m] \in Int
      BY <1>4, AmountsForm, SomeMembers
    <3>2. T \in SUBSET D /\ \A m \in D \ T : owed[m] = 0
      BY <1>2
    <3> HIDE DEF D, T
    <3>3. SumOver(owed, D) = SumOver(owed, T)
      BY <3>1, <3>2, SumPart
    <3> QED
      BY <3>3 DEF SumOf, D, T
  <2> QED
    BY <1>1, <1>2, <2>1, <2>2 DEF PaidBackExactly
<1>10. PairwiseSettles' /\ Planning'
  BY <1>2 DEF PairwiseSettles, Planning
<1>11. Underway'
  <2> SUFFICES ASSUME NEW m \in Members
               PROVE  balances'[m] = SumOver(Comes(m), Members \ {m})' + At(outstanding', m)
                                         - Remaining(m)'
    BY DEF Underway
  <2>1. Comes(m)' = [q \in Members \ {m} |-> Due(q, m)]
    <3>1. ASSUME NEW q \in Members \ {m} PROVE Due(q, m)' + Between(q, m)' = Due(q, m)
      <4>1. Due(q, m)' = Due(q, m)
        BY <1>2 DEF Due
      <4>2. Between(q, m)' = 0
        BY <1>2 DEF Between
      <4>3. Due(q, m) \in Int
        BY <1>3, ComesWhole
      <4> QED
        BY <4>1, <4>2, <4>3
    <3> QED
      BY <3>1 DEF Comes
  <2>2. balances[m] = SumOver([q \in Members \ {m} |-> Due(q, m)], Members \ {m})
    BY <1>2, <1>3 DEF PairwiseSettles
  <2>3. Remaining(m)' = At(owed, m)
    BY <1>2 DEF Remaining, At
  <2>4. balances'[m] = balances[m] + At(paid, m) - At(owed, m)
    BY <1>2, <1>5
  <2> QED
    BY <1>2, <2>1, <2>2, <2>3, <2>4
<1>12. Even'
  <2> DEFINE in == [m \in Members |-> At(paid, m)]
             out == [m \in Members |-> At(owed, m)]
             both == [m \in Members |-> balances[m] + in[m]]
  <2>1. IsFiniteSet(Members)
    BY MembersAssumption
  <2>2. \A m \in Members : /\ in[m] \in Int /\ out[m] \in Int /\ balances[m] \in Int
                           /\ both[m] \in Int /\ both[m] = balances[m] + in[m]
                           /\ balances'[m] = both[m] - out[m]
    BY <1>2, <1>5
  <2>3. SumOver(in, Members) = SumOf(paid) /\ SumOver(out, Members) = SumOf(owed)
    BY <1>4, SumAt
  <2> HIDE DEF in, out, both
  <2>4. SumOver(both, Members) = SumOver(balances, Members) + SumOver(in, Members)
    BY <2>1, <2>2, SumPlus
  <2>5. SumOver(balances', Members) = SumOver(both, Members) - SumOver(out, Members)
    BY <2>1, <2>2, SumMinus
  <2>6. SumOver(in, Members) \in Int
    BY <2>1, <2>2, SumAdd
  <2> QED
    BY <1>1, <1>3, <2>3, <2>4, <2>5, <2>6 DEF Even
<1> QED
  BY <1>6, <1>7, <1>8, <1>9, <1>10, <1>11, <1>12 DEF SInv

-----------------------------------------------------------------------------
(* Dividing it. *)

\* The next share finds payers who are owed at least as much, and leaves each
\* of them no less than nothing.
LEMMA ShareDivides ==
    ASSUME SInv, NEW offset \in Offsets(outstanding), DivideShare(offset)
    PROVE  LET b    == Min(todo)
               owed == AllocateLargestRemainder(shares[b], outstanding, offset)
           IN  /\ b \in todo /\ b \in Members /\ shares[b] \in Nat
               /\ DOMAIN outstanding \in SUBSET Members
               /\ outstanding \in [DOMAIN outstanding -> Nat]
               /\ owed \in [DOMAIN outstanding -> Nat]
               /\ SumOf(owed) = shares[b]
               /\ \A p \in DOMAIN outstanding : owed[p] <= outstanding[p]
               /\ SumOf(outstanding) = SumOver(shares, todo)
               /\ SumOver(shares, todo) \in Int
               /\ SumOver(shares, todo \ {b}) = SumOver(shares, todo) - shares[b]
<1> DEFINE b == Min(todo)
           owed == AllocateLargestRemainder(shares[b], outstanding, offset)
<1>1. /\ phase = "divide" /\ todo # {} /\ count > 0
      /\ IsAmounts(shares, Nat) /\ IsAmounts(outstanding, Int)
      /\ todo \subseteq DOMAIN shares
      /\ \A m \in todo : shares[m] # 0
      /\ \A p \in DOMAIN outstanding : outstanding[p] >= 0
      /\ SumOf(outstanding) = SumOver(shares, todo)
  BY DEF DivideShare, SInv, TypeOK, Dividing, PaidBackExactly
<1>2. /\ shares \in [DOMAIN shares -> Nat] /\ todo \in SUBSET Members
      /\ DOMAIN outstanding \in SUBSET Members /\ outstanding \in [DOMAIN outstanding -> Int]
  BY <1>1, AmountsForm
<1>3. IsFiniteSet(todo) /\ todo \in SUBSET Nat
      /\ IsFiniteSet(DOMAIN outstanding) /\ DOMAIN outstanding \in SUBSET Nat
  BY <1>2, SomeMembers
<1>4. b \in todo
  BY <1>1, <1>3, LeastOf
<1> HIDE DEF b
<1>5. \A m \in todo : shares[m] \in Nat /\ shares[m] \in Int
  BY <1>1, <1>2
<1>6. SumOver(shares, todo) \in Nat /\ shares[b] <= SumOver(shares, todo)
  BY <1>3, <1>4, <1>5, SumNat
<1>7. SumOver(shares, todo) = shares[b] + SumOver(shares, todo \ {b})
      /\ SumOver(shares, todo \ {b}) \in Int
  <2> DEFINE rest == todo \ {b}
  <2>1. IsFiniteSet(rest) /\ \A m \in rest : shares[m] \in Int
    BY <1>3, <1>5, FS_RemoveElement
  <2>2. SumOver(shares, todo) = shares[b] + SumOver(shares, rest)
    BY <1>3, <1>4, <1>5, SumAdd
  <2> HIDE DEF rest
  <2>3. SumOver(shares, rest) \in Int
    BY <2>1, SumAdd
  <2> QED
    BY <2>2, <2>3 DEF rest
<1>8. outstanding \in [DOMAIN outstanding -> Nat]
  BY <1>1, <1>2
<1>9. shares[b] \in Nat /\ shares[b] > 0
  BY <1>1, <1>4, <1>5
<1>10. Divisible(shares[b], outstanding, offset)
  <2>1. SumOf(outstanding) > 0
    BY <1>1, <1>6, <1>9
  <2>2. \E S \in SUBSET Nat : IsFiniteSet(S) /\ outstanding \in [S -> Nat]
    BY <1>3, <1>8
  <2> HIDE DEF owed
  <2> QED
    BY <1>9, <2>1, <2>2 DEF Divisible
<1>11. /\ owed \in [DOMAIN outstanding -> Nat] /\ SumOf(owed) = shares[b]
       /\ \A p \in DOMAIN outstanding : owed[p] <= outstanding[p]
  BY <1>1, <1>6, <1>10, SplitTotal, SplitWithin
<1> QED
  BY <1>1, <1>2, <1>4, <1>5, <1>6, <1>7, <1>8, <1>9, <1>11 DEF b, owed

\* One share less to do, and what it owes on both sides.
LEMMA DivideKeeps ==
    ASSUME SInv, NEW offset \in Offsets(outstanding), DivideShare(offset)
    PROVE  SInv'
<1>a. PICK b : b = Min(todo)
  OBVIOUS
<1>b. PICK owed : owed = AllocateLargestRemainder(shares[b], outstanding, offset)
  OBVIOUS
<1> DEFINE P == DOMAIN outstanding
<1>1. /\ b \in todo /\ b \in Members /\ shares[b] \in Nat /\ P \in SUBSET Members
      /\ outstanding \in [P -> Nat] /\ owed \in [P -> Nat] /\ SumOf(owed) = shares[b]
      /\ \A p \in P : owed[p] <= outstanding[p]
      /\ SumOf(outstanding) = SumOver(shares, todo)
      /\ SumOver(shares, todo) \in Int
      /\ SumOver(shares, todo \ {b}) = SumOver(shares, todo) - shares[b]
  BY <1>a, <1>b, ShareDivides
<1>2. /\ phase = "divide"
      /\ outstanding' = [p \in P |-> outstanding[p] - owed[p]]
      /\ within' = [d \in DOMAIN within |->
             IF d[1] = b /\ d[2] # b THEN within[d] + At(owed, d[2]) ELSE within[d]]
      /\ todo' = todo \ {b}
      /\ UNCHANGED <<expense, shares, balances, net, count, phase, planVars>>
  BY <1>a, <1>b DEF DivideShare
<1>3. /\ TypeOK /\ Dividing /\ SplitsExactly /\ PaidBackExactly /\ PairwiseSettles
      /\ Underway /\ Even /\ Planning
  BY DEF SInv
<1>4. DOMAIN owed = P /\ IsAmounts(owed, Int) /\ IsAmounts(outstanding, Int)
  BY <1>1, AmountsForm
<1>5. /\ \A m \in Members : At(owed, m) \in Int /\ At(outstanding, m) \in Int
      /\ SumOver([m \in Members |-> At(owed, m)], Members) = shares[b]
  BY <1>1, <1>4, SumAt
<1>6. \A m \in Members : At(owed, m) \in Nat
  BY <1>1, <1>4 DEF At
<1>7. outstanding' \in [P -> Nat] /\ \A p \in P : outstanding'[p] = outstanding[p] - owed[p]
  <2>1. \A p \in P : outstanding[p] \in Nat /\ owed[p] \in Nat /\ owed[p] <= outstanding[p]
    BY <1>1
  <2>2. \A p \in P : outstanding[p] - owed[p] \in Nat
    BY <2>1
  <2> HIDE DEF P
  <2> QED
    BY <1>2, <2>2
<1>8. \A c, d \in Members :
          within'[<<c, d>>] = within[<<c, d>>] + (IF c = b /\ d # b THEN At(owed, d) ELSE 0)
  <2>1. within \in [Members \X Members -> Nat]
    BY <1>3 DEF TypeOK
  <2>2. ASSUME NEW c \in Members, NEW d \in Members
        PROVE  within'[<<c, d>>] = within[<<c, d>>] + (IF c = b /\ d # b THEN At(owed, d) ELSE 0)
    <3>1. within'[<<c, d>>] = IF c = b /\ d # b THEN within[<<c, d>>] + At(owed, d)
                                                 ELSE within[<<c, d>>]
      BY <1>2, <2>1
    <3>2. within[<<c, d>>] \in Nat
      BY <2>1
    <3> QED
      BY <3>1, <3>2
  <2> QED
    BY <2>2
<1>9. within' \in [Members \X Members -> Nat]
  <2>1. within \in [Members \X Members -> Nat]
    BY <1>3 DEF TypeOK
  <2>2. ASSUME NEW d \in Members \X Members
        PROVE  (IF d[1] = b /\ d[2] # b THEN within[d] + At(owed, d[2]) ELSE within[d]) \in Nat
    <3>1. within[d] \in Nat /\ At(owed, d[2]) \in Nat
      BY <1>6, <2>1
    <3> QED
      BY <3>1
  <2> QED
    BY <1>2, <2>1, <2>2
<1>10. TypeOK'
  <2>1. IsAmounts(outstanding', Int)
    <3>1. outstanding' \in [P -> Int]
      BY <1>7
    <3> QED
      BY <1>1, <3>1 DEF IsAmounts
  <2>2. todo' \subseteq DOMAIN shares
    BY <1>2, <1>3 DEF TypeOK
  <2> QED
    BY <1>2, <1>3, <1>9, <2>1, <2>2 DEF TypeOK, planVars
<1>11. Dividing'
  BY <1>2, <1>3 DEF Dividing
<1>12. SplitsExactly' /\ Even'
  BY <1>2, <1>3 DEF SplitsExactly, Even
<1>13. PaidBackExactly'
  <2>1. \A p \in DOMAIN outstanding' : outstanding'[p] >= 0
    BY <1>7
  <2>2. SumOf(outstanding') = SumOf(outstanding) - SumOf(owed)
    <3>1. /\ SumOf(outstanding') = SumOver(outstanding', P)
          /\ SumOf(outstanding) = SumOver(outstanding, P)
          /\ SumOf(owed) = SumOver(owed, P)
      BY <1>4, <1>7 DEF SumOf
    <3>2. \A p \in P : owed[p] \in Int /\ outstanding[p] \in Int
                       /\ outstanding'[p] = outstanding[p] - owed[p]
      BY <1>1, <1>7
    <3>3. IsFiniteSet(P)
      BY <1>1, SomeMembers
    <3> HIDE DEF P
    <3>4. SumOver(outstanding', P) = SumOver(outstanding, P) - SumOver(owed, P)
      BY <3>2, <3>3, SumMinus
    <3> QED
      BY <3>1, <3>4
  <2>3. SumOf(outstanding') = SumOver(shares, todo')
    BY <1>1, <1>2, <2>2
  <2> QED
    BY <1>2, <2>1, <2>3 DEF PaidBackExactly
<1>14. PairwiseSettles' /\ Planning'
  BY <1>2 DEF PairwiseSettles, Planning
<1>15. Underway'
  <2> SUFFICES ASSUME NEW m \in Members
               PROVE  balances[m] = SumOver(Comes(m)', Members \ {m}) + At(outstanding', m)
                                        - Remaining(m)'
    BY <1>2 DEF Underway
  <2> DEFINE S == Members \ {m}
             was == Comes(m)
             is == Comes(m)'
  <2>1. balances[m] = SumOver(was, S) + At(outstanding, m) - Remaining(m)
    BY <1>2, <1>3 DEF Underway
  <2>2. At(outstanding', m) = At(outstanding, m) - At(owed, m)
    BY <1>1, <1>4, <1>7 DEF At
  <2>3. /\ \A q \in S : Due(q, m) \in Int /\ Between(q, m) \in Int
        /\ \A q \in S : was[q] = Due(q, m) + Between(q, m)
        /\ IsFiniteSet(S)
    BY <1>3, ComesWhole
  <2>4. \A q \in S : is[q] = Due(q, m) + Between(q, m)'
    <3>1. \A q \in S : Due(q, m)' = Due(q, m)
      BY <1>2 DEF Due
    <3> QED
      BY <3>1 DEF Comes
  <2>5. ASSUME NEW q \in S
        PROVE  Between(q, m)' = Between(q, m) + (IF q = b THEN At(owed, m) ELSE 0)
                                              - (IF m = b THEN At(owed, q) ELSE 0)
    <3>1. q \in Members /\ q # m
      OBVIOUS
    <3>2. /\ within'[<<q, m>>] = within[<<q, m>>] + (IF q = b /\ m # b THEN At(owed, m) ELSE 0)
          /\ within'[<<m, q>>] = within[<<m, q>>] + (IF m = b /\ q # b THEN At(owed, q) ELSE 0)
      BY <1>8, <3>1
    <3>3. within[<<q, m>>] \in Nat /\ within[<<m, q>>] \in Nat
      BY <1>3 DEF TypeOK
    <3>4. At(owed, q) \in Int /\ At(owed, m) \in Int
      BY <1>5
    <3> QED
      BY <3>1, <3>2, <3>3, <3>4 DEF Between
  <2>6. SumOver(was, S) \in Int
    <3>1. \A q \in S : was[q] \in Int
      BY <2>3
    <3> HIDE DEF S, was
    <3> QED
      BY <2>3, <3>1, SumAdd
  <2>7. At(owed, m) \in Int /\ At(outstanding, m) \in Int
    BY <1>5
  <2>8. Remaining(m) \in Int
    BY <1>3, AmountsForm DEF TypeOK, Remaining
  <2>9. CASE m = b
    <3> DEFINE all == [q \in Members |-> At(owed, q)]
    <3>1. \A q \in S : is[q] = was[q] - all[q] /\ was[q] \in Int /\ all[q] \in Int
      <4>1. ASSUME NEW q \in S PROVE is[q] = was[q] - all[q] /\ was[q] \in Int /\ all[q] \in Int
        <5>1. q # b /\ q \in Members
          BY <2>9
        <5>2. Between(q, m)' = Between(q, m) - At(owed, q) /\ At(owed, q) \in Int
          BY <1>5, <2>3, <2>5, <2>9, <5>1
        <5>3. is[q] = Due(q, m) + Between(q, m)' /\ was[q] = Due(q, m) + Between(q, m)
              /\ Due(q, m) \in Int /\ Between(q, m) \in Int
          BY <2>3, <2>4
        <5>4. all[q] = At(owed, q)
          OBVIOUS
        <5> HIDE DEF is, was, all
        <5> QED
          BY <5>2, <5>3, <5>4
      <4> QED
        BY <4>1
    <3>2. \A q \in Members : all[q] \in Int
      BY <1>5
    <3>3. SumOver(all, Members) = shares[b] /\ all[m] = At(owed, m)
      BY <1>5
    <3> HIDE DEF is, was, all
    <3>4. SumOver(is, S) = SumOver(was, S) - SumOver(all, S)
      <4> HIDE DEF S
      <4> QED
        BY <2>3, <3>1, SumMinus
    <3>5. SumOver(all, Members) = all[m] + SumOver(all, S)
      BY <3>2, MembersAssumption, SumAdd
    <3>6. SumOver(all, S) \in Int
      <4>1. \A q \in S : all[q] \in Int
        BY <3>1
      <4> HIDE DEF S
      <4> QED
        BY <2>3, <4>1, SumAdd
    <3>7. Remaining(m) = shares[b] /\ Remaining(m)' = 0
      BY <1>1, <1>2, <2>9 DEF Remaining
    <3> HIDE DEF S
    <3>8. balances[m] = SumOver(is, S) + At(outstanding', m) - Remaining(m)'
      <4>1. shares[b] \in Int
        BY <1>1
      <4>2. SumOver(is, S) = SumOver(was, S) - (shares[b] - At(owed, m))
        BY <2>6, <2>7, <3>3, <3>4, <3>5, <3>6, <4>1
      <4>3. balances[m] = SumOver(was, S) + At(outstanding, m) - shares[b]
        BY <2>1, <3>7
      <4> QED
        BY <2>2, <2>6, <2>7, <3>7, <4>1, <4>2, <4>3
    <3> QED
      BY <3>8 DEF is, S
  <2>10. CASE m # b
    <3>1. b \in S
      BY <1>1, <2>10
    <3>2. \A q \in S : is[q] \in Int /\ was[q] \in Int
      <4>1. ASSUME NEW q \in S PROVE is[q] \in Int /\ was[q] \in Int
        <5>1. Between(q, m)' \in Int
          BY <2>3, <2>5, <2>7, <2>10
        <5> HIDE DEF is, was
        <5> QED
          BY <2>3, <2>4, <5>1
      <4> QED
        BY <4>1
    <3>3. \A q \in S \ {b} : is[q] = was[q]
      <4>1. ASSUME NEW q \in S \ {b} PROVE is[q] = was[q]
        <5>1. Between(q, m)' = Between(q, m)
          BY <2>3, <2>5, <2>10
        <5> HIDE DEF is, was
        <5> QED
          BY <2>3, <2>4, <5>1
      <4> QED
        BY <4>1
    <3>4. is[b] = was[b] + At(owed, m)
      <4> HIDE DEF is, was, S
      <4>1. Due(b, m) \in Int /\ Between(b, m) \in Int /\ was[b] = Due(b, m) + Between(b, m)
        BY <2>3, <3>1
      <4>2. is[b] = Due(b, m) + Between(b, m)'
        BY <2>4, <3>1
      <4>3. Between(b, m)' = Between(b, m) + (IF b = b THEN At(owed, m) ELSE 0)
                                           - (IF m = b THEN At(owed, b) ELSE 0)
        BY <2>5, <3>1
      <4>4. Between(b, m)' = Between(b, m) + At(owed, m)
        BY <2>7, <2>10, <4>1, <4>3
      <4> QED
        BY <2>7, <4>1, <4>2, <4>4
    <3> HIDE DEF is, was, S
    <3>5. SumOver(is, S) = SumOver(was, S) + is[b] - was[b]
      BY <2>3, <3>1, <3>2, <3>3, SumOne
    <3>6. Remaining(m)' = Remaining(m)
      BY <1>2, <2>10 DEF Remaining
    <3>7. balances[m] = SumOver(is, S) + At(outstanding', m) - Remaining(m)'
      <4>1. was[b] \in Int
        BY <3>1, <3>2
      <4> QED
        BY <2>1, <2>2, <2>6, <2>7, <2>8, <3>4, <3>5, <3>6, <4>1
    <3> QED
      BY <3>7 DEF is, S
  <2> QED
    BY <2>9, <2>10
<1> QED
  BY <1>10, <1>11, <1>12, <1>13, <1>14, <1>15 DEF SInv

\* All shares done, the payers have everything back, and the pairs are netted.
LEMMA DividedKeeps ==
    ASSUME SInv, Divided
    PROVE  SInv'
<1>1. /\ phase = "divide" /\ todo = {} /\ phase' = "record"
      /\ net' = [d \in Pairs |-> Netted(d)]
      /\ UNCHANGED expenseVars /\ UNCHANGED <<balances, count>> /\ UNCHANGED planVars
  BY DEF Divided
<1>2. /\ TypeOK /\ Dividing /\ SplitsExactly /\ PaidBackExactly /\ Underway /\ Even
      /\ count > 0
  BY <1>1 DEF SInv, Dividing
<1>3. UNCHANGED <<expense, shares, todo, outstanding, within, balances, count>>
  BY <1>1 DEF expenseVars
<1>4. /\ net \in [Pairs -> Int]
      /\ \A d \in Pairs : net'[d] = net[d] + within[d] - within[<<d[2], d[1]>>]
      /\ \A d \in Pairs : net[d] \in Int /\ within[d] \in Nat /\ within[<<d[2], d[1]>>] \in Nat
  <2>1. \A d \in Pairs : d \in Members \X Members /\ <<d[2], d[1]>> \in Members \X Members
    BY DEF Pairs
  <2>2. net \in [Pairs -> Int] /\ within \in [Members \X Members -> Nat]
    BY <1>2 DEF TypeOK
  <2> QED
    BY <1>1, <2>1, <2>2 DEF Netted
<1>5. TypeOK'
  <2>1. net' \in [Pairs -> Int]
    <3>1. \A d \in Pairs : Netted(d) \in Int
      <4>1. ASSUME NEW d \in Pairs PROVE Netted(d) \in Int
        <5>1. net[d] \in Int /\ within[d] \in Nat /\ within[<<d[2], d[1]>>] \in Nat
          BY <1>4
        <5> QED
          BY <5>1 DEF Netted
      <4> QED
        BY <4>1
    <3> QED
      BY <1>1, <3>1
  <2> QED
    BY <1>1, <1>2, <1>3, <2>1 DEF TypeOK, planVars
<1>6. Dividing' /\ SplitsExactly' /\ PaidBackExactly' /\ Even'
  BY <1>1, <1>2, <1>3 DEF Dividing, SplitsExactly, PaidBackExactly, Even
<1>7. Underway' /\ Planning'
  BY <1>1 DEF Underway, Planning
<1>8. PairwiseSettles'
  <2> SUFFICES ASSUME NEW m \in Members
               PROVE  balances[m] = SumOver([q \in Members \ {m} |-> Due(q, m)'], Members \ {m})
    BY <1>3 DEF PairwiseSettles
  <2>1. [q \in Members \ {m} |-> Due(q, m)'] = Comes(m)
    <3>1. ASSUME NEW q \in Members \ {m} PROVE Due(q, m)' = Due(q, m) + Between(q, m)
      <4>1. m \in Nat /\ q \in Nat /\ q # m
        BY SomeMembers
      <4>2. CASE q < m
        <5>1. <<q, m>> \in Pairs
          BY <4>2 DEF Pairs
        <5>2. net'[<<q, m>>] = net[<<q, m>>] + within[<<q, m>>] - within[<<m, q>>]
              /\ net[<<q, m>>] \in Int /\ within[<<q, m>>] \in Nat /\ within[<<m, q>>] \in Nat
          BY <1>4, <5>1
        <5> QED
          BY <4>2, <5>2 DEF Due, Between
      <4>3. CASE ~(q < m)
        <5>1. <<m, q>> \in Pairs
          BY <4>1, <4>3 DEF Pairs
        <5>2. net'[<<m, q>>] = net[<<m, q>>] + within[<<m, q>>] - within[<<q, m>>]
              /\ net[<<m, q>>] \in Int /\ within[<<q, m>>] \in Nat /\ within[<<m, q>>] \in Nat
          BY <1>4, <5>1
        <5> QED
          BY <4>3, <5>2 DEF Due, Between
      <4> QED
        BY <4>2, <4>3
    <3> QED
      BY <3>1 DEF Comes
  <2>2. At(outstanding, m) = 0
    <3> DEFINE P == DOMAIN outstanding
    <3>1. IsFiniteSet(P) /\ outstanding \in [P -> Int]
      BY <1>2, AmountsForm, SomeMembers DEF TypeOK
    <3>2. \A p \in P : outstanding[p] >= 0
      BY <1>2 DEF PaidBackExactly
    <3>3. \A p \in P : outstanding[p] \in Nat
      BY <3>1, <3>2
    <3>4. SumOver(outstanding, P) = 0
      <4>1. SumOf(outstanding) = SumOver(shares, {})
        BY <1>1, <1>2 DEF PaidBackExactly
      <4> QED
        BY <4>1, SumEmpty DEF SumOf
    <3> HIDE DEF P
    <3>5. \A p \in P : outstanding[p] <= SumOver(outstanding, P)
      BY <3>1, <3>3, SumNat
    <3>6. \A p \in P : outstanding[p] = 0
      BY <3>3, <3>4, <3>5
    <3> QED
      BY <3>6 DEF At, P
  <2>3. Remaining(m) = 0
    BY <1>1 DEF Remaining
  <2>4. balances[m] = SumOver(Comes(m), Members \ {m}) + At(outstanding, m) - Remaining(m)
    BY <1>1, <1>2 DEF Underway
  <2>5. SumOver(Comes(m), Members \ {m}) \in Int
    <3> DEFINE S == Members \ {m}
    <3>1. IsFiniteSet(S) /\ \A q \in S : Comes(m)[q] \in Int
      <4>1. /\ \A q \in S : Due(q, m) \in Int /\ Between(q, m) \in Int
            /\ \A q \in S : Comes(m)[q] = Due(q, m) + Between(q, m)
            /\ IsFiniteSet(S)
        BY <1>2, ComesWhole
      <4> HIDE DEF S
      <4> QED
        BY <4>1
    <3> HIDE DEF S
    <3>2. SumOver(Comes(m), S) \in Int
      BY <3>1, SumAdd
    <3> QED
      BY <3>2 DEF S
  <2> QED
    BY <2>1, <2>2, <2>3, <2>4, <2>5
<1> QED
  BY <1>5, <1>6, <1>7, <1>8 DEF SInv

-----------------------------------------------------------------------------
(* Simplifying. *)

\* Both sides at the start: everybody who is owed something, everybody who owes
\* something, and as much on one as on the other.
LEMMA BeginKeeps ==
    ASSUME SInv, BeginSimplify
    PROVE  SInv'
<1> DEFINE Owed == {m \in Members : balances[m] > 0}
           Owing == {m \in Members : balances[m] < 0}
<1>1. /\ phase = "record" /\ phase' = "simplify"
      /\ credits' = [m \in Owed |-> balances[m]]
      /\ debits' = [m \in Owing |-> -balances[m]]
      /\ transfers' = {}
      /\ UNCHANGED <<expense, shares, todo, outstanding, within, balances, net, count>>
  BY DEF BeginSimplify, expenseVars
<1>2. /\ TypeOK /\ Dividing /\ SplitsExactly /\ PaidBackExactly /\ PairwiseSettles /\ Even
  BY DEF SInv
<1>3. \A m \in Members : balances[m] \in Int
  BY <1>2 DEF TypeOK
<1>4. IsAmounts(credits', Nat \ {0}) /\ IsAmounts(debits', Nat \ {0})
  <2>1. credits' \in [Owed -> Nat \ {0}] /\ Owed \in SUBSET Members
    BY <1>1, <1>3
  <2>2. debits' \in [Owing -> Nat \ {0}] /\ Owing \in SUBSET Members
    <3>1. \A m \in Owing : -balances[m] \in Nat \ {0}
      BY <1>3
    <3> HIDE DEF Owing
    <3>2. debits' \in [Owing -> Nat \ {0}]
      BY <1>1, <3>1
    <3> QED
      BY <3>2 DEF Owing
  <2> HIDE DEF Owed, Owing
  <2> QED
    BY <2>1, <2>2 DEF IsAmounts
<1>5. TypeOK'
  BY <1>1, <1>2, <1>4 DEF TypeOK
<1>6. Dividing' /\ SplitsExactly' /\ PaidBackExactly' /\ Even' /\ Underway'
  BY <1>1, <1>2 DEF Dividing, SplitsExactly, PaidBackExactly, Even, Underway
<1>7. PairwiseSettles'
  BY <1>1, <1>2 DEF PairwiseSettles, Due
<1>8. SumOf(credits') = SumOf(debits')
  <2> DEFINE up == [m \in Members |-> IF balances[m] > 0 THEN balances[m] ELSE 0]
             down == [m \in Members |-> IF balances[m] < 0 THEN -balances[m] ELSE 0]
  <2>1. IsFiniteSet(Members) /\ IsFiniteSet(Owed) /\ IsFiniteSet(Owing)
        /\ Owed \in SUBSET Members /\ Owing \in SUBSET Members
    <3>1. Owed \in SUBSET Members /\ Owing \in SUBSET Members
      OBVIOUS
    <3> HIDE DEF Owed, Owing
    <3> QED
      BY <3>1, MembersAssumption, SomeMembers
  <2>2. \A m \in Members : /\ up[m] \in Int /\ down[m] \in Int /\ balances[m] \in Int
                           /\ balances[m] = up[m] - down[m]
                           /\ m \notin Owed => up[m] = 0
                           /\ m \notin Owing => down[m] = 0
    BY <1>3
  <2>3. /\ \A m \in Owed : up[m] \in Int /\ credits'[m] = up[m]
        /\ \A m \in Owing : down[m] \in Int /\ debits'[m] = down[m]
        /\ DOMAIN credits' = Owed /\ DOMAIN debits' = Owing
    BY <1>1, <1>3
  <2> HIDE DEF up, down, Owed, Owing
  <2>4. SumOver(balances, Members) = SumOver(up, Members) - SumOver(down, Members)
    BY <2>1, <2>2, SumMinus
  <2>5. SumOver(up, Members) = SumOver(up, Owed) /\ SumOver(down, Members) = SumOver(down, Owing)
    BY <2>1, <2>2, SumPart
  <2>6. SumOver(credits', Owed) = SumOver(up, Owed) /\ SumOver(debits', Owing) = SumOver(down, Owing)
    BY <2>1, <2>3, SumSame
  <2>7. SumOver(up, Members) \in Int /\ SumOver(down, Members) \in Int
    BY <2>1, <2>2, SumAdd
  <2> QED
    BY <1>2, <2>3, <2>4, <2>5, <2>6, <2>7 DEF SumOf, Even
<1>9. /\ DOMAIN credits' = Owed /\ DOMAIN debits' = Owing
      /\ \A m \in Members : balances[m] = At(credits', m) - At(debits', m)
  BY <1>1, <1>3 DEF At
<1>10. \A m \in Members : Received(m)' = 0 /\ Given(m)' = 0
  <2>1. \A m \in Members : {t \in transfers' : t.to = m} = {} /\ {t \in transfers' : t.from = m} = {}
    BY <1>1
  <2> QED
    BY <2>1, SumEmpty DEF Received, Given
<1>11. Cardinality(Owed) + Cardinality(Owing) = Cardinality(Involved)
  <2>1. Owed \in SUBSET Members /\ Owing \in SUBSET Members
    OBVIOUS
  <2>2. Owed \cup Owing = Involved /\ Owed \cap Owing = {}
    BY <1>3 DEF Involved
  <2> HIDE DEF Owed, Owing
  <2>3. IsFiniteSet(Owed) /\ IsFiniteSet(Owing)
    BY <2>1, SomeMembers
  <2>4. Cardinality(Involved) = Cardinality(Owed) + Cardinality(Owing) - Cardinality({})
    BY <2>2, <2>3, FS_Union
  <2>5. Cardinality({}) = 0 /\ Cardinality(Owed) \in Nat /\ Cardinality(Owing) \in Nat
    BY <2>3, FS_EmptySet, FS_CardinalityType
  <2> QED
    BY <2>4, <2>5
<1>12. Planning'
  <2>1. IsFiniteSet(transfers') /\ Cardinality(transfers') = 0
    BY <1>1, FS_EmptySet
  <2>2. \A m \in Members :
            balances[m] = Received(m)' - Given(m)' + At(credits', m) - At(debits', m)
    <3>1. ASSUME NEW m \in Members
          PROVE  balances[m] = Received(m)' - Given(m)' + At(credits', m) - At(debits', m)
      <4>1. At(credits', m) \in Int /\ At(debits', m) \in Int
        BY <1>4, AmountsForm DEF At
      <4> QED
        BY <1>9, <1>10, <4>1
    <3> QED
      BY <3>1
  <2>3. (\A m \in Owed : balances[m] > 0) /\ (\A m \in Owing : balances[m] < 0)
    OBVIOUS
  <2>4. Cardinality(Involved)' = Cardinality(Involved)
    BY <1>1 DEF Involved
  <2>5. Cardinality(Owed) \in Nat /\ Cardinality(Owing) \in Nat
    <3>1. Owed \in SUBSET Members /\ Owing \in SUBSET Members
      OBVIOUS
    <3> HIDE DEF Owed, Owing
    <3> QED
      BY <3>1, SomeMembers, FS_CardinalityType
  <2> HIDE DEF Owed, Owing
  <2>6. Cardinality(transfers') + Cardinality(DOMAIN credits') + Cardinality(DOMAIN debits')
            <= Cardinality(Involved)
    BY <1>9, <1>11, <2>1, <2>5
  <2> QED
    BY <1>1, <1>8, <1>9, <2>1, <2>2, <2>3, <2>4, <2>6 DEF Planning
<1> QED
  BY <1>5, <1>6, <1>7, <1>12 DEF SInv

\* There is a largest amount, at the first of those who have it.
LEMMA LargestIn ==
    ASSUME NEW f, IsAmounts(f, Nat \ {0}), DOMAIN f # {}
    PROVE  Largest(f) \in DOMAIN f
<1> DEFINE D == DOMAIN f
           Beats(m, q) == f[m] > f[q] \/ (f[m] = f[q] /\ m <= q)
           U == {s \in SUBSET D : s # {} => \E m \in s : \A q \in s : Beats(m, q)}
<1>1. IsFiniteSet(D) /\ D \in SUBSET Nat /\ f \in [D -> Nat \ {0}]
  BY AmountsForm, SomeMembers
<1>2. \A m, q \in D : Beats(m, m) /\ (Beats(m, q) \/ Beats(q, m))
  BY <1>1
<1>3. \A m, q, r \in D : Beats(m, q) /\ Beats(q, r) => Beats(m, r)
  <2>1. \A m \in D : f[m] \in Nat /\ m \in Nat
    BY <1>1
  <2> QED
    BY <2>1
<1> HIDE DEF U
<1>4. ASSUME NEW s \in SUBSET D, \A r \in SUBSET s : r # s => r \in U
      PROVE  s \in U
  <2> HIDE DEF Beats, D
  <2> SUFFICES ASSUME s # {} PROVE \E m \in s : \A q \in s : Beats(m, q)
    BY DEF U
  <2>1. PICK x \in s : TRUE
    OBVIOUS
  <2>2. x \in D
    OBVIOUS
  <2>3. CASE s = {x}
    BY <1>2, <2>2, <2>3
  <2>4. CASE s # {x}
    <3>1. s \ {x} # {} /\ s \ {x} \in U
      BY <1>4, <2>1, <2>4
    <3>2. PICK m \in s \ {x} : \A q \in s \ {x} : Beats(m, q)
      BY <3>1 DEF U
    <3>3. CASE Beats(m, x)
      BY <3>2, <3>3
    <3>4. CASE Beats(x, m)
      <4>1. \A q \in s : Beats(x, q)
        BY <1>2, <1>3, <2>2, <3>2, <3>4
      <4> QED
        BY <2>1, <4>1
    <3> QED
      BY <1>2, <2>2, <3>2, <3>3, <3>4
  <2> QED
    BY <2>3, <2>4
<1>5. D \in U
  <2> HIDE DEF D, Beats
  <2>1. \A s \in SUBSET D : s \in U
    BY <1>1, <1>4, SubsetInduction
  <2> QED
    BY <2>1
<1>6. \E m \in D : \A q \in D : Beats(m, q)
  BY <1>5 DEF U
<1> QED
  BY <1>6 DEF Largest

\* One side after a payment: less by the payment, and without whoever it
\* settles.
LEMMA ReducedBy ==
    ASSUME NEW f, IsAmounts(f, Nat \ {0}), NEW m \in DOMAIN f, NEW amount \in Nat \ {0},
           amount <= f[m]
    PROVE  LET less == Reduced(f, m, amount)
           IN  /\ IsAmounts(less, Nat \ {0}) /\ DOMAIN less \in SUBSET (DOMAIN f)
               /\ m \in DOMAIN less => amount # f[m]
               /\ \A q \in Members :
                      At(less, q) = At(f, q) - (IF q = m THEN amount ELSE 0)
               /\ SumOf(less) = SumOf(f) - amount
               /\ SumOf(f) \in Int
               /\ Cardinality(DOMAIN less)
                      = Cardinality(DOMAIN f) - (IF amount = f[m] THEN 1 ELSE 0)
               /\ Cardinality(DOMAIN f) \in Nat
<1> DEFINE D == DOMAIN f
           K == {p \in D : p # m \/ f[p] # amount}
           less == [q \in K |-> IF q = m THEN f[q] - amount ELSE f[q]]
<1>1. less = Reduced(f, m, amount)
  BY DEF Reduced
<1>2. /\ D \in SUBSET Members /\ f \in [D -> Nat \ {0}] /\ IsFiniteSet(D) /\ m \in D
      /\ \A q \in D : f[q] \in Nat /\ f[q] > 0
      /\ K \in SUBSET D /\ DOMAIN less = K
  <2>1. D \in SUBSET Members /\ f \in [D -> Nat \ {0}] /\ IsFiniteSet(D)
    BY AmountsForm, SomeMembers
  <2> QED
    BY <2>1
<1>3. K = IF amount = f[m] THEN D \ {m} ELSE D
  OBVIOUS
<1>4. \A q \in K : less[q] = f[q] - (IF q = m THEN amount ELSE 0)
  <2>1. ASSUME NEW q \in K PROVE less[q] = f[q] - (IF q = m THEN amount ELSE 0)
    <3>1. f[q] \in Nat
      BY <1>2
    <3> QED
      BY <3>1
  <2> QED
    BY <2>1
<1>m. amount \in Nat /\ amount > 0 /\ (m \in K => f[m] # amount)
  OBVIOUS
<1>f. less \in [K -> Nat \ {0}]
  <2>1. ASSUME NEW q \in K PROVE (IF q = m THEN f[q] - amount ELSE f[q]) \in Nat \ {0}
    <3>1. f[q] \in Nat /\ f[q] > 0
      BY <1>2
    <3>2. q = m => f[q] > amount
      BY <1>m, <3>1
    <3> QED
      BY <1>m, <3>1, <3>2
  <2> HIDE DEF K
  <2> QED
    BY <2>1
<1> HIDE DEF D, K, less
<1>5. IsAmounts(less, Nat \ {0})
  <2>1. K \in SUBSET Members
    BY <1>2
  <2> QED
    BY <1>f, <2>1 DEF IsAmounts
<1>6. \A q \in Members : At(less, q) = At(f, q) - (IF q = m THEN amount ELSE 0)
  <2>1. ASSUME NEW q \in Members
        PROVE  At(less, q) = At(f, q) - (IF q = m THEN amount ELSE 0)
    <3>1. At(less, q) = (IF q \in K THEN less[q] ELSE 0) /\ At(f, q) = (IF q \in D THEN f[q] ELSE 0)
      BY <1>2 DEF At, D
    <3>2. CASE q \in K
      BY <1>2, <1>4, <3>1, <3>2
    <3>3. CASE q \notin K
      <4>1. q \notin D \/ (q = m /\ amount = f[m])
        BY <1>3, <3>3
      <4> QED
        BY <1>2, <1>m, <3>1, <3>3, <4>1
    <3> QED
      BY <3>2, <3>3
  <2> QED
    BY <2>1
<1>7. /\ SumOf(less) = SumOf(f) - amount /\ SumOf(f) \in Int
      /\ Cardinality(K) = Cardinality(D) - (IF amount = f[m] THEN 1 ELSE 0)
      /\ Cardinality(D) \in Nat
  <2>1. SumOf(less) = SumOver(less, K) /\ SumOf(f) = SumOver(f, D)
    BY <1>2 DEF SumOf, D
  <2>2. Cardinality(D) \in Nat
    BY <1>2, FS_CardinalityType
  <2>3. \A q \in D : f[q] \in Int
    BY <1>2
  <2>4. SumOver(f, D) \in Int /\ SumOver(f, D) = f[m] + SumOver(f, D \ {m})
    BY <1>2, <2>3, SumAdd
  <2>5. CASE amount = f[m]
    <3> DEFINE R == D \ {m}
    <3>1. K = R
      BY <1>3, <2>5
    <3>2. IsFiniteSet(R) /\ Cardinality(R) = Cardinality(D) - 1
      BY <1>2, FS_RemoveElement
    <3>3. \A q \in R : f[q] \in Int /\ less[q] = f[q]
      BY <1>2, <1>4, <3>1
    <3>4. SumOver(f, D) = f[m] + SumOver(f, R)
      BY <2>4
    <3> HIDE DEF R
    <3>5. SumOver(less, R) = SumOver(f, R) /\ SumOver(f, R) \in Int
      BY <3>2, <3>3, SumSame, SumAdd
    <3> QED
      BY <1>m, <2>1, <2>2, <2>4, <2>5, <3>1, <3>2, <3>4, <3>5
  <2>6. CASE amount # f[m]
    <3>1. K = D
      BY <1>3, <2>6
    <3>2. /\ \A q \in D : f[q] \in Int /\ less[q] \in Int
          /\ \A q \in D \ {m} : less[q] = f[q]
          /\ less[m] = f[m] - amount
      BY <1>2, <1>4, <1>m, <3>1
    <3>3. SumOver(less, D) = SumOver(f, D) + less[m] - f[m]
      BY <1>2, <3>2, SumOne
    <3>4. f[m] \in Int
      BY <1>2, <2>3
    <3> QED
      BY <1>m, <2>1, <2>2, <2>4, <2>6, <3>1, <3>2, <3>3, <3>4
  <2> QED
    BY <2>5, <2>6
<1> QED
  BY <1>1, <1>2, <1>5, <1>6, <1>7, <1>m DEF D

\* A payment more: what it brings adds to what earlier ones brought.
LEMMA PaymentAdds ==
    ASSUME TypeOK, IsFiniteSet(transfers), NEW t, t \notin transfers, t.amount \in Nat \ {0},
           transfers' = transfers \cup {t},
           NEW m \in Members
    PROVE  /\ Received(m)' = Received(m) + (IF t.to = m THEN t.amount ELSE 0)
           /\ Given(m)' = Given(m) + (IF t.from = m THEN t.amount ELSE 0)
           /\ Received(m) \in Int /\ Given(m) \in Int
<1>1. ASSUME NEW S \in SUBSET transfers
      PROVE  /\ SumOver(Value, S) \in Int
             /\ SumOver(Value', S) = SumOver(Value, S)
             /\ SumOver(Value', S \cup {t}) = SumOver(Value, S) + t.amount
  <2>1. IsFiniteSet(S) /\ IsFiniteSet(S \cup {t})
    BY FS_Subset, FS_AddElement
  <2>2. /\ \A u \in transfers : u.amount \in Nat \ {0}
        /\ \A u \in S : Value[u] = u.amount
        /\ \A u \in S \cup {t} : Value'[u] = u.amount
    BY DEF TypeOK, Value
  <2>3. /\ \A u \in S : Value[u] \in Int /\ Value'[u] = Value[u]
        /\ \A u \in S \cup {t} : Value'[u] \in Int
    BY <2>2
  <2>4. SumOver(Value', S) = SumOver(Value, S) /\ SumOver(Value, S) \in Int
    BY <2>1, <2>3, SumSame, SumAdd
  <2> DEFINE more == S \cup {t}
             v == Value'
  <2>5. /\ IsFiniteSet(more) /\ t \in more /\ \A u \in more : v[u] \in Int
    BY <2>1, <2>3
  <2>6. more \ {t} = S /\ v[t] = t.amount
    BY <2>2
  <2> HIDE DEF more, v
  <2>7. SumOver(v, more) = v[t] + SumOver(v, more \ {t})
    BY <2>5, SumAdd
  <2>8. SumOver(v, S) = SumOver(Value, S)
    BY <2>4 DEF v
  <2>9. SumOver(v, more) = SumOver(Value, S) + t.amount
    BY <2>4, <2>6, <2>7, <2>8
  <2> QED
    BY <2>4, <2>9 DEF more, v
<1>2. ASSUME NEW S \in SUBSET transfers, NEW here \in BOOLEAN, NEW now,
             now = IF here THEN S \cup {t} ELSE S
      PROVE  SumOver(Value', now) = SumOver(Value, S) + (IF here THEN t.amount ELSE 0)
             /\ SumOver(Value, S) \in Int
  <2>1. /\ SumOver(Value, S) \in Int
        /\ SumOver(Value', S) = SumOver(Value, S)
        /\ SumOver(Value', S \cup {t}) = SumOver(Value, S) + t.amount
    BY <1>1
  <2> QED
    BY <1>2, <2>1
<1>3. Received(m)' = Received(m) + (IF t.to = m THEN t.amount ELSE 0) /\ Received(m) \in Int
  <2> DEFINE S == {u \in transfers : u.to = m}
             now == {u \in transfers' : u.to = m}
             here == t.to = m
  <2>1. S \in SUBSET transfers /\ here \in BOOLEAN /\ now = IF here THEN S \cup {t} ELSE S
    OBVIOUS
  <2>2. Received(m) = SumOver(Value, S) /\ Received(m)' = SumOver(Value', now)
    BY DEF Received
  <2> HIDE DEF S, now, here
  <2>3. SumOver(Value', now) = SumOver(Value, S) + (IF here THEN t.amount ELSE 0)
        /\ SumOver(Value, S) \in Int
    BY <1>2, <2>1
  <2> QED
    BY <2>2, <2>3 DEF here
<1>4. Given(m)' = Given(m) + (IF t.from = m THEN t.amount ELSE 0) /\ Given(m) \in Int
  <2> DEFINE S == {u \in transfers : u.from = m}
             now == {u \in transfers' : u.from = m}
             here == t.from = m
  <2>1. S \in SUBSET transfers /\ here \in BOOLEAN /\ now = IF here THEN S \cup {t} ELSE S
    OBVIOUS
  <2>2. Given(m) = SumOver(Value, S) /\ Given(m)' = SumOver(Value', now)
    BY DEF Given
  <2> HIDE DEF S, now, here
  <2>3. SumOver(Value', now) = SumOver(Value, S) + (IF here THEN t.amount ELSE 0)
        /\ SumOver(Value, S) \in Int
    BY <1>2, <2>1
  <2> QED
    BY <2>2, <2>3 DEF here
<1> QED
  BY <1>3, <1>4

\* A payment takes as much from both sides and settles one of them for good.
LEMMA AddKeeps ==
    ASSUME SInv, AddTransfer
    PROVE  SInv'
<1>a. PICK creditor : creditor = Largest(credits)
  OBVIOUS
<1>b. PICK debtor : debtor = Largest(debits)
  OBVIOUS
<1>c. PICK amount : amount = Amount(creditor, debtor)
  OBVIOUS
<1>d. PICK t : t = [from |-> debtor, to |-> creditor, amount |-> amount]
  OBVIOUS
<1>1. /\ phase = "simplify" /\ phase' = phase /\ DOMAIN credits # {} /\ DOMAIN debits # {}
      /\ transfers' = transfers \cup {t}
      /\ credits' = Reduced(credits, creditor, amount)
      /\ debits' = Reduced(debits, debtor, amount)
      /\ UNCHANGED <<expense, shares, todo, outstanding, within, balances, net, count>>
  BY <1>a, <1>b, <1>c, <1>d DEF AddTransfer, expenseVars
<1>2. /\ TypeOK /\ Dividing /\ SplitsExactly /\ PaidBackExactly /\ PairwiseSettles /\ Even
      /\ IsAmounts(credits, Nat \ {0}) /\ IsAmounts(debits, Nat \ {0})
  BY DEF SInv, TypeOK
<1>3. /\ \A m \in DOMAIN credits : balances[m] > 0
      /\ \A m \in DOMAIN debits : balances[m] < 0
      /\ SumOf(credits) = SumOf(debits)
      /\ \A m \in Members :
             balances[m] = Received(m) - Given(m) + At(credits, m) - At(debits, m)
      /\ IsFiniteSet(transfers)
      /\ \A u \in transfers : ~(u.to \in DOMAIN credits /\ u.from \in DOMAIN debits)
      /\ Cardinality(transfers) + Cardinality(DOMAIN credits) + Cardinality(DOMAIN debits)
             <= Cardinality(Involved)
  BY <1>1 DEF SInv, Planning
<1>4. creditor \in DOMAIN credits /\ debtor \in DOMAIN debits
  BY <1>a, <1>b, <1>1, <1>2, LargestIn
<1>5. /\ credits[creditor] \in Nat \ {0} /\ debits[debtor] \in Nat \ {0}
      /\ creditor \in Members /\ debtor \in Members
      /\ DOMAIN credits \in SUBSET Members /\ DOMAIN debits \in SUBSET Members
  BY <1>2, <1>4, AmountsForm
<1>6. /\ amount \in Nat \ {0} /\ amount <= credits[creditor] /\ amount <= debits[debtor]
      /\ amount = credits[creditor] \/ amount = debits[debtor]
  BY <1>c, <1>5 DEF Amount
<1>7. /\ IsAmounts(credits', Nat \ {0}) /\ DOMAIN credits' \in SUBSET (DOMAIN credits)
      /\ creditor \in DOMAIN credits' => amount # credits[creditor]
      /\ \A q \in Members :
             At(credits', q) = At(credits, q) - (IF q = creditor THEN amount ELSE 0)
      /\ SumOf(credits') = SumOf(credits) - amount
      /\ Cardinality(DOMAIN credits')
             = Cardinality(DOMAIN credits) - (IF amount = credits[creditor] THEN 1 ELSE 0)
      /\ Cardinality(DOMAIN credits) \in Nat
  BY <1>1, <1>2, <1>4, <1>6, ReducedBy
<1>8. /\ IsAmounts(debits', Nat \ {0}) /\ DOMAIN debits' \in SUBSET (DOMAIN debits)
      /\ debtor \in DOMAIN debits' => amount # debits[debtor]
      /\ \A q \in Members :
             At(debits', q) = At(debits, q) - (IF q = debtor THEN amount ELSE 0)
      /\ SumOf(debits') = SumOf(debits) - amount
      /\ Cardinality(DOMAIN debits')
             = Cardinality(DOMAIN debits) - (IF amount = debits[debtor] THEN 1 ELSE 0)
      /\ Cardinality(DOMAIN debits) \in Nat
  BY <1>1, <1>2, <1>4, <1>6, ReducedBy
<1>9. /\ t.to = creditor /\ t.from = debtor /\ t.amount = amount
      /\ t \in [from : Members, to : Members, amount : Nat \ {0}]
      /\ t \notin transfers
  BY <1>d, <1>3, <1>4, <1>5, <1>6
<1>10. TypeOK'
  <2>1. transfers' \subseteq [from : Members, to : Members, amount : Nat \ {0}]
    BY <1>1, <1>2, <1>9 DEF TypeOK
  <2> QED
    BY <1>1, <1>2, <1>7, <1>8, <2>1 DEF TypeOK
<1>11. Dividing' /\ SplitsExactly' /\ PaidBackExactly' /\ Even' /\ Underway'
  BY <1>1, <1>2 DEF Dividing, SplitsExactly, PaidBackExactly, Even, Underway
<1>12. PairwiseSettles'
  BY <1>1, <1>2 DEF PairwiseSettles, Due
<1>13. Planning'
  <2>1. /\ \A m \in DOMAIN credits' : balances'[m] > 0
        /\ \A m \in DOMAIN debits' : balances'[m] < 0
        /\ SumOf(credits') = SumOf(debits')
    BY <1>1, <1>3, <1>7, <1>8
  <2>2. ASSUME NEW m \in Members
        PROVE  balances'[m] = Received(m)' - Given(m)' + At(credits', m) - At(debits', m)
    <3>1. /\ Received(m)' = Received(m) + (IF t.to = m THEN t.amount ELSE 0)
          /\ Given(m)' = Given(m) + (IF t.from = m THEN t.amount ELSE 0)
          /\ Received(m) \in Int /\ Given(m) \in Int
      <4>1. t.amount \in Nat \ {0}
        BY <1>6, <1>9
      <4> QED
        BY <1>1, <1>2, <1>3, <1>9, <4>1, PaymentAdds
    <3>2. At(credits, m) \in Int /\ At(debits, m) \in Int
      BY <1>2, AmountsForm DEF At
    <3>3. /\ At(credits', m) = At(credits, m) - (IF m = creditor THEN amount ELSE 0)
          /\ At(debits', m) = At(debits, m) - (IF m = debtor THEN amount ELSE 0)
          /\ balances[m] = Received(m) - Given(m) + At(credits, m) - At(debits, m)
          /\ balances'[m] = balances[m]
      BY <1>1, <1>3, <1>7, <1>8
    <3> QED
      BY <1>6, <1>9, <3>1, <3>2, <3>3
  <2>3. IsFiniteSet(transfers') /\ Cardinality(transfers') = Cardinality(transfers) + 1
        /\ Cardinality(transfers) \in Nat
    BY <1>1, <1>3, <1>9, FS_AddElement, FS_CardinalityType
  <2>4. ASSUME NEW u \in transfers'
        PROVE  ~(u.to \in DOMAIN credits' /\ u.from \in DOMAIN debits')
    <3>1. CASE u \in transfers
      BY <1>3, <1>7, <1>8, <3>1
    <3>2. CASE u = t
      BY <1>6, <1>7, <1>8, <1>9, <3>2
    <3> QED
      BY <1>1, <3>1, <3>2
  <2>5. Cardinality(Involved)' = Cardinality(Involved) /\ Cardinality(Involved) \in Nat
    <3>1. Involved \in SUBSET Members
      BY DEF Involved
    <3>2. Cardinality(Involved) \in Nat
      BY <3>1, SomeMembers, FS_CardinalityType
    <3> QED
      BY <1>1, <3>2 DEF Involved
  <2>6. Cardinality(transfers') + Cardinality(DOMAIN credits') + Cardinality(DOMAIN debits')
            <= Cardinality(Involved)
    BY <1>3, <1>6, <1>7, <1>8, <2>3, <2>5
  <2>7. DOMAIN credits' = {} => Cardinality(transfers') < Cardinality(Involved)
    <3> SUFFICES ASSUME DOMAIN credits' = {} PROVE Cardinality(transfers') < Cardinality(Involved)
      OBVIOUS
    <3>1. SumOf(debits') = 0
      BY <2>1, SumEmpty DEF SumOf
    <3>2. DOMAIN debits' = {}
      BY <1>8, <3>1, NothingLeft
    <3>3. Cardinality(DOMAIN credits') = 0 /\ Cardinality(DOMAIN debits') = 0
      BY <3>2, FS_EmptySet
    <3>4. creditor \notin DOMAIN credits' /\ debtor \notin DOMAIN debits'
      BY <3>2
    <3>5. Cardinality(DOMAIN credits) # 0 /\ Cardinality(DOMAIN debits) # 0
      BY <1>1, <1>5, SomeMembers, FS_EmptySet
    <3>6. Cardinality(DOMAIN credits) = 1 /\ Cardinality(DOMAIN debits) = 1
      BY <1>7, <1>8, <3>3, <3>5
    <3> QED
      BY <1>3, <2>3, <2>5, <3>6
  <2>8. phase' # "done"
    BY <1>1
  <2> QED
    BY <2>1, <2>2, <2>3, <2>4, <2>5, <2>6, <2>7, <2>8 DEF Planning
<1> QED
  BY <1>10, <1>11, <1>12, <1>13 DEF SInv

\* Done when one side is empty.
LEMMA SimplifiedKeeps ==
    ASSUME SInv, Simplified
    PROVE  SInv'
<1>1. /\ phase = "simplify" /\ phase' = "done"
      /\ DOMAIN credits = {} \/ DOMAIN debits = {}
      /\ UNCHANGED <<expense, shares, todo, outstanding, within, balances, net, count>>
      /\ UNCHANGED <<credits, debits, transfers>>
  BY DEF Simplified, expenseVars, planVars
<1>2. TypeOK'
  BY <1>1 DEF SInv, TypeOK
<1>3. Dividing' /\ SplitsExactly' /\ PaidBackExactly' /\ Even' /\ Underway'
  BY <1>1 DEF SInv, Dividing, SplitsExactly, PaidBackExactly, Even, Underway
<1>4. PairwiseSettles'
  BY <1>1 DEF SInv, PairwiseSettles, Due
<1>5. Planning'
  <2>1. /\ Involved' = Involved
        /\ \A m \in Members : Received(m)' = Received(m) /\ Given(m)' = Given(m)
    BY <1>1 DEF Involved, Received, Given, Value
  <2>2. Planning
    BY DEF SInv
  <2> QED
    BY <1>1, <2>1, <2>2 DEF Planning
<1> QED
  BY <1>2, <1>3, <1>4, <1>5 DEF SInv

-----------------------------------------------------------------------------
(* Always. *)

\* Before anything is recorded.
LEMMA SInit == Init => SInv
<1> SUFFICES ASSUME Init PROVE SInv
  OBVIOUS
<1>1. /\ expense = [paid |-> Nothing, weights |-> Nothing]
      /\ shares = Nothing /\ todo = {} /\ outstanding = Nothing
      /\ within = [d \in Members \X Members |-> 0]
      /\ balances = [m \in Members |-> 0] /\ net = [d \in Pairs |-> 0]
      /\ count = 0 /\ phase = "record"
      /\ credits = Nothing /\ debits = Nothing /\ transfers = {}
  BY DEF Init
<1>2. IsAmounts(Nothing, Nat) /\ IsAmounts(Nothing, Int) /\ IsAmounts(Nothing, Nat \ {0})
  <2>1. Nothing \in [{} -> Nat] /\ Nothing \in [{} -> Int] /\ Nothing \in [{} -> Nat \ {0}]
    BY DEF Nothing
  <2>2. {} \in SUBSET Members
    OBVIOUS
  <2> QED
    BY <2>1, <2>2 DEF IsAmounts
<1>3. TypeOK
  BY <1>1, <1>2, BoundAssumption DEF TypeOK
<1>4. Dividing /\ SplitsExactly /\ Underway /\ Planning
  BY <1>1 DEF Dividing, SplitsExactly, Underway, Planning
<1>5. PaidBackExactly
  BY <1>1 DEF PaidBackExactly, Nothing
<1>6. Even
  <2>1. IsFiniteSet(Members) /\ \A m \in Members : balances[m] = 0
    BY <1>1, MembersAssumption
  <2> QED
    BY <2>1, SumZero DEF Even
<1>7. PairwiseSettles
  <2>1. ASSUME NEW m \in Members
        PROVE  balances[m] = SumOver([q \in Members \ {m} |-> Due(q, m)], Members \ {m})
    <3> DEFINE S == Members \ {m}
               due == [q \in S |-> Due(q, m)]
    <3>1. \A q \in S : due[q] = 0
      <4>1. ASSUME NEW q \in S PROVE due[q] = 0
        <5>1. q \in Nat /\ m \in Nat /\ q # m
          BY SomeMembers
        <5>2. q < m => <<q, m>> \in Pairs
          BY DEF Pairs
        <5>3. ~(q < m) => <<m, q>> \in Pairs
          BY <5>1 DEF Pairs
        <5>4. \A d \in Pairs : net[d] = 0
          BY <1>1
        <5>5. Due(q, m) = 0
          BY <5>2, <5>3, <5>4 DEF Due
        <5> QED
          BY <5>5
      <4> QED
        BY <4>1
    <3>2. IsFiniteSet(S)
      BY SomeMembers
    <3> HIDE DEF S, due
    <3>3. SumOver(due, S) = 0
      BY <3>1, <3>2, SumZero
    <3> QED
      BY <1>1, <3>3 DEF due, S
  <2> QED
    BY <2>1 DEF PairwiseSettles
<1> QED
  BY <1>3, <1>4, <1>5, <1>6, <1>7 DEF SInv

\* Every step keeps it.
LEMMA SStep == SInv /\ [Next]_vars => SInv'
<1> SUFFICES ASSUME SInv, [Next]_vars PROVE SInv'
  OBVIOUS
<1>1. CASE UNCHANGED vars
  <2>1. /\ UNCHANGED <<expense, shares, todo, outstanding, within, balances, net, count, phase>>
        /\ UNCHANGED <<credits, debits, transfers>>
    BY <1>1 DEF vars, expenseVars, planVars
  <2>2. TypeOK' /\ Dividing' /\ SplitsExactly' /\ PaidBackExactly' /\ Even'
    BY <2>1 DEF SInv, TypeOK, Dividing, SplitsExactly, PaidBackExactly, Even
  <2>3. PairwiseSettles'
    BY <2>1 DEF SInv, PairwiseSettles, Due
  <2>4. Underway'
    BY <2>1 DEF SInv, Underway, Comes, Due, Between, Remaining
  <2>5. Planning'
    <3>1. /\ Involved' = Involved
          /\ \A m \in Members : Received(m)' = Received(m) /\ Given(m)' = Given(m)
      BY <2>1 DEF Involved, Received, Given, Value
    <3> QED
      BY <2>1, <3>1 DEF SInv, Planning
  <2> QED
    BY <2>2, <2>3, <2>4, <2>5 DEF SInv
<1> QED
  BY <1>1, RecordKeeps, DivideKeeps, DividedKeeps, BeginKeeps, AddKeeps, SimplifiedKeeps DEF Next

\* It always holds.
LEMMA SAlways == Spec => []SInv
BY SInit, SStep, PTL DEF Spec

\* Whatever people pay and however they split it, every map holds what it may:
\* shares and debts are never negative, an open side of a plan never zero.
THEOREM SettleUpTyped == Spec => []TypeOK
<1>1. SInv => TypeOK
  BY DEF SInv
<1> QED
  BY <1>1, SAlways, PTL

\* For any total, weights and offset, a split hands out exactly the total, and a
\* heavier weight never less than a lighter one.
THEOREM SplitsHold == Spec => []SplitsExactly
<1>1. SInv => SplitsExactly
  BY DEF SInv
<1> QED
  BY <1>1, SAlways, PTL

\* For any expense, every share finds somebody it is owed to, nobody is paid
\* back more than they paid, and all together exactly that.
THEOREM PaidBackHolds == Spec => []PaidBackExactly
<1>1. SInv => PaidBackExactly
  BY DEF SInv
<1> QED
  BY <1>1, SAlways, PTL

\* For any number of people and expenses, paying every pair what it owes leaves
\* everybody square.
THEOREM PairwiseHolds == Spec => []PairwiseSettles
<1>1. SInv => PairwiseSettles
  BY DEF SInv
<1> QED
  BY <1>1, SAlways, PTL

\* For any balances, the simplified payments never overpay, settle everybody
\* when they are done, and are fewer than the people involved.
THEOREM SimplifyHolds == Spec => []SimplifySettles
<1>1. SInv => SimplifySettles
  <2> SUFFICES ASSUME SInv, phase \in {"simplify", "done"}
               PROVE  /\ \A m \in Members :
                             balances[m] = Received(m) - Given(m) + At(credits, m) - At(debits, m)
                      /\ phase = "done" => DOMAIN credits = {} /\ DOMAIN debits = {}
                      /\ transfers # {} => Cardinality(transfers) < Cardinality(Involved)
    BY DEF SimplifySettles, Involved
  <2>1. Planning /\ IsAmounts(credits, Nat \ {0}) /\ IsAmounts(debits, Nat \ {0})
    BY DEF SInv, TypeOK
  <2>2. SumOf(credits) = SumOf(debits)
    BY <2>1 DEF Planning
  <2>3. DOMAIN credits = {} <=> DOMAIN debits = {}
    <3>1. DOMAIN credits = {} => SumOf(credits) = 0
      BY SumEmpty DEF SumOf
    <3>2. DOMAIN debits = {} => SumOf(debits) = 0
      BY SumEmpty DEF SumOf
    <3> QED
      BY <2>1, <2>2, <3>1, <3>2, NothingLeft
  <2>4. ASSUME transfers # {} PROVE Cardinality(transfers) < Cardinality(Involved)
    <3>1. CASE DOMAIN credits = {}
      BY <2>1, <2>4, <3>1 DEF Planning
    <3>2. CASE DOMAIN credits # {}
      <4>1. DOMAIN credits \in SUBSET Members /\ DOMAIN debits \in SUBSET Members
            /\ Involved \in SUBSET Members /\ IsFiniteSet(transfers)
        BY <2>1, AmountsForm DEF Involved, Planning
      <4>2. /\ Cardinality(DOMAIN credits) \in Nat /\ Cardinality(DOMAIN credits) # 0
            /\ Cardinality(DOMAIN debits) \in Nat /\ Cardinality(Involved) \in Nat
            /\ Cardinality(transfers) \in Nat
        BY <3>2, <4>1, SomeMembers, FS_EmptySet, FS_CardinalityType
      <4>3. Cardinality(transfers) + Cardinality(DOMAIN credits) + Cardinality(DOMAIN debits)
                <= Cardinality(Involved)
        BY <2>1 DEF Planning
      <4> QED
        BY <4>2, <4>3
    <3> QED
      BY <3>1, <3>2
  <2> QED
    BY <2>1, <2>3, <2>4 DEF Planning
<1> QED
  BY <1>1, SAlways, PTL

=============================================================================
