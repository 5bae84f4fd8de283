--------------------------- MODULE PartitionProofs ---------------------------
(***************************************************************************)
(* What the operators of Partition return, for any names and values.       *)
(***************************************************************************)
EXTENDS Partition, FiniteSetTheorems, TLAPS

\* Of a request the grammar of the parser and that of RFC 7230 agree on, the
\* options are the names of the hop-by-hop fields.
LEMMA OptionsAreHops ==
  ASSUME NEW f \in Fields, WellFormed(f)
  PROVE  \A n \in Names : (n = Connection \/ n \in Options(f)) <=> n \in HopByHop(f)
<1>1. /\ f \in [Names -> Seq(Values \cup Seq(Names \cup {Blank}))]
      /\ \A k \in DOMAIN f[Connection] : f[Connection][k] \in Seq(Names \cup {Blank})
  BY DEF Fields
<1>2. ASSUME NEW n \in Names, n \in Options(f)
      PROVE  n \in HopByHop(f)
  <2>1. PICK k \in DOMAIN f[Connection] :
          \E i \in ParsedAt(f[Connection][k]) : f[Connection][k][i] = n
    BY <1>2 DEF Options, Occurrences
  <2> QED
    BY <2>1 DEF HopByHop, ParsedAt
<1>3. ASSUME NEW n \in Names, n # Connection, n \in HopByHop(f)
      PROVE  n \in Options(f)
  <2>1. PICK k \in DOMAIN f[Connection] :
          \E i \in DOMAIN f[Connection][k] : f[Connection][k][i] = n
    BY <1>3 DEF HopByHop
  <2> DEFINE list == f[Connection][k]
  <2>2. PICK i \in DOMAIN list : list[i] = n
    BY <2>1
  <2>3. list \in Seq(Names \cup {Blank}) /\ list[i] # Blank
    BY <1>1, <2>1, <2>2, PartitionAssumption
  <2>4. ~IsEmptyValue(list)
    BY <2>2, <2>3 DEF IsEmptyValue
  <2>5. DOMAIN list = 1..Len(list) /\ Len(list) \in Nat
    BY <2>3
  <2>6. i \in ParsedAt(list)
    <3> SUFFICES ASSUME NEW j \in 1..i, NEW h \in 1..i, j < h, list[j] # Blank,
                        list[h] = Blank
                 PROVE  FALSE
      BY <2>2, <2>3 DEF ParsedAt
    <3>1. j \in DOMAIN list /\ h \in DOMAIN list /\ h < i
      BY <2>2, <2>3, <2>5
    <3> QED
      BY <2>1, <2>3, <3>1 DEF WellFormed
  <2>7. <<k, i>> \in Occurrences(f, n)
    BY <2>1, <2>2, <2>4, <2>6 DEF Occurrences
  <2> QED
    BY <2>7 DEF Options
<1>4. Connection \in HopByHop(f)
  BY DEF HopByHop
<1> QED
  BY <1>2, <1>3, <1>4

\* What partition_connection_options leaves of it are the end-to-end fields.
LEMMA StrippedFields ==
  ASSUME NEW f \in Fields, WellFormed(f)
  PROVE  InFields(f) = [n \in Names |-> IF n \in HopByHop(f) THEN <<>> ELSE f[n]]
BY OptionsAreHops DEF InFields

\* Where a parse that has found no blank behind an option may go on: the
\* element at p is read unless it is blank.
LEMMA ParsedNext ==
  ASSUME NEW list, NEW p \in DOMAIN list,
         ~\E j, k \in 1..p : j < k /\ list[j] # Blank /\ list[k] = Blank
  PROVE  p \in ParsedAt(list) <=> list[p] # Blank
BY DEF ParsedAt

\* Nothing is read from a blank behind an option on.
LEMMA ParsedNoMore ==
  ASSUME NEW list, NEW p \in Nat, NEW j \in 1..p, j < p, list[j] # Blank,
         list[p] = Blank, NEW i \in Nat, i >= p
  PROVE  i \notin ParsedAt(list)
BY DEF ParsedAt

-----------------------------------------------------------------------------
(***************************************************************************)
(* Joined puts the pieces behind each other one by one.  The function that *)
(* defines it exists: were there a number of pieces without one, the least *)
(* would be one more than a number that has one.                           *)
(***************************************************************************)
LEMMA LeastNumber ==
  ASSUME NEW T \in SUBSET Nat, T # {}
  PROVE  \E m \in T : \A y \in T : m <= y
<1> DEFINE R == OpToRel(<, Nat)
<1>1. IsWellFoundedOn(R, Nat)  BY NatLessThanWellFounded
<1>2. \A x, y \in Nat : <<y, x>> \in R <=> y < x  BY DEF OpToRel
<1> HIDE DEF R
<1>3. PICK m \in T : \A y \in T : ~(<<y, m>> \in R)  BY <1>1, WFMin
<1>4. ASSUME NEW y \in T PROVE m <= y
  <2>1. m \in Nat /\ y \in Nat  OBVIOUS
  <2>2. ~(<<y, m>> \in R)  BY <1>3
  <2>3. ~(y < m)  BY <1>2, <2>1, <2>2
  <2> QED  BY <2>1, <2>3
<1> QED  BY <1>4

LEMMA JoinedNext ==
  ASSUME NEW pieces, Len(pieces) \in Nat
  PROVE  /\ Joined(pieces)[0] = <<>>
         /\ \A m \in 1..Len(pieces) :
              Joined(pieces)[m] = Joined(pieces)[m - 1] \o pieces[m]
<1> DEFINE Is(f, n) == f = [m \in 0..n |-> IF m = 0 THEN <<>> ELSE f[m - 1] \o pieces[m]]
           None == {n \in Nat : ~\E f : Is(f, n)}
<1>1. None = {}
  <2> SUFFICES ASSUME None # {} PROVE FALSE
    OBVIOUS
  <2>1. PICK n \in None : \A k \in None : n <= k  BY LeastNumber
  <2>2. CASE n = 0
    <3> DEFINE g == [m \in 0..0 |-> <<>>]
    <3>1. Is(g, 0)
      <4>1. \A m \in 0..0 : m = 0  OBVIOUS
      <4>2. [m \in 0..0 |-> IF m = 0 THEN <<>> ELSE g[m - 1] \o pieces[m]] = g  BY <4>1
      <4> QED  BY <4>2
    <3> QED  BY <2>1, <2>2, <3>1
  <2>3. CASE n # 0
    <3>1. n - 1 \in Nat /\ n - 1 \notin None
      <4>1. None \subseteq Nat  OBVIOUS
      <4> HIDE DEF None
      <4>2. n \in Nat /\ \A k \in None : n <= k  BY <2>1, <4>1
      <4> QED  BY <2>3, <4>1, <4>2
    <3>2. PICK f : Is(f, n - 1)  BY <3>1
    <3> DEFINE g == [m \in 0..n |-> IF m = n THEN f[n - 1] \o pieces[n] ELSE f[m]]
    <3>3. ASSUME NEW m \in 0..n
          PROVE  g[m] = IF m = 0 THEN <<>> ELSE g[m - 1] \o pieces[m]
      <4>1. CASE m = 0
        <5>1. 0 \in 0..n - 1 /\ 0 \in 0..n /\ 0 # n  BY <2>3, <2>1
        <5>2. f[0] = <<>>  BY <3>2, <5>1
        <5> QED  BY <4>1, <5>1, <5>2
      <4>2. CASE m = n
        <5>1. n - 1 \in 0..n /\ n - 1 # n /\ n \in 0..n  BY <2>3, <3>1
        <5>2. g[n] = f[n - 1] \o pieces[n]  BY <5>1
        <5>3. g[n - 1] = f[n - 1]  BY <5>1
        <5> QED  BY <2>3, <4>2, <5>2, <5>3
      <4>3. CASE m # 0 /\ m # n
        <5>1. /\ m \in 0..n - 1 /\ m - 1 \in 0..n - 1
              /\ m - 1 # n /\ m - 1 \in 0..n
          BY <4>3, <2>1
        <5>2. f[m] = f[m - 1] \o pieces[m]  BY <3>2, <4>3, <5>1
        <5>3. g[m] = f[m] /\ g[m - 1] = f[m - 1]  BY <5>1, <4>3
        <5> QED  BY <4>3, <5>2, <5>3
      <4> QED  BY <4>1, <4>2, <4>3
    <3>4. \E h : g = [m \in 0..n |-> h[m]]
      <4>1. g = [m \in 0..n |-> g[m]]  OBVIOUS
      <4> HIDE DEF g
      <4> QED  BY <4>1
    <3> HIDE DEF g
    <3>5. Is(g, n)  BY <3>3, <3>4
    <3> QED  BY <2>1, <3>5
  <2> QED  BY <2>2, <2>3
<1>2. PICK f : Is(f, Len(pieces))  BY <1>1
<1>3. Joined(pieces) = CHOOSE h : Is(h, Len(pieces))  BY DEF Joined
<1>4. Is(Joined(pieces), Len(pieces))  BY <1>2, <1>3
<1> HIDE DEF None
<1>5. PICK e : e = Joined(pieces)  OBVIOUS
<1>6. e = [m \in 0..Len(pieces) |-> IF m = 0 THEN <<>> ELSE e[m - 1] \o pieces[m]]
  BY <1>4, <1>5
<1>7. e[0] = <<>>  BY <1>6
<1>8. ASSUME NEW m \in 1..Len(pieces) PROVE e[m] = e[m - 1] \o pieces[m]
  <2>1. m \in 0..Len(pieces) /\ m # 0  OBVIOUS
  <2> QED  BY <1>6, <2>1
<1> QED  BY <1>5, <1>7, <1>8

-----------------------------------------------------------------------------
\* A name occurs finitely often: at most once for every element.
LEMMA OccurrencesFinite ==
  ASSUME NEW f \in Fields, NEW n
  PROVE  /\ IsFiniteSet(Occurrences(f, n)) /\ Cardinality(Occurrences(f, n)) \in Nat
         /\ \A p \in Occurrences(f, n) : \E k, i \in Nat : p = <<k, i>>
<1> DEFINE lists == f[Connection]
           here(k) == {<<k, i>> : i \in {j \in ParsedAt(lists[k]) : lists[k][j] = n}}
           read == {k \in DOMAIN lists : ~IsEmptyValue(lists[k])}
           each == [k \in read |-> here(k)]
           T == {each[k] : k \in read}
<1>1. /\ DOMAIN lists = 1..Len(lists) /\ Len(lists) \in Nat
      /\ \A k \in DOMAIN lists : /\ DOMAIN lists[k] = 1..Len(lists[k])
                                 /\ Len(lists[k]) \in Nat
  BY PartitionAssumption DEF Fields
<1>2. IsFiniteSet(read)
  <2>1. IsFiniteSet(1..Len(lists))  BY <1>1, FS_Interval
  <2>2. read \in SUBSET (1..Len(lists))  BY <1>1
  <2> HIDE DEF read
  <2> QED  BY <2>1, <2>2, FS_Subset
<1>3. ASSUME NEW k \in read
      PROVE  IsFiniteSet(each[k]) /\ \A p \in each[k] : \E i \in Nat : p = <<k, i>>
  <2>1. each[k] = here(k)  OBVIOUS
  <2>2. ParsedAt(lists[k]) \subseteq 1..Len(lists[k])  BY <1>1 DEF ParsedAt
  <2>3. here(k) \in SUBSET ({k} \X (1..Len(lists[k])))  BY <2>2
  <2>4. IsFiniteSet({k}) /\ IsFiniteSet(1..Len(lists[k]))
    <3>1. 1 \in Int /\ Len(lists[k]) \in Int  BY <1>1
    <3> QED  BY ONLY <3>1, FS_Singleton, FS_Interval
  <2>5. IsFiniteSet({k} \X (1..Len(lists[k])))  BY <2>4, FS_Product
  <2>6. \A p \in here(k) : \E i \in Nat : p = <<k, i>>  BY <1>1, <2>2
  <2> HIDE DEF here, each, read
  <2> QED  BY <2>1, <2>3, <2>5, <2>6, FS_Subset
<1>4. IsFiniteSet(T)
  <2> HIDE DEF here, read
  <2>1. each \in Surjection(read, T)  BY DEF Surjection
  <2> HIDE DEF each, T
  <2> QED  BY <1>2, <2>1, FS_Surjection
<1>5. Occurrences(f, n) = UNION T
  <2>1. Occurrences(f, n) = UNION {here(k) : k \in read}  BY DEF Occurrences
  <2> HIDE DEF here, read
  <2>2. T = {here(k) : k \in read}  OBVIOUS
  <2> QED  BY <2>1, <2>2
<1>6. IsFiniteSet(UNION T)
  <2>1. \A t \in T : IsFiniteSet(t)
    <3> HIDE DEF here, read, each
    <3> QED  BY <1>3
  <2> HIDE DEF T
  <2> QED  BY <1>4, <2>1, FS_UNION
<1>7. ASSUME NEW p \in UNION T PROVE \E k, i \in Nat : p = <<k, i>>
  <2>1. PICK k \in read : p \in each[k]
    <3> HIDE DEF here, read, each
    <3> QED  BY <1>7
  <2>2. k \in Nat  BY <1>1
  <2> QED  BY <1>3, <2>1, <2>2
<1> HIDE DEF T
<1> QED  BY <1>5, <1>6, <1>7, FS_CardinalityType

\* The pieces of a field: the Connection values, then as many copies of the
\* field as entries of `options` name it.
Own(f, n)   == IF n = Connection THEN Len(f[Connection]) ELSE 0
Times(f, n) == Cardinality(Occurrences(f, n))

LEMMA PiecesAre ==
  ASSUME NEW f \in Fields, NEW n \in Names
  PROVE  /\ Len(Pieces(f, n)) = Own(f, n) + Times(f, n)
         /\ Own(f, n) \in Nat /\ Times(f, n) \in Nat
         /\ \A m \in 1..Own(f, n) :
              Pieces(f, n)[m] = IF IsEmptyValue(f[n][m]) THEN <<>> ELSE <<f[n][m]>>
         /\ \A m \in 1..Times(f, n) : Pieces(f, n)[Own(f, n) + m] = f[n]
<1> PICK own, times : own = Own(f, n) /\ times = Times(f, n)
  OBVIOUS
<1>1. /\ own = IF n = Connection THEN Len(f[Connection]) ELSE 0
      /\ times = Cardinality(Occurrences(f, n))
  BY DEF Own, Times
<1> DEFINE Any == {f[n]} \cup {IF IsEmptyValue(f[n][k]) THEN <<>> ELSE <<f[n][k]>> : k \in DOMAIN f[n]}
           first == IF n = Connection THEN Kept(f[Connection]) ELSE <<>>
           copies == [m \in 1..times |-> f[n]]
<1>2. times \in Nat  BY <1>1, OccurrencesFinite
<1>3. /\ f[n] \in Seq(Values \cup Seq(Names \cup {Blank}))
      /\ DOMAIN f[n] = 1..Len(f[n]) /\ Len(f[n]) \in Nat
  BY DEF Fields
<1>4. copies \in Seq(Any) /\ Len(copies) = times
  <2>1. copies \in [1..times -> Any]  OBVIOUS
  <2> HIDE DEF copies, Any
  <2> QED  BY <1>2, <2>1
<1>5. first \in Seq(Any) /\ Len(first) = own /\ own \in Nat
  <2>1. first \in [1..own -> Any] /\ own \in Nat
    <3>1. CASE n = Connection
      <4>1. first = [k \in DOMAIN f[n] |-> IF IsEmptyValue(f[n][k]) THEN <<>> ELSE <<f[n][k]>>]
        BY <3>1 DEF Kept
      <4>2. own = Len(f[n])  BY <1>1, <3>1
      <4> HIDE DEF first
      <4> QED  BY <1>3, <4>1, <4>2
    <3>2. CASE n # Connection
      <4>1. first = <<>> /\ own = 0  BY <1>1, <3>2
      <4> HIDE DEF first
      <4> QED  BY <4>1
    <3> QED  BY <3>1, <3>2
  <2> HIDE DEF first, Any
  <2> QED  BY <2>1
<1>6. ASSUME NEW m \in 1..own
      PROVE  first[m] = IF IsEmptyValue(f[n][m]) THEN <<>> ELSE <<f[n][m]>>
  <2>1. n = Connection /\ m \in DOMAIN f[Connection]
    BY <1>1, <1>3
  <2> QED  BY <2>1 DEF Kept
<1>7. \A m \in 1..times : copies[m] = f[n]  OBVIOUS
<1>8. Pieces(f, n) = first \o copies  BY <1>1 DEF Pieces
<1> HIDE DEF first, copies, Any
<1>9. /\ Len(first \o copies) = own + times
      /\ \A m \in 1..own : (first \o copies)[m] = first[m]
      /\ \A m \in 1..times : (first \o copies)[own + m] = copies[m]
  BY <1>2, <1>4, <1>5
<1> QED  BY <1>2, <1>5, <1>6, <1>7, <1>8, <1>9
=============================================================================
