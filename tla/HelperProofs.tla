---------------------------- MODULE HelperProofs ----------------------------
(***************************************************************************)
(* Theorems about orders: that of the navigation tree, and that of the     *)
(* names in a directory, which an ascending list of them has as well.      *)
(***************************************************************************)
EXTENDS TreeOrder, NameOrder, Sequences, TLAPS

(* The names of a directory *)

Elements(s) == {s[i] : i \in 1..Len(s)}

Ascending(s) ==
    /\ Len(s) \in Nat
    /\ \A i \in 1..Len(s) : s[i] \in Nat
    /\ \A i, j \in 1..Len(s) : i < j => s[i] < s[j]

LEMMA FirstIs ==
    ASSUME NEW S \in SUBSET Nat, NEW n \in S, \A m \in S : n <= m
    PROVE  First(S) = n
<1> DEFINE k == First(S)
<1>1. k \in S /\ \A m \in S : k <= m
  BY DEF First
<1> HIDE DEF k
<1>2. k = n
  BY <1>1
<1> QED
  BY <1>2 DEF k

LEMMA LastIs ==
    ASSUME NEW S \in SUBSET Nat, NEW n \in S, \A m \in S : m <= n
    PROVE  Last(S) = n
<1> DEFINE k == Last(S)
<1>1. k \in S /\ \A m \in S : m <= k
  BY DEF Last
<1> HIDE DEF k
<1>2. k = n
  BY <1>1
<1> QED
  BY <1>2 DEF k

\* The places of a list are in the order of its elements.
LEMMA PlacesInOrder ==
    ASSUME NEW s, Ascending(s), NEW i \in 1..Len(s), NEW j \in 1..Len(s)
    PROVE  s[i] < s[j] <=> i < j
<1>1. s[i] \in Nat /\ s[j] \in Nat /\ i \in Nat /\ j \in Nat
  BY DEF Ascending
<1>2. (i < j => s[i] < s[j]) /\ (j < i => s[j] < s[i])
  BY DEF Ascending
<1>3. i = j => s[i] = s[j]
  OBVIOUS
<1> QED
  BY <1>1, <1>2, <1>3

LEMMA ElementFacts ==
    ASSUME NEW s, Ascending(s)
    PROVE  /\ Elements(s) \in SUBSET Nat
           /\ \A j \in 1..Len(s) : s[j] \in Elements(s) /\ s[j] \in Nat
           /\ \A m \in Elements(s) : \E j \in 1..Len(s) : m = s[j]
BY DEF Elements, Ascending

LEMMA FirstInAscending ==
    ASSUME NEW s, Ascending(s), 1 \in 1..Len(s)
    PROVE  First(Elements(s)) = s[1]
<1>1. \A m \in Elements(s) : s[1] <= m
  <2> SUFFICES ASSUME NEW m \in Elements(s) PROVE s[1] <= m
    OBVIOUS
  <2>1. PICK j \in 1..Len(s) : m = s[j]
    BY ElementFacts
  <2>2. ~(j < 1) /\ Len(s) \in Nat
    BY DEF Ascending
  <2>3. ~(s[j] < s[1])
    BY <2>2, PlacesInOrder
  <2> QED
    BY <2>1, <2>3, ElementFacts
<1> QED
  BY <1>1, ElementFacts, FirstIs

LEMMA LastInAscending ==
    ASSUME NEW s, Ascending(s), Len(s) \in 1..Len(s)
    PROVE  Last(Elements(s)) = s[Len(s)]
<1>1. \A m \in Elements(s) : m <= s[Len(s)]
  <2> SUFFICES ASSUME NEW m \in Elements(s) PROVE m <= s[Len(s)]
    OBVIOUS
  <2>1. PICK j \in 1..Len(s) : m = s[j]
    BY ElementFacts
  <2>2. ~(Len(s) < j) /\ Len(s) \in Nat
    BY DEF Ascending
  <2>3. ~(s[Len(s)] < s[j])
    BY <2>2, PlacesInOrder
  <2> QED
    BY <2>1, <2>3, ElementFacts
<1> QED
  BY <1>1, ElementFacts, LastIs

\* The next name is at the next place, and after the last one is the first.
THEOREM SuccessorIsNextPlace ==
    ASSUME NEW s, Ascending(s), NEW i \in 1..Len(s)
    PROVE  Successor(Elements(s), s[i]) = IF i = Len(s) THEN s[1] ELSE s[i + 1]
<1> DEFINE S == Elements(s)
           A == After(S, s[i])
<1>1. /\ Len(s) \in Nat /\ i \in Nat /\ 1 \in 1..Len(s)
      /\ S \in SUBSET Nat
      /\ \A j \in 1..Len(s) : s[j] \in S /\ s[j] \in Nat
      /\ \A m \in S : \E j \in 1..Len(s) : m = s[j]
  BY ElementFacts DEF Ascending
<1>2. \A j, k \in 1..Len(s) : s[j] < s[k] <=> j < k
  BY PlacesInOrder
<1>3. First(S) = s[1]
  BY <1>1, FirstInAscending
<1> HIDE DEF S
<1>4. A = {m \in S : s[i] < m}
  BY <1>1 DEF After
<1> HIDE DEF A
<1>5. CASE i = Len(s)
  <2>1. A = {}
    <3> SUFFICES ASSUME NEW m \in A PROVE FALSE
      OBVIOUS
    <3>1. PICK j \in 1..Len(s) : m = s[j]
      BY <1>1, <1>4
    <3>2. i < j
      BY <1>2, <1>4, <3>1
    <3> QED
      BY <1>1, <1>5, <3>2
  <2> QED
    BY <1>3, <1>5, <2>1 DEF Successor, A, S
<1>6. CASE i # Len(s)
  <2>1. i + 1 \in 1..Len(s) /\ i < i + 1
    BY <1>1, <1>6
  <2>2. s[i + 1] \in A /\ A \in SUBSET Nat
    BY <1>1, <1>2, <1>4, <2>1
  <2>3. \A m \in A : s[i + 1] <= m
    <3> SUFFICES ASSUME NEW m \in A PROVE s[i + 1] <= m
      OBVIOUS
    <3>1. PICK j \in 1..Len(s) : m = s[j]
      BY <1>1, <1>4
    <3>2. i < j
      BY <1>2, <1>4, <3>1
    <3>3. ~(j < i + 1)
      BY <1>1, <3>2
    <3>4. ~(s[j] < s[i + 1])
      BY <1>2, <2>1, <3>3
    <3> QED
      BY <1>1, <2>1, <3>1, <3>4
  <2>4. First(A) = s[i + 1]
    BY <2>2, <2>3, FirstIs
  <2> QED
    BY <1>6, <2>2, <2>4 DEF Successor, A, S
<1> QED
  BY <1>5, <1>6

\* The previous name is at the place before, and before the first one is the
\* last.
THEOREM PredecessorIsPlaceBefore ==
    ASSUME NEW s, Ascending(s), NEW i \in 1..Len(s)
    PROVE  Predecessor(Elements(s), s[i]) = IF i = 1 THEN s[Len(s)] ELSE s[i - 1]
<1> DEFINE S == Elements(s)
           B == Before(S, s[i])
<1>1. /\ Len(s) \in Nat /\ i \in Nat /\ Len(s) \in 1..Len(s)
      /\ S \in SUBSET Nat
      /\ \A j \in 1..Len(s) : s[j] \in S /\ s[j] \in Nat
      /\ \A m \in S : \E j \in 1..Len(s) : m = s[j]
  BY ElementFacts DEF Ascending
<1>2. \A j, k \in 1..Len(s) : s[j] < s[k] <=> j < k
  BY PlacesInOrder
<1>3. Last(S) = s[Len(s)]
  BY <1>1, LastInAscending
<1> HIDE DEF S
<1>4. B = {m \in S : m < s[i]}
  BY <1>1 DEF Before
<1> HIDE DEF B
<1>5. CASE i = 1
  <2>1. B = {}
    <3> SUFFICES ASSUME NEW m \in B PROVE FALSE
      OBVIOUS
    <3>1. PICK j \in 1..Len(s) : m = s[j]
      BY <1>1, <1>4
    <3>2. j < i
      BY <1>2, <1>4, <3>1
    <3> QED
      BY <1>1, <1>5, <3>2
  <2> QED
    BY <1>3, <1>5, <2>1 DEF Predecessor, B, S
<1>6. CASE i # 1
  <2>1. i - 1 \in 1..Len(s) /\ i - 1 < i
    BY <1>1, <1>6
  <2>2. s[i - 1] \in B /\ B \in SUBSET Nat
    BY <1>1, <1>2, <1>4, <2>1
  <2>3. \A m \in B : m <= s[i - 1]
    <3> SUFFICES ASSUME NEW m \in B PROVE m <= s[i - 1]
      OBVIOUS
    <3>1. PICK j \in 1..Len(s) : m = s[j]
      BY <1>1, <1>4
    <3>2. j < i
      BY <1>2, <1>4, <3>1
    <3>3. ~(i - 1 < j)
      BY <1>1, <3>2
    <3>4. ~(s[i - 1] < s[j])
      BY <1>2, <2>1, <3>3
    <3> QED
      BY <1>1, <2>1, <3>1, <3>4
  <2>4. Last(B) = s[i - 1]
    BY <2>2, <2>3, LastIs
  <2> QED
    BY <1>6, <2>2, <2>4 DEF Predecessor, B, S
<1> QED
  BY <1>5, <1>6

-----------------------------------------------------------------------------
(* The navigation tree *)

\* The rows of the tree have one order, whichever way it is sorted: directories
\* first, and names among their kind (FileSystemSortFilterProxyModel.cpp:20-43).
THEOREM TreeOrderIsStrict ==
    ASSUME NEW ascending \in BOOLEAN
    PROVE  \A a, b, c \in Infos :
               /\ ~Precedes(a, a, ascending)
               /\ Precedes(a, b, ascending) /\ Precedes(b, c, ascending)
                      => Precedes(a, c, ascending)
               /\ a # b => Precedes(a, b, ascending) \/ Precedes(b, a, ascending)
               /\ a.isDir /\ ~b.isDir => Precedes(a, b, ascending)
<1>1. \A a, b \in Infos : a # b => a.isDir # b.isDir \/ a.name # b.name
  BY DEF Infos
<1>2. \A a \in Infos : a.isDir \in BOOLEAN /\ a.name \in Nat
  BY DEF Infos
<1> QED
  BY <1>1, <1>2 DEF Precedes, LessThan

=============================================================================
