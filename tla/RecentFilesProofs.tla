-------------------------- MODULE RecentFilesProofs --------------------------
(***************************************************************************)
(* Theorems about RecentFiles: that the menu and the keys of the settings  *)
(* implement History, for any paths and any number of keys.                *)
(***************************************************************************)
EXTENDS RecentFiles, WellFoundedInduction, SequenceTheorems, TLAPS

-----------------------------------------------------------------------------
(* Numbers and sequences *)

\* A set with 0 and the successors of its members has every number: what is
\* below the least number it lacks would have that number as successor.
LEMMA NumbersFromZero ==
    ASSUME NEW S \in SUBSET Nat, 0 \in S, \A n \in S : n + 1 \in S
    PROVE  S = Nat
<1> SUFFICES ASSUME Nat \ S # {} PROVE FALSE
  OBVIOUS
<1> DEFINE R == OpToRel(<, Nat)
<1>1. IsWellFoundedOn(R, Nat)
  BY NatLessThanWellFounded
<1>2. \A x, y \in Nat : x < y => <<x, y>> \in R
  BY DEF OpToRel
<1> HIDE DEF R
<1>3. PICK n \in Nat \ S : \A y \in Nat \ S : ~(<<y, n>> \in R)
  BY <1>1, WFMin
<1>4. n # 0 /\ n - 1 \in Nat /\ n - 1 < n /\ (n - 1) + 1 = n
  BY <1>3
<1>5. n - 1 \in S
  BY <1>2, <1>3, <1>4
<1> QED
  BY <1>3, <1>4, <1>5

\* A sequence is the function of its places.
LEMMA Places ==
    ASSUME NEW P, NEW n \in Nat, NEW f \in [1..n -> P]
    PROVE  f \in Seq(P) /\ Len(f) = n
BY SeqDef

LEMMA InFront ==
    ASSUME NEW P, NEW x \in P, NEW s \in Seq(P)
    PROVE  /\ <<x>> \o s \in Seq(P)
           /\ Len(<<x>> \o s) = Len(s) + 1
           /\ \A i \in 1..(Len(s) + 1) :
                  (<<x>> \o s)[i] = IF i = 1 THEN x ELSE s[i - 1]
<1>1. <<x>> \in Seq(P) /\ Len(<<x>>) = 1 /\ <<x>>[1] = x /\ Len(s) \in Nat
  BY LenProperties
<1>2. /\ <<x>> \o s \in Seq(P)
      /\ Len(<<x>> \o s) = 1 + Len(s)
      /\ \A i \in 1..(1 + Len(s)) :
             (<<x>> \o s)[i] = IF i <= 1 THEN <<x>>[i] ELSE s[i - 1]
  BY <1>1, ConcatProperties
<1> QED
  BY <1>1, <1>2

\* The last element goes, if it is removed by its place.
LEMMA LastRemoved ==
    ASSUME NEW P, NEW s \in Seq(P), s # <<>>
    PROVE  RemoveAt(s, Len(s)) = SubSeq(s, 1, Len(s) - 1)
<1>1. Len(s) \in Nat /\ Len(s) > 0 /\ \A i \in 1..Len(s) : s[i] \in P
  BY LenProperties, EmptySeq
<1>2. SubSeq(s, Len(s) + 1, Len(s)) = <<>>
  BY <1>1, SubSeqEmpty
<1>3. SubSeq(s, 1, Len(s) - 1) \in Seq(P)
  BY <1>1, SubSeqProperties
<1> QED
  BY <1>2, <1>3, ConcatEmptySeq DEF RemoveAt

LEMMA BoundedSequences ==
    ASSUME NEW P, NEW n \in Nat
    PROVE  \A s : s \in BoundedSeq(P, n) <=> s \in Seq(P) /\ Len(s) <= n
<1>1. ASSUME NEW s, s \in BoundedSeq(P, n) PROVE s \in Seq(P) /\ Len(s) <= n
  <2>1. PICK m \in 0..n : s \in [1..m -> P]
    BY <1>1 DEF BoundedSeq, SeqOf
  <2>2. m \in Nat /\ m <= n
    BY <2>1
  <2> QED
    BY <2>1, <2>2, Places
<1>2. ASSUME NEW s, s \in Seq(P), Len(s) <= n PROVE s \in BoundedSeq(P, n)
  <2>1. Len(s) \in Nat /\ s \in [1..Len(s) -> P]
    BY <1>2, LenProperties
  <2>2. Len(s) \in 0..n
    BY <1>2, <2>1
  <2> QED
    BY <2>1, <2>2 DEF BoundedSeq, SeqOf
<1> QED
  BY <1>1, <1>2

-----------------------------------------------------------------------------
(* The menu *)

LEMMA MenuFacts ==
    ASSUME TypeOK
    PROVE  /\ KeyCount \in Nat /\ KeyCount > 0 /\ NoFile \notin Paths
           /\ MaxActions - FixedActions = KeyCount
           /\ menu \in Seq(Paths) /\ Len(menu) \in Nat /\ Len(menu) <= KeyCount
           /\ \A i \in 1..Len(menu) : menu[i] \in Paths
<1>1. KeyCount \in Nat /\ KeyCount > 0 /\ NoFile \notin Paths
      /\ MaxActions - FixedActions = KeyCount
  BY RecentAssumption
<1>2. menu \in Seq(Paths) /\ Len(menu) <= KeyCount
  BY <1>1, BoundedSequences DEF TypeOK
<1> QED
  BY <1>1, <1>2, LenProperties, ElementOfSeq

\* Putting a file in front and removing the action that is one too many leaves
\* the newest files.
LEMMA RegisteredIsNewest ==
    ASSUME TypeOK, NEW path \in Paths
    PROVE  /\ Registered(path) = Memory!Newest(<<path>> \o menu)
           /\ Registered(path) \in BoundedSeq(Paths, KeyCount)
<1> DEFINE files == <<path>> \o menu
<1>1. /\ files \in Seq(Paths) /\ Len(files) = Len(menu) + 1
      /\ Len(menu) \in Nat /\ Len(menu) <= KeyCount /\ KeyCount \in Nat
      /\ MaxActions - FixedActions = KeyCount
      /\ FixedActions \in Nat /\ MaxActions \in Nat
  BY InFront, MenuFacts, RecentAssumption
<1>2. /\ Registered(path) = IF FixedActions + Len(files) > MaxActions
                            THEN RemoveAt(files, MaxActions - FixedActions + 1)
                            ELSE files
      /\ Memory!Newest(files) =
             SubSeq(files, 1, IF Len(files) < KeyCount THEN Len(files) ELSE KeyCount)
  BY DEF Registered, Memory!Newest
<1> HIDE DEF files
<1>3. CASE Len(files) > KeyCount
  <2>1. Len(files) = KeyCount + 1 /\ files # <<>> /\ Len(files) - 1 = KeyCount
    BY <1>1, <1>3, EmptySeq
  <2>2. Registered(path) = RemoveAt(files, Len(files))
    BY <1>1, <1>2, <2>1
  <2>3. Registered(path) = SubSeq(files, 1, KeyCount)
    BY <1>1, <2>1, <2>2, LastRemoved
  <2>4. Memory!Newest(files) = SubSeq(files, 1, KeyCount)
    BY <1>1, <1>2, <2>1
  <2>5. \A i \in 1..KeyCount : files[i] \in Paths
    BY <1>1, <2>1, ElementOfSeq
  <2>6. SubSeq(files, 1, KeyCount) \in Seq(Paths)
        /\ Len(SubSeq(files, 1, KeyCount)) <= KeyCount
    BY <1>1, <2>5, SubSeqProperties
  <2> QED
    BY <1>1, <2>3, <2>4, <2>6, BoundedSequences DEF files
<1>4. CASE ~(Len(files) > KeyCount)
  <2>1. Registered(path) = files
    BY <1>1, <1>2, <1>4
  <2>2. Memory!Newest(files) = SubSeq(files, 1, Len(files))
    BY <1>1, <1>2, <1>4
  <2>3. SubSeq(files, 1, Len(files)) = files
    BY <1>1, SubSeqFull
  <2>4. files \in BoundedSeq(Paths, KeyCount)
    BY <1>1, <1>4, BoundedSequences
  <2> QED
    BY <2>1, <2>2, <2>3, <2>4 DEF files
<1> QED
  BY <1>3, <1>4

\* The file that is asked for by the number of its key.
LEMMA FileOfKey ==
    ASSUME TypeOK, NEW k \in Keys
    PROVE  GetRecentFile(k) = IF k <= Len(menu) THEN menu[k] ELSE NoFile
<1>1. /\ k \in Nat /\ k >= 1 /\ FixedActions = 2 /\ Len(menu) \in Nat
      /\ (k + 1) - FixedActions + 1 = k
  BY MenuFacts, RecentAssumption DEF Keys
<1>2. (FixedActions < FixedActions + Len(menu) /\ k + 1 < FixedActions + Len(menu))
      <=> k <= Len(menu)
  BY <1>1
<1> QED
  BY <1>1, <1>2 DEF GetRecentFile

-----------------------------------------------------------------------------
(* The keys *)

\* The keys are filled from the first, by so many files.
Filled(n) == \A k \in Keys : saved[k] # NoFile <=> k <= n

\* No key before a file is empty.
SavedInOrder == \E n \in 0..KeyCount : Filled(n)

Inv == TypeOK /\ SavedInOrder

LEMMA KeptIs ==
    ASSUME TypeOK, NEW n \in 0..KeyCount, Filled(n)
    PROVE  /\ Kept = [k \in 1..n |-> saved[k]]
           /\ Kept \in Seq(Paths) /\ Len(Kept) = n
           /\ \A k \in 1..n : Kept[k] = saved[k]
<1>1. KeyCount \in Nat /\ n \in Nat
  BY RecentAssumption
<1>2. {i \in Keys : saved[i] # NoFile} = 1..n
  BY <1>1 DEF Filled, Keys
<1>3. Kept = [k \in 1..n |-> saved[k]]
  BY <1>2 DEF Kept
<1>4. \A k \in 1..n : saved[k] \in Paths
  BY <1>1 DEF TypeOK, Filled, Keys
<1>5. [k \in 1..n |-> saved[k]] \in [1..n -> Paths]
  BY <1>4
<1> QED
  BY <1>1, <1>3, <1>5, Places

\* The files in the keys that are left when n keys, the last ones, have been
\* read.
ReadFrom(n, last) == [i \in 1..(last + n - KeyCount) |-> saved[KeyCount - n + i]]

\* Reading one more key puts its file in front, and an empty one, which is behind
\* all the files, changes nothing.
LEMMA OneMoreKey ==
    ASSUME TypeOK, NEW last \in 0..KeyCount, Filled(last), NEW n \in 1..KeyCount
    PROVE  ReadFrom(n, last) = PutInFront(saved[KeyCount + 1 - n], ReadFrom(n - 1, last))
<1> DEFINE k == KeyCount + 1 - n
<1>1. /\ KeyCount \in Nat /\ last \in Nat /\ n \in Nat
      /\ k \in Keys /\ k \in Nat /\ n >= 1
      /\ NoFile \notin Paths
      /\ saved \in [Keys -> Paths \cup {NoFile}]
  BY MenuFacts DEF Keys, TypeOK
<1>2. CASE k <= last
  <2> DEFINE s == ReadFrom(n - 1, last)
             count == last + (n - 1) - KeyCount
  <2>1. count \in Nat /\ last + n - KeyCount = count + 1
    BY <1>1, <1>2
  <2>2. s = [i \in 1..count |-> saved[KeyCount - (n - 1) + i]]
    BY DEF ReadFrom
  <2>3. \A i \in 1..count : /\ KeyCount - (n - 1) + i \in Keys
                            /\ KeyCount - (n - 1) + i <= last
    BY <1>1, <2>1 DEF Keys
  <2>4. \A i \in 1..count : saved[KeyCount - (n - 1) + i] \in Paths
    BY <1>1, <2>3 DEF Filled
  <2>5. s \in [1..count -> Paths]
    BY <2>2, <2>4
  <2>6. saved[k] \in Paths /\ saved[k] # NoFile
    BY <1>1, <1>2 DEF Filled
  <2> HIDE DEF s
  <2>7. s \in Seq(Paths) /\ Len(s) = count
    BY <2>1, <2>5, Places
  <2>8. /\ <<saved[k]>> \o s \in Seq(Paths)
        /\ Len(<<saved[k]>> \o s) = count + 1
        /\ \A i \in 1..(count + 1) :
               (<<saved[k]>> \o s)[i] = IF i = 1 THEN saved[k] ELSE s[i - 1]
    BY <2>6, <2>7, InFront
  <2>9. \A i \in 1..(count + 1) :
            saved[KeyCount - n + i] = IF i = 1 THEN saved[k] ELSE s[i - 1]
    <3> SUFFICES ASSUME NEW i \in 1..(count + 1)
                 PROVE  saved[KeyCount - n + i] = IF i = 1 THEN saved[k] ELSE s[i - 1]
      OBVIOUS
    <3>1. CASE i = 1
      <4>1. KeyCount - n + i = k
        BY <1>1, <3>1
      <4> QED
        BY <3>1, <4>1
    <3>2. CASE i # 1
      <4>1. i - 1 \in 1..count /\ KeyCount - (n - 1) + (i - 1) = KeyCount - n + i
        BY <1>1, <2>1, <3>2
      <4>2. s[i - 1] = saved[KeyCount - (n - 1) + (i - 1)]
        BY <2>2, <4>1
      <4> QED
        BY <3>2, <4>1, <4>2
    <3> QED
      BY <3>1, <3>2
  <2>10. <<saved[k]>> \o s = [i \in 1..(count + 1) |-> (<<saved[k]>> \o s)[i]]
    BY <2>8, LenProperties
  <2>11. <<saved[k]>> \o s = [i \in 1..(count + 1) |-> saved[KeyCount - n + i]]
    BY <2>8, <2>9, <2>10
  <2>12. ReadFrom(n, last) = [i \in 1..(count + 1) |-> saved[KeyCount - n + i]]
    BY <2>1 DEF ReadFrom
  <2> QED
    BY <2>6, <2>11, <2>12 DEF PutInFront, s
<1>3. CASE ~(k <= last)
  <2>1. saved[k] = NoFile
    BY <1>1, <1>3 DEF Filled
  <2>2. 1..(last + n - KeyCount) = {} /\ 1..(last + (n - 1) - KeyCount) = {}
    BY <1>1, <1>3
  <2>3. ReadFrom(n, last) = ReadFrom(n - 1, last)
    BY <2>2 DEF ReadFrom
  <2> QED
    BY <2>1, <2>3 DEF PutInFront
<1> QED
  BY <1>2, <1>3

\* Reading the keys from the last to the first gives the files in the order of
\* the keys: the loop of restoreRecentFiles (MainWindow.cpp:239) undoes the one of
\* onAboutToQuit (MainWindow.cpp:272).
THEOREM RestoredIsKept ==
    ASSUME TypeOK, SavedInOrder
    PROVE  Restored = Kept
<1>1. PICK last \in 0..KeyCount : Filled(last)
  BY DEF SavedInOrder
<1>2. KeyCount \in Nat /\ last \in Nat
  BY <1>1, MenuFacts
<1> DEFINE Step(f, n) ==
               IF n = 0 THEN <<>> ELSE PutInFront(saved[KeyCount + 1 - n], f[n - 1])
           Loop(f) == f = [n \in 0..KeyCount |-> Step(f, n)]
           g == [n \in 0..KeyCount |-> ReadFrom(n, last)]
           files == CHOOSE f : Loop(f)
<1>3. Loop(g)
  <2>1. ReadFrom(0, last) = <<>>
    <3>1. 1..(last + 0 - KeyCount) = {}
      BY <1>1, <1>2
    <3> QED
      BY <3>1 DEF ReadFrom
  <2>2. \A n \in 0..KeyCount : ReadFrom(n, last) = Step(g, n)
    <3> SUFFICES ASSUME NEW n \in 0..KeyCount PROVE ReadFrom(n, last) = Step(g, n)
      OBVIOUS
    <3>1. CASE n = 0
      BY <2>1, <3>1
    <3>2. CASE n # 0
      <4>1. n \in 1..KeyCount /\ n - 1 \in 0..KeyCount
        BY <1>2, <3>2
      <4>2. g[n - 1] = ReadFrom(n - 1, last)
        BY <4>1
      <4> QED
        BY <1>1, <3>2, <4>1, <4>2, OneMoreKey
    <3> QED
      BY <3>1, <3>2
  <2> QED
    BY <2>2
<1>4. Loop(files)
  BY <1>3
<1>5. Restored = files[KeyCount]
  BY DEF Restored
<1> HIDE DEF files
<1>6. files[0] = g[0] /\ \A n \in 1..KeyCount : files[n - 1] = g[n - 1] => files[n] = g[n]
  <2>1. files[0] = Step(files, 0) /\ g[0] = Step(g, 0)
    <3>1. 0 \in 0..KeyCount
      BY <1>2
    <3> HIDE DEF Step, g
    <3> QED
      BY <1>3, <1>4, <3>1
  <2>2. ASSUME NEW n \in 1..KeyCount PROVE files[n] = Step(files, n) /\ g[n] = Step(g, n)
    BY <1>2, <1>3, <1>4
  <2>3. ASSUME NEW n \in 1..KeyCount, files[n - 1] = g[n - 1] PROVE files[n] = g[n]
    <3>1. Step(files, n) = Step(g, n)
      BY <2>3
    <3> HIDE DEF Step, g
    <3> QED
      BY <2>2, <3>1
  <2>4. Step(files, 0) = Step(g, 0)
    OBVIOUS
  <2> HIDE DEF Step, g
  <2> QED
    BY <2>1, <2>3, <2>4
<1> DEFINE S == {n \in Nat : n \in 0..KeyCount => files[n] = g[n]}
<1> HIDE DEF g
<1>7. S = Nat
  <2>1. 0 \in S
    BY <1>6
  <2>2. \A n \in S : n + 1 \in S
    <3> SUFFICES ASSUME NEW n \in S, n + 1 \in 0..KeyCount PROVE files[n + 1] = g[n + 1]
      OBVIOUS
    <3>1. n \in Nat /\ n \in 0..KeyCount /\ n + 1 \in 1..KeyCount /\ (n + 1) - 1 = n
      BY <1>2
    <3> QED
      BY <1>6, <3>1
  <2>3. S \in SUBSET Nat
    OBVIOUS
  <2> HIDE DEF S
  <2> QED
    BY <2>1, <2>2, <2>3, NumbersFromZero
<1>8. files[KeyCount] = ReadFrom(KeyCount, last)
  <2>1. KeyCount \in S /\ KeyCount \in 0..KeyCount
    BY <1>2, <1>7
  <2>2. files[KeyCount] = g[KeyCount]
    BY <2>1
  <2> QED
    BY <2>1, <2>2 DEF g
<1>9. ReadFrom(KeyCount, last) = [i \in 1..last |-> saved[i]]
  <2>1. last + KeyCount - KeyCount = last /\ \A i \in 1..last : KeyCount - KeyCount + i = i
    BY <1>2
  <2> QED
    BY <2>1 DEF ReadFrom
<1> QED
  BY <1>1, <1>5, <1>8, <1>9, KeptIs

-----------------------------------------------------------------------------
(* Invariants *)

LEMMA InitInv == Init => Inv
<1> SUFFICES ASSUME Init PROVE Inv
  OBVIOUS
<1>1. KeyCount \in Nat /\ KeyCount > 0
  BY RecentAssumption
<1>2. <<>> \in BoundedSeq(Paths, KeyCount)
  <2>1. <<>> \in Seq(Paths) /\ Len(<<>>) <= KeyCount
    BY <1>1, EmptySeq
  <2> QED
    BY <1>1, <2>1, BoundedSequences
<1>3. TypeOK
  BY <1>2 DEF Init, TypeOK
<1>4. Filled(0)
  BY <1>1 DEF Init, Filled, Keys
<1> QED
  BY <1>1, <1>3, <1>4 DEF Inv, SavedInOrder

\* An orderly end fills as many keys as there are files in the menu, or none.
LEMMA AboutToQuitFills ==
    ASSUME TypeOK, AboutToQuit
    PROVE  /\ saved' \in [Keys -> Paths \cup {NoFile}]
           /\ SavedInOrder'
           /\ Kept' = IF remember THEN menu ELSE <<>>
<1> DEFINE n == IF remember THEN Len(menu) ELSE 0
<1>1. /\ KeyCount \in Nat /\ NoFile \notin Paths /\ n \in 0..KeyCount /\ n \in Nat
      /\ menu \in Seq(Paths) /\ Len(menu) \in Nat
      /\ \A i \in 1..Len(menu) : menu[i] \in Paths
  BY MenuFacts
<1>2. \A k \in Keys : saved'[k] = IF k <= n THEN menu[k] ELSE NoFile
  <2> SUFFICES ASSUME NEW k \in Keys PROVE saved'[k] = IF k <= n THEN menu[k] ELSE NoFile
    OBVIOUS
  <2>1. saved'[k] = IF remember THEN GetRecentFile(k) ELSE NoFile
    BY DEF AboutToQuit
  <2>2. k >= 1 /\ k \in Nat
    BY DEF Keys
  <2> QED
    BY <1>1, <2>1, <2>2, FileOfKey
<1>3. saved' = [k \in Keys |-> saved'[k]]
  BY DEF AboutToQuit
<1>4. \A k \in Keys : k \in Nat /\ k >= 1 /\ (k <= n => k \in 1..Len(menu))
  BY <1>1 DEF Keys
<1>5. \A k \in Keys : /\ saved'[k] \in Paths \cup {NoFile}
                      /\ saved'[k] # NoFile <=> k <= n
  BY <1>1, <1>2, <1>4
<1>6. {i \in Keys : saved'[i] # NoFile} = 1..n
  BY <1>1, <1>5 DEF Keys
<1>7. Kept' = [k \in 1..n |-> menu[k]]
  <2>1. \A k \in 1..n : k \in Keys /\ saved'[k] = menu[k]
    BY <1>1, <1>2 DEF Keys
  <2>2. Kept' = [k \in {i \in Keys : saved'[i] # NoFile} |-> saved'[k]]
    BY DEF Kept
  <2> QED
    BY <1>6, <2>1, <2>2
<1>8. Kept' = IF remember THEN menu ELSE <<>>
  <2>1. CASE remember
    BY <1>1, <1>7, <2>1, LenProperties
  <2>2. CASE ~remember
    <3>1. 1..n = {}
      BY <2>2
    <3> QED
      BY <1>7, <2>2, <3>1
  <2> QED
    BY <2>1, <2>2
<1>9. \E m \in 0..KeyCount : \A k \in Keys : saved'[k] # NoFile <=> k <= m
  BY <1>1, <1>5
<1> QED
  BY <1>3, <1>5, <1>8, <1>9 DEF SavedInOrder, Filled

LEMMA InvStep == Inv /\ [Next]_vars => Inv'
<1> SUFFICES ASSUME Inv, [Next]_vars PROVE Inv'
  OBVIOUS
<1>1. TypeOK /\ SavedInOrder /\ KeyCount \in Nat
  BY MenuFacts DEF Inv
<1>2. <<>> \in BoundedSeq(Paths, KeyCount)
  <2>1. <<>> \in Seq(Paths) /\ Len(<<>>) <= KeyCount
    BY <1>1, EmptySeq
  <2> QED
    BY <1>1, <2>1, BoundedSequences
<1>3. saved' = saved => SavedInOrder'
  BY <1>1 DEF SavedInOrder, Filled
<1>4. CASE \E path \in Paths : RegisterProcessedImage(path)
  BY <1>1, <1>3, <1>4, RegisteredIsNewest DEF RegisterProcessedImage, TypeOK, Inv
<1>5. CASE ClearHistory
  BY <1>1, <1>2, <1>3, <1>5 DEF ClearHistory, TypeOK, Inv
<1>6. CASE RememberToggled
  BY <1>1, <1>3, <1>6 DEF RememberToggled, TypeOK, Inv
<1>7. CASE AboutToQuit
  <2>1. saved' \in [Keys -> Paths \cup {NoFile}] /\ SavedInOrder'
    BY <1>1, <1>7, AboutToQuitFills
  <2> QED
    BY <1>1, <1>2, <1>7, <2>1 DEF AboutToQuit, TypeOK, Inv
<1>8. CASE Crash
  BY <1>1, <1>2, <1>3, <1>8 DEF Crash, TypeOK, Inv
<1>9. CASE Start
  <2>1. Restored \in BoundedSeq(Paths, KeyCount)
    <3>1. PICK n \in 0..KeyCount : Filled(n)
      BY <1>1 DEF SavedInOrder
    <3>2. Kept \in Seq(Paths) /\ Len(Kept) <= KeyCount
      BY <1>1, <3>1, KeptIs
    <3> QED
      BY <1>1, <3>2, RestoredIsKept, BoundedSequences
  <2> QED
    BY <1>1, <1>2, <1>3, <1>9, <2>1 DEF Start, TypeOK, Inv
<1>10. CASE UNCHANGED vars
  BY <1>1, <1>3, <1>10 DEF vars, TypeOK, Inv
<1> QED
  BY <1>4, <1>5, <1>6, <1>7, <1>8, <1>9, <1>10 DEF Next

\* In every state of every run the files are in the first keys without a gap
\* between them, which is what a start relies on when it skips empty keys.
THEOREM RecentInvariant == Spec => []Inv
BY InitInv, InvStep, PTL DEF Spec

\* The menu never has more files than there are keys (MainWindow.cpp:213).
THEOREM TypeCorrect == Spec => []TypeOK
<1>1. Inv => TypeOK
  BY DEF Inv
<1> QED
  BY <1>1, RecentInvariant, PTL

-----------------------------------------------------------------------------
(* Refinement *)

LEMMA InitRemembers == Init => Memory!Init
<1> SUFFICES ASSUME Init PROVE Memory!Init
  OBVIOUS
<1>1. {i \in Keys : saved[i] # NoFile} = {}
  BY DEF Init
<1>2. Kept = <<>>
  BY <1>1 DEF Kept
<1> QED
  BY <1>2 DEF Init, Memory!Init, MenuOrNext

LEMMA SameKept == saved' = saved => Kept' = Kept
BY DEF Kept

\* Each step of the program does to the history what its name says.
LEMMA StepsRemember == Inv => CommandsRemember
<1> SUFFICES ASSUME Inv PROVE CommandsRemember
  OBVIOUS
<1>1. TypeOK /\ SavedInOrder
  BY DEF Inv
<1>2. ASSUME NEW path \in Paths, RegisterProcessedImage(path) PROVE Memory!Remember(path)
  BY <1>1, <1>2, SameKept, RegisteredIsNewest
     DEF RegisterProcessedImage, Memory!Remember, MenuOrNext
<1>3. ASSUME ClearHistory PROVE Memory!Clear
  BY <1>3, SameKept DEF ClearHistory, Memory!Clear, MenuOrNext
<1>4. ASSUME AboutToQuit PROVE IF remember THEN Memory!Keep ELSE Memory!Forget
  <2>1. Kept' = IF remember THEN menu ELSE <<>>
    BY <1>1, <1>4, AboutToQuitFills
  <2> QED
    BY <1>4, <2>1 DEF AboutToQuit, Memory!Keep, Memory!Forget, MenuOrNext
<1>5. ASSUME Crash PROVE Memory!Lose
  BY <1>5, SameKept DEF Crash, Memory!Lose, MenuOrNext
<1>6. ASSUME Start PROVE UNCHANGED <<MenuOrNext, Kept>>
  BY <1>1, <1>6, SameKept, RestoredIsKept DEF Start, MenuOrNext
<1>7. ASSUME RememberToggled PROVE UNCHANGED <<MenuOrNext, Kept>>
  BY <1>7, SameKept DEF RememberToggled, MenuOrNext
<1> QED
  BY <1>2, <1>3, <1>4, <1>5, <1>6, <1>7 DEF CommandsRemember

LEMMA StepsImplement == Inv /\ [Next]_vars => [Memory!Next]_(<<MenuOrNext, Kept>>)
<1> SUFFICES ASSUME Inv, [Next]_vars PROVE [Memory!Next]_(<<MenuOrNext, Kept>>)
  OBVIOUS
<1>1. CASE UNCHANGED vars
  BY <1>1 DEF vars, MenuOrNext, Kept
<1>2. CASE Next
  <2>1. CommandsRemember
    BY StepsRemember
  <2> QED
    BY <1>2, <2>1 DEF Next, CommandsRemember, Memory!Next
<1> QED
  BY <1>1, <1>2

\* A picture shown, the menu cleared, an orderly end, a crash and a start are the
\* steps of the abstract history, or none: a start gives the menu back that the
\* last orderly end has left, file by file and in its order.
THEOREM RecentFilesImplementHistory == Spec => ImplementsHistory
<1>1. Init => Memory!Init
  BY InitRemembers
<1>2. Inv /\ [Next]_vars => [Memory!Next]_(<<MenuOrNext, Kept>>)
  BY StepsImplement
<1>3. Inv => CommandsRemember
  BY StepsRemember
<1> QED
  BY <1>1, <1>2, <1>3, RecentInvariant, PTL DEF Spec, ImplementsHistory, Memory!Spec

=============================================================================
