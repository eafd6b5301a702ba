------------------------- MODULE ImageCatalogProofs -------------------------
(***************************************************************************)
(* Theorems about ImageCatalog: the catalog's index never reaches past its *)
(* list, opening a listed file shows it, and browsing goes through the     *)
(* files in the order of their names, for any directories of any size.     *)
(***************************************************************************)
EXTENDS ImageCatalog, HelperProofs

\* The list, the directory it was read from and the index agree.
Located(c) ==
    c.items # <<>> => c.dir \in Dirs /\ c.index.max = Len(c.items)

IndInv == TypeOK /\ Located(catalog)

LEMMA ModInRange ==
    ASSUME NEW n \in Nat, NEW max \in Nat \ {0}
    PROVE  n % max \in 0..(max - 1)
OBVIOUS

LEMMA ModSelf ==
    ASSUME NEW n \in Nat \ {0} PROVE n % n = 0
OBVIOUS

LEMMA SetIndexType ==
    ASSUME NEW r \in RotatingIndices, NEW max \in Nat
    PROVE  /\ SetIndex(r, 0, max) \in RotatingIndices
           /\ max # 0 => /\ SetIndex(r, 0, max).max = max
                         /\ SetIndex(r, 0, max).index = 0
BY DEF SetIndex, Rotating, RotatingIndices

LEMMA AdvanceType ==
    ASSUME NEW r \in RotatingIndices, NEW n \in Nat
    PROVE  /\ Advance(r, n) \in RotatingIndices
           /\ Advance(r, n).max = r.max
           /\ Advance(r, n).index = (r.index + n) % r.max
<1>1. r.index + n \in Nat /\ r.max \in Nat \ {0}
  BY DEF RotatingIndices
<1>2. (r.index + n) % r.max \in 0..(r.max - 1)
  BY <1>1, ModInRange
<1> QED
  BY <1>1, <1>2 DEF Advance, RotatingIndices

LEMMA DecrementType ==
    ASSUME NEW r \in RotatingIndices
    PROVE  /\ Decrement(r) \in RotatingIndices
           /\ Decrement(r).max = r.max
           /\ Decrement(r).index = IF r.index = 0 THEN r.max - 1 ELSE r.index - 1
BY DEF Decrement, RotatingIndices

\* A list of names is a sequence, and strictly increasing.
LEMMA ListingFacts ==
    ASSUME NEW s \in Listings
    PROVE  /\ s \in Seq(Names) /\ Len(s) \in Nat
           /\ \A i \in 1..Len(s) : s[i] \in Names
           /\ \A i, j \in 1..Len(s) : i < j => s[i] < s[j]
BY CatalogAssumption

LEMMA InitializeDirType ==
    ASSUME TypeOK, NEW dir \in Dirs
    PROVE  /\ InitializeDir(catalog, dir) \in Catalogs
           /\ InitializeDir(catalog, dir).dir = dir
           /\ InitializeDir(catalog, dir).items = disk[dir]
           /\ disk[dir] # <<>> =>
                /\ InitializeDir(catalog, dir).index.max = Len(disk[dir])
                /\ InitializeDir(catalog, dir).index.index = 0
<1>1. disk[dir] \in Listings /\ catalog.index \in RotatingIndices
  BY DEF TypeOK, Catalogs
<1>2. Len(disk[dir]) \in Nat /\ (disk[dir] # <<>> => Len(disk[dir]) # 0)
  BY <1>1, ListingFacts
<1> QED
  BY <1>1, <1>2, SetIndexType DEF InitializeDir, Catalogs

LEMMA StepsToType ==
    ASSUME NEW items \in Listings, NEW name
    PROVE  /\ StepsTo(name, items) \in Nat
           /\ name \in NamesIn(items) =>
                /\ StepsTo(name, items) < Len(items)
                /\ items[StepsTo(name, items) + 1] = name
<1>1. Len(items) \in Nat
  BY ListingFacts
<1>2. CASE name \in NamesIn(items)
  <2>1. PICK i \in 1..Len(items) : items[i] = name
    BY <1>2 DEF NamesIn
  <2> DEFINE k == CHOOSE j \in 1..Len(items) : items[j] = name
  <2>2. k \in 1..Len(items) /\ items[k] = name
    BY <2>1
  <2>3. StepsTo(name, items) = k - 1
    BY <1>2 DEF StepsTo
  <2> HIDE DEF k
  <2> QED
    BY <1>1, <2>2, <2>3
<1>3. CASE name \notin NamesIn(items)
  BY <1>1, <1>3 DEF StepsTo
<1> QED
  BY <1>2, <1>3

LEMMA InitializeFileType ==
    ASSUME TypeOK, NEW dir \in Dirs, NEW name
    PROVE  /\ InitializeFile(catalog, dir, name) \in Catalogs
           /\ InitializeFile(catalog, dir, name).dir = dir
           /\ InitializeFile(catalog, dir, name).items = disk[dir]
           /\ disk[dir] # <<>> =>
                InitializeFile(catalog, dir, name).index.max = Len(disk[dir])
           /\ name \in NamesIn(disk[dir]) =>
                InitializeFile(catalog, dir, name).index.index
                    = StepsTo(name, disk[dir])
<1> DEFINE opened == InitializeDir(catalog, dir)
           n == StepsTo(name, disk[dir])
<1>1. /\ opened \in Catalogs /\ opened.dir = dir /\ opened.items = disk[dir]
      /\ disk[dir] # <<>> => /\ opened.index.max = Len(disk[dir])
                             /\ opened.index.index = 0
  BY InitializeDirType
<1>2. disk[dir] \in Listings
  BY DEF TypeOK
<1>3. /\ n \in Nat
      /\ name \in NamesIn(disk[dir]) => n < Len(disk[dir])
  BY <1>2, StepsToType
<1>4. InitializeFile(catalog, dir, name)
          = [opened EXCEPT !.index = Advance(opened.index, n)]
  BY <1>1 DEF InitializeFile
<1> HIDE DEF opened, n
<1>5. opened.index \in RotatingIndices
  BY <1>1 DEF Catalogs
<1>6. /\ Advance(opened.index, n) \in RotatingIndices
      /\ Advance(opened.index, n).max = opened.index.max
      /\ Advance(opened.index, n).index = (opened.index.index + n) % opened.index.max
  BY <1>3, <1>5, AdvanceType
<1>7. name \in NamesIn(disk[dir]) => Advance(opened.index, n).index = n
  <2> SUFFICES ASSUME name \in NamesIn(disk[dir])
               PROVE  Advance(opened.index, n).index = n
    OBVIOUS
  <2>1. disk[dir] # <<>>
    BY DEF NamesIn
  <2>2. /\ opened.index.index = 0 /\ opened.index.max = Len(disk[dir])
        /\ n < Len(disk[dir]) /\ Len(disk[dir]) \in Nat
    BY <1>1, <1>2, <1>3, <2>1, ListingFacts
  <2>3. n % Len(disk[dir]) = n
    BY <1>3, <2>2
  <2>4. opened.index.index + n = n
    BY <1>3, <2>2
  <2> QED
    BY <1>6, <2>2, <2>3, <2>4, Zenon
<1>8. [opened EXCEPT !.index = Advance(opened.index, n)] \in Catalogs
  BY <1>1, <1>6 DEF Catalogs
<1> QED
  BY <1>1, <1>4, <1>6, <1>7, <1>8 DEF Catalogs, n

LEMMA CatalogItemType ==
    ASSUME NEW c \in Catalogs, Located(c)
    PROVE  /\ CatalogItem(c) \in Files \cup {NoFile}
           /\ c.items # <<>> => c.index.index + 1 \in 1..Len(c.items)
<1>1. /\ c.items \in Listings /\ c.dir \in Dirs \cup {NoFile}
      /\ c.index \in RotatingIndices
  BY DEF Catalogs
<1>2. c.items # <<>> => c.index.index + 1 \in 1..Len(c.items)
  BY <1>1, ListingFacts DEF RotatingIndices, Located
<1>3. c.items # <<>> => c.items[c.index.index + 1] \in Names
  BY <1>1, <1>2, ListingFacts
<1> QED
  BY <1>1, <1>2, <1>3 DEF CatalogItem, Files, Located

-----------------------------------------------------------------------------
(* The invariant *)

LEMMA ShowKeepsInv ==
    ASSUME IndInv, NEW c \in Catalogs, Located(c), Show(c)
    PROVE  IndInv'
<1>1. CatalogItem(c) \in Files \cup {NoFile}
  BY CatalogItemType
<1>2. catalog' = c /\ shown' = CatalogItem(c) /\ disk' = disk
  BY DEF Show
<1>3. TypeOK'
  BY <1>1, <1>2 DEF IndInv, TypeOK, Catalogs, Files
<1>4. Located(c)'
  BY <1>2 DEF Located
<1> QED
  BY <1>2, <1>3 DEF IndInv, Located

\* Turning the ring of the index leaves the catalog well formed.
LEMMA TurnedIndex ==
    ASSUME IndInv, NEW index \in RotatingIndices, index.max = catalog.index.max
    PROVE  /\ [catalog EXCEPT !.index = index] \in Catalogs
           /\ Located([catalog EXCEPT !.index = index])
BY DEF IndInv, TypeOK, Catalogs, Located

LEMMA InitEstablishesInv ==
    ASSUME Init PROVE IndInv
BY CatalogAssumption
   DEF Init, IndInv, TypeOK, Located, Catalogs, Files, Rotating, RotatingIndices

LEMMA NextKeepsInv ==
    ASSUME IndInv, [Next]_vars PROVE IndInv'
<1>1. TypeOK /\ catalog.index \in RotatingIndices
  BY DEF IndInv, TypeOK, Catalogs
<1>2. ASSUME NEW dir \in Dirs, OpenDir(dir) PROVE IndInv'
  BY <1>1, <1>2, InitializeDirType, ShowKeepsInv DEF OpenDir, Located
<1>3. ASSUME NEW dir \in Dirs, NEW name, OpenFile(dir, name) PROVE IndInv'
  BY <1>1, <1>3, InitializeFileType, ShowKeepsInv DEF OpenFile, Located
<1>4. CASE NextImageTriggered
  <2>1. /\ Increment(catalog.index) \in RotatingIndices
        /\ Increment(catalog.index).max = catalog.index.max
    BY <1>1, AdvanceType DEF Increment
  <2> QED
    BY <1>4, <2>1, TurnedIndex, ShowKeepsInv DEF NextImageTriggered
<1>5. CASE PreviousImageTriggered
  <2>1. /\ Decrement(catalog.index) \in RotatingIndices
        /\ Decrement(catalog.index).max = catalog.index.max
    BY <1>1, DecrementType
  <2> QED
    BY <1>5, <2>1, TurnedIndex, ShowKeepsInv DEF PreviousImageTriggered
<1>6. ASSUME NEW dir \in Dirs, NEW listing \in Listings, FilesChange(dir, listing)
      PROVE  IndInv'
  BY <1>6 DEF FilesChange, IndInv, TypeOK, Catalogs, Files, Located
<1>7. CASE UNCHANGED vars
  BY <1>7 DEF vars, IndInv, TypeOK, Catalogs, Files, Located
<1> QED
  BY <1>2, <1>3, <1>4, <1>5, <1>6, <1>7 DEF Next

\* The types of the catalog's state.
THEOREM TypeCorrect == Spec => []TypeOK
<1>1. Init => IndInv
  BY InitEstablishesInv
<1>2. IndInv /\ [Next]_vars => IndInv'
  BY NextKeepsInv
<1>3. IndInv => TypeOK
  BY DEF IndInv
<1> QED
  BY <1>1, <1>2, <1>3, PTL DEF Spec

\* The index that ImageCatalog::getCatalogItem reads the list at is always one
\* of the list, in directories of any size and through any commands.
THEOREM IndexStaysInRange == Spec => []IndexInRange
<1>1. Init => IndInv
  BY InitEstablishesInv
<1>2. IndInv /\ [Next]_vars => IndInv'
  BY NextKeepsInv
<1>3. IndInv => IndexInRange
  BY DEF IndInv, IndexInRange, Located
<1> QED
  BY <1>1, <1>2, <1>3, PTL DEF Spec

-----------------------------------------------------------------------------
(* Opening a file *)

LEMMA OpenShowsFile ==
    ASSUME IndInv, NEW dir \in Dirs, NEW name \in Names, OpenFile(dir, name)
    PROVE  shown' = [dir |-> dir, name |-> name]
<1> DEFINE c == InitializeFile(catalog, dir, name)
<1>1. name \in NamesIn(disk[dir])
  BY CatalogAssumption DEF OpenFile
<1>2. disk[dir] \in Listings /\ TypeOK
  BY DEF IndInv, TypeOK
<1>3. /\ c.dir = dir /\ c.items = disk[dir]
      /\ c.index.index = StepsTo(name, disk[dir])
  BY <1>1, <1>2, InitializeFileType
<1>4. shown' = CatalogItem(c)
  BY DEF OpenFile, Show
<1> HIDE DEF c
<1>5. disk[dir][c.index.index + 1] = name /\ disk[dir] # <<>>
  BY <1>1, <1>2, <1>3, StepsToType DEF NamesIn
<1> QED
  BY <1>1, <1>3, <1>4, <1>5 DEF CatalogItem

\* Opening a listed file shows that file, whatever was open before.
THEOREM OpeningShowsFile == Spec => OpenedFileIsShown
<1>1. Init => IndInv
  BY InitEstablishesInv
<1>2. IndInv /\ [Next]_vars => IndInv'
  BY NextKeepsInv
<1>3. IndInv /\ [Next]_vars =>
          [\A dir \in Dirs, name \in Names :
               OpenFile(dir, name) => shown' = [dir |-> dir, name |-> name]]_vars
  BY OpenShowsFile
<1> QED
  BY <1>1, <1>2, <1>3, PTL DEF Spec, OpenedFileIsShown

-----------------------------------------------------------------------------
(* Browsing: the ring of places in the list is the order of the names *)

\* The names of a listing are numbers, each in one place.
LEMMA NamesOfListing ==
    ASSUME NEW s \in Listings
    PROVE  /\ NamesIn(s) \in SUBSET Names
           /\ NamesIn(s) = {} <=> s = <<>>
           /\ \A i \in 1..Len(s) : s[i] \in NamesIn(s)
           /\ Ascending(s) /\ NamesIn(s) = Elements(s)
<1>1. /\ Len(s) \in Nat /\ s \in Seq(Names)
      /\ \A i \in 1..Len(s) : s[i] \in Names /\ s[i] \in Nat
      /\ \A i, j \in 1..Len(s) : i < j => s[i] < s[j]
  BY ListingFacts, CatalogAssumption
<1>2. /\ NamesIn(s) \in SUBSET Names
      /\ \A i \in 1..Len(s) : s[i] \in NamesIn(s)
  BY <1>1 DEF NamesIn
<1>3. NamesIn(s) = {} <=> s = <<>>
  <2>1. CASE s = <<>>
    <3>1. Len(s) = 0 /\ 1..0 = {}
      BY <2>1
    <3> QED
      BY <2>1, <3>1 DEF NamesIn
  <2>2. CASE s # <<>>
    <3>1. 1 \in 1..Len(s)
      BY <1>1, <2>2
    <3> QED
      BY <1>2, <2>2, <3>1
  <2> QED
    BY <2>1, <2>2
<1>4. Ascending(s) /\ NamesIn(s) = Elements(s)
  BY <1>1 DEF Ascending, NamesIn, Elements
<1> QED
  BY <1>2, <1>3, <1>4

\* Browsing and the lemmas speak of one order.
LEMMA BrowseOrder ==
    ASSUME NEW S, NEW n
    PROVE  /\ Browse!Successor(S, n) = Successor(S, n)
           /\ Browse!Predecessor(S, n) = Predecessor(S, n)
BY DEF Browse!Successor, Browse!After, Browse!First, Successor, After, First,
       Browse!Predecessor, Browse!Before, Browse!Last, Predecessor, Before, Last

LEMMA SuccessorInListing ==
    ASSUME NEW s \in Listings, NEW i \in 1..Len(s)
    PROVE  Browse!Successor(NamesIn(s), s[i])
               = IF i = Len(s) THEN s[1] ELSE s[i + 1]
BY NamesOfListing, BrowseOrder, SuccessorIsNextPlace

LEMMA PredecessorInListing ==
    ASSUME NEW s \in Listings, NEW i \in 1..Len(s)
    PROVE  Browse!Predecessor(NamesIn(s), s[i])
               = IF i = 1 THEN s[Len(s)] ELSE s[i - 1]
BY NamesOfListing, BrowseOrder, PredecessorIsPlaceBefore

\* The file the index of a catalog points at.
ItemOf(c) == IF c.items = <<>> THEN NoFile ELSE c.items[c.index.index + 1]

BrowseStep ==
    [Browse!Open \/ Browse!Next \/ Browse!Previous]_<<NamesIn(catalog.items),
                                                     ItemOf(catalog)>>

\* Any catalog that is opened shows as an Open.
LEMMA OpenBrowses ==
    ASSUME NEW c \in Catalogs, Located(c), Show(c)
    PROVE  Browse!Open
<1>1. c.items \in Listings
  BY DEF Catalogs
<1>2. /\ NamesIn(c.items) \in SUBSET Names
      /\ NamesIn(c.items) = {} <=> c.items = <<>>
      /\ \A i \in 1..Len(c.items) : c.items[i] \in NamesIn(c.items)
  BY <1>1, NamesOfListing
<1>3. c.items # <<>> => c.index.index + 1 \in 1..Len(c.items)
  BY CatalogItemType
<1>4. catalog' = c
  BY DEF Show
<1> QED
  BY <1>2, <1>3, <1>4 DEF Browse!Open

\* Turning the ring by one place goes to the next name in the order.
LEMMA IncrementBrowses ==
    ASSUME IndInv, NextImageTriggered, catalog.items # <<>>
    PROVE  Browse!Next
<1> DEFINE s == catalog.items
           i == catalog.index.index
           k == Increment(catalog.index).index
<1>1. /\ s \in Listings /\ catalog \in Catalogs /\ catalog.index \in RotatingIndices
      /\ catalog.index.max = Len(s)
  BY DEF IndInv, TypeOK, Catalogs, Located
<1>2. Len(s) \in Nat /\ i \in Nat /\ i < Len(s)
  BY <1>1, ListingFacts DEF RotatingIndices
<1>3. k = (i + 1) % Len(s)
  BY <1>1, AdvanceType DEF Increment
<1>4. k = IF i + 1 = Len(s) THEN 0 ELSE i + 1
  <2>1. CASE i + 1 = Len(s)
    <3>1. Len(s) \in Nat \ {0}
      BY <1>2
    <3>2. Len(s) % Len(s) = 0
      BY <3>1, ModSelf, Zenon
    <3> QED
      BY <1>3, <2>1, <3>2
  <2>2. CASE i + 1 # Len(s)
    <3>1. (i + 1) % Len(s) = i + 1
      BY <1>2, <2>2
    <3> QED
      BY <1>3, <2>2, <3>1
  <2> QED
    BY <2>1, <2>2
<1>5. catalog' = [catalog EXCEPT !.index = Increment(catalog.index)]
  BY DEF NextImageTriggered, Show
<1>6. catalog'.items = s /\ catalog'.index.index = k
  BY <1>1, <1>5 DEF Catalogs
<1>7. Browse!Successor(NamesIn(s), s[i + 1]) = s[k + 1]
  <2>1. i + 1 \in 1..Len(s)
    BY <1>2
  <2>2. Browse!Successor(NamesIn(s), s[i + 1])
            = IF i + 1 = Len(s) THEN s[1] ELSE s[(i + 1) + 1]
    BY <1>1, <2>1, SuccessorInListing
  <2> QED
    BY <1>2, <1>4, <2>2
<1>8. NamesIn(s) # {}
  BY <1>1, NamesOfListing
<1> HIDE DEF k
<1> QED
  BY <1>6, <1>7, <1>8 DEF Browse!Next

LEMMA DecrementBrowses ==
    ASSUME IndInv, PreviousImageTriggered, catalog.items # <<>>
    PROVE  Browse!Previous
<1> DEFINE s == catalog.items
           i == catalog.index.index
           k == Decrement(catalog.index).index
<1>1. /\ s \in Listings /\ catalog \in Catalogs /\ catalog.index \in RotatingIndices
      /\ catalog.index.max = Len(s)
  BY DEF IndInv, TypeOK, Catalogs, Located
<1>2. Len(s) \in Nat /\ i \in Nat /\ i < Len(s)
  BY <1>1, ListingFacts DEF RotatingIndices
<1>3. k = IF i = 0 THEN Len(s) - 1 ELSE i - 1
  BY <1>1, DecrementType
<1>4. catalog' = [catalog EXCEPT !.index = Decrement(catalog.index)]
  BY DEF PreviousImageTriggered, Show
<1>5. catalog'.items = s /\ catalog'.index.index = k
  BY <1>1, <1>4 DEF Catalogs
<1>6. Browse!Predecessor(NamesIn(s), s[i + 1]) = s[k + 1]
  <2>1. i + 1 \in 1..Len(s)
    BY <1>2
  <2>2. Browse!Predecessor(NamesIn(s), s[i + 1])
            = IF i + 1 = 1 THEN s[Len(s)] ELSE s[(i + 1) - 1]
    BY <1>1, <2>1, PredecessorInListing
  <2> QED
    BY <1>2, <1>3, <2>2
<1>7. NamesIn(s) # {}
  BY <1>1, NamesOfListing
<1> HIDE DEF k
<1> QED
  BY <1>5, <1>6, <1>7 DEF Browse!Previous

LEMMA NextBrowses ==
    ASSUME IndInv, [Next]_vars PROVE BrowseStep
<1>1. TypeOK
  BY DEF IndInv
<1>2. ASSUME NEW dir \in Dirs, OpenDir(dir) PROVE BrowseStep
  BY <1>1, <1>2, InitializeDirType, OpenBrowses DEF OpenDir, Located, BrowseStep
<1>3. ASSUME NEW dir \in Dirs, NEW name, OpenFile(dir, name) PROVE BrowseStep
  BY <1>1, <1>3, InitializeFileType, OpenBrowses DEF OpenFile, Located, BrowseStep
<1>4. ASSUME catalog.items = <<>>, NextImageTriggered \/ PreviousImageTriggered
      PROVE  BrowseStep
  BY <1>1, <1>4
     DEF NextImageTriggered, PreviousImageTriggered, Show, BrowseStep, ItemOf,
         TypeOK, Catalogs
<1>5. ASSUME catalog.items # <<>>, NextImageTriggered PROVE BrowseStep
  BY <1>5, IncrementBrowses DEF BrowseStep
<1>6. ASSUME catalog.items # <<>>, PreviousImageTriggered PROVE BrowseStep
  BY <1>6, DecrementBrowses DEF BrowseStep
<1>7. ASSUME UNCHANGED catalog PROVE BrowseStep
  BY <1>7 DEF BrowseStep, ItemOf
<1>8. ASSUME NEW dir \in Dirs, NEW listing \in Listings, FilesChange(dir, listing)
      PROVE  BrowseStep
  BY <1>7, <1>8 DEF FilesChange
<1>9. CASE UNCHANGED vars
  BY <1>7, <1>9 DEF vars
<1> QED
  BY <1>2, <1>3, <1>4, <1>5, <1>6, <1>8, <1>9 DEF Next

\* Next and previous do what their names say wherever there is a file.
LEMMA CommandsFollowBrowsing ==
    ASSUME IndInv PROVE CommandsBrowse
<1>1. catalog.items \in Listings
  BY DEF IndInv, TypeOK, Catalogs
<1>2. catalog.items = <<>> => NamesIn(catalog.items) = {}
  BY <1>1, NamesOfListing
<1>3. catalog.items # <<>> /\ NextImageTriggered => Browse!Next
  BY IncrementBrowses
<1>4. catalog.items # <<>> /\ PreviousImageTriggered => Browse!Previous
  BY DecrementBrowses
<1> QED
  BY <1>2, <1>3, <1>4 DEF CommandsBrowse

\* The catalog does what Browsing promises, for directories of any size: next
\* and previous follow the order of the names and close the circle.
THEOREM CatalogImplementsBrowsing == Spec => ImplementsBrowsing
<1>1. Init => IndInv
  BY InitEstablishesInv
<1>2. IndInv /\ [Next]_vars => IndInv'
  BY NextKeepsInv
<1>3. Init => Browse!Init
  BY DEF Init, Browse!Init, NamesIn
<1>4. IndInv /\ [Next]_vars => BrowseStep
  BY NextBrowses
<1>5. IndInv /\ [Next]_vars => [CommandsBrowse]_vars
  BY CommandsFollowBrowsing
<1> QED
  BY <1>1, <1>2, <1>3, <1>4, <1>5, PTL
     DEF Spec, ImplementsBrowsing, Browse!Spec, BrowseStep, ItemOf

=============================================================================
