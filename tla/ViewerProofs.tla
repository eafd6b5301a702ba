---------------------------- MODULE ViewerProofs ----------------------------
(***************************************************************************)
(* Theorems about Viewer: that the catalog and the view, called as the     *)
(* window calls them, go on as they do by themselves, and that picture,    *)
(* message, tree and label agree, for any directories and any files.       *)
(***************************************************************************)
EXTENDS Viewer, HelperProofs

-----------------------------------------------------------------------------
(* The view *)

\* The loader has no frame of a file that cannot be decoded, and the file it
\* has, if it can be, is on the screen.
LoaderOnScreen ==
    IF loader.file \in Decodable
    THEN /\ screen # NoFrame /\ screen.file = loader.file
         /\ original = screen /\ loader.image = screen
    ELSE loader.image = NoFrame

ViewInv == Show!TypeOK /\ LoaderOnScreen /\ Show!DimensionsMatchScreen

\* The screen has the same file, or still none.
SameFile ==
    IF screen = NoFrame THEN screen' = NoFrame
    ELSE screen' # NoFrame /\ screen'.file = screen.file

LEMMA ViewFacts ==
    /\ Decodable \subseteq Readable /\ Readable \subseteq Files
    /\ NoFile \notin Files /\ ShowBound \in Nat
    /\ \A f \in Readable : Frames[f] \in Nat /\ Frames[f] > 0
    /\ \A f \in Files, n \in Nat : /\ [file |-> f, n |-> n] \in Show!AllFrames
                                   /\ [file |-> f, n |-> n] # NoFrame
BY ViewerAssumption DEF Show!ShowAssumption, Show!AllFrames

LEMMA LoadImageType ==
    ASSUME Show!TypeOK, NEW f \in Files \cup {NoFile}
    PROVE  /\ Show!LoadImage(loader, f) \in Show!Loaders
           /\ Show!LoadImage(loader, f).file = f
           /\ Show!LoadImage(loader, f).image = NoFrame
<1>1. loader.animation \in Show!RotatingIndices
  BY DEF Show!TypeOK, Show!Loaders
<1>2. f \in Readable =>
          Show!SetIndex(loader.animation, 0, Frames[f]) \in Show!RotatingIndices
  BY ViewFacts DEF Show!SetIndex, Show!Rotating, Show!RotatingIndices
<1> QED
  BY <1>1, <1>2 DEF Show!LoadImage, Show!Loaders

LEMMA NextFrameType ==
    ASSUME Show!TypeOK, NEW found \in BOOLEAN
    PROVE  /\ Show!NextFrame(loader, found) \in Show!Loaders
           /\ Show!NextFrame(loader, found).file = loader.file
           /\ IF found /\ loader.file \in Decodable
              THEN /\ Show!NextFrame(loader, found).image # NoFrame
                   /\ Show!NextFrame(loader, found).image.file = loader.file
              ELSE Show!NextFrame(loader, found).image = loader.image
<1> DEFINE a == Show!Increment(loader.animation)
           image == IF found /\ loader.file \in Decodable
                    THEN [file |-> loader.file, n |-> a.index]
                    ELSE loader.image
<1>1. loader \in Show!Loaders /\ loader.animation \in Show!RotatingIndices
  BY DEF Show!TypeOK, Show!Loaders
<1>2. a \in Show!RotatingIndices
  <2>1. /\ loader.animation.index + 1 \in Nat
        /\ loader.animation.max \in Nat \ {0}
    BY <1>1 DEF Show!RotatingIndices
  <2>2. (loader.animation.index + 1) % loader.animation.max
            \in 0..(loader.animation.max - 1)
    BY <2>1
  <2> QED
    BY <1>1, <2>1, <2>2 DEF Show!Increment, Show!Advance, Show!RotatingIndices
<1>3. Show!NextFrame(loader, found)
          = [loader EXCEPT !.animation = a, !.lost = ~found, !.image = image]
  BY <1>1 DEF Show!NextFrame, Show!Loaders
<1>4. a.index \in Nat
  BY <1>2 DEF Show!RotatingIndices
<1> HIDE DEF a
<1>5. loader.file \in Decodable => loader.file \in Files
  BY ViewFacts
<1>6. /\ image \in Show!AllFrames \cup {NoFrame}
      /\ found /\ loader.file \in Decodable =>
             image # NoFrame /\ image.file = loader.file
      /\ ~(found /\ loader.file \in Decodable) => image = loader.image
  BY <1>1, <1>4, <1>5, ViewFacts DEF Show!Loaders
<1> HIDE DEF image
<1> DEFINE l == Show!NextFrame(loader, found)
<1>7. /\ l \in Show!Loaders
      /\ l.file = loader.file /\ l.image = image
  BY <1>1, <1>2, <1>3, <1>6 DEF Show!Loaders
<1> HIDE DEF l
<1> QED
  BY <1>6, <1>7 DEF l

\* A load that fails leaves the screen, and at most clears the label.
LEMMA FailedLoadKeepsView ==
    ASSUME ViewInv, NEW f \in Files \cup {NoFile}, NEW clears \in BOOLEAN,
           Show!ShowUnreadable(f, clears) \/ Show!ShowUndecodable(f, clears)
    PROVE  ViewInv' /\ loader'.file = f /\ f \notin Decodable /\ screen' = screen
<1>1. /\ f \notin Decodable
      /\ loader' = Show!LoadImage(loader, f) /\ dimensions' = Show!Label(clears)
      /\ original' \in {original, NoFrame}
      /\ UNCHANGED <<screen, information, extractions, timers, shows>>
  BY ViewFacts DEF Show!ShowUnreadable, Show!ShowUndecodable
<1>2. loader' \in Show!Loaders /\ loader'.file = f /\ loader'.image = NoFrame
  BY <1>1, LoadImageType DEF ViewInv
<1>3. dimensions' \in {NoFile, dimensions}
  BY <1>1 DEF Show!Label
<1>4. Show!TypeOK'
  BY <1>1, <1>2, <1>3 DEF ViewInv, Show!TypeOK
<1> QED
  BY <1>1, <1>2, <1>3, <1>4 DEF ViewInv, LoaderOnScreen, Show!DimensionsMatchScreen

LEMMA ShowImageKeepsView ==
    ASSUME ViewInv, NEW f, Show!ShowImage(f)
    PROVE  /\ ViewInv' /\ loader'.file = f
           /\ f \in Decodable /\ screen' # NoFrame /\ screen'.file = f
<1> DEFINE l == Show!LoadImage(loader, f)
           frame == [file |-> f, n |-> 0]
<1>1. f \in Decodable /\ f \in Files
  BY ViewFacts DEF Show!ShowImage
<1>2. l \in Show!Loaders /\ l.file = f
  BY <1>1, LoadImageType DEF ViewInv
<1>3. frame \in Show!AllFrames /\ frame # NoFrame /\ frame.file = f
  BY <1>1, ViewFacts
<1>4. loader' = [l EXCEPT !.image = frame]
  BY <1>1, <1>2 DEF Show!ShowImage, Show!ReadImage
<1> HIDE DEF l, frame
<1>5. loader' \in Show!Loaders /\ loader'.file = f /\ loader'.image = frame
  BY <1>2, <1>3, <1>4 DEF Show!Loaders
<1>6. /\ original' = frame /\ screen' = frame /\ dimensions' = f
      /\ information' = information /\ timers' = timers
  BY <1>5 DEF Show!ShowImage
<1>7. extractions' \in Seq(Files) /\ shows' \in 0..ShowBound
  BY <1>1, ViewFacts DEF Show!ShowImage, ViewInv, Show!TypeOK
<1>8. Show!TypeOK'
  BY <1>1, <1>3, <1>5, <1>6, <1>7 DEF ViewInv, Show!TypeOK
<1> QED
  BY <1>1, <1>3, <1>5, <1>6, <1>8
     DEF ViewInv, LoaderOnScreen, Show!DimensionsMatchScreen

\* One coroutine less.
LEMMA RemoveAtType ==
    ASSUME NEW S, NEW s \in Seq(S), NEW i \in DOMAIN s
    PROVE  Show!RemoveAt(s, i) \in Seq(S)
<1>1. i \in 1..Len(s) /\ Len(s) \in Nat
  OBVIOUS
<1>2. SubSeq(s, 1, i - 1) \in Seq(S)
  BY <1>1
<1>3. SubSeq(s, i + 1, Len(s)) \in Seq(S)
  BY <1>1
<1> QED
  BY <1>2, <1>3 DEF Show!RemoveAt

\* What goes on by itself leaves the file on the screen.
LEMMA TimersKeepView ==
    ASSUME ViewInv, ViewGoesOn
    PROVE  ViewInv' /\ loader'.file = loader.file /\ SameFile
<1>1. Show!TypeOK /\ LoaderOnScreen /\ Show!DimensionsMatchScreen
  BY DEF ViewInv
<1>2. ASSUME NEW f \in Files, Show!ExtractionFinished(f)
      PROVE  ViewInv' /\ loader'.file = loader.file /\ SameFile
  <2>1. /\ information' = f
        /\ UNCHANGED <<loader, original, screen, dimensions, shows>>
    BY <1>2 DEF Show!ExtractionFinished
  <2>2. extractions' \in Seq(Files)
    BY <1>1, <1>2, RemoveAtType DEF Show!ExtractionFinished, Show!TypeOK
  <2>3. timers' \in Nat
    <3>1. PICK started \in Show!StartedTimers(loader) : timers' = timers + started
      BY <1>2 DEF Show!ExtractionFinished
    <3>2. started \in 0..1
      BY <3>1 DEF Show!StartedTimers, Show!NewTimers
    <3> QED
      BY <1>1, <3>1, <3>2 DEF Show!TypeOK
  <2>4. Show!TypeOK'
    BY <1>1, <2>1, <2>2, <2>3 DEF Show!TypeOK
  <2> QED
    BY <1>1, <2>1, <2>4
       DEF ViewInv, LoaderOnScreen, Show!DimensionsMatchScreen, SameFile
<1>3. ASSUME Show!OnNextImage
      PROVE  ViewInv' /\ loader'.file = loader.file /\ SameFile
  <2>0. PICK found \in BOOLEAN : loader' = Show!NextFrame(loader, found)
    BY <1>3 DEF Show!OnNextImage
  <2> DEFINE l == Show!NextFrame(loader, found)
  <2>1. /\ l \in Show!Loaders /\ l.file = loader.file
        /\ IF found /\ loader.file \in Decodable
           THEN l.image # NoFrame /\ l.image.file = loader.file
           ELSE l.image = loader.image
    BY <1>1, NextFrameType
  <2>2. /\ loader' = l /\ original' = l.image
        /\ screen' = IF l.image = NoFrame THEN screen ELSE l.image
        /\ UNCHANGED <<dimensions, information, extractions, shows>>
    BY <1>3, <2>0 DEF Show!OnNextImage
  <2>3. timers' \in Nat
    BY <1>1, <1>3 DEF Show!OnNextImage, Show!TypeOK, Show!NewTimers
  <2> HIDE DEF l
  <2>4. l.image \in Show!AllFrames \cup {NoFrame}
    BY <2>1 DEF Show!Loaders
  <2>5. Show!TypeOK'
    BY <1>1, <2>1, <2>2, <2>3, <2>4 DEF Show!TypeOK
  <2>6. LoaderOnScreen'
    BY <1>1, <2>1, <2>2 DEF LoaderOnScreen
  <2>7. SameFile
    BY <1>1, <2>1, <2>2 DEF LoaderOnScreen, SameFile
  <2> QED
    BY <1>1, <2>1, <2>2, <2>5, <2>6, <2>7
       DEF ViewInv, Show!DimensionsMatchScreen, SameFile
<1> QED
  BY <1>2, <1>3 DEF ViewGoesOn

-----------------------------------------------------------------------------
(* The catalog *)

\* A list with files is that of a directory, and the ring of its length.
Located(c) ==
    c.items # <<>> => c.dir \in Dirs /\ c.index.max = Len(c.items)

CatalogInv == Catalog!TypeOK /\ Located(catalog)

LEMMA ListingFacts ==
    ASSUME NEW s \in Listings
    PROVE  /\ Len(s) \in Nat /\ (s # <<>> => Len(s) # 0)
           /\ \A i \in 1..Len(s) : s[i] \in Names
<1>1. s \in Seq(Names)
  BY ViewerAssumption DEF Catalog!CatalogAssumption
<1> QED
  BY <1>1

\* Turning a ring by any number of places.
LEMMA AdvanceType ==
    ASSUME NEW r \in Catalog!RotatingIndices, NEW n \in Nat
    PROVE  /\ Catalog!Advance(r, n) \in Catalog!RotatingIndices
           /\ Catalog!Advance(r, n).max = r.max
<1>1. r.index + n \in Nat /\ r.max \in Nat \ {0}
  BY DEF Catalog!RotatingIndices
<1>2. (r.index + n) % r.max \in 0..(r.max - 1)
  BY <1>1
<1> QED
  BY <1>1, <1>2 DEF Catalog!Advance, Catalog!RotatingIndices

LEMMA InitializeDirType ==
    ASSUME Catalog!TypeOK, NEW dir \in Dirs
    PROVE  /\ Catalog!InitializeDir(catalog, dir) \in Catalog!Catalogs
           /\ Located(Catalog!InitializeDir(catalog, dir))
<1>1. disk[dir] \in Listings /\ catalog.index \in Catalog!RotatingIndices
  BY DEF Catalog!TypeOK, Catalog!Catalogs
<1>2. Len(disk[dir]) \in Nat /\ (disk[dir] # <<>> => Len(disk[dir]) # 0)
  BY <1>1, ListingFacts
<1>3. /\ Catalog!SetIndex(catalog.index, 0, Len(disk[dir])) \in Catalog!RotatingIndices
      /\ Len(disk[dir]) # 0 =>
             Catalog!SetIndex(catalog.index, 0, Len(disk[dir])).max = Len(disk[dir])
  BY <1>1, <1>2 DEF Catalog!SetIndex, Catalog!Rotating, Catalog!RotatingIndices
<1> QED
  BY <1>1, <1>2, <1>3 DEF Catalog!InitializeDir, Catalog!Catalogs, Located

\* Turning the ring of a catalog keeps it well formed.
LEMMA TurnedIndex ==
    ASSUME NEW c \in Catalog!Catalogs, Located(c),
           NEW index \in Catalog!RotatingIndices, index.max = c.index.max
    PROVE  /\ [c EXCEPT !.index = index] \in Catalog!Catalogs
           /\ Located([c EXCEPT !.index = index])
BY DEF Catalog!Catalogs, Located

LEMMA InitializeFileType ==
    ASSUME Catalog!TypeOK, NEW dir \in Dirs, NEW name
    PROVE  /\ Catalog!InitializeFile(catalog, dir, name) \in Catalog!Catalogs
           /\ Located(Catalog!InitializeFile(catalog, dir, name))
<1> DEFINE opened == Catalog!InitializeDir(catalog, dir)
           n == Catalog!StepsTo(name, opened.items)
<1>1. opened \in Catalog!Catalogs /\ Located(opened)
  BY InitializeDirType
<1>2. Catalog!InitializeFile(catalog, dir, name)
          = [opened EXCEPT !.index = Catalog!Advance(opened.index, n)]
  BY <1>1 DEF Catalog!InitializeFile, Catalog!Catalogs
<1>3. n \in Nat
  <2>1. Len(opened.items) \in Nat
    BY <1>1, ListingFacts DEF Catalog!Catalogs
  <2>2. CASE name \in Catalog!NamesIn(opened.items)
    <3>1. \E i \in 1..Len(opened.items) : opened.items[i] = name
      BY <2>2 DEF Catalog!NamesIn
    <3>2. (CHOOSE i \in 1..Len(opened.items) : opened.items[i] = name)
              \in 1..Len(opened.items)
      BY <3>1
    <3> QED
      BY <2>1, <2>2, <3>2 DEF Catalog!StepsTo
  <2>3. CASE name \notin Catalog!NamesIn(opened.items)
    BY <2>1, <2>3 DEF Catalog!StepsTo
  <2> QED
    BY <2>2, <2>3
<1> HIDE DEF opened, n
<1>4. opened.index \in Catalog!RotatingIndices
  BY <1>1 DEF Catalog!Catalogs
<1>5. /\ Catalog!Advance(opened.index, n) \in Catalog!RotatingIndices
      /\ Catalog!Advance(opened.index, n).max = opened.index.max
  BY <1>3, <1>4, AdvanceType
<1> QED
  BY <1>1, <1>2, <1>5, TurnedIndex

LEMMA CatalogItemType ==
    ASSUME NEW c \in Catalog!Catalogs, Located(c)
    PROVE  Catalog!CatalogItem(c) \in Files \cup {NoFile}
<1>1. c.items \in Listings /\ c.index \in Catalog!RotatingIndices
  BY DEF Catalog!Catalogs
<1>2. c.items # <<>> => c.index.index + 1 \in 1..Len(c.items)
  BY <1>1, ListingFacts DEF Catalog!RotatingIndices, Located
<1>3. c.items # <<>> => c.items[c.index.index + 1] \in Names
  BY <1>1, <1>2, ListingFacts
<1> QED
  BY <1>2, <1>3 DEF Catalog!CatalogItem, Files, Located

\* Every command ends in showing what a well formed catalog has reached.
LEMMA ShowKeepsCatalog ==
    ASSUME CatalogInv, NEW c \in Catalog!Catalogs, Located(c), Catalog!Show(c)
    PROVE  CatalogInv'
<1>1. Catalog!CatalogItem(c) \in Files \cup {NoFile}
  BY CatalogItemType
<1>2. catalog' = c /\ shown' = Catalog!CatalogItem(c) /\ disk' = disk
  BY DEF Catalog!Show
<1>3. Catalog!TypeOK'
  BY <1>1, <1>2 DEF CatalogInv, Catalog!TypeOK, Catalog!Files, Files
<1> QED
  BY <1>2, <1>3 DEF CatalogInv, Located

LEMMA CatalogStepKeepsInv ==
    ASSUME CatalogInv, [Catalog!Next]_catalogVars PROVE CatalogInv'
<1>1. /\ Catalog!TypeOK /\ Located(catalog)
      /\ catalog \in Catalog!Catalogs /\ catalog.index \in Catalog!RotatingIndices
  BY DEF CatalogInv, Catalog!TypeOK, Catalog!Catalogs
<1>2. ASSUME NEW dir \in Dirs, Catalog!OpenDir(dir) PROVE CatalogInv'
  BY <1>1, <1>2, InitializeDirType, ShowKeepsCatalog DEF Catalog!OpenDir
<1>3. ASSUME NEW dir \in Dirs, NEW name, Catalog!OpenFile(dir, name)
      PROVE  CatalogInv'
  BY <1>1, <1>3, InitializeFileType, ShowKeepsCatalog DEF Catalog!OpenFile
<1>4. CASE Catalog!NextImageTriggered
  <2>1. /\ Catalog!Increment(catalog.index) \in Catalog!RotatingIndices
        /\ Catalog!Increment(catalog.index).max = catalog.index.max
    BY <1>1, AdvanceType DEF Catalog!Increment
  <2> QED
    BY <1>1, <1>4, <2>1, TurnedIndex, ShowKeepsCatalog
       DEF Catalog!NextImageTriggered
<1>5. CASE Catalog!PreviousImageTriggered
  <2>1. /\ Catalog!Decrement(catalog.index) \in Catalog!RotatingIndices
        /\ Catalog!Decrement(catalog.index).max = catalog.index.max
    BY <1>1 DEF Catalog!Decrement, Catalog!RotatingIndices
  <2> QED
    BY <1>1, <1>5, <2>1, TurnedIndex, ShowKeepsCatalog
       DEF Catalog!PreviousImageTriggered
<1>6. ASSUME NEW dir \in Dirs, NEW listing \in Listings,
             Catalog!FilesChange(dir, listing)
      PROVE  CatalogInv'
  BY <1>1, <1>6 DEF Catalog!FilesChange, CatalogInv, Catalog!TypeOK, Located
<1>7. CASE UNCHANGED catalogVars
  BY <1>7 DEF catalogVars, CatalogInv, Catalog!TypeOK, Located
<1> QED
  BY <1>2, <1>3, <1>4, <1>5, <1>6, <1>7 DEF Catalog!Next

-----------------------------------------------------------------------------
(* The steps of the window *)

\* Handing over a file is a step of the view by itself.
LEMMA ShowImageIsShow ==
    ASSUME NEW clears \in BOOLEAN, shown' \in Files \cup {NoFile}, ShowImage(clears)
    PROVE  Show!Next
<1> DEFINE f == shown'
<1>1. \/ Show!ShowUnreadable(f, clears) \/ Show!ShowUndecodable(f, clears)
      \/ Show!ShowImage(f)
  BY DEF ShowImage
<1>2. Show!ShowImage(f) => f \in Files
  BY ViewFacts DEF Show!ShowImage
<1>3. f \in Files \cup {NoFile}
  OBVIOUS
<1> HIDE DEF f
<1> QED
  BY <1>1, <1>2, <1>3 DEF Show!Next

\* Every step of the window is one of the catalog or leaves it alone.
LEMMA WindowStepOfCatalog ==
    ASSUME tree \in Files \cup {NoFile}, [Next]_vars
    PROVE  [Catalog!Next]_catalogVars
<1>1. ASSUME NEW path \in Paths, HandleImagePath(path)
      PROVE  [Catalog!Next]_catalogVars
  <2>1. CASE HandleDir(path)
    BY <2>1 DEF HandleDir, Catalog!Next
  <2>2. CASE HandleFile(path)
    <3>1. path.dir \in Dirs /\ path.name \in Names \cup Unlisted
      BY <2>2 DEF HandleFile, Paths
    <3> QED
      BY <2>2, <3>1 DEF HandleFile, Catalog!Next
  <2>3. CASE HandleNothing
    BY <2>3 DEF HandleNothing, catalogVars
  <2> QED
    BY <1>1, <2>1, <2>2, <2>3 DEF HandleImagePath
<1>2. CASE FileSystemTreeViewActivated
  <2>1. tree \in Paths
    BY <1>2 DEF FileSystemTreeViewActivated, Paths, Files
  <2> QED
    BY <1>1, <1>2, <2>1 DEF FileSystemTreeViewActivated
<1>3. CASE NextImageTriggered
  BY <1>3 DEF NextImageTriggered, Catalog!Next
<1>4. CASE PreviousImageTriggered
  BY <1>4 DEF PreviousImageTriggered, Catalog!Next
<1>5. CASE TreeMoved \/ StatusTipShown \/ ViewGoesOn
  BY <1>5 DEF TreeMoved, StatusTipShown, ViewGoesOn, catalogVars
<1>6. CASE FilesChange
  BY <1>6 DEF FilesChange, Catalog!Next
<1>7. CASE UNCHANGED vars
  BY <1>7 DEF vars
<1> QED
  BY <1>1, <1>2, <1>3, <1>4, <1>5, <1>6, <1>7 DEF Next, OpenFileRequested

\* The steps of the window, as what they are to the view and the panels.
WindowStep ==
    \/ \E clears \in BOOLEAN : ShowImage(clears)
    \/ HandleNothing
    \/ ViewGoesOn
    \/ /\ UNCHANGED <<showVars, shown>>
       /\ message' \in {message, NoFile} /\ tree' \in {tree, NoFile}

LEMMA WindowStepForms ==
    ASSUME [Next]_vars PROVE WindowStep
<1>1. ASSUME NEW path, HandleImagePath(path) PROVE WindowStep
  <2>1. HandleDir(path) \/ HandleFile(path) => ShowImage(TRUE)
    BY DEF HandleDir, HandleFile
  <2> QED
    BY <1>1, <2>1 DEF HandleImagePath, WindowStep
<1>2. CASE NextImageTriggered \/ PreviousImageTriggered
  <2>1. ShowImage(FALSE)
    BY <1>2 DEF NextImageTriggered, PreviousImageTriggered
  <2> QED
    BY <2>1 DEF WindowStep
<1>3. CASE TreeMoved \/ StatusTipShown
  BY <1>3 DEF TreeMoved, StatusTipShown, WindowStep, catalogVars
<1>4. CASE FilesChange
  BY <1>4 DEF FilesChange, Catalog!FilesChange, WindowStep, panelVars
<1>5. CASE UNCHANGED vars
  BY <1>5 DEF vars, catalogVars, panelVars, WindowStep
<1> QED
  BY <1>1, <1>2, <1>3, <1>4, <1>5
     DEF Next, OpenFileRequested, FileSystemTreeViewActivated, WindowStep

LEMMA WindowStepOfView ==
    ASSUME shown' \in Files \cup {NoFile}, [Next]_vars
    PROVE  [Show!Next]_showVars
<1>1. ASSUME NEW clears \in BOOLEAN, ShowImage(clears) PROVE Show!Next
  BY <1>1, ShowImageIsShow
<1>2. HandleNothing => Show!Next
  BY DEF HandleNothing, Show!Next
<1>3. ViewGoesOn => Show!Next
  BY DEF ViewGoesOn, Show!Next
<1> QED
  BY <1>1, <1>2, <1>3, WindowStepForms DEF WindowStep

-----------------------------------------------------------------------------
(* The inductive invariant *)

IndInv ==
    /\ CatalogInv /\ ViewInv
    /\ {message, tree} \subseteq Files \cup {NoFile}
    /\ shown \in Decodable => loader.file = shown
    /\ PanelsAtPicture

LEMMA InitEstablishesInv ==
    ASSUME Init PROVE IndInv
<1>1. CatalogInv
  BY ViewerAssumption
     DEF Init, CatalogInv, Located, Catalog!Init, Catalog!TypeOK, Catalog!Catalogs,
         Catalog!Rotating, Catalog!RotatingIndices, Catalog!CatalogAssumption
<1>2. ViewInv
  <2>1. Show!Rotating(0, 1) \in Show!RotatingIndices
    BY DEF Show!Rotating, Show!RotatingIndices
  <2>2. /\ loader \in Show!Loaders
        /\ loader.image = NoFrame /\ loader.file = NoFile
    BY <2>1 DEF Init, Show!Init, Show!Loaders
  <2>3. /\ extractions \in Seq(Files) /\ timers \in Nat
        /\ shows \in 0..ShowBound
    BY ViewFacts DEF Init, Show!Init
  <2>4. Show!TypeOK
    BY <2>2, <2>3 DEF Init, Show!Init, Show!TypeOK
  <2> QED
    BY <2>2, <2>4, ViewFacts
       DEF Init, Show!Init, ViewInv, LoaderOnScreen, Show!DimensionsMatchScreen
<1>3. shown = NoFile /\ message = NoFile /\ tree = NoFile /\ NoFile \notin Decodable
  BY ViewFacts DEF Init, Catalog!Init
<1> QED
  BY <1>1, <1>2, <1>3 DEF IndInv, PanelsAtPicture

\* Showing what the catalog has reached keeps the panels at the picture.
LEMMA ShowImageKeepsInv ==
    ASSUME IndInv, CatalogInv', NEW clears \in BOOLEAN, ShowImage(clears)
    PROVE  IndInv'
<1> DEFINE f == shown'
<1>1. f \in Files \cup {NoFile}
  BY DEF CatalogInv, Catalog!TypeOK, Catalog!Files, Files
<1>2. /\ message' \in {message, NoFile, f} /\ (f # NoFile => message' = f)
      /\ tree' = IF f = NoFile THEN tree ELSE f
  BY DEF ShowImage, RegisterProcessedImage
<1>3. CASE Show!ShowImage(f)
  <2>1. /\ ViewInv' /\ loader'.file = f
        /\ f \in Decodable /\ screen' # NoFrame /\ screen'.file = f
    BY <1>3, ShowImageKeepsView DEF IndInv
  <2>2. f # NoFile
    BY <2>1, ViewFacts
  <2> QED
    BY <1>1, <1>2, <2>1, <2>2 DEF IndInv, PanelsAtPicture
<1>4. CASE Show!ShowUnreadable(f, clears) \/ Show!ShowUndecodable(f, clears)
  <2>1. ViewInv' /\ loader'.file = f /\ f \notin Decodable /\ screen' = screen
    BY <1>1, <1>4, FailedLoadKeepsView DEF IndInv
  <2>2. /\ {message', tree'} \subseteq {message, tree, NoFile, f}
        /\ NoFile \notin Decodable
    BY <1>2, ViewFacts
  <2> QED
    BY <1>1, <2>1, <2>2 DEF IndInv, PanelsAtPicture
<1> QED
  BY <1>3, <1>4 DEF ShowImage

LEMMA NextKeepsInv ==
    ASSUME IndInv, [Next]_vars PROVE IndInv'
<1>1. CatalogInv'
  BY WindowStepOfCatalog, CatalogStepKeepsInv DEF IndInv
<1>2. NoFile \notin Decodable
  BY ViewFacts
<1>3. ASSUME NEW clears \in BOOLEAN, ShowImage(clears) PROVE IndInv'
  BY <1>1, <1>3, ShowImageKeepsInv
<1>4. CASE HandleNothing
  <2>1. /\ dimensions' = NoFile /\ message' = NoFile
        /\ UNCHANGED <<loader, original, screen, information, extractions,
                       timers, shows, shown, tree>>
    BY <1>4 DEF HandleNothing, Show!HandleMissingPath, catalogVars
  <2>2. ViewInv'
    BY <2>1 DEF IndInv, ViewInv, Show!TypeOK, LoaderOnScreen,
                Show!DimensionsMatchScreen
  <2> QED
    BY <1>1, <1>2, <2>1, <2>2 DEF IndInv, PanelsAtPicture
<1>5. CASE ViewGoesOn
  <2>1. ViewInv' /\ loader'.file = loader.file /\ SameFile
    BY <1>5, TimersKeepView DEF IndInv
  <2>2. UNCHANGED <<shown, message, tree>>
    BY <1>5 DEF ViewGoesOn, catalogVars, panelVars
  <2> QED
    BY <1>1, <2>1, <2>2 DEF IndInv, PanelsAtPicture, SameFile
<1>6. ASSUME UNCHANGED <<showVars, shown>>,
             message' \in {message, NoFile}, tree' \in {tree, NoFile}
      PROVE  IndInv'
  <2>1. ViewInv'
    BY <1>6 DEF showVars, IndInv, ViewInv, Show!TypeOK, LoaderOnScreen,
                Show!DimensionsMatchScreen
  <2> QED
    BY <1>1, <1>2, <1>6, <2>1 DEF IndInv, PanelsAtPicture, showVars
<1> QED
  BY <1>3, <1>4, <1>5, <1>6, WindowStepForms DEF WindowStep

-----------------------------------------------------------------------------
(* Sizes *)

LEMMA CeilDivBounds ==
    ASSUME NEW n \in Nat, NEW d \in Nat \ {0}
    PROVE  /\ CeilDiv(n, d) \in Nat
           /\ n <= CeilDiv(n, d) * d
           /\ CeilDiv(n, d) * d < n + d
<1> DEFINE m == n + d - 1
           q == m \div d
<1>1. m \in Nat
  OBVIOUS
<1> HIDE DEF m
<1>2. q \in Nat /\ m % d \in 0..(d - 1) /\ m = d * q + (m % d)
  BY <1>1
<1>3. q * d = d * q
  BY <1>2
<1> HIDE DEF q
<1>4. q * d \in Nat
  BY <1>2
<1> QED
  BY <1>2, <1>3, <1>4 DEF CeilDiv, m, q

\* A product by a positive number keeps the order.
LEMMA ProductOrder ==
    ASSUME NEW a \in Nat, NEW b \in Nat, NEW d \in Nat \ {0}, a <= b
    PROVE  a * d <= b * d
OBVIOUS

LEMMA ScaleFacts ==
    /\ \A i \in 0..5 : Scale[i] \in Nat \ {0}
    /\ \A i \in 0..4 : Scale[i + 1] = Base * Scale[i]
    /\ Base \in Nat /\ Base > 1 /\ Scale[0] = 1
<1>1. /\ Base \in Nat /\ Base > 1 /\ Scale[0] = 1
      /\ \A i \in 0..5 : Scale[i] \in Nat
      /\ \A i \in 0..4 : Scale[i + 1] = Base * Scale[i]
  BY SizeAssumption DEF Units
<1>2. \A a \in Nat \ {0} : Base * a \in Nat \ {0}
  BY <1>1
<1>3. /\ Scale[1] = Base * Scale[0] /\ Scale[2] = Base * Scale[1]
      /\ Scale[3] = Base * Scale[2] /\ Scale[4] = Base * Scale[3]
      /\ Scale[5] = Base * Scale[4]
  <2>1. \A i \in {0, 1, 2, 3, 4} : i \in 0..4
    OBVIOUS
  <2> QED
    BY <1>1, <2>1
<1>4. Scale[1] # 0 /\ Scale[2] # 0 /\ Scale[3] # 0 /\ Scale[4] # 0 /\ Scale[5] # 0
  BY <1>1, <1>2, <1>3
<1> QED
  BY <1>1, <1>4

LEMMA UnitExists ==
    ASSUME NEW size \in Sizes
    PROVE  /\ UnitOf(size) \in 0..4
           /\ size < Scale[UnitOf(size) + 1]
           /\ UnitOf(size) > 0 => Scale[UnitOf(size)] <= size
<1> DEFINE Fits(i) == size < Scale[i + 1] /\ \A j \in 1..i : Scale[j] <= size
<1>1. /\ size \in Nat /\ size < Scale[5]
      /\ Scale[1] \in Nat /\ Scale[2] \in Nat /\ Scale[3] \in Nat
      /\ Scale[4] \in Nat /\ Scale[5] \in Nat
  BY ScaleFacts DEF Sizes, Units
<1>2. \E i \in 0..4 : Fits(i)
  <2>1. size < Scale[1] => Fits(0)
    OBVIOUS
  <2>2. Scale[1] <= size /\ size < Scale[2] => Fits(1)
    OBVIOUS
  <2>3. Scale[1] <= size /\ Scale[2] <= size /\ size < Scale[3] => Fits(2)
    <3>1. \A j \in 1..2 : j = 1 \/ j = 2
      OBVIOUS
    <3> QED
      BY <3>1
  <2>4. (/\ Scale[1] <= size /\ Scale[2] <= size /\ Scale[3] <= size
         /\ size < Scale[4]) => Fits(3)
    <3>1. \A j \in 1..3 : j = 1 \/ j = 2 \/ j = 3
      OBVIOUS
    <3> QED
      BY <3>1
  <2>5. (/\ Scale[1] <= size /\ Scale[2] <= size /\ Scale[3] <= size
         /\ Scale[4] <= size /\ size < Scale[5]) => Fits(4)
    <3>1. \A j \in 1..4 : j = 1 \/ j = 2 \/ j = 3 \/ j = 4
      OBVIOUS
    <3> QED
      BY <3>1
  <2> HIDE DEF Fits
  <2> QED
    BY <1>1, <2>1, <2>2, <2>3, <2>4, <2>5
<1>3. UnitOf(size) = CHOOSE i \in 0..4 : Fits(i)
  BY DEF UnitOf, Units
<1>4. UnitOf(size) \in 0..4 /\ Fits(UnitOf(size))
  <2> HIDE DEF Fits
  <2> QED
    BY <1>2, <1>3
<1> QED
  BY <1>4

\* Whatever the size of a file, the status bar shows it rounded up by less than
\* a tenth of a unit that it reaches (ByteSize.cpp:19-26).
THEOREM SizesAreRoundedUp == \A size \in Sizes : RoundedUp(size)
<1> SUFFICES ASSUME NEW size \in Sizes PROVE RoundedUp(size)
  OBVIOUS
<1> DEFINE u == UnitOf(size)
           s == Scale[u]
           t == CeilDiv(10 * size, s)
<1>1. /\ u \in 0..4 /\ size < Scale[u + 1] /\ (u > 0 => s <= size)
      /\ size \in Nat
  BY UnitExists, ScaleFacts DEF Sizes, Units
<1>2. s \in Nat \ {0} /\ Scale[u + 1] = Base * s /\ Base \in Nat
  BY <1>1, ScaleFacts
<1>3. size < Base * s
  BY <1>1, <1>2
<1>4. HumanReadable(size) = [unit |-> u, tenths |-> t]
  BY DEF HumanReadable
<1> HIDE DEF s, u
<1>5. /\ t \in Nat /\ 10 * size <= t * s /\ t * s < 10 * size + s
  <2>1. 10 * size \in Nat
    BY <1>1
  <2> QED
    BY <1>2, <2>1, CeilDivBounds
<1> HIDE DEF t
<1>6. t <= 10 * Base
  <2> SUFFICES ASSUME t > 10 * Base PROVE FALSE
    BY <1>2, <1>5
  <2>1. 10 * Base + 1 \in Nat /\ 10 * Base + 1 <= t
    BY <1>2, <1>5
  <2>2. (10 * Base + 1) * s <= t * s
    BY <1>2, <1>5, <2>1, ProductOrder
  <2>3. (10 * Base + 1) * s = 10 * (Base * s) + s
    BY <1>2
  <2>4. Base * s \in Nat /\ t * s \in Nat
    BY <1>2, <1>5
  <2> QED
    BY <1>1, <1>2, <1>3, <1>5, <2>2, <2>3, <2>4
<1>7. u > 0 => t >= 10
  <2> SUFFICES ASSUME u > 0, t < 10 PROVE FALSE
    BY <1>5
  <2>1. t + 1 \in Nat /\ t + 1 <= 10
    BY <1>5
  <2>2. t * s <= 9 * s
    BY <1>2, <1>5, <2>1, ProductOrder
  <2> QED
    BY <1>1, <1>2, <1>5, <2>2
<1> QED
  BY <1>4, <1>5, <1>6, <1>7 DEF RoundedUp, s

-----------------------------------------------------------------------------
(* The theorems *)

\* Every state of every run satisfies the inductive invariant.
THEOREM ViewerInvariant == Spec => []IndInv
<1>1. Init => IndInv
  BY InitEstablishesInv
<1>2. IndInv /\ [Next]_vars => IndInv'
  BY NextKeepsInv
<1> QED
  BY <1>1, <1>2, PTL DEF Spec

\* The types of the window's parts and panels.
THEOREM TypeCorrect == Spec => []TypeOK
<1>1. IndInv => TypeOK
  BY DEF IndInv, CatalogInv, ViewInv, TypeOK
<1> QED
  BY <1>1, ViewerInvariant, PTL

\* The window uses its parts as they are used by themselves: what it does is a
\* behaviour of the catalog and one of the view, so that what is shown for
\* these holds in the window.
THEOREM ViewerUsesItsParts == Spec => Catalog!Spec /\ Show!Spec
<1>1. Init => Catalog!Init /\ Show!Init
  BY DEF Init
<1>2. ASSUME IndInv, IndInv', [Next]_vars
      PROVE  [Catalog!Next]_catalogVars /\ [Show!Next]_showVars
  <2>1. tree \in Files \cup {NoFile} /\ shown' \in Files \cup {NoFile}
    BY <1>2 DEF IndInv, CatalogInv, Catalog!TypeOK, Catalog!Files, Files
  <2> QED
    BY <1>2, <2>1, WindowStepOfCatalog, WindowStepOfView
<1> QED
  BY <1>1, <1>2, ViewerInvariant, PTL
     DEF Spec, Catalog!Spec, Show!Spec, Catalog!vars, Show!vars, catalogVars,
         showVars

\* A file that the commands have reached and that can be decoded is on the
\* screen and is what the commands work on.
THEOREM PictureIsAtHand == Spec => []PictureAtHand
<1>1. IndInv => PictureAtHand
  BY DEF IndInv, ViewInv, LoaderOnScreen, PictureAtHand
<1> QED
  BY <1>1, ViewerInvariant, PTL

\* Neither the message nor the tree is left at a picture that is not seen.
THEOREM PanelsStayAtPicture == Spec => []PanelsAtPicture
<1>1. IndInv => PanelsAtPicture
  BY DEF IndInv
<1> QED
  BY <1>1, ViewerInvariant, PTL

\* The size in the status bar is that of the picture on the screen, rounded up
\* by less than a tenth of its unit.
THEOREM SizeIsOfPicture == Spec => []SizeOfPicture
<1>1. ASSUME IndInv PROVE SizeOfPicture
  <2> SUFFICES ASSUME dimensions # NoFile PROVE SizeOfPicture
    BY DEF SizeOfPicture
  <2>1. screen.file = dimensions /\ dimensions \in Files
    BY <1>1 DEF IndInv, ViewInv, Show!DimensionsMatchScreen, Show!TypeOK
  <2>2. FileSize[dimensions] \in Sizes
    BY <2>1, ViewerAssumption
  <2>3. RoundedUp(FileSize[dimensions])
    BY <2>2, SizesAreRoundedUp
  <2> QED
    BY <2>1, <2>3 DEF SizeOfPicture, SizeLabel, RoundedUp
<1> QED
  BY <1>1, ViewerInvariant, PTL

-----------------------------------------------------------------------------
(* Viewing *)

\* What Viewing sees of the state.
Existing  == [d \in Dirs |-> Catalog!NamesIn(disk[d])]
ItemOf(c) == IF c.items = <<>> THEN NoFile ELSE c.items[c.index.index + 1]
Picture   == IF screen = NoFrame THEN NoFile ELSE screen.file

viewedVars ==
    <<Existing, catalog.dir, Catalog!NamesIn(catalog.items), ItemOf(catalog), Picture>>

ViewingStep ==
    [\/ \E d \in Dirs : View!OpenDir(d)
     \/ \E d \in Dirs, name \in Names : View!OpenFile(d, name)
     \/ View!Next \/ View!Previous \/ View!FilesChange]_viewedVars

LEMMA NamesOfListing ==
    ASSUME NEW s \in Listings
    PROVE  /\ Catalog!NamesIn(s) \in SUBSET Names
           /\ Catalog!NamesIn(s) = {} <=> s = <<>>
           /\ Ascending(s) /\ Catalog!NamesIn(s) = Elements(s)
<1>1. /\ s \in Seq(Names) /\ Len(s) \in Nat
      /\ \A i \in 1..Len(s) : s[i] \in Names /\ s[i] \in Nat
      /\ \A i, j \in 1..Len(s) : i < j => s[i] < s[j]
  BY ListingFacts, ViewerAssumption DEF Catalog!CatalogAssumption
<1>2. /\ Catalog!NamesIn(s) \in SUBSET Names
      /\ \A i \in 1..Len(s) : s[i] \in Catalog!NamesIn(s)
      /\ Ascending(s) /\ Catalog!NamesIn(s) = Elements(s)
  BY <1>1 DEF Ascending, Elements, Catalog!NamesIn
<1>3. CASE s = <<>>
  <2>1. Len(s) = 0 /\ 1..0 = {}
    BY <1>3
  <2>2. Catalog!NamesIn(s) = {}
    BY <2>1 DEF Catalog!NamesIn
  <2> QED
    BY <1>2, <1>3, <2>2
<1>4. CASE s # <<>>
  <2>1. 1 \in 1..Len(s)
    BY <1>1, <1>4
  <2> QED
    BY <1>2, <1>4, <2>1
<1> QED
  BY <1>3, <1>4

LEMMA OneOrder ==
    ASSUME NEW S, NEW n
    PROVE  /\ View!First(S) = First(S)
           /\ View!Browse!Successor(S, n) = Successor(S, n)
           /\ View!Browse!Predecessor(S, n) = Predecessor(S, n)
BY DEF View!First, First,
       View!Browse!Successor, View!Browse!After, View!Browse!First, Successor, After,
       View!Browse!Predecessor, View!Browse!Before, View!Browse!Last, Predecessor,
       Before, Last

\* What is shown becomes the picture if it can be decoded.
LEMMA PictureOfShown ==
    ASSUME IndInv, CatalogInv', NEW clears \in BOOLEAN, ShowImage(clears)
    PROVE  Picture' = IF shown' \in Decodable THEN shown' ELSE Picture
<1> DEFINE f == shown'
<1>1. f \in Files \cup {NoFile}
  BY DEF CatalogInv, Catalog!TypeOK, Catalog!Files, Files
<1>2. CASE Show!ShowImage(f)
  <2>1. f \in Decodable /\ screen' # NoFrame /\ screen'.file = f
    BY <1>2, ShowImageKeepsView DEF IndInv
  <2> QED
    BY <2>1 DEF Picture
<1>3. CASE Show!ShowUnreadable(f, clears) \/ Show!ShowUndecodable(f, clears)
  <2>1. f \notin Decodable /\ screen' = screen
    BY <1>1, <1>3, FailedLoadKeepsView DEF IndInv
  <2> QED
    BY <2>1 DEF Picture
<1> QED
  BY <1>2, <1>3 DEF ShowImage

\* A command that ends with the catalog c reaches what Viewing says.
LEMMA CommandReaches ==
    ASSUME IndInv, NEW c \in Catalog!Catalogs, Located(c), Catalog!Show(c),
           NEW clears \in BOOLEAN, ShowImage(clears)
    PROVE  /\ View!Reached /\ catalog' = c /\ Existing' = Existing
           /\ c.items = <<>> => Picture' = Picture
<1>1. CatalogInv'
  BY ShowKeepsCatalog DEF IndInv
<1>2. /\ catalog' = c /\ shown' = Catalog!CatalogItem(c) /\ disk' = disk
  BY DEF Catalog!Show
<1>3. Existing' = Existing
  BY <1>2 DEF Existing, Catalog!NamesIn
<1>4. Picture' = IF shown' \in Decodable THEN shown' ELSE Picture
  BY <1>1, PictureOfShown
<1>5. c.items \in Listings /\ NoFile \notin Decodable
  BY ViewFacts DEF Catalog!Catalogs
<1>6. CASE c.items = <<>>
  <2>1. Catalog!NamesIn(c.items) = {} /\ shown' = NoFile
    BY <1>2, <1>5, <1>6, NamesOfListing DEF Catalog!CatalogItem
  <2> QED
    BY <1>2, <1>3, <1>4, <1>5, <2>1 DEF View!Reached, Existing, Picture
<1>7. CASE c.items # <<>>
  <2> DEFINE name == c.items[c.index.index + 1]
             file == [dir |-> c.dir, name |-> name]
  <2>1. /\ Catalog!NamesIn(c.items) # {} /\ c.dir \in Dirs
        /\ Existing[c.dir] = Catalog!NamesIn(disk[c.dir])
    BY <1>5, <1>7, NamesOfListing DEF Located, Existing
  <2>2. shown' = IF name \in Existing[c.dir] THEN file ELSE NoFile
    BY <1>2, <1>7, <2>1 DEF Catalog!CatalogItem
  <2>3. Picture' = IF name \in Existing[c.dir] /\ file \in Decodable
                   THEN file ELSE Picture
    BY <1>4, <1>5, <2>2
  <2>4. ItemOf(catalog)' = name
    BY <1>2, <1>7 DEF ItemOf
  <2> QED
    BY <1>2, <1>3, <1>7, <2>1, <2>3, <2>4 DEF View!Reached, Existing, Picture, ItemOf
<1> QED
  BY <1>6, <1>7

\* A directory opens at its first file.
LEMMA DirViewed ==
    ASSUME IndInv, NEW dir \in Dirs, NEW c \in Catalog!Catalogs, Located(c),
           Catalog!Show(c), NEW clears \in BOOLEAN, ShowImage(clears),
           c.dir = dir, c.items = disk[dir],
           c.items # <<>> => c.index.index = 0
    PROVE  View!OpenDir(dir)
<1>1. View!Reached /\ catalog' = c
  BY CommandReaches
<1>2. /\ disk[dir] \in Listings
      /\ Existing[dir] = Catalog!NamesIn(disk[dir])
  BY DEF IndInv, CatalogInv, Catalog!TypeOK, Existing
<1>3. c.items = <<>> <=> Catalog!NamesIn(c.items) = {}
  BY <1>2, NamesOfListing
<1>4. c.items # <<>> => ItemOf(c) = View!First(Catalog!NamesIn(c.items))
  <2> SUFFICES ASSUME c.items # <<>>
               PROVE  ItemOf(c) = View!First(Catalog!NamesIn(c.items))
    OBVIOUS
  <2>1. 1 \in 1..Len(c.items) /\ Ascending(c.items)
    BY <1>2, ListingFacts, NamesOfListing
  <2>2. ItemOf(c) = c.items[1]
    BY DEF ItemOf
  <2> QED
    BY <1>2, <2>1, <2>2, NamesOfListing, OneOrder, FirstInAscending
<1> QED
  BY <1>1, <1>2, <1>3, <1>4 DEF View!OpenDir, Existing, ItemOf

LEMMA OpenDirViewed ==
    ASSUME IndInv, NEW path, HandleDir(path)
    PROVE  path \in Dirs /\ View!OpenDir(path)
<1> DEFINE c == Catalog!InitializeDir(catalog, path)
<1>1. /\ path \in Dirs /\ Catalog!Show(c) /\ ShowImage(TRUE) /\ Catalog!TypeOK
  BY DEF HandleDir, Catalog!OpenDir, IndInv, CatalogInv
<1>2. c \in Catalog!Catalogs /\ Located(c)
  BY <1>1, InitializeDirType
<1>3. /\ disk[path] \in Listings /\ catalog.index \in Catalog!RotatingIndices
  BY <1>1 DEF Catalog!TypeOK, Catalog!Catalogs
<1>4. /\ c.dir = path /\ c.items = disk[path]
      /\ c.items # <<>> => c.index.index = 0
  BY <1>3, ListingFacts DEF Catalog!InitializeDir, Catalog!SetIndex, Catalog!Rotating
<1> HIDE DEF c
<1> QED
  BY <1>1, <1>2, <1>4, DirViewed

\* The places of the files, seen from the first one.
LEMMA InitializeFileIndex ==
    ASSUME Catalog!TypeOK, NEW dir \in Dirs, NEW name, disk[dir] # <<>>
    PROVE  LET c == Catalog!InitializeFile(catalog, dir, name)
               s == disk[dir]
           IN  /\ name \in Catalog!NamesIn(s) => s[c.index.index + 1] = name
               /\ name \notin Catalog!NamesIn(s) => c.index.index = 0
<1> DEFINE s == disk[dir]
           opened == Catalog!InitializeDir(catalog, dir)
           n == Catalog!StepsTo(name, s)
           k == CHOOSE i \in 1..Len(s) : s[i] = name
<1>1. s \in Listings /\ catalog.index \in Catalog!RotatingIndices
  BY DEF Catalog!TypeOK, Catalog!Catalogs
<1>2. Len(s) \in Nat \ {0}
  BY <1>1, ListingFacts
<1>3. /\ opened.items = s
      /\ opened.index.index = 0 /\ opened.index.max = Len(s)
      /\ opened = [dir |-> dir, items |-> s, index |-> opened.index]
      /\ opened.index = [index |-> 0, max |-> Len(s)]
  BY <1>2 DEF Catalog!InitializeDir, Catalog!SetIndex, Catalog!Rotating
<1>4. Catalog!InitializeFile(catalog, dir, name)
          = [opened EXCEPT !.index = Catalog!Advance(opened.index, n)]
  BY <1>3 DEF Catalog!InitializeFile
<1>5. name \in Catalog!NamesIn(s) => k \in 1..Len(s) /\ s[k] = name /\ n = k - 1
  BY DEF Catalog!NamesIn, Catalog!StepsTo
<1>6. name \notin Catalog!NamesIn(s) => n = Len(s)
  BY DEF Catalog!StepsTo
<1> HIDE DEF opened, n, k, s
<1>7. Catalog!Advance(opened.index, n).index = (0 + n) % Len(s)
  BY <1>3 DEF Catalog!Advance
<1>8. Catalog!InitializeFile(catalog, dir, name).index.index = (0 + n) % Len(s)
  BY <1>3, <1>4, <1>7
<1>9. ASSUME name \in Catalog!NamesIn(s) PROVE (0 + n) % Len(s) = k - 1
  <2>1. /\ k - 1 \in Nat /\ k - 1 < Len(s) /\ 0 + n = k - 1
    BY <1>2, <1>5, <1>9
  <2>2. (k - 1) % Len(s) = k - 1
    BY <1>2, <2>1
  <2> QED
    BY <2>1, <2>2, Zenon
<1>10. ASSUME name \notin Catalog!NamesIn(s) PROVE (0 + n) % Len(s) = 0
  <2>1. \A m \in Nat \ {0} : m % m = 0
    OBVIOUS
  <2>2. 0 + n = Len(s)
    BY <1>2, <1>6, <1>10
  <2> QED
    BY <1>2, <2>1, <2>2, Zenon
<1>11. name \in Catalog!NamesIn(s) => (k - 1) + 1 = k /\ s[k] = name
  BY <1>2, <1>5
<1> DEFINE i == Catalog!InitializeFile(catalog, dir, name).index.index
<1>12. /\ name \in Catalog!NamesIn(s) => i + 1 = k /\ s[k] = name
       /\ name \notin Catalog!NamesIn(s) => i = 0
  BY <1>8, <1>9, <1>10, <1>11
<1> HIDE DEF i
<1>13. /\ name \in Catalog!NamesIn(s) => s[i + 1] = name
       /\ name \notin Catalog!NamesIn(s) => i = 0
  BY <1>12
<1> QED
  BY <1>13 DEF s, i

\* A listed file opens at itself, and one that is not listed as its directory.
LEMMA OpenFileViewed ==
    ASSUME IndInv, NEW path \in [dir: Dirs, name: Names \cup Unlisted],
           HandleFile(path)
    PROVE  IF path.name \in Names THEN View!OpenFile(path.dir, path.name)
                                  ELSE View!OpenDir(path.dir)
<1> DEFINE dir == path.dir
           name == path.name
           c == Catalog!InitializeFile(catalog, dir, name)
<1>1. /\ dir \in Dirs /\ name \in Names \cup Unlisted
      /\ name \in Catalog!NamesIn(disk[dir]) \cup Unlisted
      /\ Catalog!Show(c) /\ ShowImage(TRUE) /\ Catalog!TypeOK
  BY DEF HandleFile, Catalog!OpenFile, IndInv, CatalogInv
<1>2. c \in Catalog!Catalogs /\ Located(c)
  BY <1>1, InitializeFileType
<1>3. /\ disk[dir] \in Listings /\ Unlisted \cap Names = {}
      /\ Catalog!NamesIn(disk[dir]) \in SUBSET Names
      /\ Existing[dir] = Catalog!NamesIn(disk[dir])
  BY <1>1, NamesOfListing, ViewerAssumption
     DEF Catalog!TypeOK, Existing, Catalog!CatalogAssumption
<1>4. c.dir = dir /\ c.items = disk[dir]
  BY DEF Catalog!InitializeFile, Catalog!InitializeDir
<1>5. c.items # <<>> =>
          /\ name \in Catalog!NamesIn(disk[dir]) =>
                 disk[dir][c.index.index + 1] = name
          /\ name \notin Catalog!NamesIn(disk[dir]) => c.index.index = 0
  BY <1>1, <1>4, InitializeFileIndex
<1> HIDE DEF c, dir, name
<1>6. CASE name \in Names
  <2>1. name \in Catalog!NamesIn(disk[dir])
    BY <1>1, <1>3, <1>6
  <2>2. c.items # <<>>
    BY <1>3, <1>4, <2>1, NamesOfListing
  <2>3. View!Reached /\ catalog' = c
    BY <1>1, <1>2, CommandReaches
  <2>4. ItemOf(c) = name
    BY <1>4, <1>5, <2>1, <2>2 DEF ItemOf
  <2>5. View!OpenFile(dir, name)
    BY <1>3, <1>4, <2>1, <2>3, <2>4 DEF View!OpenFile, Existing, ItemOf
  <2> QED
    BY <1>6, <2>5 DEF dir, name
<1>7. CASE name \notin Names
  <2>1. c.items # <<>> => c.index.index = 0
    BY <1>3, <1>5, <1>7
  <2>2. View!OpenDir(dir)
    BY <1>1, <1>2, <1>4, <2>1, DirViewed
  <2> QED
    BY <1>7, <2>2 DEF dir, name
<1> QED
  BY <1>6, <1>7

\* Turning the ring by one place, seen as a walk in the order of the names.
LEMMA NextViewed ==
    ASSUME IndInv, NextImageTriggered, catalog.items # <<>>
    PROVE  View!Next
<1> DEFINE s == catalog.items
           i == catalog.index.index
           r == Catalog!Increment(catalog.index)
           c == [catalog EXCEPT !.index = r]
<1>1. /\ catalog \in Catalog!Catalogs /\ Located(catalog)
      /\ s \in Listings /\ catalog.index \in Catalog!RotatingIndices
      /\ catalog.index.max = Len(s)
  BY DEF IndInv, CatalogInv, Located, Catalog!TypeOK, Catalog!Catalogs
<1>2. Len(s) \in Nat \ {0} /\ i \in Nat /\ i < Len(s) /\ i + 1 \in 1..Len(s)
  BY <1>1, ListingFacts DEF Catalog!RotatingIndices
<1>3. /\ r \in Catalog!RotatingIndices /\ r.max = catalog.index.max
      /\ r.index = (i + 1) % Len(s)
  BY <1>1, AdvanceType
     DEF Catalog!Increment, Catalog!Advance, Catalog!RotatingIndices
<1>4. r.index = IF i + 1 = Len(s) THEN 0 ELSE i + 1
  <2>1. CASE i + 1 = Len(s)
    <3>1. \A m \in Nat \ {0} : m % m = 0
      OBVIOUS
    <3> QED
      BY <1>2, <1>3, <2>1, <3>1, Zenon
  <2>2. CASE i + 1 # Len(s)
    <3>1. (i + 1) % Len(s) = i + 1
      BY <1>2, <2>2
    <3> QED
      BY <1>3, <2>2, <3>1
  <2> QED
    BY <2>1, <2>2
<1>5. c \in Catalog!Catalogs /\ Located(c)
  BY <1>1, <1>3, TurnedIndex
<1>6. Catalog!Show(c) /\ ShowImage(FALSE)
  BY DEF NextImageTriggered, Catalog!NextImageTriggered
<1>7. c.items = s /\ c.dir = catalog.dir /\ c.index.index = r.index
  BY <1>1 DEF Catalog!Catalogs
<1> HIDE DEF c, r
<1>8. View!Reached /\ catalog' = c
  BY <1>5, <1>6, CommandReaches
<1>9. View!Browse!Successor(Catalog!NamesIn(s), s[i + 1])
          = IF i + 1 = Len(s) THEN s[1] ELSE s[(i + 1) + 1]
  BY <1>1, <1>2, NamesOfListing, OneOrder, SuccessorIsNextPlace
<1>10. s[r.index + 1] = View!Browse!Successor(Catalog!NamesIn(s), s[i + 1])
  BY <1>2, <1>4, <1>9
<1>11. Catalog!NamesIn(s) # {}
  BY <1>1, NamesOfListing
<1> QED
  BY <1>7, <1>8, <1>10, <1>11 DEF View!Next, View!Browse!Next

LEMMA PreviousViewed ==
    ASSUME IndInv, PreviousImageTriggered, catalog.items # <<>>
    PROVE  View!Previous
<1> DEFINE s == catalog.items
           i == catalog.index.index
           r == Catalog!Decrement(catalog.index)
           c == [catalog EXCEPT !.index = r]
<1>1. /\ catalog \in Catalog!Catalogs /\ Located(catalog)
      /\ s \in Listings /\ catalog.index \in Catalog!RotatingIndices
      /\ catalog.index.max = Len(s)
  BY DEF IndInv, CatalogInv, Located, Catalog!TypeOK, Catalog!Catalogs
<1>2. Len(s) \in Nat \ {0} /\ i \in Nat /\ i < Len(s) /\ i + 1 \in 1..Len(s)
  BY <1>1, ListingFacts DEF Catalog!RotatingIndices
<1>3. /\ r \in Catalog!RotatingIndices /\ r.max = catalog.index.max
      /\ r.index = IF i = 0 THEN Len(s) - 1 ELSE i - 1
  BY <1>1 DEF Catalog!Decrement, Catalog!RotatingIndices
<1>4. c \in Catalog!Catalogs /\ Located(c)
  BY <1>1, <1>3, TurnedIndex
<1>5. Catalog!Show(c) /\ ShowImage(FALSE)
  BY DEF PreviousImageTriggered, Catalog!PreviousImageTriggered
<1>6. c.items = s /\ c.dir = catalog.dir /\ c.index.index = r.index
  BY <1>1 DEF Catalog!Catalogs
<1> HIDE DEF c, r
<1>7. View!Reached /\ catalog' = c
  BY <1>4, <1>5, CommandReaches
<1>8. View!Browse!Predecessor(Catalog!NamesIn(s), s[i + 1])
          = IF i + 1 = 1 THEN s[Len(s)] ELSE s[(i + 1) - 1]
  BY <1>1, <1>2, NamesOfListing, OneOrder, PredecessorIsPlaceBefore
<1>9. s[r.index + 1] = View!Browse!Predecessor(Catalog!NamesIn(s), s[i + 1])
  BY <1>2, <1>3, <1>8
<1>10. Catalog!NamesIn(s) # {}
  BY <1>1, NamesOfListing
<1> QED
  BY <1>6, <1>7, <1>9, <1>10 DEF View!Previous, View!Browse!Previous

\* Where there is no file, next and previous change nothing.
LEMMA NothingViewed ==
    ASSUME IndInv, NextImageTriggered \/ PreviousImageTriggered,
           catalog.items = <<>>
    PROVE  UNCHANGED viewedVars
<1>1. /\ catalog \in Catalog!Catalogs /\ Located(catalog)
      /\ catalog.index \in Catalog!RotatingIndices
  BY DEF IndInv, CatalogInv, Catalog!TypeOK, Catalog!Catalogs
<1>2. PICK r \in Catalog!RotatingIndices :
          /\ r.max = catalog.index.max
          /\ Catalog!Show([catalog EXCEPT !.index = r]) /\ ShowImage(FALSE)
  <2>1. /\ Catalog!Increment(catalog.index) \in Catalog!RotatingIndices
        /\ Catalog!Increment(catalog.index).max = catalog.index.max
    BY <1>1, AdvanceType DEF Catalog!Increment
  <2>2. /\ Catalog!Decrement(catalog.index) \in Catalog!RotatingIndices
        /\ Catalog!Decrement(catalog.index).max = catalog.index.max
    BY <1>1 DEF Catalog!Decrement, Catalog!RotatingIndices
  <2> QED
    BY <2>1, <2>2 DEF NextImageTriggered, PreviousImageTriggered,
                      Catalog!NextImageTriggered, Catalog!PreviousImageTriggered
<1> DEFINE c == [catalog EXCEPT !.index = r]
<1>3. c \in Catalog!Catalogs /\ Located(c)
  BY <1>1, <1>2, TurnedIndex
<1>4. c.items = <<>> /\ c.dir = catalog.dir
  BY <1>1 DEF Catalog!Catalogs
<1>5. Catalog!Show(c) /\ ShowImage(FALSE)
  BY <1>2
<1> HIDE DEF c
<1>6. /\ catalog' = c /\ Existing' = Existing /\ Picture' = Picture
  BY <1>3, <1>4, <1>5, CommandReaches
<1> QED
  BY <1>4, <1>6 DEF viewedVars, ItemOf, Catalog!NamesIn

\* What happens without a command does not change what is seen.
LEMMA OthersViewed ==
    ASSUME IndInv, IndInv'
    PROVE  /\ FilesChange => View!FilesChange
           /\ HandleNothing \/ TreeMoved \/ StatusTipShown \/ ViewGoesOn
                  => UNCHANGED viewedVars
<1>1. ASSUME HandleNothing \/ TreeMoved \/ StatusTipShown
      PROVE  UNCHANGED viewedVars
  <2>1. UNCHANGED <<disk, catalog, screen>>
    BY <1>1 DEF HandleNothing, TreeMoved, StatusTipShown, Show!HandleMissingPath,
                catalogVars, showVars
  <2> QED
    BY <2>1 DEF viewedVars, Existing, ItemOf, Picture, Catalog!NamesIn
<1>2. ASSUME FilesChange PROVE View!FilesChange
  <2>1. UNCHANGED <<catalog, screen>>
    BY <1>2 DEF FilesChange, Catalog!FilesChange, showVars
  <2>2. disk' \in [Dirs -> Listings]
    BY DEF IndInv, CatalogInv, Catalog!TypeOK
  <2>3. Existing' \in [Dirs -> SUBSET Names]
    BY <2>2, NamesOfListing DEF Existing
  <2> QED
    BY <2>1, <2>3 DEF View!FilesChange, Existing, ItemOf, Picture, Catalog!NamesIn
<1>3. ASSUME ViewGoesOn PROVE UNCHANGED viewedVars
  <2>1. SameFile
    BY <1>3, TimersKeepView DEF IndInv
  <2>2. Picture' = Picture
    BY <2>1 DEF SameFile, Picture
  <2>3. UNCHANGED <<disk, catalog>>
    BY <1>3 DEF ViewGoesOn, catalogVars
  <2> QED
    BY <2>2, <2>3 DEF viewedVars, Existing, ItemOf, Catalog!NamesIn
<1> QED
  BY <1>1, <1>2, <1>3

LEMMA NextViewing ==
    ASSUME IndInv, IndInv', [Next]_vars PROVE ViewingStep
<1>1. ASSUME NEW path \in Paths, HandleImagePath(path) PROVE ViewingStep
  <2>1. CASE HandleDir(path)
    BY <2>1, OpenDirViewed DEF ViewingStep
  <2>2. CASE HandleFile(path)
    <3>1. path \in [dir: Dirs, name: Names \cup Unlisted]
      BY <2>2 DEF HandleFile, Paths
    <3>2. path.dir \in Dirs
      BY <3>1
    <3> QED
      BY <2>2, <3>1, <3>2, OpenFileViewed DEF ViewingStep
  <2>3. CASE HandleNothing
    BY <2>3, OthersViewed DEF ViewingStep
  <2> QED
    BY <1>1, <2>1, <2>2, <2>3 DEF HandleImagePath
<1>2. CASE FileSystemTreeViewActivated
  <2>1. tree \in Paths
    BY <1>2 DEF FileSystemTreeViewActivated, Paths, Files, IndInv
  <2> QED
    BY <1>1, <1>2, <2>1 DEF FileSystemTreeViewActivated
<1>3. CASE NextImageTriggered
  BY <1>3, NextViewed, NothingViewed DEF ViewingStep
<1>4. CASE PreviousImageTriggered
  BY <1>4, PreviousViewed, NothingViewed DEF ViewingStep
<1>5. CASE TreeMoved \/ StatusTipShown \/ FilesChange \/ ViewGoesOn
  BY <1>5, OthersViewed DEF ViewingStep
<1>6. CASE UNCHANGED vars
  BY <1>6 DEF vars, catalogVars, showVars, ViewingStep, viewedVars, Existing, ItemOf,
              Picture, Catalog!NamesIn
<1> QED
  BY <1>1, <1>2, <1>3, <1>4, <1>5, <1>6 DEF Next, OpenFileRequested

LEMMA CommandsViewed ==
    ASSUME IndInv, IndInv' PROVE CommandsShow
<1>1. ASSUME NEW path \in Paths, HandleDir(path) PROVE View!OpenDir(path)
  BY <1>1, OpenDirViewed
<1>2. ASSUME NEW path \in Paths, HandleFile(path)
      PROVE  IF path \in Files THEN View!OpenFile(path.dir, path.name)
                               ELSE View!OpenDir(path.dir)
  <2>1. path \in [dir: Dirs, name: Names \cup Unlisted]
    BY <1>2 DEF HandleFile, Paths
  <2>2. path \in Files <=> path.name \in Names
    BY <2>1 DEF Files
  <2> QED
    BY <1>2, <2>1, <2>2, OpenFileViewed
<1> QED
  BY <1>1, <1>2, NextViewed, PreviousViewed, OthersViewed
     DEF CommandsShow, View!vars, viewedVars, Existing, ItemOf, Picture

\* End to end, the window does what Viewing promises: the file a command goes
\* to is the picture, if it is there and is one, and nothing else changes it.
THEOREM ViewerImplementsViewing == Spec => ImplementsViewing
<1>1. Init => View!Init
  <2> SUFFICES ASSUME Init PROVE View!Init
    OBVIOUS
  <2>1. IndInv
    BY InitEstablishesInv
  <2>2. disk \in [Dirs -> Listings]
    BY <2>1 DEF IndInv, CatalogInv, Catalog!TypeOK
  <2>3. Existing \in [Dirs -> SUBSET Names]
    BY <2>2, NamesOfListing DEF Existing
  <2>4. /\ catalog.items = <<>> /\ catalog.dir = NoFile /\ screen = NoFrame
    BY DEF Init, Catalog!Init, Show!Init
  <2>5. Catalog!NamesIn(catalog.items) = {}
    BY <2>4, NamesOfListing, ViewerAssumption DEF Catalog!CatalogAssumption
  <2> QED
    BY <2>3, <2>4, <2>5 DEF View!Init, View!Browse!Init, Existing
<1>2. IndInv /\ IndInv' /\ [Next]_vars => ViewingStep
  BY NextViewing
<1>3. IndInv /\ IndInv' /\ [Next]_vars => [CommandsShow]_vars
  BY CommandsViewed
<1> QED
  BY <1>1, <1>2, <1>3, ViewerInvariant, PTL
     DEF Spec, ImplementsViewing, View!Spec, View!vars, ViewingStep, viewedVars,
         Existing, ItemOf, Picture

=============================================================================
