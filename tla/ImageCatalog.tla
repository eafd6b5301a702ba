---------------------------- MODULE ImageCatalog ----------------------------
(***************************************************************************)
(* Walking the files of a directory: model/ImageCatalog together with the  *)
(* handlers of ui/MainWindow that open a path and go to the next and the   *)
(* previous file, while files come and go on the disk.  A catalog is read  *)
(* once, when a path is opened, and is not told of the changes.            *)
(***************************************************************************)
EXTENDS RotatingIndex, Sequences

CONSTANTS Dirs,      \* directories
          Names,     \* names of files that the filter lists, as numbers in
                     \* the order in which the catalog sorts them
          Listings,  \* sorted lists of such names that a directory can have
          Unlisted,  \* names of existing files that the filter does not list
          NoFile     \* the empty path

ASSUME CatalogAssumption ==
    /\ Names \subseteq Nat
    /\ \A s \in Listings : /\ s \in Seq(Names)
                           /\ \A i, j \in 1..Len(s) : i < j => s[i] < s[j]
    /\ <<>> \in Listings
    /\ Unlisted \cap Names = {}
    /\ NoFile \notin Names /\ NoFile \notin [dir: Dirs, name: Names]

VARIABLES disk,      \* what entryList and sort return for each directory
          catalog,   \* m_catalog
          shown      \* the path that was last handed to showImage

vars == <<disk, catalog, shown>>

Files == [dir: Dirs, name: Names]

NamesIn(listing) == {listing[i] : i \in 1..Len(listing)}

Catalogs == [dir: Dirs \cup {NoFile}, items: Listings, index: RotatingIndices]

TypeOK ==
    /\ disk \in [Dirs -> Listings]
    /\ catalog \in Catalogs
    /\ shown \in Files \cup {NoFile}

-----------------------------------------------------------------------------
(* ImageCatalog *)

\* Reading a directory with reset in the place of set.
InitializeDirKeepingRing(c, dir) ==
    [dir |-> dir, items |-> disk[dir], index |-> [c.index EXCEPT !.index = 0]]

\* initialize(QDir).  The index stays what it was when there is no file.
InitializeDir(c, dir) ==
    [dir |-> dir, items |-> disk[dir],
     index |-> SetIndex(c.index, 0, Len(disk[dir]))]

\* A loop that advances the index before it compares the names.
StepsPast(name, items) ==
    IF name \in NamesIn(items)
    THEN CHOOSE i \in 1..Len(items) : items[i] = name
    ELSE Len(items)

\* How often the loop of initialize(QFile) advances the index: up to the file,
\* or all the way around when the file is not listed.
StepsTo(name, items) ==
    IF name \in NamesIn(items)
    THEN (CHOOSE i \in 1..Len(items) : items[i] = name) - 1
    ELSE Len(items)

\* initialize(QFile)
InitializeFile(c, dir, name) ==
    LET opened == InitializeDir(c, dir)
    IN  [opened EXCEPT !.index = Advance(@, StepsTo(name, opened.items))]

\* getCatalogItem.  A file that is gone has no canonical path.
CatalogItem(c) ==
    IF c.items # <<>> /\ c.items[c.index.index + 1] \in NamesIn(disk[c.dir])
    THEN [dir |-> c.dir, name |-> c.items[c.index.index + 1]]
    ELSE NoFile

-----------------------------------------------------------------------------
Init ==
    /\ disk \in [Dirs -> Listings]
    /\ catalog = [dir |-> NoFile, items |-> <<>>, index |-> Rotating(0, 1)]
    /\ shown = NoFile

\* The handlers end in showImage of the file that the catalog has reached.
Show(c) == catalog' = c /\ shown' = CatalogItem(c) /\ UNCHANGED disk

\* handleImagePath with the path of a directory.
OpenDir(dir) == Show(InitializeDir(catalog, dir))

\* handleImagePath with the path of a file, which exists.
OpenFile(dir, name) ==
    /\ name \in NamesIn(disk[dir]) \cup Unlisted
    /\ Show(InitializeFile(catalog, dir, name))

NextImageTriggered     == Show([catalog EXCEPT !.index = Increment(@)])
PreviousImageTriggered == Show([catalog EXCEPT !.index = Decrement(@)])

\* Other programs add and remove files.
FilesChange(dir, listing) ==
    /\ disk' = [disk EXCEPT ![dir] = listing]
    /\ UNCHANGED <<catalog, shown>>

Next ==
    \/ \E dir \in Dirs : OpenDir(dir)
    \/ \E dir \in Dirs, name \in Names \cup Unlisted : OpenFile(dir, name)
    \/ NextImageTriggered
    \/ PreviousImageTriggered
    \/ \E dir \in Dirs, listing \in Listings : FilesChange(dir, listing)

Spec == Init /\ [][Next]_vars

-----------------------------------------------------------------------------
(* Properties *)

\* getCatalogItem never reaches past the list: the ring of the index is as
\* long as the list, although an empty directory leaves it the ring of the
\* directory before, and the commands go on turning that one.
IndexInRange ==
    catalog.items # <<>> => catalog.index.max = Len(catalog.items)

\* Opening a listed file shows that file and no other one of its directory,
\* whatever was open before and however often files came and went.
OpenedFileIsShown ==
    [][\A dir \in Dirs, name \in Names :
           OpenFile(dir, name) => shown' = [dir |-> dir, name |-> name]]_vars

\* Where browsing has got to: the list and the file the index points at.
Browse == INSTANCE Browsing
    WITH Nothing <- NoFile,
         files <- NamesIn(catalog.items),
         at <- IF catalog.items = <<>> THEN NoFile
               ELSE catalog.items[catalog.index.index + 1]

\* Every command does to the list what its namesake of Browsing does: next and
\* previous go through the whole directory in the order of the names and around
\* its ends, each in its direction, over files that are gone as well.
CommandsBrowse ==
    /\ NextImageTriggered     => Browse!Next     \/ NamesIn(catalog.items) = {}
    /\ PreviousImageTriggered => Browse!Previous \/ NamesIn(catalog.items) = {}

\* The catalog implements Browsing, command by command.
ImplementsBrowsing == Browse!Spec /\ [][CommandsBrowse]_vars

=============================================================================
