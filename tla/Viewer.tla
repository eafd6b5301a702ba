------------------------------- MODULE Viewer -------------------------------
(***************************************************************************)
(* The main window's handlers between its parts: a command moves the       *)
(* catalog, hands the file it reaches to the view, and lets the navigation *)
(* tree and the message of the status bar follow, all in one step of the   *)
(* GUI thread.  The steps of the catalog and of the view are those of      *)
(* ImageCatalog and ImageShow.  The list of recent files, which has no     *)
(* part in this, is in RecentFiles.                                        *)
(***************************************************************************)
EXTENDS Integers, Sequences, ByteSize

CONSTANTS Dirs, Names, Listings, Unlisted, NoFile,          \* of the catalog
          NoFrame, Readable, Decodable, Frames, Delayed,    \* of the view
          ShowBound,
          FileSize                                          \* bytes of each file

Files == [dir: Dirs, name: Names]

VARIABLES disk, catalog, shown,
          loader, original, screen, dimensions, information, extractions,
          timers, shows,
          message,  \* the file that the message of the status bar names
          tree      \* the file whose node the navigation tree was set to;
                    \* none once the user has moved to a node

catalogVars == <<disk, catalog, shown>>
showVars    == <<loader, original, screen, dimensions, information,
                 extractions, timers, shows>>
panelVars   == <<message, tree>>
vars        == <<catalogVars, showVars, panelVars>>

Catalog == INSTANCE ImageCatalog
Show    == INSTANCE ImageShow

\* What the parts assume, and that each file has a size with a unit.
ASSUME ViewerAssumption ==
    /\ Catalog!CatalogAssumption
    /\ Show!ShowAssumption
    /\ FileSize \in [Files -> Sizes]

\* What can be opened by its path: a directory, a file, listed or not.
Paths == Dirs \cup [dir: Dirs, name: Names \cup Unlisted]

TypeOK ==
    /\ Catalog!TypeOK /\ Show!TypeOK
    /\ {message, tree} \subseteq Files \cup {NoFile}

Init ==
    /\ Catalog!Init /\ Show!Init
    /\ message = NoFile /\ tree = NoFile

\* onImageSizeChanged: the label that is set, and cleared, with the dimensions.
SizeLabel == HumanReadable(FileSize[dimensions])

-----------------------------------------------------------------------------
\* A message that is only set where there is none.
RegisterFirst(file, before) ==
    /\ message' = IF before = NoFile THEN file ELSE before
    /\ tree' = IF file = NoFile THEN tree ELSE file

\* registerProcessedImage.  The empty path leaves everything as it was.
RegisterProcessedImage(file, before) ==
    /\ message' = IF file = NoFile THEN before ELSE file
    /\ tree' = IF file = NoFile THEN tree ELSE file

\* Handing over the file of the catalog that was current before.
ShowImageBefore(clears) ==
    /\ RegisterProcessedImage(shown', IF clears THEN NoFile ELSE message)
    /\ \/ Show!ShowUnreadable(shown, clears)
       \/ Show!ShowUndecodable(shown, clears)
       \/ Show!ShowImage(shown)

\* Handing the file that the catalog has reached to the view.  Only
\* handleImagePath clears the status bar first.
ShowImage(clears) ==
    /\ RegisterProcessedImage(shown', IF clears THEN NoFile ELSE message)
    /\ \/ Show!ShowUnreadable(shown', clears)
       \/ Show!ShowUndecodable(shown', clears)
       \/ Show!ShowImage(shown')

\* handleImagePath of a directory and of a file that exist.
HandleDir(path) ==
    /\ path \in Dirs
    /\ Catalog!OpenDir(path)
    /\ ShowImage(TRUE)

HandleFile(path) ==
    /\ path \notin Dirs
    /\ Catalog!OpenFile(path.dir, path.name)
    /\ ShowImage(TRUE)

\* handleImagePath of a path that is not there or must not be read: DONT_EXIST
\* and NOT_READABLE, which no caller looks at.
HandleNothing ==
    /\ Show!HandleMissingPath
    /\ message' = NoFile
    /\ UNCHANGED <<catalogVars, tree>>

HandleImagePath(path) == HandleDir(path) \/ HandleFile(path) \/ HandleNothing

\* The path of the command line, of a FileOpen event of the system, of a recent
\* file or of a node the user has moved to: it may have gone, and need not be
\* in the tree.
OpenFileRequested == \E path \in Paths : HandleImagePath(path)

\* Enter in the tree where the program has left it.
FileSystemTreeViewActivated == tree # NoFile /\ HandleImagePath(tree)

NextImageTriggered     == Catalog!NextImageTriggered /\ ShowImage(FALSE)
PreviousImageTriggered == Catalog!PreviousImageTriggered /\ ShowImage(FALSE)

\* The arrow keys and the mouse in the tree, the buttons of the home, documents
\* and pictures directories, and the removal of a node that was current.
TreeMoved ==
    /\ tree' = NoFile
    /\ UNCHANGED <<catalogVars, showVars, message>>

\* A menu that is opened shows its status tips in the place of the message and
\* leaves no message behind.
StatusTipShown ==
    /\ message' = NoFile
    /\ UNCHANGED <<catalogVars, showVars, tree>>

\* What goes on without a command.
FilesChange ==
    /\ \E dir \in Dirs, listing \in Listings : Catalog!FilesChange(dir, listing)
    /\ UNCHANGED <<showVars, panelVars>>

ViewGoesOn ==
    /\ Show!OnNextImage \/ \E f \in Files : Show!ExtractionFinished(f)
    /\ UNCHANGED <<catalogVars, panelVars>>

Next ==
    \/ OpenFileRequested \/ FileSystemTreeViewActivated
    \/ NextImageTriggered \/ PreviousImageTriggered
    \/ TreeMoved \/ StatusTipShown \/ FilesChange \/ ViewGoesOn

Spec == Init /\ [][Next]_vars

-----------------------------------------------------------------------------
(* Properties *)

\* Once a file is reached that can be decoded, it is the one on the screen and
\* the one that commands work on, whatever failed before, and it stays so
\* through the timers and metadata of earlier files.
PictureAtHand ==
    shown \in Decodable =>
        screen # NoFrame /\ screen.file = shown /\ original = screen

\* A message that names a picture names the one that is seen, and so does the
\* node that the program has left the tree at, also when the files reached
\* after it had gone from the disk (MainWindow.cpp:190, 221-222).
PanelsAtPicture ==
    \A file \in {message, tree} \cap Decodable :
        screen # NoFrame /\ screen.file = file

\* A size in the status bar is that of the picture on the screen, rounded up
\* by less than a tenth of its unit (ByteSize.cpp:19-26).
SizeOfPicture ==
    dimensions # NoFile =>
        LET tenths == 10 * FileSize[screen.file]
            shownTenths == SizeLabel.tenths * Scale[SizeLabel.unit]
        IN  tenths <= shownTenths /\ shownTenths < tenths + Scale[SizeLabel.unit]

View == INSTANCE Viewing
    WITH Pictures <- Decodable, Nothing <- NoFile,
         existing <- [d \in Dirs |-> Catalog!NamesIn(disk[d])],
         dir <- catalog.dir,
         files <- Catalog!NamesIn(catalog.items),
         at <- IF catalog.items = <<>> THEN NoFile
               ELSE catalog.items[catalog.index.index + 1],
         picture <- IF screen = NoFrame THEN NoFile ELSE screen.file

\* The commands do to the picture what their names say, and nothing else does.
\* Browsing needs a file, and a file that is not listed stands for its
\* directory.
CommandsShow ==
    /\ \A path \in Paths :
           /\ HandleDir(path) => View!OpenDir(path)
           /\ HandleFile(path) => IF path \in Files
                                  THEN View!OpenFile(path.dir, path.name)
                                  ELSE View!OpenDir(path.dir)
    /\ NextImageTriggered     => View!Next \/ catalog.items = <<>>
    /\ PreviousImageTriggered => View!Previous \/ catalog.items = <<>>
    /\ FilesChange => View!FilesChange
    /\ HandleNothing \/ ViewGoesOn => UNCHANGED View!vars

\* Catalog, loader, view and timers together implement Viewing.
ImplementsViewing == View!Spec /\ [][CommandsShow]_vars

=============================================================================
