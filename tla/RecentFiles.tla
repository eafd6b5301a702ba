----------------------------- MODULE RecentFiles -----------------------------
(***************************************************************************)
(* The menu of recent files in ui/MainWindow: filled by every picture that *)
(* is opened or browsed to, written to the settings when the program ends, *)
(* read back when it starts.  The program may crash at any time.           *)
(***************************************************************************)
EXTENDS Naturals, Sequences, SequencesExt

CONSTANTS Paths,         \* paths of pictures
          NoFile,        \* the empty path
          FixedActions,  \* actions of the menu before the files: 2
          MaxActions,    \* maxRecentFiles, the actions that may be there: 7
          KeyCount       \* keys of the settings for recent files: 5

ASSUME RecentAssumption ==
    /\ NoFile \notin Paths
    /\ FixedActions = 2
    /\ KeyCount \in Nat \ {0}
    /\ MaxActions = FixedActions + KeyCount

VARIABLES running,   \* whether the program runs
          remember,  \* the setting viv/image/remember/recent
          menu,      \* the files of menuRecentFiles
          saved      \* the settings viv/recent/file/1 and so on

vars == <<running, remember, menu, saved>>

Keys == 1..KeyCount

TypeOK ==
    /\ {running, remember} \subseteq BOOLEAN
    /\ menu \in BoundedSeq(Paths, KeyCount)
    /\ saved \in [Keys -> Paths \cup {NoFile}]

-----------------------------------------------------------------------------
\* Registering a file without the limit.
RegisteredUnlimited(path) == <<path>> \o menu

\* registerProcessedImage: the file goes behind the fixed actions, and the one
\* that is one too many goes.
Registered(path) ==
    LET files == <<path>> \o menu
    IN  IF FixedActions + Len(files) > MaxActions
        THEN RemoveAt(files, MaxActions - FixedActions + 1)
        ELSE files

\* getRecentFile, which counts from 1 and the actions of the menu from 0.
GetRecentFile(item) ==
    LET index == item + 1
    IN  IF FixedActions < FixedActions + Len(menu) /\ index < FixedActions + Len(menu)
        THEN menu[index - FixedActions + 1]
        ELSE NoFile

\* The file of a key goes in front of those read before it; an empty key has none.
PutInFront(file, files) == IF file = NoFile THEN files ELSE <<file>> \o files

\* Reading the keys from the first to the last.
RestoredFromFirst ==
    LET files[n \in 0..KeyCount] ==
            IF n = 0 THEN <<>> ELSE PutInFront(saved[n], files[n - 1])
    IN  files[KeyCount]

\* restoreRecentFiles: the files after n keys have been read, from the last key
\* to the first.
Restored ==
    LET files[n \in 0..KeyCount] ==
            IF n = 0 THEN <<>> ELSE PutInFront(saved[KeyCount + 1 - n], files[n - 1])
    IN  files[KeyCount]

-----------------------------------------------------------------------------
\* A first start, with the default settings.
Init ==
    /\ running = TRUE
    /\ remember = TRUE
    /\ menu = <<>>
    /\ saved = [k \in Keys |-> NoFile]

\* A picture is shown that was opened by its path or browsed to.  Choosing one
\* of the recent files registers nothing.
RegisterProcessedImage(path) ==
    /\ running
    /\ menu' = Registered(path)
    /\ UNCHANGED <<running, remember, saved>>

ClearHistory ==
    /\ running
    /\ menu' = <<>>
    /\ UNCHANGED <<running, remember, saved>>

\* The settings dialog writes the setting, and nothing else happens.
RememberToggled ==
    /\ running
    /\ remember' = ~remember
    /\ UNCHANGED <<running, menu, saved>>

\* onAboutToQuit and the end of the program.
AboutToQuit ==
    /\ running
    /\ running' = FALSE
    /\ saved' = [k \in Keys |-> IF remember THEN GetRecentFile(k) ELSE NoFile]
    /\ menu' = <<>>
    /\ UNCHANGED remember

Crash ==
    /\ running
    /\ running' = FALSE
    /\ menu' = <<>>
    /\ UNCHANGED <<remember, saved>>

Start ==
    /\ ~running
    /\ running' = TRUE
    /\ menu' = IF remember THEN Restored ELSE <<>>
    /\ UNCHANGED <<remember, saved>>

Next ==
    \/ \E path \in Paths : RegisterProcessedImage(path)
    \/ ClearHistory
    \/ RememberToggled
    \/ AboutToQuit
    \/ Crash
    \/ Start

Spec == Init /\ [][Next]_vars

-----------------------------------------------------------------------------
(* Properties *)

\* The files that are in the keys, in the order of the keys: a sequence, if none
\* of the keys before a file is empty.
Kept == [k \in {i \in Keys : saved[i] # NoFile} |-> saved[k]]

\* The menu, or the one that the next start will have.
MenuOrNext == IF running THEN menu ELSE IF remember THEN Kept ELSE <<>>

Memory == INSTANCE History
    WITH Limit <- KeyCount, history <- MenuOrNext, kept <- Kept

\* The steps of the program do to the history what their names say; starting
\* the program changes nothing: the menu is the one the last end has left, in
\* the same order, although it is written and read back key by key.
CommandsRemember ==
    /\ \A path \in Paths : RegisterProcessedImage(path) => Memory!Remember(path)
    /\ ClearHistory => Memory!Clear
    /\ AboutToQuit => IF remember THEN Memory!Keep ELSE Memory!Forget
    /\ Crash => Memory!Lose
    /\ Start \/ RememberToggled => UNCHANGED <<MenuOrNext, Kept>>

\* The menu and the settings implement History, step by step.
ImplementsHistory == Memory!Spec /\ [][CommandsRemember]_vars

=============================================================================
