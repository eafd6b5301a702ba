------------------------------- MODULE Viewing -------------------------------
(***************************************************************************)
(* What the user of the viewer is promised, end to end: a command goes to  *)
(* a file, as Browsing has it, and the picture that is seen is that file   *)
(* if it is there and is a picture; if not, the one seen before stays.     *)
(* Nothing else changes the picture: no timer of an earlier animation, no  *)
(* metadata that comes late, no file that comes or goes on the disk.       *)
(***************************************************************************)
EXTENDS NameOrder

CONSTANTS Dirs, Names,
          Pictures,   \* the files that can be decoded
          Nothing     \* no directory, no file, no picture

VARIABLES existing,   \* the names in each directory of the disk
          dir, files, \* the directory that was opened, its names at that time
          at,         \* the name browsing has reached
          picture     \* the file that is seen

vars == <<existing, dir, files, at, picture>>

Browse == INSTANCE Browsing

Init ==
    /\ existing \in [Dirs -> SUBSET Names]
    /\ dir = Nothing /\ picture = Nothing
    /\ Browse!Init

\* What the file reached means for the picture.
Reached ==
    LET file == [dir |-> dir', name |-> at']
    IN  /\ picture' = IF /\ files' # {} /\ at' \in existing[dir']
                         /\ file \in Pictures
                      THEN file ELSE picture
        /\ UNCHANGED existing

OpenDir(d) ==
    /\ dir' = d /\ files' = existing[d]
    /\ at' = IF files' = {} THEN Nothing ELSE First(files')
    /\ Reached

OpenFile(d, name) ==
    /\ dir' = d /\ files' = existing[d]
    /\ name \in files' /\ at' = name
    /\ Reached

Next     == Browse!Next /\ UNCHANGED dir /\ Reached
Previous == Browse!Previous /\ UNCHANGED dir /\ Reached

FilesChange ==
    /\ existing' \in [Dirs -> SUBSET Names]
    /\ UNCHANGED <<dir, files, at, picture>>

Spec ==
    Init /\ [][\/ \E d \in Dirs : OpenDir(d)
               \/ \E d \in Dirs, name \in Names : OpenFile(d, name)
               \/ Next \/ Previous \/ FilesChange]_vars

=============================================================================
