------------------------------ MODULE Browsing ------------------------------
(***************************************************************************)
(* What the user is promised of opening a file and going to the next and   *)
(* the previous one: the files that the directory had when it was opened,  *)
(* in the order of their names and around the ends.                        *)
(***************************************************************************)
EXTENDS NameOrder

CONSTANTS Names,    \* file names, as numbers in the order of the names
          Nothing   \* no file

VARIABLES files,    \* the files of the open directory
          at        \* the file browsing has reached

Init == files = {} /\ at = Nothing

\* A file that is listed is where browsing starts; a directory and a file that
\* is not listed start at the first one.
Open == /\ files' \in SUBSET Names
        /\ at' \in (IF files' = {} THEN {Nothing} ELSE files')

Next     == files # {} /\ at' = Successor(files, at) /\ UNCHANGED files
Previous == files # {} /\ at' = Predecessor(files, at) /\ UNCHANGED files

Spec == Init /\ [][Open \/ Next \/ Previous]_<<files, at>>

=============================================================================
