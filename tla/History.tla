------------------------------- MODULE History -------------------------------
(***************************************************************************)
(* What "Remembers recent files" promises: the pictures opened last, newest *)
(* first, which an orderly end of the program keeps and a crash takes back  *)
(* to what the last orderly end had kept.                                   *)
(***************************************************************************)
EXTENDS Naturals, Sequences

CONSTANTS Paths,
          Limit     \* how many pictures are remembered

VARIABLES history,  \* the pictures in the menu, or in the menu of the next start
          kept      \* those that survive a crash

Init == history = <<>> /\ kept = <<>>

Newest(s) == SubSeq(s, 1, IF Len(s) < Limit THEN Len(s) ELSE Limit)

Remember(path) == history' = Newest(<<path>> \o history) /\ UNCHANGED kept
Clear          == history' = <<>> /\ UNCHANGED kept

\* The end of the program, with the setting to remember on and off.
Keep   == kept' = history /\ UNCHANGED history
Forget == kept' = <<>> /\ history' = <<>>

Lose == history' \in {kept, <<>>} /\ UNCHANGED kept

Next == (\E path \in Paths : Remember(path)) \/ Clear \/ Keep \/ Forget \/ Lose

Spec == Init /\ [][Next]_<<history, kept>>

=============================================================================
