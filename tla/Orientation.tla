----------------------------- MODULE Orientation -----------------------------
(***************************************************************************)
(* What the user is promised of the rotate and flip commands, whatever the *)
(* transformation pipeline does inside: view[c] is the corner of the       *)
(* picture that is seen at corner c of the screen, and every command moves *)
(* the corners that are on the screen at that moment.  Scaling moves none, *)
(* with one exception: Ctrl+wheel can take the picture through nothing and *)
(* out on the other side, turned over by a half turn, and any scaling can  *)
(* bring it back.                                                          *)
(***************************************************************************)
EXTENDS Integers

VARIABLES view,
          over   \* whether the wheel has turned the picture over

vars == <<view, over>>

\* The corners clockwise: 0 top left, 1 top right, 2 bottom right, 3 bottom left.
Corners == 0..3

Upright == [c \in Corners |-> c]

Init == view = Upright /\ over = FALSE

TurnRight == view' = [c \in Corners |-> view[(c + 3) % 4]] /\ UNCHANGED over
TurnLeft  == view' = [c \in Corners |-> view[(c + 1) % 4]] /\ UNCHANGED over

\* Flipping horizontally turns the picture about the horizontal axis.
FlipHorizontally == view' = [c \in Corners |-> view[3 - c]] /\ UNCHANGED over
FlipVertically   == view' = [c \in Corners |-> view[(5 - c) % 4]] /\ UNCHANGED over

\* Another picture starts upright.
Open == view' = Upright /\ over' = FALSE

TurnedOver == view' = [c \in Corners |-> view[(c + 2) % 4]]

\* A scaling of the picture.
Zoom ==
    \/ UNCHANGED vars
    \/ over /\ over' = FALSE /\ TurnedOver

\* A scaling by Ctrl+wheel.
Wheel ==
    \/ Zoom
    \/ ~over /\ over' = TRUE /\ TurnedOver

Next ==
    \/ TurnRight \/ TurnLeft \/ FlipHorizontally \/ FlipVertically
    \/ Open \/ Zoom \/ Wheel

Spec == Init /\ [][Next]_vars

=============================================================================
