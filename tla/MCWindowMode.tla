---------------------------- MODULE MCWindowMode ----------------------------
(* WindowMode with three bars, which no handler tells apart.               *)
EXTENDS WindowMode, TLC

CONSTANTS toolBar, navigation, statusBar

BarSymmetry == Permutations({toolBar, navigation, statusBar})

=============================================================================
