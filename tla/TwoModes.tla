------------------------------ MODULE TwoModes ------------------------------
(***************************************************************************)
(* What the two modes of the main window promise: the bars the user has in *)
(* the window are not touched by anything that is done in full screen.     *)
(***************************************************************************)
CONSTANT Bars

VARIABLES full,   \* whether the window fills the screen
          shown,  \* the bars to be seen
          window  \* the bars of the window, which leaving full screen gives

vars == <<full, shown, window>>

\* A start has the bars of the window, some of them hidden in full screen.
Started(mode, bars, own) ==
    /\ mode \in BOOLEAN
    /\ own \in SUBSET Bars
    /\ bars \in SUBSET own
    /\ ~mode => bars = own

Init == Started(full, shown, window)

Restart == Started(full', shown', window')

\* Showing or hiding a bar counts for the window only when done in it.
Toggle(bar) ==
    /\ shown' = IF bar \in shown THEN shown \ {bar} ELSE shown \cup {bar}
    /\ window' = IF full THEN window ELSE shown'
    /\ UNCHANGED full

Enter ==
    /\ ~full /\ full'
    /\ shown' \in SUBSET shown
    /\ UNCHANGED window

Leave ==
    /\ full /\ ~full'
    /\ shown' = window
    /\ UNCHANGED window

\* The window system changes the mode behind the program's back.  What is
\* seen stays; nothing is promised of the bars a later leaving gives.
SystemSwitches ==
    /\ full' = ~full
    /\ UNCHANGED shown
    /\ window' \in SUBSET Bars
    /\ ~full' => window' = shown

Next ==
    \/ Restart \/ Enter \/ Leave \/ SystemSwitches
    \/ \E bar \in Bars : Toggle(bar)

Spec == Init /\ [][Next]_vars

=============================================================================
