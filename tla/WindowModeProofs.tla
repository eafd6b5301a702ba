-------------------------- MODULE WindowModeProofs --------------------------
(***************************************************************************)
(* WindowMode implements TwoModes, for any set of bars.                    *)
(*                                                                         *)
(* The mapping reads the bars of the window from shown in the window and   *)
(* from prior in full screen.  Type correctness is all the steps need.     *)
(***************************************************************************)
EXTENDS WindowMode, TLAPS

\* The state keeps its type: bars shown and remembered are bars of the window
\* (MainWindow.h:86-92).
THEOREM TypeCorrect == Spec => []TypeOK
<1>1. Init => TypeOK
  BY DEF Init, TypeOK, Settings, ShownAtStart, PriorAtStart, BarsAtStart,
         WithoutHidden
<1>2. ASSUME TypeOK, [Next]_vars PROVE TypeOK'
  <2>1. CASE FullScreenToggled
    BY <1>2, <2>1
       DEF TypeOK, FullScreenToggled, LeaveFullScreen, EnterFullScreen,
           WithoutHidden
  <2>2. CASE SystemSwitchesMode
    BY <1>2, <2>2 DEF TypeOK, SystemSwitchesMode
  <2>3. ASSUME NEW bar \in Bars, BarToggled(bar) PROVE TypeOK'
    BY <1>2, <2>3 DEF TypeOK, BarToggled
  <2>4. CASE SettingsAccepted
    BY <1>2, <2>4 DEF TypeOK, SettingsAccepted
  <2>5. CASE Restart
    BY <1>2, <2>5
       DEF TypeOK, Restart, Settings, ShownAtStart, PriorAtStart,
           BarsAtStart, WithoutHidden
  <2>6. CASE UNCHANGED vars
    BY <1>2, <2>6 DEF TypeOK, vars
  <2> QED
    BY <1>2, <2>1, <2>2, <2>3, <2>4, <2>5, <2>6 DEF Next
<1> QED
  BY <1>1, <1>2, PTL DEF Spec

-----------------------------------------------------------------------------
(* The refinement *)

LEMMA StartRefines ==
    ASSUME settings \in Settings
    PROVE  Modes!Started(settings.fullScreen, ShownAtStart,
               IF settings.fullScreen THEN PriorAtStart ELSE ShownAtStart)
BY DEF Settings, ShownAtStart, PriorAtStart, BarsAtStart, WithoutHidden,
       Modes!Started

LEMMA InitRefines ==
    ASSUME Init PROVE Modes!Init
BY StartRefines DEF Init, Modes!Init

LEMMA CommandsRefine ==
    ASSUME TypeOK PROVE CommandsSwitch
<1>1. ASSUME FullScreenToggled PROVE Modes!Enter \/ Modes!Leave
  <2>1. CASE LeaveFullScreen
    BY <2>1 DEF LeaveFullScreen, IsFullScreen, TypeOK, Modes!Leave
  <2>2. CASE EnterFullScreen
    BY <2>2 DEF EnterFullScreen, IsFullScreen, WithoutHidden, TypeOK, Modes!Enter
  <2> QED
    BY <1>1, <2>1, <2>2 DEF FullScreenToggled
<1>2. ASSUME SystemSwitchesMode PROVE Modes!SystemSwitches
  BY <1>2 DEF SystemSwitchesMode, TypeOK, Modes!SystemSwitches
<1>3. ASSUME NEW bar \in Bars, BarToggled(bar) PROVE Modes!Toggle(bar)
  BY <1>3 DEF BarToggled, TypeOK, Modes!Toggle
<1> QED
  BY <1>1, <1>2, <1>3 DEF CommandsSwitch

LEMMA StepRefines ==
    ASSUME TypeOK, [Next]_vars PROVE [Modes!Next]_(Modes!vars)
<1>1. CASE FullScreenToggled
  BY <1>1, CommandsRefine DEF CommandsSwitch, Modes!Next
<1>2. CASE SystemSwitchesMode
  BY <1>2, CommandsRefine DEF CommandsSwitch, Modes!Next
<1>3. ASSUME NEW bar \in Bars, BarToggled(bar) PROVE Modes!Next
  BY <1>3, CommandsRefine DEF CommandsSwitch, Modes!Next
<1>4. CASE SettingsAccepted
  BY <1>4 DEF SettingsAccepted, Modes!vars
<1>5. CASE Restart
  <2>1. Modes!Restart
    BY <1>5, StartRefines DEF Restart, TypeOK, Modes!Restart
  <2> QED
    BY <2>1 DEF Modes!Next
<1>6. CASE UNCHANGED vars
  BY <1>6 DEF vars, Modes!vars
<1> QED
  BY <1>1, <1>2, <1>3, <1>4, <1>5, <1>6 DEF Next

\* What is done to the bars in full screen never reaches the window: leaving
\* gives what was there on entering (MainWindow.cpp:338-399).
THEOREM WindowModeImplementsTwoModes == Spec => ImplementsTwoModes
<1>1. Spec => Modes!Init
  BY InitRefines DEF Spec
<1>2. TypeOK /\ [Next]_vars => [Modes!Next]_(Modes!vars)
  BY StepRefines
<1>3. TypeOK => [CommandsSwitch]_vars
  BY CommandsRefine
<1> QED
  BY <1>1, <1>2, <1>3, TypeCorrect, PTL DEF Spec, ImplementsTwoModes, Modes!Spec

=============================================================================
