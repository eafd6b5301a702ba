----------------------------- MODULE WindowMode -----------------------------
(***************************************************************************)
(* Full screen and the four bars of ui/MainWindow: tool bar, navigation,   *)
(* information and status bar.  The check mark of a bar's action says      *)
(* whether the bar is shown, every handler sets both; the check mark of    *)
(* the full screen action and the mode of the window may differ, because   *)
(* the window system changes the mode without telling the action.          *)
(***************************************************************************)
CONSTANT Bars

VARIABLES full,     \* isFullScreen(), the mode of the window
          checked,  \* whether the full screen action is checked
          shown,    \* the bars that are shown
          prior,    \* m_widgetVisibilityPriorFullscreen
          settings  \* what the settings say of start and full screen

vars == <<full, checked, shown, prior, settings>>

\* hideWindow, hideFull: the bars not shown after a start, in full screen.
Settings == [fullScreen : BOOLEAN, hideWindow : SUBSET Bars, hideFull : SUBSET Bars]

TypeOK ==
    /\ full \in BOOLEAN /\ checked \in BOOLEAN
    /\ shown \in SUBSET Bars /\ prior \in SUBSET Bars
    /\ settings \in Settings

\* The bars left in full screen.
WithoutHidden(bars) == bars \ settings.hideFull

-----------------------------------------------------------------------------
\* The constructor: the bars as the settings have them, then full screen.
BarsAtStart == Bars \ settings.hideWindow

ShownAtStart ==
    IF settings.fullScreen THEN WithoutHidden(BarsAtStart) ELSE BarsAtStart

PriorAtStart == IF settings.fullScreen THEN BarsAtStart ELSE {}

Init ==
    /\ settings \in Settings
    /\ full = settings.fullScreen /\ checked = settings.fullScreen
    /\ shown = ShownAtStart
    /\ prior = PriorAtStart

\* The program ends and starts again.
Restart ==
    /\ full' = settings.fullScreen /\ checked' = settings.fullScreen
    /\ shown' = ShownAtStart
    /\ prior' = PriorAtStart
    /\ UNCHANGED settings

\* A settings dialog is accepted: nothing of this is applied to the window.
SettingsAccepted ==
    /\ settings' \in Settings
    /\ UNCHANGED <<full, checked, shown, prior>>

\* A bar's own action, or the close button of a dock.
BarToggled(bar) ==
    /\ shown' = IF bar \in shown THEN shown \ {bar} ELSE shown \cup {bar}
    /\ UNCHANGED <<full, checked, prior, settings>>

\* A slip: trusting the check mark.
ActionSaysFull == checked

\* onFullScreenToggled asks the window for its mode, not the action.
IsFullScreen == full

LeaveFullScreen ==
    /\ IsFullScreen
    /\ full' = FALSE
    /\ shown' = prior
    /\ UNCHANGED prior

\* A slip: the bars are saved after the handler has hidden some of them.
EnterFullScreenHiding ==
    /\ ~IsFullScreen
    /\ full' = TRUE
    /\ prior' = WithoutHidden(shown)
    /\ shown' = WithoutHidden(shown)

EnterFullScreen ==
    /\ ~IsFullScreen
    /\ full' = TRUE
    /\ prior' = shown
    /\ shown' = WithoutHidden(shown)

FullScreenToggled ==
    /\ checked' = ~checked
    /\ LeaveFullScreen \/ EnterFullScreen
    /\ UNCHANGED settings

\* The window system enters or leaves full screen; no handler runs.
SystemSwitchesMode ==
    /\ full' = ~full
    /\ UNCHANGED <<checked, shown, prior, settings>>

Next ==
    \/ FullScreenToggled \/ SystemSwitchesMode
    \/ \E bar \in Bars : BarToggled(bar)
    \/ SettingsAccepted \/ Restart

Spec == Init /\ [][Next]_vars

-----------------------------------------------------------------------------
Modes == INSTANCE TwoModes WITH window <- IF full THEN prior ELSE shown

\* Each command does to the bars what its namesake of TwoModes does; only a
\* start may choose other ones.
CommandsSwitch ==
    /\ FullScreenToggled  => Modes!Enter \/ Modes!Leave
    /\ SystemSwitchesMode => Modes!SystemSwitches
    /\ \A bar \in Bars : BarToggled(bar) => Modes!Toggle(bar)

\* As long as the window system keeps out, leaving full screen gives the
\* bars the window had when it was entered, by the user or at the start,
\* whatever was shown and hidden meanwhile and whatever a settings dialog
\* changed (MainWindow.cpp:338-399).
ImplementsTwoModes == Modes!Spec /\ [][CommandsSwitch]_vars

=============================================================================
