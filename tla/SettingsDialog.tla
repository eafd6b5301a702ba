--------------------------- MODULE SettingsDialog ---------------------------
(***************************************************************************)
(* The settings dialog of ui/SettingsDialog on the settings store of       *)
(* ui/support/Settings.  Options are read where they are needed; shortcuts *)
(* live in the menu's actions, and the dialog changes them there while     *)
(* they are being edited.  The program may crash and start again.          *)
(***************************************************************************)
CONSTANTS Actions,   \* actions of the menus that have a shortcut
          Looks,     \* the options that the picture on view is painted with
          Others,    \* the other options of the dialog
          Values,    \* values of an option, key sequences of a shortcut
          Unset,     \* a key that the user settings do not have
          Default    \* the default settings, [Keys -> Values]

Options == Looks \cup Others
Keys    == Options \cup Actions

ASSUME SettingsAssumption ==
    /\ Options \cap Actions = {} /\ Looks \cap Others = {}
    /\ Default \in [Keys -> Values]
    /\ Unset \notin Values

VARIABLES user,      \* the user settings
          shortcuts, \* the shortcuts in effect
          look,      \* the options the picture on view is painted with
          open,      \* whether the dialog is open
          fields     \* what the dialog has for each key

vars == <<user, shortcuts, look, open, fields>>

TypeOK ==
    /\ user \in [Keys -> Values \cup {Unset}]
    /\ shortcuts \in [Actions -> Values]
    /\ look \in [Looks -> Values]
    /\ open \in BOOLEAN
    /\ fields \in [Keys -> Values]

\* Reading the user settings alone.
StoredByUser(settings, key) == settings[key]

\* QSettings::value of the user settings, which fall back to the defaults.
Stored(settings, key) ==
    IF settings[key] = Unset THEN Default[key] ELSE settings[key]

StoredFor(settings, keys) == [k \in keys |-> Stored(settings, k)]

-----------------------------------------------------------------------------
\* The start of the program: initializeSettings gives the actions their
\* shortcuts, the main window hands the colours to the view.
Init ==
    /\ user \in [Keys -> Values \cup {Unset}]
    /\ shortcuts = StoredFor(user, Actions)
    /\ look = StoredFor(user, Looks)
    /\ open = FALSE
    /\ fields = Default

\* initializeUI and populateShortcuts: the options are read from the settings,
\* the shortcuts from the actions.
SettingsTriggered ==
    /\ ~open
    /\ open' = TRUE
    /\ fields' = [k \in Keys |-> IF k \in Actions THEN shortcuts[k]
                                                 ELSE Stored(user, k)]
    /\ UNCHANGED <<user, shortcuts, look>>

EditOption(key, value) ==
    /\ open
    /\ fields' = [fields EXCEPT ![key] = value]
    /\ UNCHANGED <<user, shortcuts, look, open>>

\* onKeySequenceChanged of the shortcut's item.
EditShortcut(action, value) ==
    /\ open
    /\ fields' = [fields EXCEPT ![action] = value]
    /\ shortcuts' = [shortcuts EXCEPT ![action] = value]
    /\ UNCHANGED <<user, look, open>>

\* The default shortcuts are shown without going through the items.
ShowDefaults ==
    /\ open
    /\ fields' = Default
    /\ UNCHANGED <<user, shortcuts, look, open>>

RestoreDefaultsTriggered ==
    /\ open
    /\ fields' = Default
    /\ shortcuts' = [a \in Actions |-> Default[a]]
    /\ UNCHANGED <<user, look, open>>

\* Accepting without writing the shortcuts.
AcceptOptions ==
    /\ open
    /\ open' = FALSE
    /\ user' = [k \in Keys |-> IF k \in Actions THEN user[k] ELSE fields[k]]
    /\ look' = [k \in Looks |-> Stored(user', k)]
    /\ UNCHANGED <<shortcuts, fields>>

\* Accepting without handing the options on to the view.
AcceptQuietly ==
    /\ open
    /\ open' = FALSE
    /\ user' = fields
    /\ UNCHANGED <<shortcuts, look, fields>>

\* onAccept, and what onSettingsTriggered does after it.
Accept ==
    /\ open
    /\ open' = FALSE
    /\ user' = fields
    /\ look' = StoredFor(user', Looks)
    /\ UNCHANGED <<shortcuts, fields>>

\* The button Cancel: onRejected.
Rejected ==
    /\ open
    /\ open' = FALSE
    /\ shortcuts' = StoredFor(user, Actions)
    /\ UNCHANGED <<user, look, fields>>

\* The key Esc and the close button of the window: QDialog::reject itself.
Escape ==
    /\ open
    /\ open' = FALSE
    /\ UNCHANGED <<user, shortcuts, look, fields>>

\* The program ends, with or without an open dialog, and is started again.
Restart ==
    /\ open' = FALSE
    /\ shortcuts' = StoredFor(user, Actions)
    /\ look' = StoredFor(user, Looks)
    /\ UNCHANGED <<user, fields>>

Next ==
    \/ SettingsTriggered
    \/ \E key \in Options, value \in Values : EditOption(key, value)
    \/ \E action \in Actions, value \in Values : EditShortcut(action, value)
    \/ RestoreDefaultsTriggered
    \/ Accept
    \/ Rejected
    \/ Escape
    \/ Restart

Spec == Init /\ [][Next]_vars

-----------------------------------------------------------------------------
(* Properties *)

\* The dialog never shows a shortcut other than the one in effect, whichever
\* way the last dialog was closed and through restoring the defaults.
DialogShowsShortcuts == open => \A a \in Actions : fields[a] = shortcuts[a]

\* The picture is painted with the options that are stored, and with none that
\* a dialog has merely been shown.
LookIsStored == look = StoredFor(user, Looks)

\* The dialog can be left by its buttons without a difference between the
\* shortcuts in effect and the stored ones, those that an earlier dialog has
\* left behind included: the next start changes nothing.
ButtonsSettleShortcuts ==
    [][Accept \/ Rejected => shortcuts' = StoredFor(user', Actions)]_vars

\* However the dialog was closed, the shortcuts in effect are the stored ones.
ShortcutsAreStored == ~open => shortcuts = StoredFor(user, Actions)

=============================================================================
