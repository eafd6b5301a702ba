------------------------ MODULE SettingsDialogProofs ------------------------
(***************************************************************************)
(* Theorems about SettingsDialog, for any actions, options and values.     *)
(*                                                                         *)
(* IndInv is the type and two of the properties; that the buttons settle   *)
(* the shortcuts follows from the dialog showing those in effect, since    *)
(* accepting stores what is shown.                                         *)
(***************************************************************************)
EXTENDS SettingsDialog, TLAPS

IndInv == TypeOK /\ DialogShowsShortcuts /\ LookIsStored

\* What is read from the settings is a value for each key.
LEMMA StoredType ==
    ASSUME NEW settings \in [Keys -> Values \cup {Unset}],
           NEW keys \in SUBSET Keys
    PROVE  StoredFor(settings, keys) \in [keys -> Values]
<1>1. \A k \in Keys : Stored(settings, k) \in Values
  BY SettingsAssumption DEF Stored
<1> QED
  BY <1>1 DEF StoredFor

LEMMA KeyFacts ==
    /\ Actions \in SUBSET Keys /\ Looks \in SUBSET Keys
    /\ Options \in SUBSET Keys
    /\ Default \in [Keys -> Values]
BY SettingsAssumption DEF Keys, Options

-----------------------------------------------------------------------------
(* The invariant *)

LEMMA InitEstablishesInv ==
    ASSUME Init PROVE IndInv
<1>1. user \in [Keys -> Values \cup {Unset}] /\ fields = Default /\ open = FALSE
  BY DEF Init
<1>2. shortcuts \in [Actions -> Values] /\ look \in [Looks -> Values]
  BY <1>1, KeyFacts, StoredType DEF Init
<1>3. look = StoredFor(user, Looks)
  BY DEF Init
<1> QED
  BY <1>1, <1>2, <1>3, KeyFacts
     DEF IndInv, TypeOK, DialogShowsShortcuts, LookIsStored

LEMMA TriggeredKeepsInv ==
    ASSUME IndInv, SettingsTriggered PROVE IndInv'
<1>1. \A k \in Keys : Stored(user, k) \in Values
  BY SettingsAssumption DEF IndInv, TypeOK, Stored
<1>2. fields' \in [Keys -> Values]
  BY <1>1 DEF IndInv, TypeOK, SettingsTriggered
<1>3. \A a \in Actions : fields'[a] = shortcuts[a]
  BY KeyFacts DEF SettingsTriggered
<1> QED
  BY <1>2, <1>3
     DEF IndInv, TypeOK, DialogShowsShortcuts, LookIsStored, SettingsTriggered

LEMMA EditsKeepInv ==
    ASSUME IndInv,
           \/ \E key \in Options, value \in Values : EditOption(key, value)
           \/ \E action \in Actions, value \in Values : EditShortcut(action, value)
           \/ RestoreDefaultsTriggered
    PROVE  IndInv'
<1>1. ASSUME NEW key \in Options, NEW value \in Values, EditOption(key, value)
      PROVE  IndInv'
  <2>1. key \in Keys /\ \A a \in Actions : a # key /\ a \in Keys
    BY <1>1, SettingsAssumption, KeyFacts
  <2> QED
    BY <1>1, <2>1
       DEF IndInv, TypeOK, DialogShowsShortcuts, LookIsStored, EditOption
<1>2. ASSUME NEW action \in Actions, NEW value \in Values,
             EditShortcut(action, value)
      PROVE  IndInv'
  BY <1>2, KeyFacts
     DEF IndInv, TypeOK, DialogShowsShortcuts, LookIsStored, EditShortcut
<1>3. ASSUME RestoreDefaultsTriggered PROVE IndInv'
  BY <1>3, KeyFacts
     DEF IndInv, TypeOK, DialogShowsShortcuts, LookIsStored,
         RestoreDefaultsTriggered
<1> QED
  BY <1>1, <1>2, <1>3

\* The steps after which no dialog is open.
LEMMA ClosingKeepsInv ==
    ASSUME IndInv, Accept \/ Rejected \/ Escape \/ Restart PROVE IndInv'
<1>1. open' = FALSE /\ fields' = fields
  BY DEF Accept, Rejected, Escape, Restart
<1>2. user' \in [Keys -> Values \cup {Unset}]
  BY DEF IndInv, TypeOK, Accept, Rejected, Escape, Restart
<1>3. look' = StoredFor(user', Looks)
  BY DEF IndInv, LookIsStored, Accept, Rejected, Escape, Restart, StoredFor, Stored
<1>4. look' \in [Looks -> Values]
  BY <1>2, <1>3, KeyFacts, StoredType
<1>5. shortcuts' \in {shortcuts, StoredFor(user, Actions)}
  BY DEF Accept, Rejected, Escape, Restart
<1>6. shortcuts' \in [Actions -> Values]
  BY <1>5, KeyFacts, StoredType DEF IndInv, TypeOK
<1> QED
  BY <1>1, <1>2, <1>3, <1>4, <1>6
     DEF IndInv, TypeOK, DialogShowsShortcuts, LookIsStored

LEMMA NextKeepsInv ==
    ASSUME IndInv, [Next]_vars PROVE IndInv'
<1>1. CASE SettingsTriggered
  BY <1>1, TriggeredKeepsInv
<1>2. CASE \/ \E key \in Options, value \in Values : EditOption(key, value)
           \/ \E action \in Actions, value \in Values : EditShortcut(action, value)
           \/ RestoreDefaultsTriggered
  BY <1>2, EditsKeepInv
<1>3. CASE Accept \/ Rejected \/ Escape \/ Restart
  BY <1>3, ClosingKeepsInv
<1>4. CASE UNCHANGED vars
  BY <1>4 DEF vars, IndInv, TypeOK, DialogShowsShortcuts, LookIsStored, StoredFor, Stored
<1> QED
  BY <1>1, <1>2, <1>3, <1>4 DEF Next

LEMMA InvHolds == Spec => []IndInv
<1>1. Init => IndInv
  BY InitEstablishesInv
<1>2. IndInv /\ [Next]_vars => IndInv'
  BY NextKeepsInv
<1> QED
  BY <1>1, <1>2, PTL DEF Spec

-----------------------------------------------------------------------------
(* The theorems *)

\* The settings, the shortcuts in effect and the dialog keep their types.
THEOREM TypeCorrect == Spec => []TypeOK
<1>1. IndInv => TypeOK
  BY DEF IndInv
<1> QED
  BY <1>1, InvHolds, PTL

\* An open dialog shows the shortcuts in effect.
THEOREM DialogStaysTrue == Spec => []DialogShowsShortcuts
<1>1. IndInv => DialogShowsShortcuts
  BY DEF IndInv
<1> QED
  BY <1>1, InvHolds, PTL

\* The view is painted with the stored options.
THEOREM LookStaysStored == Spec => []LookIsStored
<1>1. IndInv => LookIsStored
  BY DEF IndInv
<1> QED
  BY <1>1, InvHolds, PTL

\* After either button the shortcuts in effect are the stored ones.
LEMMA ButtonsSettle ==
    ASSUME IndInv, Accept \/ Rejected
    PROVE  shortcuts' = StoredFor(user', Actions)
<1>1. CASE Accept
  <2>1. /\ user' = fields /\ shortcuts' = shortcuts
        /\ \A a \in Actions : fields[a] = shortcuts[a]
    BY <1>1 DEF Accept, IndInv, DialogShowsShortcuts
  <2>2. \A a \in Actions : Stored(fields, a) = shortcuts[a]
    BY <2>1, KeyFacts, SettingsAssumption DEF Stored, IndInv, TypeOK
  <2>3. StoredFor(fields, Actions) = shortcuts
    BY <2>2 DEF StoredFor, IndInv, TypeOK
  <2> QED
    BY <2>1, <2>3
<1>2. CASE Rejected
  BY <1>2 DEF Rejected
<1> QED
  BY <1>1, <1>2

\* Leaving the dialog by a button leaves nothing for the next start to change.
THEOREM ButtonsSettleAll == Spec => ButtonsSettleShortcuts
<1>1. IndInv => (Accept \/ Rejected => shortcuts' = StoredFor(user', Actions))
  BY ButtonsSettle
<1> QED
  BY <1>1, InvHolds, PTL DEF ButtonsSettleShortcuts

=============================================================================
