-------------------------- MODULE MCSettingsDialog --------------------------
(* SettingsDialog with two shortcuts, a colour of the view and one further  *)
(* option, each with two values.                                            *)
EXTENDS SettingsDialog

CONSTANTS zoomIn, quit, border, language, first, second

MCDefault == [k \in {zoomIn, quit, border, language} |->
                 IF k = quit THEN second ELSE first]

=============================================================================
