--------------------------- MODULE MCSettingsPage ---------------------------
(***************************************************************************)
(* SettingsPage for TLC: three themes, two values of a profile field.      *)
(***************************************************************************)
EXTENDS SettingsPage

MCThemes == {"classic", "warm", "dark"}
=============================================================================
