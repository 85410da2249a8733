------------------------- MODULE MCSettingsRegistry -------------------------
(***************************************************************************)
(* Instances of the settings registry for TLC.                             *)
(***************************************************************************)
EXTENDS SettingsRegistry

CONSTANTS a1, a2, p1, p2
====
