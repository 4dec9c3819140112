----------------------------- MODULE MCHidLink -----------------------------
(***************************************************************************)
(* HidLink for TLC: the report with no key in it, and one with a key; any  *)
(* report with keys in it is as good as another.                           *)
(***************************************************************************)
EXTENDS HidLink

CONSTANTS idle, a

MCReports == {idle, a}
=============================================================================
