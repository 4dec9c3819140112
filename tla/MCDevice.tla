------------------------------ MODULE MCDevice ------------------------------
(***************************************************************************)
(* Instance of Device for TLC.                                             *)
(***************************************************************************)
EXTENDS Device

CONSTANTS h1, h2

MCHosts == {h1, h2}
=============================================================================
