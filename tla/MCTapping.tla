----------------------------- MODULE MCTapping ------------------------------
(***************************************************************************)
(* Positions in a row: tap keys, a plain key and perhaps a modifier.       *)
(* Every code and every modifier is that of one key.                       *)
(***************************************************************************)
EXTENDS Tapping

MCcodeOf == [k \in CodeKeys |-> k]
MCmodOf == [k \in TapKeys \cup ModKeys |-> k]
=============================================================================
