----------------------------- MODULE MCKeyboard -----------------------------
(***************************************************************************)
(* Keyboard for TLC: two rows of two switches, three keys and a modifier   *)
(* that is scanned last, and a report with room for two keys.              *)
(***************************************************************************)
EXTENDS Keyboard

CONSTANTS a, b, c, shift

MCCodes == {a, b, c, shift}
MCkeymap == [p \in Positions |-> CASE p = <<0, 0>> -> a
                                   [] p = <<0, 1>> -> b
                                   [] p = <<1, 0>> -> c
                                   [] p = <<1, 1>> -> shift]
=============================================================================
