----------------------------- MODULE MCFirmware -----------------------------
(***************************************************************************)
(* Firmware for TLC: keys in a row, each with a code of its own.           *)
(***************************************************************************)
EXTENDS Firmware

MCCodes == 0 .. MATRIX_COLS - 1
MCkeymap == [p \in {0} \X MCCodes |-> p[2]]
MCSlots == 0 .. KEYBOARD_REPORT_KEYS - 1
MCNoKeys == [mods |-> {}, keys |-> [i \in MCSlots |-> KC_NO]]
MCReports == [mods : SUBSET Modifiers, keys : [MCSlots -> Codes \cup {KC_NO}]]
=============================================================================
