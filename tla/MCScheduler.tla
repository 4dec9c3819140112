---------------------------- MODULE MCScheduler -----------------------------
(***************************************************************************)
(* Scheduler for TLC: the event of the keyboard's scan timer and the one   *)
(* that polls the SoftDevice, put by interrupts of three priorities.         *)
(***************************************************************************)
EXTENDS Scheduler

CONSTANTS keyboard_scan_handler, appsh_events_poll

MCEvents == {keyboard_scan_handler, appsh_events_poll}
=============================================================================
