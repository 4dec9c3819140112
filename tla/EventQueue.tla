----------------------------- MODULE EventQueue -----------------------------
(***************************************************************************)
(* What app_scheduler promises: events put by interrupt handlers are       *)
(* carried to the main loop through a bounded first-in first-out queue,    *)
(* and the main loop runs the handler of each once, one at a time, in the  *)
(* order in which they were put.  An event keeps its place until its       *)
(* handler has returned.  Scheduler implements this specification.         *)
(***************************************************************************)
EXTENDS Integers, Sequences

CONSTANTS
  Events,     \* the events: a handler and its data
  Capacity,   \* how many events the queue holds
  NoEvent     \* not an event

VARIABLES
  queue,      \* the events that were put and whose handlers have not returned
  current     \* the event whose handler runs, or NoEvent

queueVars == <<queue, current>>

QueueInit == queue = <<>> /\ current = NoEvent

Put(e) ==
  /\ Len(queue) < Capacity
  /\ queue' = Append(queue, e)
  /\ UNCHANGED current

Begin ==
  /\ current = NoEvent
  /\ queue # <<>>
  /\ current' = Head(queue)
  /\ UNCHANGED queue

Finish ==
  /\ current # NoEvent
  /\ queue # <<>>
  /\ queue' = Tail(queue)
  /\ current' = NoEvent

\* The device restarts.
Lose == queue' = <<>> /\ current' = NoEvent

QueueNext == (\E e \in Events : Put(e)) \/ Begin \/ Finish \/ Lose

QueueSpec == QueueInit /\ [][QueueNext]_queueVars
=============================================================================
