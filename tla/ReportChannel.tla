--------------------------- MODULE ReportChannel ---------------------------
(***************************************************************************)
(* What the keyboard's report path promises, without saying how: the host  *)
(* is shown reports through a bounded first-in first-out channel, each one *)
(* is the keyboard report as it stood when it was submitted, and a lost    *)
(* link empties the channel and releases every key at the host.  HidLink   *)
(* implements this specification.                                          *)
(***************************************************************************)
EXTENDS Integers, Sequences

CONSTANTS
  Reports,   \* the keyboard reports
  NoKeys,    \* the report with no key in it
  Capacity   \* how many notifications can be on their way to the host

VARIABLES
  live,      \* the report as the keyboard has it now
  chan,      \* reports on their way, oldest first
  view       \* the report the host acts on

chanVars == <<live, chan, view>>

ChanInit ==
  /\ live = NoKeys
  /\ chan = <<>>
  /\ view = NoKeys

\* The keyboard's report becomes r and may be submitted at once.
Press(r) ==
  /\ live' = r
  /\ \/ chan' = chan
     \/ Len(chan) < Capacity /\ chan' = Append(chan, r)
  /\ view' = view

\* The report is submitted later, as it then stands.
Submit ==
  /\ Len(chan) < Capacity
  /\ chan' = Append(chan, live)
  /\ UNCHANGED <<live, view>>

\* The host receives the oldest report; it ignores one that was sent on the
\* characteristic of the protocol mode it is not in.
Receive ==
  /\ chan # <<>>
  /\ chan' = Tail(chan)
  /\ view' \in {view, Head(chan)}
  /\ live' = live

\* The link goes down; the keyboard may restart at the same time.
Lose ==
  /\ chan' = <<>>
  /\ view' = NoKeys
  /\ live' \in {live, NoKeys}

ChanNext ==
  \/ \E r \in Reports : Press(r)
  \/ Submit
  \/ Receive
  \/ Lose

ChanSpec == ChanInit /\ [][ChanNext]_chanVars
=============================================================================
