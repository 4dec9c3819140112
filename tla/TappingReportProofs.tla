------------------------ MODULE TappingReportProofs ------------------------
(***************************************************************************)
(* Proofs about what the tap keys of Tapping show the host: no key sticks  *)
(* and no plain key is lost, whatever waits, for how long and in whatever  *)
(* order it is settled.                                                    *)
(***************************************************************************)
EXTENDS TappingProofs, WellFoundedInduction

(***************************************************************************)
(* The events of a key that are still to be acted on, in a sequence q of   *)
(* records; d says whether the key has been pressed last.                  *)
(***************************************************************************)

First(q, k, i) == i \in DOMAIN q /\ q[i].key = k /\ \A j \in DOMAIN q : j < i => q[j].key # k

Last(q, k, i) == i \in DOMAIN q /\ q[i].key = k /\ \A j \in DOMAIN q : i < j => q[j].key # k

NoneOf(q, k) == \A i \in DOMAIN q : q[i].key # k

\* i and j are the places of two events of k with none of k between them.
Consecutive(q, k, i, j) ==
  /\ i < j /\ q[i].key = k /\ q[j].key = k
  /\ \A l \in DOMAIN q : i < l /\ l < j => q[l].key # k

\* Presses and releases take turns.
Alternate(q, k) ==
  \A i, j \in DOMAIN q : Consecutive(q, k, i, j) => q[i].pressed # q[j].pressed

\* The last one is what the scan found last.
EndsWith(q, k, d) == \A i \in DOMAIN q : Last(q, k, i) => q[i].pressed = d

\* The event acted on last, if any, was a release.
LetUp(q, k, d) == (\E i \in DOMAIN q : First(q, k, i) /\ q[i].pressed) \/ (NoneOf(q, k) /\ ~d)

ReleaseIn(q, k) == \E i \in DOMAIN q : q[i].key = k /\ ~q[i].pressed

\* The next one is a release that has been settled as a tap.
TapNext(q, k) == \E i \in DOMAIN q : First(q, k, i) /\ q[i].count > 0

\* No other release has.
OnlyNextSettled(q, k) == \A i \in DOMAIN q : q[i].key = k /\ q[i].count > 0 => First(q, k, i)

(***************************************************************************)
(* The inductive invariant.                                                *)
(***************************************************************************)

\* What waits, and the event that is offered to process_tapping.
Queue == IF event = None THEN waiting_buffer ELSE Append(waiting_buffer, event)

\* The place of the record that is offered.
Place == IF waiting THEN 1 ELSE Len(waiting_buffer) + 1

\* A press has not been interrupted before process_tapping has taken it.
PressesUninterrupted == \A i \in DOMAIN Queue : Queue[i].pressed => ~Queue[i].interrupted

CodeIn(rep, k) == codeOf[k] \in rep.codes
ModIn(rep, k) == modOf[k] \in rep.mods
ShownIn(rep, k) == IF k \in ModKeys THEN ModIn(rep, k) ELSE CodeIn(rep, k)

\* A plain key or a modifier is shown if it is held and nothing of it waits, and only
\* if it is held or its release waits.
PlainInv(q, k, d, f, rep) ==
  /\ EndsWith(q, k, d)
  /\ ShownIn(rep, k) => d \/ ReleaseIn(q, k)
  /\ d /\ ~f /\ NoneOf(q, k) => ShownIn(rep, k)

\* What waits of a tap key.
QueueInv(q, k, d) == Alternate(q, k) /\ EndsWith(q, k, d) /\ OnlyNextSettled(q, k)

Taken(t, k) == t # None /\ t.pressed /\ t.key = k

\* A tap key shows its code while it is tapped, its modifier while it is held, neither
\* when it is let up; and its release, when it comes, takes back the one it shows.
\* (up: LetUp, tap: TapNext.)
Shows(up, tap, rep, t, k) ==
  /\ up => ~CodeIn(rep, k) /\ ~ModIn(rep, k) /\ ~Taken(t, k)
  /\ tap => ~ModIn(rep, k) /\ ~(Taken(t, k) /\ t.count = 0)
  /\ ~tap /\ ~(Taken(t, k) /\ t.count > 0) => ~CodeIn(rep, k)
  /\ Taken(t, k) /\ t.count = 1 => tap
  /\ Taken(t, k) /\ (t.count > 0 \/ ~t.interrupted) => ~ModIn(rep, k)

Held(k) == k \in down

PlainKeyInv(k) == PlainInv(Queue, k, Held(k), k \in forgotten, report)

TapKeyInv(k) ==
  /\ QueueInv(Queue, k, Held(k))
  /\ Shows(LetUp(Queue, k, Held(k)), TapNext(Queue, k), report, tapping_key, k)

KeysInv ==
  /\ PressesUninterrupted
  /\ tapping_key # None => tapping_key.key \in TapKeys
  /\ \A k \in Keys \ (TapKeys \cup overtaken) : PlainKeyInv(k)
  /\ \A k \in TapKeys \ overtaken : TapKeyInv(k)

(***************************************************************************)
(* Lemmas about First, Last, Alternate, EndsWith and LetUp.                *)
(***************************************************************************)

Events == Records \cup Ticks

LEMMA EventFields ==
  ASSUME NEW e \in Events
  PROVE  e.pressed \in BOOLEAN /\ e.interrupted \in BOOLEAN /\ e.count \in Nat
<1>1. CASE e \in Records
  <2>1. e.count \in 0 .. MAX_TAP_COUNT
    BY <1>1 DEF Records
  <2>2. e.count \in Nat
    BY <2>1, TappingAssumption
  <2>3. QED
    BY <1>1, <2>2 DEF Records
<1>2. CASE e \in Ticks
  <2>1. e.pressed \in BOOLEAN /\ e.interrupted \in BOOLEAN
    BY <1>2 DEF Ticks
  <2>2. e.count \in Nat
    BY <1>2 DEF Ticks
  <2>3. QED
    BY <2>1, <2>2
<1>3. QED
  BY <1>1, <1>2 DEF Events

LEMMA FirstExists ==
  ASSUME NEW q \in Seq(Events), NEW k
  PROVE  (\E i \in DOMAIN q : First(q, k, i)) \/ NoneOf(q, k)
<1> DEFINE S == {i \in DOMAIN q : q[i].key = k}
<1>1. SUFFICES ASSUME S # {} PROVE \E i \in S : \A j \in S : i <= j
  BY DEF First, NoneOf
<1>2. S \subseteq Nat
  OBVIOUS
<1>3. PICK i \in S : \A j \in S : <<j, i>> \notin OpToRel(<, Nat)
  BY <1>1, <1>2, NatLessThanWellFounded, WFMin
<1>4. ASSUME NEW j \in S PROVE i <= j
  <2>1. i \in Nat /\ j \in Nat
    BY <1>2, <1>4
  <2>2. ~(j < i)
    BY <1>3, <1>4, <2>1 DEF OpToRel
  <2>3. QED
    BY <2>1, <2>2
<1>5. QED
  BY <1>4

LEMMA LastExists ==
  ASSUME NEW q \in Seq(Events), NEW k
  PROVE  (\E i \in DOMAIN q : Last(q, k, i)) \/ NoneOf(q, k)
<1> DEFINE n == Len(q)
           S == {j \in 1 .. n : q[n + 1 - j].key = k}
<1>1. n \in Nat /\ DOMAIN q = 1 .. n
  OBVIOUS
<1>2. CASE S # {}
  <2>1. S \subseteq Nat
    OBVIOUS
  <2>2. PICK i \in S : \A j \in S : <<j, i>> \notin OpToRel(<, Nat)
    BY <1>2, <2>1, NatLessThanWellFounded, WFMin
  <2>3. \A j \in S : ~(j < i)
    BY <2>1, <2>2 DEF OpToRel
  <2>4. n + 1 - i \in DOMAIN q /\ q[n + 1 - i].key = k
    BY <1>1
  <2>5. ASSUME NEW j \in DOMAIN q, n + 1 - i < j, q[j].key = k PROVE FALSE
    <3>1. n + 1 - j \in 1 .. n /\ n + 1 - (n + 1 - j) = j /\ n + 1 - j < i
      BY <1>1, <2>5
    <3>2. QED
      BY <2>3, <2>5, <3>1
  <2>6. QED
    BY <2>4, <2>5 DEF Last
<1>3. CASE S = {}
  <2>1. ASSUME NEW j \in DOMAIN q PROVE q[j].key # k
    <3>1. n + 1 - j \in 1 .. n /\ n + 1 - (n + 1 - j) = j
      BY <1>1, <2>1
    <3>2. n + 1 - j \notin S
      BY <1>3
    <3>3. QED
      BY <3>1, <3>2
  <2>2. QED
    BY <2>1 DEF NoneOf
<1>4. QED
  BY <1>2, <1>3

\* Records that differ in their counts and flags only.
SameEvents(q, r) ==
  Len(r) = Len(q) /\ \A i \in DOMAIN q : r[i].key = q[i].key /\ r[i].pressed = q[i].pressed

LEMMA SameEventsKeep ==
  ASSUME NEW q \in Seq(Events), NEW r \in Seq(Events), SameEvents(q, r), NEW k, NEW d \in BOOLEAN
  PROVE  /\ \A i : First(r, k, i) <=> First(q, k, i)
         /\ NoneOf(r, k) <=> NoneOf(q, k)
         /\ Alternate(r, k) <=> Alternate(q, k)
         /\ EndsWith(r, k, d) <=> EndsWith(q, k, d)
         /\ LetUp(r, k, d) <=> LetUp(q, k, d)
<1>1. DOMAIN r = DOMAIN q /\ DOMAIN q = 1 .. Len(q) /\ Len(q) \in Nat
  BY DEF SameEvents
<1>2. \A i : First(r, k, i) <=> First(q, k, i)
  BY <1>1 DEF SameEvents, First
<1>3. \A i : Last(r, k, i) <=> Last(q, k, i)
  BY <1>1 DEF SameEvents, Last
<1>4. NoneOf(r, k) <=> NoneOf(q, k)
  BY <1>1 DEF SameEvents, NoneOf
<1>5. Alternate(r, k) <=> Alternate(q, k)
  <2>1. \A i, j \in DOMAIN q : Consecutive(r, k, i, j) <=> Consecutive(q, k, i, j)
    BY <1>1 DEF SameEvents, Consecutive
  <2>2. QED
    BY <1>1, <2>1 DEF SameEvents, Alternate
<1>6. EndsWith(r, k, d) <=> EndsWith(q, k, d)
  BY <1>1, <1>3 DEF SameEvents, EndsWith, Last
<1>7. LetUp(r, k, d) <=> LetUp(q, k, d)
  BY <1>1, <1>2, <1>4 DEF SameEvents, LetUp
<1>8. QED
  BY <1>2, <1>4, <1>5, <1>6, <1>7

\* r is q without its record p, but for counts and flags.
At(p, i) == IF i < p THEN i ELSE i + 1

Without(q, r, p) ==
  /\ p \in DOMAIN q
  /\ Len(r) = Len(q) - 1
  /\ \A i \in DOMAIN r : r[i].key = q[At(p, i)].key /\ r[i].pressed = q[At(p, i)].pressed

LEMMA WithoutPlaces ==
  ASSUME NEW q \in Seq(Events), NEW r \in Seq(Events), NEW p, Without(q, r, p)
  PROVE  /\ DOMAIN q = 1 .. Len(q) /\ DOMAIN r = 1 .. Len(q) - 1 /\ Len(q) \in Nat /\ p \in Nat
         /\ \A i \in DOMAIN r : At(p, i) \in DOMAIN q /\ At(p, i) # p
         /\ \A j \in DOMAIN q : j # p => \E i \in DOMAIN r : At(p, i) = j
         /\ \A i, j \in DOMAIN r : i < j <=> At(p, i) < At(p, j)
<1>1. DOMAIN q = 1 .. Len(q) /\ DOMAIN r = 1 .. Len(q) - 1 /\ Len(q) \in Nat /\ p \in 1 .. Len(q)
  BY DEF Without
<1>2. \A j \in DOMAIN q : j # p => \E i \in DOMAIN r : At(p, i) = j
  <2> SUFFICES ASSUME NEW j \in DOMAIN q, j # p PROVE \E i \in DOMAIN r : At(p, i) = j
    OBVIOUS
  <2>1. CASE j < p
    BY <1>1, <2>1 DEF At
  <2>2. CASE p < j
    <3>1. j - 1 \in DOMAIN r /\ At(p, j - 1) = j
      BY <1>1, <2>2 DEF At
    <3>2. QED
      BY <3>1
  <2>3. QED
    BY <1>1, <2>1, <2>2
<1>3. QED
  BY <1>1, <1>2 DEF At

LEMMA WithoutOther ==
  ASSUME NEW q \in Seq(Events), NEW r \in Seq(Events), NEW p, Without(q, r, p),
         NEW k, q[p].key # k, NEW d \in BOOLEAN
  PROVE  /\ \A i \in DOMAIN r : First(r, k, i) <=> First(q, k, At(p, i))
         /\ NoneOf(r, k) <=> NoneOf(q, k)
         /\ Alternate(r, k) <=> Alternate(q, k)
         /\ EndsWith(r, k, d) <=> EndsWith(q, k, d)
         /\ LetUp(r, k, d) <=> LetUp(q, k, d)
<1>1. /\ DOMAIN q = 1 .. Len(q) /\ DOMAIN r = 1 .. Len(q) - 1 /\ Len(q) \in Nat /\ p \in Nat
      /\ \A i \in DOMAIN r : At(p, i) \in DOMAIN q /\ At(p, i) # p
      /\ \A j \in DOMAIN q : j # p => \E i \in DOMAIN r : At(p, i) = j
      /\ \A i, j \in DOMAIN r : i < j <=> At(p, i) < At(p, j)
  BY WithoutPlaces
<1>2. \A i \in DOMAIN r : r[i].key = q[At(p, i)].key /\ r[i].pressed = q[At(p, i)].pressed
  BY DEF Without
<1> HIDE DEF At
<1>3. \A i \in DOMAIN r : First(r, k, i) <=> First(q, k, At(p, i))
  <2> TAKE i \in DOMAIN r
  <2>1. ASSUME First(r, k, i) PROVE First(q, k, At(p, i))
    <3> SUFFICES ASSUME NEW j \in DOMAIN q, j < At(p, i), j # p PROVE q[j].key # k
      BY <2>1, <1>1, <1>2 DEF First
    <3>1. PICK h \in DOMAIN r : At(p, h) = j
      BY <1>1
    <3>2. QED
      BY <2>1, <3>1, <1>1, <1>2 DEF First
  <2>2. ASSUME First(q, k, At(p, i)) PROVE First(r, k, i)
    BY <2>2, <1>1, <1>2 DEF First
  <2>3. QED
    BY <2>1, <2>2
<1>4. \A i \in DOMAIN r : Last(r, k, i) <=> Last(q, k, At(p, i))
  <2> TAKE i \in DOMAIN r
  <2>1. ASSUME Last(r, k, i) PROVE Last(q, k, At(p, i))
    <3> SUFFICES ASSUME NEW j \in DOMAIN q, At(p, i) < j, j # p PROVE q[j].key # k
      BY <2>1, <1>1, <1>2 DEF Last
    <3>1. PICK h \in DOMAIN r : At(p, h) = j
      BY <1>1
    <3>2. QED
      BY <2>1, <3>1, <1>1, <1>2 DEF Last
  <2>2. ASSUME Last(q, k, At(p, i)) PROVE Last(r, k, i)
    BY <2>2, <1>1, <1>2 DEF Last
  <2>3. QED
    BY <2>1, <2>2
<1>5. NoneOf(r, k) <=> NoneOf(q, k)
  BY <1>1, <1>2 DEF NoneOf
<1>6. Alternate(r, k) <=> Alternate(q, k)
  <2>1. \A i, j \in DOMAIN r : Consecutive(r, k, i, j) <=> Consecutive(q, k, At(p, i), At(p, j))
    <3> TAKE i, j \in DOMAIN r
    <3>1. ASSUME Consecutive(r, k, i, j) PROVE Consecutive(q, k, At(p, i), At(p, j))
      <4> SUFFICES ASSUME NEW l \in DOMAIN q, At(p, i) < l, l < At(p, j), l # p PROVE q[l].key # k
        BY <3>1, <1>1, <1>2 DEF Consecutive
      <4>1. PICK h \in DOMAIN r : At(p, h) = l
        BY <1>1
      <4>2. QED
        BY <3>1, <4>1, <1>1, <1>2 DEF Consecutive
    <3>2. ASSUME Consecutive(q, k, At(p, i), At(p, j)) PROVE Consecutive(r, k, i, j)
      <4>1. i < j /\ r[i].key = k /\ r[j].key = k
        BY <3>2, <1>1, <1>2 DEF Consecutive
      <4>2. ASSUME NEW l \in DOMAIN r, i < l, l < j PROVE r[l].key # k
        BY <3>2, <4>2, <1>1, <1>2 DEF Consecutive
      <4>3. QED
        BY <4>1, <4>2 DEF Consecutive
    <3>3. QED
      BY <3>1, <3>2
  <2>2. \A i, j \in DOMAIN q : Consecutive(q, k, i, j) => i # p /\ j # p
    BY DEF Consecutive
  <2>3. QED
    BY <2>1, <2>2, <1>1, <1>2 DEF Alternate
<1>7. EndsWith(r, k, d) <=> EndsWith(q, k, d)
  <2>1. \A j \in DOMAIN q : Last(q, k, j) => j # p
    BY DEF Last
  <2>2. QED
    BY <2>1, <1>1, <1>2, <1>4 DEF EndsWith
<1>8. LetUp(r, k, d) <=> LetUp(q, k, d)
  <2>1. \A j \in DOMAIN q : First(q, k, j) => j # p
    BY DEF First
  <2>2. QED
    BY <2>1, <1>1, <1>2, <1>3, <1>5 DEF LetUp
<1>9. QED
  BY <1>3, <1>5, <1>6, <1>7, <1>8

\* The first event of k is taken out.
LEMMA WithoutOwn ==
  ASSUME NEW q \in Seq(Events), NEW r \in Seq(Events), NEW p, Without(q, r, p),
         NEW k, First(q, k, p), NEW d \in BOOLEAN, EndsWith(q, k, d)
  PROVE  /\ EndsWith(r, k, d)
         /\ NoneOf(r, k) => q[p].pressed = d
         /\ q[p].pressed <=> LetUp(q, k, d)
         /\ Alternate(q, k) => Alternate(r, k) /\ (q[p].pressed <=> ~LetUp(r, k, d))
<1>1. /\ DOMAIN q = 1 .. Len(q) /\ DOMAIN r = 1 .. Len(q) - 1 /\ Len(q) \in Nat /\ p \in Nat
      /\ \A i \in DOMAIN r : At(p, i) \in DOMAIN q /\ At(p, i) # p
      /\ \A j \in DOMAIN q : j # p => \E i \in DOMAIN r : At(p, i) = j
      /\ \A i, j \in DOMAIN r : i < j <=> At(p, i) < At(p, j)
  BY WithoutPlaces
<1>2. \A i \in DOMAIN r : r[i].key = q[At(p, i)].key /\ r[i].pressed = q[At(p, i)].pressed
  BY DEF Without
<1>3. \A i \in DOMAIN q : q[i].pressed \in BOOLEAN
  BY EventFields
<1>4. p \in DOMAIN q /\ q[p].key = k /\ \A i \in DOMAIN r : r[i].key = k => p < At(p, i)
  BY <1>1, <1>2 DEF First, Without
<1> HIDE DEF At
<1>5. EndsWith(r, k, d)
  <2> SUFFICES ASSUME NEW i \in DOMAIN r, Last(r, k, i) PROVE r[i].pressed = d
    BY DEF EndsWith
  <2>1. \A j \in DOMAIN q : At(p, i) < j => q[j].key # k
    <3> SUFFICES ASSUME NEW j \in DOMAIN q, At(p, i) < j PROVE q[j].key # k
      OBVIOUS
    <3>1. j # p
      BY <1>1, <1>4 DEF Last
    <3>2. PICK h \in DOMAIN r : At(p, h) = j
      BY <1>1, <3>1
    <3>3. QED
      BY <3>2, <1>1, <1>2 DEF Last
  <2>2. Last(q, k, At(p, i))
    BY <2>1, <1>1, <1>2 DEF Last
  <2>3. QED
    BY <2>2, <1>1, <1>2 DEF EndsWith
<1>6. NoneOf(r, k) => q[p].pressed = d
  <2> SUFFICES ASSUME NoneOf(r, k) PROVE q[p].pressed = d
    OBVIOUS
  <2>1. ASSUME NEW j \in DOMAIN q, p < j PROVE q[j].key # k
    <3>1. PICK h \in DOMAIN r : At(p, h) = j
      BY <2>1, <1>1, <1>4
    <3>2. QED
      BY <3>1, <1>2 DEF NoneOf
  <2>2. Last(q, k, p)
    BY <2>1, <1>4 DEF Last
  <2>3. QED
    BY <2>2, <1>4 DEF EndsWith
<1>7. q[p].pressed <=> LetUp(q, k, d)
  <2>1. \A i \in DOMAIN q : First(q, k, i) => i = p
    BY <1>1, <1>4 DEF First
  <2>2. QED
    BY <2>1, <1>4 DEF LetUp, NoneOf
<1>8. ASSUME Alternate(q, k) PROVE Alternate(r, k) /\ (q[p].pressed <=> ~LetUp(r, k, d))
  <2>1. \A i, j \in DOMAIN r : Consecutive(r, k, i, j) => Consecutive(q, k, At(p, i), At(p, j))
    <3> SUFFICES ASSUME NEW i \in DOMAIN r, NEW j \in DOMAIN r, Consecutive(r, k, i, j),
                        NEW l \in DOMAIN q, At(p, i) < l, l < At(p, j)
                 PROVE  q[l].key # k
      BY <1>1, <1>2 DEF Consecutive
    <3>1. p < At(p, i)
      BY <1>4 DEF Consecutive
    <3>2. PICK h \in DOMAIN r : At(p, h) = l
      BY <3>1, <1>1
    <3>3. QED
      BY <3>2, <1>1, <1>2 DEF Consecutive
  <2>2. Alternate(r, k)
    BY <2>1, <1>8, <1>1, <1>2 DEF Alternate
  <2>3. \A i \in DOMAIN r : First(r, k, i) => r[i].pressed # q[p].pressed
    <3> SUFFICES ASSUME NEW i \in DOMAIN r, First(r, k, i) PROVE r[i].pressed # q[p].pressed
      OBVIOUS
    <3>1. ASSUME NEW l \in DOMAIN q, p < l, l < At(p, i) PROVE q[l].key # k
      <4>1. PICK h \in DOMAIN r : At(p, h) = l
        BY <3>1, <1>1, <1>4
      <4>2. QED
        BY <4>1, <3>1, <1>1, <1>2 DEF First
    <3>2. Consecutive(q, k, p, At(p, i))
      BY <3>1, <1>1, <1>2, <1>4 DEF First, Consecutive
    <3>3. QED
      BY <3>2, <1>1, <1>2, <1>4, <1>8 DEF Alternate
  <2>4. (\E i \in DOMAIN r : First(r, k, i)) \/ NoneOf(r, k)
    BY FirstExists
  <2>5. \A i \in DOMAIN r : First(r, k, i) => ~NoneOf(r, k)
    BY DEF First, NoneOf
  <2>6. \A i, j \in DOMAIN r : First(r, k, i) /\ First(r, k, j) => i = j
    BY <1>1 DEF First
  <2>7. QED
    BY <2>2, <2>3, <2>4, <2>5, <2>6, <1>2, <1>3, <1>4, <1>6, <1>1 DEF LetUp
<1>9. QED
  BY <1>5, <1>6, <1>7, <1>8

\* The counts of k's records are kept.
LEMMA CountsKept ==
  ASSUME NEW q \in Seq(Events), NEW r \in Seq(Events), NEW k,
         \/ SameEvents(q, r) /\ \A i \in DOMAIN q : q[i].key = k => r[i].count = q[i].count
         \/ \E p : /\ Without(q, r, p) /\ q[p].key # k
                  /\ \A i \in DOMAIN r : r[i].key = k => r[i].count = q[At(p, i)].count
  PROVE  /\ TapNext(r, k) <=> TapNext(q, k)
         /\ OnlyNextSettled(r, k) <=> OnlyNextSettled(q, k)
<1>1. CASE SameEvents(q, r) /\ \A i \in DOMAIN q : q[i].key = k => r[i].count = q[i].count
  <2>1. DOMAIN r = DOMAIN q
    BY <1>1 DEF SameEvents
  <2>2. \A i \in DOMAIN q : r[i].key = q[i].key
    BY <1>1 DEF SameEvents
  <2>3. \A i \in DOMAIN q : First(r, k, i) <=> First(q, k, i)
    BY <2>1, <2>2 DEF First
  <2>4. QED
    BY <1>1, <2>1, <2>2, <2>3 DEF TapNext, OnlyNextSettled, First
<1>2. ASSUME NEW p, Without(q, r, p), q[p].key # k,
             \A i \in DOMAIN r : r[i].key = k => r[i].count = q[At(p, i)].count
      PROVE  /\ TapNext(r, k) <=> TapNext(q, k)
             /\ OnlyNextSettled(r, k) <=> OnlyNextSettled(q, k)
  <2>1. /\ \A i \in DOMAIN r : At(p, i) \in DOMAIN q
        /\ \A j \in DOMAIN q : j # p => \E i \in DOMAIN r : At(p, i) = j
    BY <1>2, WithoutPlaces
  <2>2. \A i \in DOMAIN r : First(r, k, i) <=> First(q, k, At(p, i))
    BY <1>2, WithoutOther
  <2>3. \A i \in DOMAIN r : r[i].key = q[At(p, i)].key
    BY <1>2 DEF Without
  <2> HIDE DEF At
  <2>4. TapNext(r, k) <=> TapNext(q, k)
    <3>1. ASSUME NEW i \in DOMAIN r, First(r, k, i), r[i].count > 0
          PROVE  First(q, k, At(p, i)) /\ q[At(p, i)].count > 0
      BY <3>1, <1>2, <2>2 DEF First
    <3>2. ASSUME NEW i \in DOMAIN r, First(q, k, At(p, i)), q[At(p, i)].count > 0
          PROVE  First(r, k, i) /\ r[i].count > 0
      BY <3>2, <1>2, <2>2 DEF First
    <3>3. \A j \in DOMAIN q : First(q, k, j) => j # p
      BY <1>2 DEF First
    <3>4. QED
      BY <3>1, <3>2, <3>3, <2>1 DEF TapNext
  <2>5. OnlyNextSettled(r, k) <=> OnlyNextSettled(q, k)
    BY <1>2, <2>1, <2>2, <2>3 DEF OnlyNextSettled
  <2>6. QED
    BY <2>4, <2>5
<1>3. QED
  BY <1>1, <1>2

\* The scan finds a change of k.
LEMMA AppendOwn ==
  ASSUME NEW q \in Seq(Events), NEW e \in Events, e.count = 0,
         NEW d \in BOOLEAN, EndsWith(q, e.key, d), e.pressed # d
  PROVE  /\ EndsWith(Append(q, e), e.key, e.pressed)
         /\ ~NoneOf(Append(q, e), e.key)
         /\ LetUp(Append(q, e), e.key, e.pressed) <=> LetUp(q, e.key, d)
         /\ TapNext(Append(q, e), e.key) <=> TapNext(q, e.key)
         /\ OnlyNextSettled(q, e.key) => OnlyNextSettled(Append(q, e), e.key)
         /\ Alternate(q, e.key) => Alternate(Append(q, e), e.key)
<1> DEFINE n == Len(q)
           r == Append(q, e)
           k == e.key
<1>1. /\ n \in Nat /\ DOMAIN q = 1 .. n /\ DOMAIN r = 1 .. n + 1
      /\ r[n + 1] = e /\ \A i \in 1 .. n : r[i] = q[i]
  BY AppendProperties
<1>2. e.pressed \in BOOLEAN /\ \A i \in DOMAIN q : q[i].pressed \in BOOLEAN
  BY EventFields
<1> HIDE DEF r
<1>3. \A i \in DOMAIN q : First(r, k, i) <=> First(q, k, i)
  BY <1>1 DEF First
<1>4. First(r, k, n + 1) <=> NoneOf(q, k)
  BY <1>1 DEF First, NoneOf
<1>5. EndsWith(r, k, e.pressed)
  BY <1>1 DEF EndsWith, Last
<1>6. ~NoneOf(r, k)
  BY <1>1 DEF NoneOf
<1>7. LetUp(r, k, e.pressed) <=> LetUp(q, k, d)
  <2>1. \A i \in DOMAIN q : First(q, k, i) => ~NoneOf(q, k)
    BY DEF First, NoneOf
  <2>2. e.pressed <=> ~d
    BY <1>2
  <2>3. CASE NoneOf(q, k)
    <3>1. LetUp(r, k, e.pressed) <=> e.pressed
      BY <2>1, <2>3, <1>1, <1>3, <1>4, <1>6 DEF LetUp
    <3>2. LetUp(q, k, d) <=> ~d
      BY <2>1, <2>3 DEF LetUp
    <3>3. QED
      BY <2>2, <3>1, <3>2
  <2>4. CASE ~NoneOf(q, k)
    BY <2>4, <1>1, <1>3, <1>4, <1>6 DEF LetUp
  <2>5. QED
    BY <2>3, <2>4
<1>8. TapNext(r, k) <=> TapNext(q, k)
  BY <1>1, <1>3 DEF TapNext
<1>9. OnlyNextSettled(q, k) => OnlyNextSettled(r, k)
  BY <1>1, <1>3 DEF OnlyNextSettled
<1>10. ASSUME Alternate(q, k) PROVE Alternate(r, k)
  <2>1. \A i, j \in DOMAIN q : Consecutive(r, k, i, j) => Consecutive(q, k, i, j)
    BY <1>1 DEF Consecutive
  <2>2. ASSUME NEW i \in DOMAIN q, Consecutive(r, k, i, n + 1) PROVE r[i].pressed # r[n + 1].pressed
    <3>1. Last(q, k, i)
      BY <2>2, <1>1 DEF Last, Consecutive
    <3>2. q[i].pressed = d
      BY <3>1 DEF EndsWith
    <3>3. r[i] = q[i] /\ r[n + 1] = e
      BY <1>1
    <3>4. QED
      BY <3>2, <3>3
  <2>3. \A j \in DOMAIN r : ~Consecutive(r, k, n + 1, j)
    BY <1>1 DEF Consecutive
  <2>4. QED
    BY <2>1, <2>2, <2>3, <1>1, <1>10 DEF Alternate
<1>11. QED
  BY <1>5, <1>6, <1>7, <1>8, <1>9, <1>10 DEF r

(***************************************************************************)
(* What process_action does to the report.                                 *)
(***************************************************************************)

LEMMA ActionElsewhere ==
  ASSUME NEW rep \in Reports, NEW r \in Events, NEW k \in Keys, r.key # k
  PROVE  /\ k \notin TapKeys => (ShownIn(process_action(rep, r), k) <=> ShownIn(rep, k))
         /\ k \in TapKeys => /\ CodeIn(process_action(rep, r), k) <=> CodeIn(rep, k)
                             /\ ModIn(process_action(rep, r), k) <=> ModIn(rep, k)
<1>1. CASE r.key = TICK.key
  BY <1>1 DEF process_action
<1>2. CASE r.key # TICK.key
  <2>1. r.key \in Keys
    BY <1>2 DEF Events, Records, Ticks
  <2>2. CASE ActsAsMod(r)
    <3>1. r.key \in TapKeys
      BY <2>2 DEF ActsAsMod
    <3>2. k \in TapKeys \cup ModKeys => modOf[k] # modOf[r.key]
      BY <3>1, KeymapAssumption
    <3>3. \A q \in {register_mods(rep, r.key), unregister_mods(rep, r.key)} :
            /\ q.codes = rep.codes
            /\ k \in TapKeys \cup ModKeys => (modOf[k] \in q.mods <=> modOf[k] \in rep.mods)
      BY <3>2 DEF register_mods, unregister_mods, Reports
    <3>4. QED
      BY <1>2, <2>2, <3>3 DEF process_action, ShownIn, CodeIn, ModIn
  <2>3. CASE ~ActsAsMod(r)
    <3>1. k \in CodeKeys /\ r.key \in CodeKeys => codeOf[k] # codeOf[r.key]
      BY KeymapAssumption
    <3>2. k \in TapKeys \cup ModKeys /\ r.key \in ModKeys => modOf[k] # modOf[r.key]
      BY KeymapAssumption
    <3>3. \A q \in {register_code(rep, r.key), unregister_code(rep, r.key)} :
            /\ k \in CodeKeys => (codeOf[k] \in q.codes <=> codeOf[k] \in rep.codes)
            /\ k \in TapKeys \cup ModKeys => (modOf[k] \in q.mods <=> modOf[k] \in rep.mods)
      BY <2>1, <3>1, <3>2 DEF register_code, unregister_code, Reports, CodeKeys
    <3>4. k \in TapKeys => k \in CodeKeys
      BY TappingAssumption DEF CodeKeys
    <3>5. QED
      BY <1>2, <2>3, <3>3, <3>4 DEF process_action, ShownIn, CodeIn, ModIn, CodeKeys
  <2>4. QED
    BY <2>2, <2>3
<1>3. QED
  BY <1>1, <1>2

LEMMA ActionOnPlain ==
  ASSUME NEW rep \in Reports, NEW r \in Records, r.key \notin TapKeys
  PROVE  ShownIn(process_action(rep, r), r.key) <=> r.pressed
<1>1. r.key \in Keys /\ r.key # TICK.key /\ ~ActsAsMod(r)
  BY TickIsNoKey DEF Records, ActsAsMod
<1>2. QED
  BY <1>1 DEF process_action, register_code, unregister_code, Reports, ShownIn, CodeIn, ModIn

LEMMA ActionOnTap ==
  ASSUME NEW rep \in Reports, NEW r \in Records, r.key \in TapKeys
  PROVE  /\ ActsAsMod(r) => /\ ModIn(process_action(rep, r), r.key) <=> r.pressed
                            /\ CodeIn(process_action(rep, r), r.key) <=> CodeIn(rep, r.key)
         /\ ~ActsAsMod(r) => /\ CodeIn(process_action(rep, r), r.key) <=> r.pressed
                             /\ ModIn(process_action(rep, r), r.key) <=> ModIn(rep, r.key)
<1>1. r.key \in Keys /\ r.key # TICK.key /\ r.key \notin ModKeys
  BY TickIsNoKey, TappingAssumption DEF Records
<1>2. QED
  BY <1>1 DEF process_action, register_code, unregister_code, register_mods, unregister_mods,
              Reports, CodeIn, ModIn

(***************************************************************************)
(* The queue after process_tapping.                                        *)
(***************************************************************************)

LEMMA QueueFacts ==
  ASSUME IInv, ~Idle
  PROVE  /\ Queue \in Seq(Events) /\ Place \in DOMAIN Queue /\ Queue[Place] = Record
         /\ Record \in Events /\ Fresh(Record)
         /\ waiting => Queue = waiting_buffer /\ Place = 1
         /\ ~waiting => /\ Queue = Append(waiting_buffer, Record) /\ event = Record
                        /\ Place = Len(waiting_buffer) + 1 /\ Len(Queue) = Place
         /\ \A i \in DOMAIN waiting_buffer : i \in DOMAIN Queue /\ Queue[i] = waiting_buffer[i]
<1>1. Record \in Events /\ Fresh(Record)
  BY RecordInBuffer, RecordIsFresh DEF Events, IInv
<1>2. waiting_buffer \in Seq(Events)
  BY DEF Events, IInv, TypeOK
<1>3. CASE waiting
  <2>1. event = None /\ waiting_buffer # <<>> /\ Record = waiting_buffer[1]
    BY <1>3, RecordInBuffer DEF IInv, TypeOK
  <2>2. QED
    BY <1>1, <1>2, <1>3, <2>1 DEF Queue, Place
<1>4. CASE ~waiting
  <2>1. event # None /\ Record = event
    BY <1>4 DEF Idle, Record
  <2>2. /\ Append(waiting_buffer, Record) \in Seq(Events)
        /\ Len(Append(waiting_buffer, Record)) = Len(waiting_buffer) + 1
        /\ Append(waiting_buffer, Record)[Len(waiting_buffer) + 1] = Record
        /\ \A i \in 1 .. Len(waiting_buffer) : Append(waiting_buffer, Record)[i] = waiting_buffer[i]
    BY <1>1, <1>2, AppendProperties
  <2>3. QED
    BY <1>1, <1>2, <1>4, <2>1, <2>2 DEF Queue, Place
<1>5. QED
  BY <1>3, <1>4

\* b is the waiting buffer but for counts.
CountsOnly(b) ==
  /\ b \in Seq(Records)
  /\ Len(b) = Len(waiting_buffer)
  /\ \A i \in DOMAIN b : /\ b[i].key = waiting_buffer[i].key
                         /\ b[i].pressed = waiting_buffer[i].pressed
                         /\ b[i].interrupted = waiting_buffer[i].interrupted

\* Consumed takes the record out.
LEMMA ConsumedQueue ==
  ASSUME IInv, ~Idle, NEW t, NEW b, NEW rep, CountsOnly(b), Consumed(t, b, rep)
  PROVE  /\ Queue' \in Seq(Events) /\ Queue' = waiting_buffer'
         /\ Without(Queue, Queue', Place)
         /\ \A i \in DOMAIN Queue' : At(Place, i) \in DOMAIN b /\ Queue'[i] = b[At(Place, i)]
         /\ PressesUninterrupted => PressesUninterrupted'
<1>1. Queue' = waiting_buffer' /\ waiting_buffer' = IF waiting THEN Tail(b) ELSE b
  BY DEF Consumed, Queue
<1>2. /\ b \in Seq(Events) /\ Len(b) = Len(waiting_buffer) /\ Len(b) \in Nat
      /\ DOMAIN b = DOMAIN waiting_buffer /\ DOMAIN b = 1 .. Len(b)
  BY DEF CountsOnly, Events, IInv, TypeOK
<1>3. waiting => /\ b # <<>> /\ Tail(b) \in Seq(Events) /\ Len(Tail(b)) = Len(b) - 1
                 /\ \A i \in 1 .. Len(b) - 1 : Tail(b)[i] = b[i + 1]
  BY <1>2, HeadTailProperties DEF IInv, TypeOK
<1>4. /\ Queue' \in Seq(Events) /\ Len(Queue') = Len(Queue) - 1
      /\ \A i \in DOMAIN Queue' : At(Place, i) \in DOMAIN b /\ Queue'[i] = b[At(Place, i)]
  <2>1. CASE waiting
    <3>1. Queue' = Tail(b) /\ Place = 1 /\ Len(Queue) = Len(b)
      BY <2>1, <1>1, <1>2, QueueFacts
    <3>2. QED
      BY <2>1, <3>1, <1>2, <1>3 DEF At
  <2>2. CASE ~waiting
    <3>1. Queue' = b /\ Place = Len(b) + 1 /\ Len(Queue) = Len(b) + 1
      BY <2>2, <1>1, <1>2, QueueFacts
    <3>2. QED
      BY <2>2, <3>1, <1>2 DEF At
  <2>3. QED
    BY <2>1, <2>2
<1>5. \A i \in DOMAIN b : /\ i \in DOMAIN Queue /\ b[i].key = Queue[i].key
                          /\ b[i].pressed = Queue[i].pressed
                          /\ b[i].interrupted = Queue[i].interrupted
  BY <1>2, QueueFacts DEF CountsOnly
<1>6. Without(Queue, Queue', Place)
  BY <1>4, <1>5, QueueFacts DEF Without
<1>7. ASSUME PressesUninterrupted PROVE PressesUninterrupted'
  BY <1>4, <1>5, <1>7 DEF PressesUninterrupted
<1>8. QED
  BY <1>1, <1>4, <1>6, <1>7

\* What is known of the keys that are not overtaken by it.
LEMMA ConsumedInTurn ==
  ASSUME IInv, ~Idle, NEW t, NEW b, NEW rep, CountsOnly(b), Consumed(t, b, rep)
  PROVE  /\ overtaken \subseteq overtaken'
         /\ Record.key \in Keys \ overtaken' => First(Queue, Record.key, Place)
         /\ \A k \in TapKeys \ overtaken' : OnlyNextSettled(Queue', k)
<1>1. overtaken' = overtaken \cup SettledAhead(waiting_buffer')
                             \cup (IF event # None /\ Waits(event.key) THEN {event.key} ELSE {})
  BY DEF Consumed
<1>2. ASSUME Record.key \in Keys \ overtaken' PROVE First(Queue, Record.key, Place)
  <2>1. CASE waiting
    BY <2>1, QueueFacts DEF First
  <2>2. CASE ~waiting
    <3>1. event = Record /\ event # None
      BY <2>2, QueueFacts DEF Idle
    <3>2. \A i \in DOMAIN waiting_buffer : waiting_buffer[i].key # Record.key
      BY <1>1, <1>2, <3>1 DEF Waits
    <3>3. QED
      BY <2>2, <3>2, QueueFacts DEF First, IInv, TypeOK
  <2>3. QED
    BY <2>1, <2>2
<1>3. ASSUME NEW k \in TapKeys \ overtaken' PROVE OnlyNextSettled(Queue', k)
  <2>1. k \notin SettledAhead(Queue')
    BY <1>1, <1>3, ConsumedQueue
  <2>2. QED
    BY <2>1 DEF SettledAhead, OnlyNextSettled, First
<1>4. QED
  BY <1>1, <1>2, <1>3

\* A full buffer forgets everything.
Cleared ==
  /\ tapping_key' = None /\ report' = Empty /\ Queue' = <<>>
  /\ forgotten' = down /\ overtaken' = {}

LEMMA RetainedQueue ==
  ASSUME IInv, ~Idle, NEW t, NEW r \in Events, NEW rep, Retained(t, r, rep),
         r.key = Record.key, r.pressed = Record.pressed
  PROVE  \/ Cleared
         \/ /\ tapping_key' = t /\ report' = rep /\ forgotten' = forgotten
            /\ overtaken \subseteq overtaken'
            /\ \A k \in TapKeys \ overtaken' : OnlyNextSettled(Queue', k)
            /\ Queue' \in Seq(Events)
            /\ \/ /\ SameEvents(Queue, Queue')
                  /\ \A i \in DOMAIN Queue : Queue'[i] = IF i = Place THEN r ELSE Queue[i]
               \/ /\ Record.key = TICK.key
                  /\ Without(Queue, Queue', Place)
                  /\ \A i \in DOMAIN Queue' : Queue'[i] = Queue[At(Place, i)]
<1>1. Queue' = waiting_buffer'
  BY DEF Retained, Queue
<1>2. CASE ~waiting /\ r.key # TICK.key /\ BufferFull
  BY <1>1, <1>2 DEF Retained, Cleared
<1>3. CASE ~(~waiting /\ r.key # TICK.key /\ BufferFull)
  <2>1. /\ tapping_key' = t /\ report' = rep /\ forgotten' = forgotten
        /\ overtaken' = overtaken \cup SettledAhead(Queue')
        /\ Queue' = CASE waiting                     -> [waiting_buffer EXCEPT ![1] = r]
                      [] ~waiting /\ r.key = TICK.key -> waiting_buffer
                      [] OTHER                        -> Append(waiting_buffer, r)
    BY <1>1, <1>3 DEF Retained
  <2>2. \A k \in TapKeys \ overtaken' : OnlyNextSettled(Queue', k)
    BY <2>1 DEF SettledAhead, OnlyNextSettled, First
  <2>3. waiting_buffer \in Seq(Events)
    BY DEF Events, IInv, TypeOK
  <2>4. CASE waiting
    <3>1. Queue' = [Queue EXCEPT ![1] = r] /\ Place = 1
      BY <2>1, <2>4, QueueFacts
    <3>2. Queue' \in Seq(Events) /\ Len(Queue') = Len(Queue)
          /\ \A i \in DOMAIN Queue : Queue'[i] = IF i = Place THEN r ELSE Queue[i]
      BY <3>1, QueueFacts
    <3>3. SameEvents(Queue, Queue')
      BY <3>2, QueueFacts DEF SameEvents
    <3>4. QED
      BY <2>1, <2>2, <3>2, <3>3
  <2>5. CASE ~waiting /\ r.key = TICK.key
    <3>1. Queue' = waiting_buffer /\ Place = Len(waiting_buffer) + 1 /\ Len(Queue) = Place
      BY <2>1, <2>5, QueueFacts
    <3>2. Queue' \in Seq(Events) /\ \A i \in DOMAIN Queue' : At(Place, i) = i /\ Queue'[i] = Queue[i]
      BY <2>3, <3>1, QueueFacts DEF At
    <3>3. Without(Queue, Queue', Place)
      BY <2>3, <3>1, <3>2, QueueFacts DEF Without
    <3>4. QED
      BY <2>1, <2>2, <2>5, <3>2, <3>3
  <2>6. CASE ~waiting /\ r.key # TICK.key
    <3>1. Queue' = Append(waiting_buffer, r)
      BY <2>1, <2>6
    <3>2. /\ Queue' \in Seq(Events) /\ Len(Queue') = Len(waiting_buffer) + 1
          /\ Queue'[Len(waiting_buffer) + 1] = r
          /\ \A i \in 1 .. Len(waiting_buffer) : Queue'[i] = waiting_buffer[i]
      BY <2>3, <3>1, AppendProperties
    <3>3. Place = Len(waiting_buffer) + 1 /\ Len(Queue) = Place
      BY <2>6, QueueFacts
    <3>4. Len(Queue') = Len(Queue)
          /\ \A i \in DOMAIN Queue : Queue'[i] = IF i = Place THEN r ELSE Queue[i]
      BY <2>3, <3>2, <3>3, QueueFacts
    <3>5. SameEvents(Queue, Queue')
      BY <3>4, QueueFacts DEF SameEvents
    <3>6. QED
      BY <2>1, <2>2, <3>2, <3>4, <3>5
  <2>7. QED
    BY <2>4, <2>5, <2>6
<1>4. QED
  BY <1>2, <1>3

(***************************************************************************)
(* What a branch of process_tapping has to do for a key to keep its        *)
(* invariant.                                                              *)
(***************************************************************************)

\* The records of other keys are taken out, or change in their counts.
LEMMA PlainKept ==
  ASSUME NEW q \in Seq(Events), NEW r \in Seq(Events), NEW k, NEW d \in BOOLEAN, NEW f,
         NEW rep, NEW s,
         SameEvents(q, r) \/ \E p : Without(q, r, p) /\ q[p].key # k,
         ShownIn(s, k) <=> ShownIn(rep, k),
         PlainInv(q, k, d, f, rep)
  PROVE  PlainInv(r, k, d, f, s)
<1>1. CASE SameEvents(q, r)
  <2>1. EndsWith(r, k, d) /\ (NoneOf(r, k) <=> NoneOf(q, k))
    BY <1>1, SameEventsKeep DEF PlainInv
  <2>2. ReleaseIn(r, k) <=> ReleaseIn(q, k)
    BY <1>1 DEF SameEvents, ReleaseIn
  <2>3. QED
    BY <2>1, <2>2 DEF PlainInv
<1>2. ASSUME NEW p, Without(q, r, p), q[p].key # k PROVE PlainInv(r, k, d, f, s)
  <2>1. EndsWith(r, k, d) /\ (NoneOf(r, k) <=> NoneOf(q, k))
    BY <1>2, WithoutOther DEF PlainInv
  <2>2. /\ \A i \in DOMAIN r : At(p, i) \in DOMAIN q
        /\ \A j \in DOMAIN q : j # p => \E i \in DOMAIN r : At(p, i) = j
    BY <1>2, WithoutPlaces
  <2>3. ReleaseIn(r, k) <=> ReleaseIn(q, k)
    BY <1>2, <2>2 DEF Without, ReleaseIn
  <2>4. QED
    BY <2>1, <2>3 DEF PlainInv
<1>3. QED
  BY <1>1, <1>2

\* The next event of a plain key is acted on.
LEMMA PlainActedOn ==
  ASSUME NEW q \in Seq(Events), NEW r \in Seq(Events), NEW p, Without(q, r, p),
         NEW k, First(q, k, p), NEW d \in BOOLEAN, NEW f, NEW rep, NEW s,
         ShownIn(s, k) <=> q[p].pressed,
         PlainInv(q, k, d, f, rep)
  PROVE  PlainInv(r, k, d, f, s)
<1>1. EndsWith(r, k, d) /\ (NoneOf(r, k) => q[p].pressed = d)
  BY WithoutOwn DEF PlainInv
<1>2. d \/ ReleaseIn(r, k) \/ NoneOf(r, k)
  <2>1. CASE \E i \in DOMAIN r : Last(r, k, i)
    BY <2>1, <1>1, EventFields DEF EndsWith, Last, ReleaseIn
  <2>2. QED
    BY <2>1, LastExists
<1>3. QED
  BY <1>1, <1>2 DEF PlainInv

\* A plain key's record is acted on, and nothing else changes what the key shows.
PlainConsumed(rep, k) == ShownIn(rep, k) <=> IF Record.key = k THEN Record.pressed ELSE ShownIn(report, k)

LEMMA PlainConsumedKeeps ==
  ASSUME IInv, ~Idle, NEW t, NEW b, NEW rep, CountsOnly(b), Consumed(t, b, rep),
         NEW k \in Keys \ (TapKeys \cup overtaken'), PlainConsumed(rep, k), PlainKeyInv(k)
  PROVE  PlainKeyInv(k)'
<1>1. /\ Queue \in Seq(Events) /\ Queue' \in Seq(Events) /\ Without(Queue, Queue', Place)
      /\ Queue[Place] = Record
  BY QueueFacts, ConsumedQueue
<1>2. report' = rep /\ forgotten' = forgotten /\ down' = down
  BY DEF Consumed, taskVars
<1>3. Held(k) \in BOOLEAN /\ (Held(k))' = Held(k)
  BY <1>2 DEF Held
<1>4. CASE Record.key = k
  <2>1. First(Queue, k, Place)
    BY <1>4, ConsumedInTurn
  <2>2. PlainInv(Queue', k, Held(k), k \in forgotten, rep)
    BY <1>1, <1>3, <1>4, <2>1, PlainActedOn DEF PlainConsumed, PlainKeyInv
  <2>3. QED
    BY <1>2, <1>3, <2>2 DEF PlainKeyInv
<1>5. CASE Record.key # k
  <2>1. PlainInv(Queue', k, Held(k), k \in forgotten, rep)
    BY <1>1, <1>3, <1>5, PlainKept DEF PlainConsumed, PlainKeyInv
  <2>2. QED
    BY <1>2, <1>3, <2>1 DEF PlainKeyInv
<1>6. QED
  BY <1>4, <1>5

LEMMA PlainRetainedKeeps ==
  ASSUME IInv, ~Idle, NEW t, NEW r \in Events, NEW rep, Retained(t, r, rep),
         r.key = Record.key, r.pressed = Record.pressed,
         NEW k \in Keys \ (TapKeys \cup overtaken'), k \notin overtaken => PlainKeyInv(k),
         ShownIn(rep, k) <=> ShownIn(report, k)
  PROVE  PlainKeyInv(k)'
<1>1. Held(k) \in BOOLEAN /\ (Held(k))' = Held(k) /\ down' = down
  BY DEF Held, Retained, taskVars
<1>2. CASE Cleared
  <2>1. NoneOf(<<>>, k) /\ EndsWith(<<>>, k, Held(k)) /\ ~ShownIn(Empty, k)
    BY DEF NoneOf, EndsWith, ShownIn, CodeIn, ModIn, Empty
  <2>2. QED
    BY <1>1, <1>2, <2>1 DEF Cleared, PlainKeyInv, PlainInv, Held
<1>3. CASE /\ report' = rep /\ forgotten' = forgotten /\ overtaken \subseteq overtaken'
           /\ Queue' \in Seq(Events)
           /\ SameEvents(Queue, Queue') \/ (Record.key = TICK.key /\ Without(Queue, Queue', Place))
  <2>1. Queue \in Seq(Events) /\ Queue[Place] = Record /\ TICK.key # k
    BY QueueFacts, TickIsNoKey
  <2>2. PlainInv(Queue', k, Held(k), k \in forgotten, rep)
    BY <1>1, <1>3, <2>1, PlainKept DEF PlainKeyInv
  <2>3. QED
    BY <1>1, <1>3, <2>2 DEF PlainKeyInv
<1>4. QED
  BY <1>2, <1>3, RetainedQueue

\* What is shown of k goes with what is next of k, whatever that is.
Keeps(k, rep, t) ==
  \A up, tap \in BOOLEAN : Shows(up, tap, report, tapping_key, k) => Shows(up, tap, rep, t, k)

\* For a tap key k, the record is consumed.  Another key's changes nothing that the next
\* event of k depends on; k's press leaves it held or, if a release that waits is settled
\* with it, tapped; k's release leaves it let up.
TapConsumed(t, b, rep, k) ==
  IF Record.key # k
  THEN /\ \A i \in DOMAIN b : b[i].key = k => b[i].count = waiting_buffer[i].count
       /\ Keeps(k, rep, t)
  ELSE IF Record.pressed
  THEN Shows(TRUE, FALSE, report, tapping_key, k)
         => \/ b = waiting_buffer /\ Shows(FALSE, FALSE, rep, t, k)
            \/ /\ \E i \in DOMAIN b : i # Place /\ b[i].key = k /\ b[i].count > 0
               /\ Shows(FALSE, TRUE, rep, t, k)
  ELSE /\ b = waiting_buffer
       /\ \A tap \in BOOLEAN : (tap <=> Record.count > 0) /\ Shows(FALSE, tap, report, tapping_key, k)
                                 => Shows(TRUE, FALSE, rep, t, k)

LEMMA TapConsumedKeeps ==
  ASSUME IInv, ~Idle, NEW t, NEW b, NEW rep, CountsOnly(b), Consumed(t, b, rep),
         NEW k \in TapKeys \ overtaken', TapConsumed(t, b, rep, k), TapKeyInv(k)
  PROVE  TapKeyInv(k)'
<1> DEFINE q == Queue
           r == Queue'
           p == Place
           d == Held(k)
<1>1. /\ q \in Seq(Events) /\ r \in Seq(Events) /\ Without(q, r, p) /\ q[p] = Record
      /\ \A i \in DOMAIN r : At(p, i) \in DOMAIN b /\ r[i] = b[At(p, i)]
      /\ \A i \in DOMAIN b : i \in DOMAIN q /\ q[i] = waiting_buffer[i]
  <2>1. DOMAIN b = DOMAIN waiting_buffer
    BY DEF CountsOnly, IInv, TypeOK
  <2>2. QED
    BY <2>1, QueueFacts, ConsumedQueue
<1>2. report' = rep /\ tapping_key' = t /\ down' = down
  BY DEF Consumed, taskVars
<1>3. d \in BOOLEAN /\ (Held(k))' = d
  BY <1>2 DEF Held
<1>4. OnlyNextSettled(r, k) /\ k \in Keys
  BY ConsumedInTurn, TappingAssumption
<1>5. Alternate(q, k) /\ EndsWith(q, k, d) /\ OnlyNextSettled(q, k)
      /\ Shows(LetUp(q, k, d), TapNext(q, k), report, tapping_key, k)
  BY DEF TapKeyInv, QueueInv
<1> SUFFICES Alternate(r, k) /\ EndsWith(r, k, d) /\ Shows(LetUp(r, k, d), TapNext(r, k), rep, t, k)
  BY <1>2, <1>3, <1>4 DEF TapKeyInv, QueueInv
<1> HIDE DEF q, r, p, d
<1>6. CASE Record.key # k
  <2>1. Alternate(r, k) /\ EndsWith(r, k, d) /\ (LetUp(r, k, d) <=> LetUp(q, k, d))
    BY <1>1, <1>3, <1>5, <1>6, WithoutOther
  <2>2. \A i \in DOMAIN r : r[i].key = k => r[i].count = q[At(p, i)].count
    BY <1>1, <1>6 DEF TapConsumed
  <2>3. TapNext(r, k) <=> TapNext(q, k)
    BY <1>1, <1>6, <2>2, CountsKept
  <2>4. QED
    BY <2>1, <2>3, <1>5, <1>6 DEF TapConsumed, Keeps, Shows
<1>7. CASE Record.key = k
  <2>1. First(q, k, p)
    BY <1>4, <1>7, ConsumedInTurn DEF p, q
  <2>2. /\ Alternate(r, k) /\ EndsWith(r, k, d)
        /\ Record.pressed <=> LetUp(q, k, d)
        /\ Record.pressed <=> ~LetUp(r, k, d)
    BY <1>1, <1>3, <1>5, <2>1, WithoutOwn
  <2>3. TapNext(q, k) <=> Record.count > 0
    <3>1. \A i \in DOMAIN q : First(q, k, i) => i = p
      BY <1>1, <2>1 DEF First
    <3>2. QED
      BY <1>1, <2>1, <3>1 DEF TapNext, First
  <2>4. b = waiting_buffer => ~TapNext(r, k)
    <3>1. \A i \in DOMAIN r : At(p, i) # p
      BY <1>1, WithoutPlaces
    <3>2. \A i \in DOMAIN q : q[i].key = k /\ q[i].count > 0 => i = p
      BY <1>1, <1>5, <2>1 DEF OnlyNextSettled, First
    <3>3. QED
      BY <1>1, <3>1, <3>2 DEF TapNext, First
  <2>5. CASE Record.pressed
    <3>1. Record.count = 0
      BY <2>5, QueueFacts DEF Fresh
    <3>2. Shows(TRUE, FALSE, report, tapping_key, k)
      BY <1>5, <2>2, <2>3, <2>5, <3>1 DEF Shows
    <3>3. CASE b = waiting_buffer /\ Shows(FALSE, FALSE, rep, t, k)
      BY <2>2, <2>4, <2>5, <3>3 DEF Shows
    <3>4. CASE /\ \E i \in DOMAIN b : i # Place /\ b[i].key = k /\ b[i].count > 0
               /\ Shows(FALSE, TRUE, rep, t, k)
      <4>1. PICK i \in DOMAIN b : i # p /\ b[i].key = k /\ b[i].count > 0
        BY <3>4 DEF p
      <4>2. PICK j \in DOMAIN r : At(p, j) = i
        BY <1>1, <4>1, WithoutPlaces
      <4>3. TapNext(r, k)
        BY <1>1, <1>4, <4>1, <4>2 DEF OnlyNextSettled, TapNext, r
      <4>4. QED
        BY <2>2, <2>5, <3>4, <4>3 DEF Shows
    <3>5. QED
      BY <1>7, <2>5, <3>2, <3>3, <3>4 DEF TapConsumed
  <2>6. CASE ~Record.pressed
    <3> DEFINE tap == TapNext(q, k)
    <3>1. tap \in BOOLEAN
      BY DEF TapNext
    <3>2. Shows(FALSE, tap, report, tapping_key, k) /\ (tap <=> Record.count > 0)
      BY <1>5, <2>2, <2>3, <2>6 DEF Shows
    <3> HIDE DEF tap
    <3>3. b = waiting_buffer /\ Shows(TRUE, FALSE, rep, t, k)
      BY <1>7, <2>6, <3>1, <3>2 DEF TapConsumed
    <3>4. QED
      BY <2>2, <2>4, <2>6, <3>3 DEF Shows
  <2>7. QED
    BY <2>5, <2>6
<1>8. QED
  BY <1>6, <1>7

\* For a tap key k, the record waits on as r: as it was, or as k's release, settled while
\* the tap was undecided.
TapRetained(t, r, rep, k) ==
  \/ (Record.key # k \/ r = Record) /\ Keeps(k, rep, t)
  \/ /\ Record.key = k /\ Taken(tapping_key, k) /\ tapping_key.count = 0
     /\ r.count = 0 => Keeps(k, rep, t)
     /\ r.count > 0 => \A up, tap \in BOOLEAN : Shows(up, tap, report, tapping_key, k)
                                                  => Shows(up, TRUE, rep, t, k)

LEMMA TapRetainedKeeps ==
  ASSUME IInv, ~Idle, NEW t, NEW r \in Events, NEW rep, Retained(t, r, rep),
         r.key = Record.key, r.pressed = Record.pressed,
         NEW k \in TapKeys \ overtaken', k \notin overtaken => TapKeyInv(k),
         TapRetained(t, r, rep, k)
  PROVE  TapKeyInv(k)'
<1>1. Held(k) \in BOOLEAN /\ (Held(k))' = Held(k) /\ down' = down
  BY DEF Held, Retained, taskVars
<1>2. CASE Cleared
  <2>1. /\ Alternate(<<>>, k) /\ EndsWith(<<>>, k, Held(k)) /\ OnlyNextSettled(<<>>, k)
        /\ ~TapNext(<<>>, k)
    BY DEF Alternate, EndsWith, OnlyNextSettled, TapNext, First
  <2>2. ~CodeIn(Empty, k) /\ ~ModIn(Empty, k) /\ ~Taken(None, k)
    BY DEF CodeIn, ModIn, Empty, Taken
  <2>3. Shows(LetUp(<<>>, k, Held(k)), TapNext(<<>>, k), Empty, None, k)
    BY <2>1, <2>2 DEF Shows, Taken
  <2>4. QED
    BY <1>1, <1>2, <2>1, <2>3 DEF Cleared, TapKeyInv, QueueInv
<1>3. CASE ~Cleared
  <2> DEFINE q == Queue
             n == Queue'
             p == Place
             d == Held(k)
  <2>1. /\ tapping_key' = t /\ report' = rep /\ k \notin overtaken
        /\ OnlyNextSettled(n, k) /\ n \in Seq(Events)
        /\ \/ /\ SameEvents(q, n)
              /\ \A i \in DOMAIN q : n[i] = IF i = p THEN r ELSE q[i]
           \/ /\ Record.key = TICK.key
              /\ Without(q, n, p)
              /\ \A i \in DOMAIN n : n[i] = q[At(p, i)]
    BY <1>3, RetainedQueue
  <2>2. /\ q \in Seq(Events) /\ p \in DOMAIN q /\ q[p] = Record /\ Record \in Events
        /\ k # TICK.key
    BY QueueFacts, TickIsNoKey, TappingAssumption
  <2>3. Alternate(q, k) /\ EndsWith(q, k, d) /\ OnlyNextSettled(q, k)
        /\ Shows(LetUp(q, k, d), TapNext(q, k), report, tapping_key, k)
    BY <2>1 DEF TapKeyInv, QueueInv
  <2> SUFFICES Alternate(n, k) /\ EndsWith(n, k, d) /\ Shows(LetUp(n, k, d), TapNext(n, k), rep, t, k)
    BY <1>1, <2>1 DEF TapKeyInv, QueueInv
  <2> HIDE DEF q, n, p, d
  <2>4. Alternate(n, k) /\ EndsWith(n, k, d) /\ (LetUp(n, k, d) <=> LetUp(q, k, d))
    <3>1. d \in BOOLEAN
      BY <1>1 DEF d
    <3>2. QED
      BY <2>1, <2>2, <2>3, <3>1, SameEventsKeep, WithoutOther
  <2>5. CASE (Record.key # k \/ r = Record) /\ Keeps(k, rep, t)
    <3>1. TapNext(n, k) <=> TapNext(q, k)
      <4>1. CASE SameEvents(q, n) /\ \A i \in DOMAIN q : n[i] = IF i = p THEN r ELSE q[i]
        BY <2>1, <2>2, <2>5, <4>1, CountsKept
      <4>2. CASE Record.key = TICK.key /\ Without(q, n, p) /\ \A i \in DOMAIN n : n[i] = q[At(p, i)]
        <5>1. q[p].key # k /\ \A i \in DOMAIN n : n[i].key = k => n[i].count = q[At(p, i)].count
          BY <2>2, <4>2
        <5>2. QED
          BY <2>1, <2>2, <4>2, <5>1, CountsKept
      <4>3. QED
        BY <2>1, <4>1, <4>2
    <3>2. QED
      BY <2>3, <2>4, <2>5, <3>1 DEF Keeps, Shows
  <2>6. CASE /\ Record.key = k /\ Taken(tapping_key, k) /\ tapping_key.count = 0
             /\ r.count = 0 => Keeps(k, rep, t)
             /\ r.count > 0 => \A up, tap \in BOOLEAN : Shows(up, tap, report, tapping_key, k)
                                                          => Shows(up, TRUE, rep, t, k)
    <3>1. ~TapNext(q, k)
      BY <2>3, <2>6 DEF Shows
    <3>2. \A i \in DOMAIN q : q[i].key = k => ~(q[i].count > 0)
      BY <2>3, <3>1 DEF TapNext, OnlyNextSettled
    <3>3. SameEvents(q, n) /\ \A i \in DOMAIN q : n[i] = IF i = p THEN r ELSE q[i]
      BY <2>1, <2>2, <2>6
    <3>4. r.count \in Nat
      BY EventFields
    <3>5. CASE r.count = 0
      <4>1. ~TapNext(n, k)
        BY <3>2, <3>3, <3>5, <2>1, <2>2 DEF TapNext, First, SameEvents
      <4>2. QED
        BY <2>3, <2>4, <2>6, <3>1, <3>5, <4>1 DEF Keeps, Shows
    <3>6. CASE r.count > 0
      <4>1. TapNext(n, k)
        BY <2>1, <2>2, <2>6, <3>3, <3>6 DEF OnlyNextSettled, TapNext, SameEvents
      <4>2. QED
        BY <2>3, <2>4, <2>6, <3>1, <3>6, <4>1 DEF Shows
    <3>7. QED
      BY <3>4, <3>5, <3>6
  <2>7. QED
    BY <2>5, <2>6 DEF TapRetained
<1>4. QED
  BY <1>2, <1>3

(***************************************************************************)
(* All the keys.                                                           *)
(***************************************************************************)

LEMMA ConsumedKeys ==
  ASSUME IInv, KeysInv, ~Idle, NEW t, NEW b, NEW rep, CountsOnly(b), Consumed(t, b, rep),
         t # None => t.key \in TapKeys,
         \A k \in Keys \ TapKeys : PlainConsumed(rep, k),
         \A k \in TapKeys : TapConsumed(t, b, rep, k)
  PROVE  KeysInv'
<1>1. tapping_key' = t /\ overtaken \subseteq overtaken'
  BY ConsumedInTurn DEF Consumed
<1>2. PressesUninterrupted'
  BY ConsumedQueue DEF KeysInv
<1>3. \A k \in Keys \ (TapKeys \cup overtaken') : PlainKeyInv(k)'
  BY <1>1, PlainConsumedKeeps DEF KeysInv
<1>4. \A k \in TapKeys \ overtaken' : TapKeyInv(k)'
  BY <1>1, TapConsumedKeeps DEF KeysInv
<1>5. QED
  BY <1>1, <1>2, <1>3, <1>4 DEF KeysInv

LEMMA RetainedKeys ==
  ASSUME IInv, KeysInv, ~Idle, NEW t, NEW r \in Events, NEW rep, Retained(t, r, rep),
         r.key = Record.key, r.pressed = Record.pressed, r.pressed => r = Record,
         t # None => t.key \in TapKeys,
         \A k \in Keys \ TapKeys : ShownIn(rep, k) <=> ShownIn(report, k),
         \A k \in TapKeys : TapRetained(t, r, rep, k)
  PROVE  KeysInv'
<1>1. tapping_key' \in {None, t}
  BY RetainedQueue DEF Cleared
<1>2. PressesUninterrupted'
  <2>1. CASE Queue' = <<>>
    BY <2>1 DEF PressesUninterrupted
  <2>2. CASE /\ SameEvents(Queue, Queue')
             /\ \A i \in DOMAIN Queue : Queue'[i] = IF i = Place THEN r ELSE Queue[i]
    <3>1. DOMAIN Queue' = DOMAIN Queue
      BY <2>2, RetainedQueue, QueueFacts DEF SameEvents, Cleared
    <3>2. QED
      BY <2>2, <3>1, QueueFacts DEF KeysInv, PressesUninterrupted
  <2>3. CASE /\ Without(Queue, Queue', Place) /\ Queue' \in Seq(Events)
             /\ \A i \in DOMAIN Queue' : Queue'[i] = Queue[At(Place, i)]
    <3>1. \A i \in DOMAIN Queue' : At(Place, i) \in DOMAIN Queue
      BY <2>3, QueueFacts, WithoutPlaces
    <3>2. QED
      BY <2>3, <3>1 DEF KeysInv, PressesUninterrupted
  <2>4. QED
    BY <2>1, <2>2, <2>3, RetainedQueue DEF Cleared
<1>3. \A k \in Keys \ (TapKeys \cup overtaken') : PlainKeyInv(k)'
  <2> TAKE k \in Keys \ (TapKeys \cup overtaken')
  <2>1. k \notin overtaken => PlainKeyInv(k)
    BY DEF KeysInv
  <2>2. ShownIn(rep, k) <=> ShownIn(report, k)
    OBVIOUS
  <2>3. QED
    BY <2>1, <2>2, PlainRetainedKeeps
<1>4. \A k \in TapKeys \ overtaken' : TapKeyInv(k)'
  <2> TAKE k \in TapKeys \ overtaken'
  <2>1. k \notin overtaken => TapKeyInv(k)
    BY DEF KeysInv
  <2>2. TapRetained(t, r, rep, k)
    OBVIOUS
  <2>3. QED
    BY <2>1, <2>2, TapRetainedKeeps
<1>5. QED
  BY <1>1, <1>2, <1>3, <1>4 DEF KeysInv

(***************************************************************************)
(* The branches of process_tapping.                                        *)
(***************************************************************************)

LEMMA KeepsIf ==
  ASSUME NEW k, NEW rep, NEW t,
         CodeIn(rep, k) <=> CodeIn(report, k), ModIn(rep, k) <=> ModIn(report, k),
         Taken(t, k) => /\ Taken(tapping_key, k) /\ t.count = tapping_key.count
                        /\ tapping_key.interrupted => t.interrupted,
         Taken(tapping_key, k) => Taken(t, k)
  PROVE  Keeps(k, rep, t)
BY DEF Keeps, Shows

\* A record of a key is one of its presses, fresh, or one of its releases.
LEMMA PressFacts ==
  ASSUME IInv, KeysInv, ~Idle
  PROVE  /\ Record \in Events /\ report \in Reports /\ tapping_key \in Records \cup {None}
         /\ Record.key # TICK.key => Record \in Records
         /\ Record.pressed => /\ Record \in Records /\ Record.count = 0 /\ ~Record.interrupted
         /\ tapping_key # None => tapping_key \in Records /\ tapping_key.key \in TapKeys
<1>1. Record \in Events /\ (Record.pressed => Record.count = 0)
  BY QueueFacts DEF Fresh
<1>2. Record.pressed => ~Record.interrupted
  BY QueueFacts DEF KeysInv, PressesUninterrupted
<1>3. QED
  BY <1>1, <1>2 DEF KeysInv, IInv, TypeOK, Events, Records, Ticks, TICK

LEMMA SameCounts ==
  ASSUME IInv
  PROVE  CountsOnly(waiting_buffer)
BY DEF IInv, TypeOK, CountsOnly

LEMMA FirstTapKeys ==
  ASSUME IInv, KeysInv, ~Idle, FirstTap
  PROVE  KeysInv'
<1> DEFINE tap == [tapping_key EXCEPT !.count = 1]
           t == Acted(tap)
           r == [Record EXCEPT !.count = t.count, !.interrupted = tap.interrupted]
           rep == process_action(report, tap)
<1>1. /\ tapping_key \in Records /\ Record \in Records /\ report \in Reports
      /\ tapping_key.pressed /\ tapping_key.count = 0 /\ tapping_key.key \in TapKeys
      /\ Record.key = tapping_key.key /\ ~Record.pressed /\ tapping_key # None
  <2>1. tapping_key.key # TICK.key
    BY TappingKeyFacts DEF FirstTap, Undecided
  <2>2. QED
    BY <2>1, PressFacts DEF FirstTap, Undecided, Tapping, OwnKey
<1>2. /\ tap \in Records /\ tap.key = tapping_key.key /\ tap.pressed /\ tap.count = 1
      /\ tap.interrupted = tapping_key.interrupted /\ tapping_key.interrupted \in BOOLEAN
  BY <1>1, TappingAssumption DEF Records
<1>3. /\ t \in Records /\ t.key = tapping_key.key /\ t.pressed
      /\ t.interrupted = tapping_key.interrupted
      /\ t.count = IF tapping_key.interrupted THEN 0 ELSE 1
  <2>1. t \in Records /\ t.key = tapping_key.key /\ t.pressed
    BY <1>2, ActedType
  <2>2. t.interrupted = tapping_key.interrupted
        /\ t.count = IF tapping_key.interrupted THEN 0 ELSE 1
    BY <1>1, <1>2 DEF Acted, Records
  <2>3. QED
    BY <2>1, <2>2
<1>4. r \in Events /\ r.key = Record.key /\ r.pressed = Record.pressed /\ r.count = t.count
  BY <1>1, <1>2, <1>3 DEF Records, Events
<1>5. Retained(t, r, rep)
  BY DEF FirstTap
<1>6. ActsAsMod(tap) <=> tapping_key.interrupted
  BY <1>1, <1>2 DEF ActsAsMod
<1>7. /\ tapping_key.interrupted => /\ ModIn(rep, tapping_key.key)
                                    /\ CodeIn(rep, tapping_key.key) <=> CodeIn(report, tapping_key.key)
      /\ ~tapping_key.interrupted => /\ CodeIn(rep, tapping_key.key)
                                     /\ ModIn(rep, tapping_key.key) <=> ModIn(report, tapping_key.key)
  BY <1>1, <1>2, <1>6, ActionOnTap
<1>8. \A k \in Keys : k # tapping_key.key =>
        /\ k \notin TapKeys => (ShownIn(rep, k) <=> ShownIn(report, k))
        /\ k \in TapKeys => (CodeIn(rep, k) <=> CodeIn(report, k)) /\ (ModIn(rep, k) <=> ModIn(report, k))
  BY <1>1, <1>2, ActionElsewhere DEF Events
<1>9. t # None /\ t.key \in TapKeys
  BY <1>1, <1>3, NoneAssumption
<1> HIDE DEF t, r, rep, tap
<1>10. ASSUME NEW k \in Keys \ TapKeys PROVE ShownIn(rep, k) <=> ShownIn(report, k)
  BY <1>1, <1>8, <1>10
<1>11. ASSUME NEW k \in TapKeys PROVE TapRetained(t, r, rep, k)
  <2>1. CASE k # tapping_key.key
    <3>1. Keeps(k, rep, t)
      BY <1>1, <1>3, <1>8, <1>11, <2>1, KeepsIf, TappingAssumption DEF Taken
    <3>2. QED
      BY <1>1, <2>1, <3>1 DEF TapRetained
  <2>2. CASE k = tapping_key.key
    <3>1. Taken(tapping_key, k) /\ Taken(t, k)
      BY <1>1, <1>3, <1>9, <2>2 DEF Taken
    <3>2. CASE tapping_key.interrupted
      <4>1. Keeps(k, rep, t)
        BY <1>1, <1>3, <1>7, <2>2, <3>1, <3>2 DEF Keeps, Shows
      <4>2. QED
        BY <1>1, <1>3, <1>4, <2>2, <3>1, <3>2, <4>1 DEF TapRetained
    <3>3. CASE ~tapping_key.interrupted
      <4>1. \A up, n \in BOOLEAN : Shows(up, n, report, tapping_key, k) => Shows(up, TRUE, rep, t, k)
        BY <1>1, <1>3, <1>7, <2>2, <3>1, <3>3 DEF Shows
      <4>2. r.count # 0 /\ Record.key = k /\ tapping_key.count = 0
        BY <1>1, <1>3, <1>4, <2>2, <3>3
      <4>3. QED
        BY <3>1, <4>1, <4>2, Zenon DEF TapRetained
    <3>4. QED
      BY <3>2, <3>3
  <2>3. QED
    BY <2>1, <2>2
<1>12. r.pressed => r = Record
  BY <1>1, <1>4
<1>13. QED
  BY <1>4, <1>5, <1>9, <1>10, <1>11, <1>12, RetainedKeys

\* A record that is not the press of a tap key, nor the release that ends the tap, is
\* acted on.
LEMMA ActKeys ==
  ASSUME IInv, KeysInv, ~Idle, ~TapPress, ~Taken(tapping_key, Record.key),
         NEW t, t # None => t.key \in TapKeys,
         \A k \in TapKeys :
           /\ Taken(t, k) => /\ Taken(tapping_key, k) /\ t.count = tapping_key.count
                             /\ tapping_key.interrupted => t.interrupted
           /\ Taken(tapping_key, k) => Taken(t, k),
         Consumed(t, waiting_buffer, process_action(report, Record))
  PROVE  KeysInv'
<1> DEFINE rep == process_action(report, Record)
<1>1. Record \in Events /\ report \in Reports /\ (Record.key # TICK.key => Record \in Records)
  BY PressFacts
<1>2. ASSUME NEW k \in Keys \ TapKeys PROVE PlainConsumed(rep, k)
  <2>1. CASE Record.key = k
    <3>1. Record \in Records
      BY <1>1, <1>2, <2>1, TickIsNoKey
    <3>2. QED
      BY <1>1, <1>2, <2>1, <3>1, ActionOnPlain DEF PlainConsumed
  <2>2. CASE Record.key # k
    BY <1>1, <1>2, <2>2, ActionElsewhere DEF PlainConsumed
  <2>3. QED
    BY <2>1, <2>2
<1>3. ASSUME NEW k \in TapKeys PROVE TapConsumed(t, waiting_buffer, rep, k)
  <2>1. k \in Keys
    BY TappingAssumption
  <2>2. CASE Record.key # k
    <3>1. (CodeIn(rep, k) <=> CodeIn(report, k)) /\ (ModIn(rep, k) <=> ModIn(report, k))
      BY <1>1, <2>1, <2>2, ActionElsewhere
    <3> HIDE DEF rep
    <3>2. Keeps(k, rep, t)
      BY <3>1, KeepsIf
    <3>3. QED
      BY <2>2, <3>2 DEF TapConsumed
  <2>3. CASE Record.key = k
    <3>1. Record \in Records /\ ~Record.pressed /\ Record.count \in Nat
      BY <1>1, <2>1, <2>3, TickIsNoKey, EventFields DEF TapPress
    <3>2. ~Taken(tapping_key, k) /\ ~Taken(t, k)
      BY <2>3
    <3>3. /\ Record.count = 0 => ~ModIn(rep, k) /\ (CodeIn(rep, k) <=> CodeIn(report, k))
          /\ Record.count > 0 => ~CodeIn(rep, k) /\ (ModIn(rep, k) <=> ModIn(report, k))
      BY <1>1, <2>3, <3>1, ActionOnTap DEF ActsAsMod
    <3> HIDE DEF rep
    <3>4. ASSUME NEW tap \in BOOLEAN, tap <=> Record.count > 0,
                 Shows(FALSE, tap, report, tapping_key, k)
          PROVE  Shows(TRUE, FALSE, rep, t, k)
      BY <3>1, <3>2, <3>3, <3>4 DEF Shows
    <3>5. QED
      BY <2>3, <3>1, <3>4, Zenon DEF TapConsumed
  <2>4. QED
    BY <2>2, <2>3
<1> HIDE DEF rep
<1>4. Consumed(t, waiting_buffer, rep)
  BY DEF rep
<1>5. QED
  BY <1>2, <1>3, <1>4, SameCounts, ConsumedKeys

\* A record that waits on, with the report as it was.
LEMMA WaitKeys ==
  ASSUME IInv, KeysInv, ~Idle, NEW t, t # None => t.key \in TapKeys,
         \A k \in TapKeys :
           /\ Taken(t, k) => /\ Taken(tapping_key, k) /\ t.count = tapping_key.count
                             /\ tapping_key.interrupted => t.interrupted
           /\ Taken(tapping_key, k) => Taken(t, k),
         Retained(t, Record, report)
  PROVE  KeysInv'
<1>1. Record \in Events
  BY PressFacts
<1>2. \A k \in TapKeys : TapRetained(t, Record, report, k)
  BY KeepsIf DEF TapRetained
<1>3. QED
  BY <1>1, <1>2, RetainedKeys

LEMMA EarlierReleaseKeys ==
  ASSUME IInv, KeysInv, ~Idle, EarlierRelease
  PROVE  KeysInv'
<1>1. ~TapPress /\ ~Taken(tapping_key, Record.key)
  BY DEF EarlierRelease, OwnKey, TapPress, Taken
<1>2. tapping_key # None => tapping_key.key \in TapKeys
  BY PressFacts
<1>3. CASE RetainedRelease(Record)
  BY <1>2, <1>3, WaitKeys DEF EarlierRelease
<1>4. CASE ~RetainedRelease(Record)
  BY <1>1, <1>2, <1>4, ActKeys DEF EarlierRelease
<1>5. QED
  BY <1>3, <1>4

LEMMA WaitForTapKeys ==
  ASSUME IInv, KeysInv, ~Idle, WaitForTap
  PROVE  KeysInv'
<1> DEFINE t == [tapping_key EXCEPT !.interrupted = @ \/ Record.pressed]
<1>1. tapping_key \in Records /\ tapping_key.key \in TapKeys /\ tapping_key # None
  BY PressFacts DEF WaitForTap, Undecided, Tapping
<1>2. /\ t.key = tapping_key.key /\ t.pressed = tapping_key.pressed /\ t.count = tapping_key.count
      /\ tapping_key.interrupted => t.interrupted
      /\ t # None
  <2>1. (tapping_key.interrupted \/ Record.pressed) \in BOOLEAN
    OBVIOUS
  <2>2. t \in Records
    BY <1>1, <2>1 DEF Records
  <2>3. QED
    BY <1>1, <2>2, NoneAssumption DEF Records
<1>3. Retained(t, Record, report)
  BY DEF WaitForTap
<1> HIDE DEF t
<1>4. \A k \in TapKeys : /\ Taken(t, k) <=> Taken(tapping_key, k)
                         /\ t.count = tapping_key.count
                         /\ tapping_key.interrupted => t.interrupted
  BY <1>1, <1>2 DEF Taken
<1>5. QED
  BY <1>1, <1>2, <1>3, <1>4, WaitKeys

LEMMA HoldTimeoutKeys ==
  ASSUME IInv, KeysInv, ~Idle, HoldTimeout
  PROVE  KeysInv'
<1> DEFINE rep == process_action(report, tapping_key)
<1>1. /\ Record \in Events /\ report \in Reports /\ tapping_key \in Records /\ tapping_key # None
      /\ tapping_key.key \in TapKeys /\ tapping_key.pressed /\ tapping_key.count = 0
  BY PressFacts DEF HoldTimeout, Undecided, Tapping
<1>2. ModIn(rep, tapping_key.key) /\ (CodeIn(rep, tapping_key.key) <=> CodeIn(report, tapping_key.key))
  BY <1>1, ActionOnTap DEF ActsAsMod
<1>3. \A k \in Keys : k # tapping_key.key =>
        /\ k \notin TapKeys => (ShownIn(rep, k) <=> ShownIn(report, k))
        /\ k \in TapKeys => (CodeIn(rep, k) <=> CodeIn(report, k)) /\ (ModIn(rep, k) <=> ModIn(report, k))
  BY <1>1, ActionElsewhere DEF Events
<1>4. Retained(None, Record, rep)
  BY DEF HoldTimeout
<1> HIDE DEF rep
<1>5. ASSUME NEW k \in TapKeys PROVE Keeps(k, rep, None)
  <2>1. CASE k = tapping_key.key
    <3>1. Taken(tapping_key, k) /\ ~Taken(None, k)
      BY <1>1, <2>1 DEF Taken
    <3>2. QED
      BY <1>1, <1>2, <2>1, <3>1 DEF Keeps, Shows
  <2>2. CASE k # tapping_key.key
    BY <1>3, <2>2, KeepsIf, TappingAssumption DEF Taken
  <2>3. QED
    BY <2>1, <2>2
<1>6. \A k \in TapKeys : TapRetained(None, Record, rep, k)
  BY <1>5 DEF TapRetained
<1>7. QED
  BY <1>1, <1>3, <1>4, <1>6, RetainedKeys

LEMMA TapReleaseKeys ==
  ASSUME IInv, KeysInv, ~Idle, TapRelease
  PROVE  KeysInv'
<1> DEFINE r == [Record EXCEPT !.count = tapping_key.count, !.interrupted = tapping_key.interrupted]
           rep == process_action(report, r)
           t == IF InTerm THEN r ELSE None
<1>1. /\ tapping_key \in Records /\ Record \in Records /\ report \in Reports
      /\ tapping_key.pressed /\ tapping_key.count > 0 /\ tapping_key.key \in TapKeys
      /\ Record.key = tapping_key.key /\ ~Record.pressed /\ tapping_key # None
  <2>1. tapping_key.key # TICK.key
    BY TappingKeyFacts DEF TapRelease, Tapped
  <2>2. QED
    BY <2>1, PressFacts DEF TapRelease, Tapped, Tapping, OwnKey
<1>2. r \in Records /\ r.key = tapping_key.key /\ ~r.pressed /\ r.count # 0
  <2>1. tapping_key.count \in Nat
    BY <1>1, EventFields DEF Events
  <2>2. r \in Records /\ r.key = tapping_key.key /\ ~r.pressed /\ r.count = tapping_key.count
    BY <1>1 DEF Records
  <2>3. QED
    BY <1>1, <2>1, <2>2
<1>3. ~CodeIn(rep, tapping_key.key) /\ (ModIn(rep, tapping_key.key) <=> ModIn(report, tapping_key.key))
  BY <1>1, <1>2, ActionOnTap DEF ActsAsMod
<1>4. \A k \in Keys : k # tapping_key.key =>
        /\ k \notin TapKeys => (ShownIn(rep, k) <=> ShownIn(report, k))
        /\ k \in TapKeys => (CodeIn(rep, k) <=> CodeIn(report, k)) /\ (ModIn(rep, k) <=> ModIn(report, k))
  BY <1>1, <1>2, ActionElsewhere DEF Events
<1>5. (t # None => t.key \in TapKeys) /\ \A k : ~Taken(t, k)
  BY <1>1, <1>2 DEF Taken
<1>6. Consumed(t, waiting_buffer, rep)
  BY DEF TapRelease
<1> HIDE DEF r, rep, t
<1>7. ASSUME NEW k \in Keys \ TapKeys PROVE PlainConsumed(rep, k)
  BY <1>1, <1>4, <1>7 DEF PlainConsumed
<1>8. ASSUME NEW k \in TapKeys PROVE TapConsumed(t, waiting_buffer, rep, k)
  <2>1. CASE k = tapping_key.key
    <3>1. Taken(tapping_key, k)
      BY <1>1, <2>1 DEF Taken
    <3>2. ASSUME NEW tap \in BOOLEAN, Shows(FALSE, tap, report, tapping_key, k)
          PROVE  Shows(TRUE, FALSE, rep, t, k)
      BY <1>1, <1>3, <1>5, <2>1, <3>1, <3>2 DEF Shows
    <3>3. QED
      BY <1>1, <2>1, <3>2, Zenon DEF TapConsumed
  <2>2. CASE k # tapping_key.key
    <3>1. Keeps(k, rep, t)
      BY <1>4, <1>5, <2>2, KeepsIf, TappingAssumption DEF Taken
    <3>2. QED
      BY <1>1, <2>2, <3>1 DEF TapConsumed
  <2>3. QED
    BY <2>1, <2>2
<1>9. QED
  BY <1>5, <1>6, <1>7, <1>8, SameCounts, ConsumedKeys

LEMMA ActWhileTappedKeys ==
  ASSUME IInv, KeysInv, ~Idle, ActWhileTapped
  PROVE  KeysInv'
<1>1. ~TapPress /\ Consumed(tapping_key, waiting_buffer, process_action(report, Record))
  BY DEF ActWhileTapped
<1>2. CASE Taken(tapping_key, Record.key)
  <2>1. Record.key \in TapKeys /\ Record.pressed
    BY <1>2, PressFacts DEF ActWhileTapped, OwnKey, Taken
  <2>2. QED
    BY <1>1, <2>1 DEF TapPress
<1>3. CASE ~Taken(tapping_key, Record.key)
  BY <1>1, <1>3, PressFacts, ActKeys
<1>4. QED
  BY <1>2, <1>3

LEMMA ActAfterTapKeys ==
  ASSUME IInv, KeysInv, ~Idle, ActAfterTap
  PROVE  KeysInv'
<1> DEFINE t == [tapping_key EXCEPT !.interrupted = @ \/ Record.pressed]
<1>1. /\ tapping_key \in Records /\ tapping_key.key \in TapKeys /\ ~tapping_key.pressed
      /\ ~TapPress
  BY PressFacts DEF ActAfterTap, Tapping
<1>2. t.key = tapping_key.key /\ ~t.pressed
  BY <1>1 DEF Records
<1>3. Consumed(t, waiting_buffer, process_action(report, Record))
  BY DEF ActAfterTap
<1> HIDE DEF t
<1>4. t.key \in TapKeys /\ \A k : ~Taken(t, k) /\ ~Taken(tapping_key, k)
  BY <1>1, <1>2 DEF Taken
<1>5. QED
  BY <1>1, <1>3, <1>4, ActKeys

LEMMA TapTimeoutKeys ==
  ASSUME IInv, KeysInv, ~Idle, TapTimeout
  PROVE  KeysInv'
<1>1. Retained(None, Record, report) /\ \A k : ~Taken(None, k) /\ ~Taken(tapping_key, k)
  BY DEF TapTimeout, Tapping, Taken
<1>2. QED
  BY <1>1, WaitKeys

\* The press of a tap key that can be tapped again.
LEMMA SequentialTapKeys ==
  ASSUME IInv, KeysInv, ~Idle, SequentialTap
  PROVE  KeysInv'
<1> DEFINE n == IF tapping_key.count < MAX_TAP_COUNT THEN tapping_key.count + 1
                                                      ELSE tapping_key.count
           again == [Record EXCEPT !.count = n]
           own == Record.key
<1>1. /\ tapping_key \in Records /\ ~tapping_key.pressed /\ own = tapping_key.key
      /\ own \in TapKeys /\ Record \in Records /\ Record.pressed
      /\ Record.count = 0 /\ ~Record.interrupted /\ report \in Reports
      /\ \A k : ~Taken(tapping_key, k)
  BY PressFacts DEF SequentialTap, Tapping, OwnKey, Taken
<1>2. ASSUME NEW t \in Records, t.key = own, NEW rep, Consumed(t, waiting_buffer, rep),
             \A k \in Keys : k # own =>
               /\ k \notin TapKeys => (ShownIn(rep, k) <=> ShownIn(report, k))
               /\ k \in TapKeys => /\ CodeIn(rep, k) <=> CodeIn(report, k)
                                   /\ ModIn(rep, k) <=> ModIn(report, k),
             Shows(TRUE, FALSE, report, tapping_key, own) => Shows(FALSE, FALSE, rep, t, own)
      PROVE  KeysInv'
  <2>1. ASSUME NEW k \in Keys \ TapKeys PROVE PlainConsumed(rep, k)
    BY <1>1, <1>2, <2>1 DEF PlainConsumed
  <2>2. ASSUME NEW k \in TapKeys PROVE TapConsumed(t, waiting_buffer, rep, k)
    <3>1. CASE k # own
      <4>1. Keeps(k, rep, t)
        BY <1>1, <1>2, <3>1, KeepsIf, TappingAssumption DEF Taken
      <4>2. QED
        BY <3>1, <4>1 DEF TapConsumed
    <3>2. CASE k = own
      BY <1>1, <1>2, <3>2 DEF TapConsumed
    <3>3. QED
      BY <3>1, <3>2
  <2>3. QED
    BY <1>1, <1>2, <2>1, <2>2, SameCounts, ConsumedKeys
<1>3. CASE ~tapping_key.interrupted /\ tapping_key.count > 0
  <2>1. n \in 0 .. MAX_TAP_COUNT /\ n > 1
    <3>1. tapping_key.count \in 0 .. MAX_TAP_COUNT
      BY <1>1 DEF Records
    <3>2. QED
      BY <1>3, <3>1, TappingAssumption
  <2> HIDE DEF n
  <2>2. /\ again \in Records /\ again.key = own /\ again.pressed /\ again.count = n
        /\ ~again.interrupted /\ again # None
    BY <1>1, <2>1, NoneAssumption DEF Records
  <2> DEFINE rep == process_action(report, again)
  <2>3. Consumed(again, waiting_buffer, rep)
    BY <1>3 DEF SequentialTap, n
  <2> HIDE DEF again
  <2>4. CodeIn(rep, own) /\ (ModIn(rep, own) <=> ModIn(report, own))
    BY <1>1, <2>1, <2>2, ActionOnTap DEF ActsAsMod
  <2>5. \A k \in Keys : k # own =>
          /\ k \notin TapKeys => (ShownIn(rep, k) <=> ShownIn(report, k))
          /\ k \in TapKeys => (CodeIn(rep, k) <=> CodeIn(report, k)) /\ (ModIn(rep, k) <=> ModIn(report, k))
    BY <1>1, <2>2, ActionElsewhere DEF Events
  <2> HIDE DEF rep, own
  <2>6. Shows(TRUE, FALSE, report, tapping_key, own) => Shows(FALSE, FALSE, rep, again, own)
    BY <2>1, <2>2, <2>4 DEF Shows, Taken
  <2>7. QED
    BY <1>2, <2>2, <2>3, <2>5, <2>6
<1>4. CASE ~(~tapping_key.interrupted /\ tapping_key.count > 0)
  <2>1. Consumed(Record, waiting_buffer, report)
    BY <1>4 DEF SequentialTap
  <2>2. Shows(TRUE, FALSE, report, tapping_key, own) => Shows(FALSE, FALSE, report, Record, own)
    BY <1>1 DEF Shows, Taken
  <2>3. QED
    BY <1>1, <1>2, <2>1, <2>2
<1>5. QED
  BY <1>3, <1>4

\* The press of a tap key that has not been tapped; s is the report when the key that
\* was tapped before has been let go.
LEMMA StartTapKeys ==
  ASSUME IInv, KeysInv, ~Idle, TapPress, NEW s \in Reports, StartTap(Record, s),
         \A k \in Keys \ TapKeys : ShownIn(s, k) <=> ShownIn(report, k),
         \A k \in TapKeys : k # Record.key => Keeps(k, s, None),
         Shows(TRUE, FALSE, report, tapping_key, Record.key)
           => ~CodeIn(s, Record.key) /\ ~ModIn(s, Record.key)
  PROVE  KeysInv'
<1> DEFINE own == Record.key
<1>1. /\ own \in TapKeys /\ Record \in Records /\ Record.pressed
      /\ Record.count = 0 /\ ~Record.interrupted /\ Record # None
  BY PressFacts, NoneAssumption DEF TapPress
<1>2. ASSUME NEW t \in Records, t.key = own, NEW b, CountsOnly(b), NEW rep, Consumed(t, b, rep),
             \A i \in DOMAIN b : b[i].key # own => b[i].count = waiting_buffer[i].count,
             \A k \in Keys : k # own =>
               /\ k \notin TapKeys => (ShownIn(rep, k) <=> ShownIn(s, k))
               /\ k \in TapKeys => (CodeIn(rep, k) <=> CodeIn(s, k)) /\ (ModIn(rep, k) <=> ModIn(s, k)),
             ~CodeIn(s, own) /\ ~ModIn(s, own)
               => \/ b = waiting_buffer /\ Shows(FALSE, FALSE, rep, t, own)
                  \/ /\ \E i \in DOMAIN b : i # Place /\ b[i].key = own /\ b[i].count > 0
                     /\ Shows(FALSE, TRUE, rep, t, own)
      PROVE  KeysInv'
  <2>1. ASSUME NEW k \in Keys \ TapKeys PROVE PlainConsumed(rep, k)
    BY <1>1, <1>2, <2>1 DEF PlainConsumed
  <2>2. ASSUME NEW k \in TapKeys PROVE TapConsumed(t, b, rep, k)
    <3>1. CASE k # own
      <4>1. Keeps(k, s, None) /\ ~Taken(t, k) /\ ~Taken(None, k)
        BY <1>2, <3>1 DEF Taken
      <4>2. (CodeIn(rep, k) <=> CodeIn(s, k)) /\ (ModIn(rep, k) <=> ModIn(s, k))
        BY <1>2, <3>1, TappingAssumption
      <4>3. Keeps(k, rep, t)
        BY <4>1, <4>2 DEF Keeps, Shows
      <4>4. QED
        BY <1>2, <3>1, <4>3 DEF TapConsumed
    <3>2. CASE k = own
      <4>1. Shows(TRUE, FALSE, report, tapping_key, k)
              => \/ b = waiting_buffer /\ Shows(FALSE, FALSE, rep, t, k)
                 \/ /\ \E i \in DOMAIN b : i # Place /\ b[i].key = k /\ b[i].count > 0
                    /\ Shows(FALSE, TRUE, rep, t, k)
        BY <1>2, <3>2
      <4>2. Record.key = k /\ Record.pressed
        BY <1>1, <3>2
      <4>3. QED
        BY <4>1, <4>2, Zenon DEF TapConsumed
    <3>3. QED
      BY <3>1, <3>2
  <2>3. t # None => t.key \in TapKeys
    BY <1>1, <1>2
  <2>4. QED
    BY <1>2, <2>1, <2>2, <2>3, ConsumedKeys
<1>3. CASE FirstTapRelease(Record) = {}
  <2>1. Consumed(Record, waiting_buffer, s)
    BY <1>3 DEF StartTap
  <2>2. ~CodeIn(s, own) /\ ~ModIn(s, own) => Shows(FALSE, FALSE, s, Record, own)
    BY <1>1 DEF Shows
  <2>3. QED
    BY <1>1, <1>2, <2>1, <2>2, SameCounts
<1>4. CASE FirstTapRelease(Record) # {}
  <2> DEFINE tap == [Record EXCEPT !.count = 1]
             b(i) == [waiting_buffer EXCEPT ![i].count = 1]
             rep == process_action(s, tap)
  <2>1. PICK i \in FirstTapRelease(Record) : Consumed(Acted(tap), b(i), rep)
    BY <1>4 DEF StartTap
  <2>2. /\ tap \in Records /\ tap.key = own /\ tap.pressed /\ tap.count = 1 /\ ~tap.interrupted
    BY <1>1, TappingAssumption DEF Records
  <2>3. Acted(tap) = tap
    BY <2>2 DEF Acted
  <2>4. CodeIn(rep, own) /\ (ModIn(rep, own) <=> ModIn(s, own))
    <3> HIDE DEF tap
    <3>1. ~ActsAsMod(tap) /\ tap.key \in TapKeys
      BY <1>1, <2>2 DEF ActsAsMod
    <3>2. QED
      BY <2>2, <3>1, ActionOnTap
  <2>5. \A k \in Keys : k # own =>
          /\ k \notin TapKeys => (ShownIn(rep, k) <=> ShownIn(s, k))
          /\ k \in TapKeys => (CodeIn(rep, k) <=> CodeIn(s, k)) /\ (ModIn(rep, k) <=> ModIn(s, k))
    BY <2>2, ActionElsewhere DEF Events
  <2>6. i \in DOMAIN waiting_buffer /\ waiting_buffer[i].key = own /\ ~waiting_buffer[i].pressed
    BY DEF FirstTapRelease, IsTapRelease
  <2>7. \A j \in DOMAIN waiting_buffer : waiting_buffer[j] \in Records
    BY DEF IInv, TypeOK
  <2>8. /\ DOMAIN b(i) = DOMAIN waiting_buffer
        /\ \A j \in DOMAIN waiting_buffer :
             b(i)[j] = IF j = i THEN [waiting_buffer[i] EXCEPT !.count = 1] ELSE waiting_buffer[j]
    BY <2>6 DEF IInv, TypeOK
  <2> DEFINE c == [waiting_buffer[i] EXCEPT !.count = 1]
  <2>9. /\ c \in Records /\ c.key = own /\ c.count = 1 /\ c.pressed = waiting_buffer[i].pressed
        /\ c.interrupted = waiting_buffer[i].interrupted
    BY <2>6, <2>7, TappingAssumption DEF Records
  <2>10. b(i) \in Seq(Records) /\ Len(b(i)) = Len(waiting_buffer)
    BY <2>6, <2>9, ExceptSeq DEF IInv, TypeOK
  <2> HIDE DEF b, c
  <2>11. CountsOnly(b(i)) /\ \A j \in DOMAIN b(i) : b(i)[j].key # own => b(i)[j].count = waiting_buffer[j].count
    <3>1. DOMAIN b(i) = DOMAIN waiting_buffer
          /\ \A j \in DOMAIN waiting_buffer : b(i)[j] = IF j = i THEN c ELSE waiting_buffer[j]
      BY <2>8 DEF c
    <3>2. QED
      BY <2>6, <2>9, <2>10, <3>1 DEF CountsOnly
  <2>12. i # Place
    <3>1. Queue[i] = waiting_buffer[i] /\ Queue[Place] = Record
      BY <2>6, QueueFacts
    <3>2. QED
      BY <1>1, <2>6, <3>1
  <2>13. \E j \in DOMAIN b(i) : j # Place /\ b(i)[j].key = own /\ b(i)[j].count > 0
    <3>1. i \in DOMAIN b(i) /\ b(i)[i] = c
      BY <2>6, <2>8 DEF c
    <3>2. QED
      BY <2>9, <2>12, <3>1
  <2> HIDE DEF tap, rep
  <2>14. ~CodeIn(s, own) /\ ~ModIn(s, own) => Shows(FALSE, TRUE, rep, tap, own)
    BY <2>2, <2>4 DEF Shows, Taken
  <2> HIDE DEF own
  <2>15. QED
    BY <1>2, <2>1, <2>2, <2>3, <2>5, <2>11, <2>13, <2>14
<1>5. QED
  BY <1>3, <1>4

LEMMA LetGoKeys ==
  ASSUME IInv, KeysInv, ~Idle, Tapped
  PROVE  /\ LetGo \in Reports
         /\ \A k \in Keys \ TapKeys : ShownIn(LetGo, k) <=> ShownIn(report, k)
         /\ \A k \in TapKeys : Keeps(k, LetGo, None)
         /\ \A k \in TapKeys : k # tapping_key.key =>
              (CodeIn(LetGo, k) <=> CodeIn(report, k)) /\ (ModIn(LetGo, k) <=> ModIn(report, k))
<1> DEFINE own == tapping_key.key
           r == [tapping_key EXCEPT !.pressed = FALSE]
           rep == process_action(report, r)
<1>1. /\ tapping_key \in Records /\ tapping_key.pressed /\ tapping_key.count > 0
      /\ own \in TapKeys /\ report \in Reports /\ tapping_key # None
  BY PressFacts DEF Tapped, Tapping
<1>2. /\ r \in Records /\ r.key = own /\ ~r.pressed /\ r.count = tapping_key.count
      /\ tapping_key.count \in Nat
  BY <1>1, EventFields DEF Records, Events
<1>3. LetGo = IF tapping_key.count > 1 THEN rep ELSE report
  BY DEF LetGo
<1>4. rep \in Reports
  BY <1>1, <1>2, ActionType
<1> HIDE DEF r
<1>5. ~CodeIn(rep, own) /\ (ModIn(rep, own) <=> ModIn(report, own))
  <2>1. ~ActsAsMod(r) /\ r.key \in TapKeys
    BY <1>1, <1>2 DEF ActsAsMod
  <2>2. QED
    BY <1>1, <1>2, <2>1, ActionOnTap
<1>6. \A k \in Keys : k # own =>
        /\ k \notin TapKeys => (ShownIn(rep, k) <=> ShownIn(report, k))
        /\ k \in TapKeys => (CodeIn(rep, k) <=> CodeIn(report, k)) /\ (ModIn(rep, k) <=> ModIn(report, k))
  BY <1>1, <1>2, ActionElsewhere DEF Events
<1> HIDE DEF rep
<1>7. \A k \in Keys \ TapKeys : ShownIn(LetGo, k) <=> ShownIn(report, k)
  BY <1>1, <1>3, <1>6
<1>8. \A k \in TapKeys : k # own =>
        (CodeIn(LetGo, k) <=> CodeIn(report, k)) /\ (ModIn(LetGo, k) <=> ModIn(report, k))
  BY <1>3, <1>6, TappingAssumption
<1>9. ASSUME NEW k \in TapKeys PROVE Keeps(k, LetGo, None)
  <2>1. ~Taken(None, k) /\ (Taken(tapping_key, k) <=> k = own)
    BY <1>1 DEF Taken
  <2>2. CASE k # own
    BY <1>8, <2>1, <2>2, KeepsIf
  <2>3. CASE k = own /\ tapping_key.count > 1
    <3>1. LetGo = rep
      BY <1>3, <2>3
    <3>2. QED
      BY <1>5, <2>1, <2>3, <3>1 DEF Keeps, Shows
  <2>4. CASE k = own /\ tapping_key.count = 1
    <3>1. LetGo = report
      BY <1>3, <2>4
    <3>2. QED
      BY <2>1, <2>4, <3>1 DEF Keeps, Shows
  <2>5. QED
    BY <1>1, <1>2, <2>2, <2>3, <2>4
<1>10. QED
  BY <1>1, <1>3, <1>4, <1>7, <1>8, <1>9

LEMMA TapInterferesKeys ==
  ASSUME IInv, KeysInv, ~Idle, TapInterferes
  PROVE  KeysInv'
<1>1. Tapped /\ TapPress /\ StartTap(Record, LetGo)
  BY DEF TapInterferes
<1>2. Shows(TRUE, FALSE, report, tapping_key, Record.key)
        => ~CodeIn(LetGo, Record.key) /\ ~ModIn(LetGo, Record.key)
  <2>1. Record.key # tapping_key.key => /\ CodeIn(LetGo, Record.key) <=> CodeIn(report, Record.key)
                                        /\ ModIn(LetGo, Record.key) <=> ModIn(report, Record.key)
    BY <1>1, LetGoKeys DEF TapPress
  <2>2. Record.key = tapping_key.key => Taken(tapping_key, Record.key)
    BY <1>1 DEF Tapped, Tapping, Taken
  <2>3. QED
    BY <2>1, <2>2 DEF Shows
<1>3. QED
  BY <1>1, <1>2, LetGoKeys, StartTapKeys

LEMMA OtherTapAfterTapKeys ==
  ASSUME IInv, KeysInv, ~Idle, OtherTapAfterTap
  PROVE  KeysInv'
<1>1. TapPress /\ StartTap(Record, report)
  BY DEF OtherTapAfterTap
<1>2. \A k : Keeps(k, report, None)
  BY KeepsIf DEF OtherTapAfterTap, Tapping, Taken
<1>3. Shows(TRUE, FALSE, report, tapping_key, Record.key)
        => ~CodeIn(report, Record.key) /\ ~ModIn(report, Record.key)
  BY DEF Shows
<1>4. QED
  BY <1>1, <1>2, <1>3, PressFacts, StartTapKeys

LEMMA NotTappingKeys ==
  ASSUME IInv, KeysInv, ~Idle, NotTapping
  PROVE  KeysInv'
<1>1. tapping_key = None /\ \A k : ~Taken(None, k)
  BY DEF NotTapping, Taken
<1>2. CASE TapPress
  <2>1. StartTap(Record, report)
    BY <1>2 DEF NotTapping
  <2>2. \A k : Keeps(k, report, None)
    BY <1>1, KeepsIf
  <2>3. Shows(TRUE, FALSE, report, tapping_key, Record.key)
          => ~CodeIn(report, Record.key) /\ ~ModIn(report, Record.key)
    BY DEF Shows
  <2>4. QED
    BY <1>2, <2>1, <2>2, <2>3, PressFacts, StartTapKeys
<1>3. CASE ~TapPress
  <2>1. Consumed(None, waiting_buffer, process_action(report, Record))
    BY <1>3 DEF NotTapping
  <2>2. ~Taken(tapping_key, Record.key)
    BY <1>1
  <2>3. QED
    BY <1>1, <1>3, <2>1, <2>2, ActKeys
<1>4. QED
  BY <1>2, <1>3

(***************************************************************************)
(* The task and the clock.                                                 *)
(***************************************************************************)

\* A new event changes nothing for the other keys.
LEMMA AppendOther ==
  ASSUME NEW q \in Seq(Events), NEW e \in Events, NEW k, e.key # k, NEW d \in BOOLEAN
  PROVE  /\ \A f, rep : PlainInv(q, k, d, f, rep) => PlainInv(Append(q, e), k, d, f, rep)
         /\ QueueInv(q, k, d) => QueueInv(Append(q, e), k, d)
         /\ LetUp(Append(q, e), k, d) <=> LetUp(q, k, d)
         /\ TapNext(Append(q, e), k) <=> TapNext(q, k)
<1> DEFINE n == Len(q)
           r == Append(q, e)
<1>1. /\ n \in Nat /\ DOMAIN q = 1 .. n /\ DOMAIN r = 1 .. n + 1 /\ r \in Seq(Events)
      /\ Len(r) = n + 1 /\ r[n + 1] = e /\ \A i \in 1 .. n : r[i] = q[i]
  BY AppendProperties
<1> HIDE DEF r
<1>2. Without(r, q, n + 1) /\ r[n + 1].key # k /\ \A i \in DOMAIN q : q[i] = r[At(n + 1, i)]
  BY <1>1 DEF Without, At
<1>3. /\ NoneOf(q, k) <=> NoneOf(r, k)
      /\ Alternate(q, k) <=> Alternate(r, k)
      /\ EndsWith(q, k, d) <=> EndsWith(r, k, d)
      /\ LetUp(q, k, d) <=> LetUp(r, k, d)
  BY <1>1, <1>2, WithoutOther
<1>4. /\ TapNext(q, k) <=> TapNext(r, k)
      /\ OnlyNextSettled(q, k) <=> OnlyNextSettled(r, k)
  BY <1>1, <1>2, CountsKept
<1>5. ReleaseIn(q, k) => ReleaseIn(r, k)
  BY <1>1 DEF ReleaseIn
<1>6. QED
  BY <1>3, <1>4, <1>5 DEF PlainInv, QueueInv, r

LEMMA KeyEventKeys ==
  ASSUME IInv, KeysInv, NEW k \in Keys, KeyEvent(k)
  PROVE  KeysInv'
<1> DEFINE q == waiting_buffer
           e == event'
           r == Append(q, e)
<1>1. /\ Queue = q /\ q \in Seq(Events) /\ e \in Records /\ e \in Events
      /\ e.key = k /\ e.pressed = (k \notin down) /\ e.count = 0 /\ ~e.interrupted
      /\ Queue' = r
  <2>1. event = None /\ waiting_buffer' = waiting_buffer /\ event' = NewRecord(k, k \notin down)
    BY DEF KeyEvent, Idle
  <2> DEFINE p == k \notin down
  <2>2. p \in BOOLEAN
    OBVIOUS
  <2> HIDE DEF p
  <2>3. /\ NewRecord(k, p) \in Records /\ NewRecord(k, p).key = k /\ NewRecord(k, p).pressed = p
        /\ NewRecord(k, p).count = 0 /\ ~NewRecord(k, p).interrupted
    BY <2>2, NewRecordType DEF IInv, NewRecord
  <2>4. e \in Records /\ e.key = k /\ e.pressed = p /\ e.count = 0 /\ ~e.interrupted
    BY <2>1, <2>3 DEF p
  <2>5. e # None
    BY <2>4, NoneAssumption
  <2>6. q \in Seq(Events) /\ e \in Events
    BY <2>4 DEF Events, IInv, TypeOK
  <2>7. QED
    BY <2>1, <2>4, <2>5, <2>6 DEF Queue, p
<1>2. /\ \A j \in Keys : j # k => (Held(j))' = Held(j) /\ (j \in forgotten' <=> j \in forgotten)
      /\ Held(k) \in BOOLEAN /\ (Held(k))' = e.pressed /\ e.pressed # Held(k)
  BY <1>1 DEF KeyEvent, Held
<1>3. \A j : Held(j) \in BOOLEAN
  BY DEF Held
<1>4. /\ report' = report /\ tapping_key' = tapping_key
      /\ overtaken' = IF k \in down \cup TapKeys \/ Waits(k) THEN overtaken ELSE overtaken \ {k}
  BY DEF KeyEvent
<1> HIDE DEF e, r
<1>5. PressesUninterrupted'
  <2>1. \A i \in DOMAIN r : (i \in DOMAIN q /\ r[i] = q[i]) \/ r[i] = e
    BY <1>1, AppendProperties DEF r
  <2>2. QED
    BY <1>1, <2>1 DEF KeysInv, PressesUninterrupted
<1>6. ASSUME NEW j \in Keys \ (TapKeys \cup overtaken') PROVE PlainKeyInv(j)'
  <2>1. CASE j # k
    <3>1. PlainInv(q, j, Held(j), j \in forgotten, report)
      BY <1>1, <1>4, <1>6, <2>1 DEF KeysInv, PlainKeyInv
    <3>2. PlainInv(r, j, Held(j), j \in forgotten, report)
      BY <1>1, <1>3, <2>1, <3>1, AppendOther DEF r
    <3>3. QED
      BY <1>1, <1>2, <1>4, <2>1, <3>2 DEF PlainKeyInv, PlainInv
  <2>2. CASE j = k
    <3>1. EndsWith(q, k, Held(k))
      <4>1. CASE k \notin overtaken
        BY <1>1, <1>6, <2>2, <4>1 DEF KeysInv, PlainKeyInv, PlainInv
      <4>2. CASE k \in overtaken
        <5>1. \A i \in DOMAIN q : q[i].key # k
          BY <1>4, <1>6, <2>2, <4>2 DEF Waits
        <5>2. QED
          BY <5>1 DEF EndsWith, Last
      <4>3. QED
        BY <4>1, <4>2
    <3>2. EndsWith(r, k, e.pressed) /\ ~NoneOf(r, k)
      BY <1>1, <1>2, <3>1, AppendOwn DEF r
    <3>3. ~e.pressed => ReleaseIn(r, k)
      BY <1>1, AppendProperties DEF ReleaseIn, r
    <3>4. QED
      BY <1>1, <1>2, <2>2, <3>2, <3>3 DEF PlainKeyInv, PlainInv
  <2>3. QED
    BY <2>1, <2>2
<1>7. ASSUME NEW j \in TapKeys \ overtaken' PROVE TapKeyInv(j)'
  <2>1. j \in Keys /\ j \notin overtaken
    BY <1>4, <1>7, TappingAssumption
  <2>2. /\ QueueInv(q, j, Held(j))
        /\ Shows(LetUp(q, j, Held(j)), TapNext(q, j), report, tapping_key, j)
    BY <1>1, <1>7, <2>1 DEF KeysInv, TapKeyInv
  <2>3. CASE j # k
    <3>1. /\ QueueInv(r, j, Held(j)) /\ (LetUp(r, j, Held(j)) <=> LetUp(q, j, Held(j)))
          /\ TapNext(r, j) <=> TapNext(q, j)
      BY <1>1, <1>3, <2>2, <2>3, AppendOther DEF r
    <3>2. Shows(LetUp(r, j, Held(j)), TapNext(r, j), report, tapping_key, j)
      BY <2>2, <3>1 DEF Shows
    <3>3. QED
      BY <1>1, <1>2, <1>4, <2>1, <2>3, <3>1, <3>2 DEF TapKeyInv
  <2>4. CASE j = k
    <3>1. /\ QueueInv(r, k, e.pressed) /\ (LetUp(r, k, e.pressed) <=> LetUp(q, k, Held(k)))
          /\ TapNext(r, k) <=> TapNext(q, k)
      BY <1>1, <1>2, <2>2, <2>4, AppendOwn DEF r, QueueInv
    <3>2. Shows(LetUp(r, k, e.pressed), TapNext(r, k), report, tapping_key, k)
      BY <2>2, <2>4, <3>1 DEF Shows
    <3>3. QED
      BY <1>1, <1>2, <1>4, <2>4, <3>1, <3>2 DEF TapKeyInv
  <2>5. QED
    BY <2>3, <2>4
<1>8. QED
  BY <1>4, <1>5, <1>6, <1>7 DEF KeysInv

LEMMA TickKeys ==
  ASSUME IInv, KeysInv, Tick
  PROVE  KeysInv'
<1> DEFINE q == waiting_buffer
           e == event'
           r == Append(q, e)
<1>1. /\ Queue = q /\ q \in Seq(Events) /\ e \in Events /\ e.key = TICK.key /\ ~e.pressed
      /\ Queue' = r
  <2>1. event = None /\ waiting_buffer' = waiting_buffer /\ event' = NewRecord(TICK.key, FALSE)
    BY DEF Tick, Idle
  <2>2. e \in Ticks /\ e.key = TICK.key /\ ~e.pressed
    BY <2>1, NewRecordType DEF IInv, NewRecord
  <2>3. e # None
    BY <2>2, NoneAssumption
  <2>4. q \in Seq(Events) /\ e \in Events
    BY <2>2 DEF Events, IInv, TypeOK
  <2>5. QED
    BY <2>1, <2>2, <2>3, <2>4 DEF Queue
<1>2. /\ down' = down /\ forgotten' = forgotten /\ overtaken' = overtaken
      /\ report' = report /\ tapping_key' = tapping_key
  BY DEF Tick
<1>3. \A j : Held(j) \in BOOLEAN /\ (Held(j))' = Held(j)
  BY <1>2 DEF Held
<1> HIDE DEF e, r
<1>4. PressesUninterrupted'
  <2>1. \A i \in DOMAIN r : (i \in DOMAIN q /\ r[i] = q[i]) \/ r[i] = e
    BY <1>1, AppendProperties DEF r
  <2>2. QED
    BY <1>1, <2>1 DEF KeysInv, PressesUninterrupted
<1>5. \A j \in Keys : e.key # j
  BY <1>1, TickIsNoKey
<1>6. ASSUME NEW j \in Keys \ (TapKeys \cup overtaken') PROVE PlainKeyInv(j)'
  <2>1. PlainInv(q, j, Held(j), j \in forgotten, report)
    BY <1>1, <1>2, <1>6 DEF KeysInv, PlainKeyInv
  <2>2. PlainInv(r, j, Held(j), j \in forgotten, report)
    BY <1>1, <1>3, <1>5, <2>1, AppendOther DEF r
  <2>3. QED
    BY <1>1, <1>2, <1>3, <2>2 DEF PlainKeyInv
<1>7. ASSUME NEW j \in TapKeys \ overtaken' PROVE TapKeyInv(j)'
  <2>1. j \in Keys
    BY TappingAssumption
  <2>2. /\ QueueInv(q, j, Held(j))
        /\ Shows(LetUp(q, j, Held(j)), TapNext(q, j), report, tapping_key, j)
    BY <1>1, <1>2, <1>7 DEF KeysInv, TapKeyInv
  <2>3. /\ QueueInv(r, j, Held(j)) /\ (LetUp(r, j, Held(j)) <=> LetUp(q, j, Held(j)))
        /\ TapNext(r, j) <=> TapNext(q, j)
    BY <1>1, <1>3, <1>5, <2>1, <2>2, AppendOther DEF r
  <2>4. Shows(LetUp(r, j, Held(j)), TapNext(r, j), report, tapping_key, j)
    BY <2>2, <2>3 DEF Shows
  <2>5. QED
    BY <1>1, <1>2, <1>3, <2>3, <2>4 DEF TapKeyInv
<1>8. QED
  BY <1>2, <1>4, <1>6, <1>7 DEF KeysInv

LEMMA UnchangedKeys ==
  ASSUME KeysInv,
         UNCHANGED <<down, event, tapping_key, waiting_buffer, report, forgotten, overtaken>>
  PROVE  KeysInv'
<1>1. Queue' = Queue
  BY DEF Queue
<1>2. \A k : (Held(k))' = Held(k)
  BY DEF Held
<1>3. PressesUninterrupted'
  BY <1>1 DEF KeysInv, PressesUninterrupted
<1>4. \A k : (PlainKeyInv(k) => PlainKeyInv(k)') /\ (TapKeyInv(k) => TapKeyInv(k)')
  BY <1>1, <1>2 DEF PlainKeyInv, TapKeyInv
<1>5. QED
  BY <1>3, <1>4 DEF KeysInv

(***************************************************************************)
(* Theorems.                                                               *)
(***************************************************************************)

LEMMA KeysInvariance == Spec => [](IInv /\ KeysInv)
<1>1. Init => KeysInv
  <2> SUFFICES ASSUME Init PROVE KeysInv
    OBVIOUS
  <2>1. Queue = <<>> /\ report = Empty /\ tapping_key = None /\ down = {} /\ forgotten = {}
    BY DEF Init, Queue
  <2>2. \A k : ~CodeIn(report, k) /\ ~ModIn(report, k) /\ ~ShownIn(report, k) /\ ~Held(k)
    BY <2>1 DEF CodeIn, ModIn, ShownIn, Empty, Held
  <2>3. \A k : EndsWith(<<>>, k, Held(k)) /\ Alternate(<<>>, k) /\ OnlyNextSettled(<<>>, k)
               /\ ~TapNext(<<>>, k)
    BY DEF EndsWith, Alternate, OnlyNextSettled, TapNext
  <2>4. \A k : PlainKeyInv(k)
    BY <2>1, <2>2, <2>3 DEF PlainKeyInv, PlainInv
  <2>5. \A k : TapKeyInv(k)
    BY <2>1, <2>2, <2>3 DEF TapKeyInv, QueueInv, Shows, Taken
  <2>6. PressesUninterrupted
    BY <2>1 DEF PressesUninterrupted
  <2>7. QED
    BY <2>1, <2>4, <2>5, <2>6 DEF KeysInv
<1>2. IInv /\ KeysInv /\ [Next]_vars => KeysInv'
  <2> SUFFICES ASSUME IInv, KeysInv, [Next]_vars PROVE KeysInv'
    OBVIOUS
  <2>1. CASE process_tapping
    BY <2>1, FirstTapKeys, EarlierReleaseKeys, WaitForTapKeys, HoldTimeoutKeys, TapReleaseKeys,
       TapInterferesKeys, ActWhileTappedKeys, SequentialTapKeys, OtherTapAfterTapKeys,
       ActAfterTapKeys, TapTimeoutKeys, NotTappingKeys
    DEF process_tapping
  <2>2. CASE \E k \in Keys : KeyEvent(k)
    BY <2>2, KeyEventKeys
  <2>3. CASE Tick
    BY <2>3, TickKeys
  <2>4. CASE PassTime \/ UNCHANGED vars
    BY <2>4, UnchangedKeys DEF PassTime, vars
  <2>5. QED
    BY <2>1, <2>2, <2>3, <2>4 DEF Next
<1>3. QED
  BY <1>1, <1>2, Invariance, PTL DEF Spec

\* A release that is still in the queue is owed.
LEMMA ReleaseIsOwed ==
  ASSUME IInv, NEW k, ReleaseIn(Queue, k)
  PROVE  Owed(k)
<1>1. PICK i \in DOMAIN Queue : Queue[i].key = k /\ ~Queue[i].pressed
  BY DEF ReleaseIn
<1>2. CASE event = None
  BY <1>1, <1>2 DEF Queue, Owed, ReleaseWaits
<1>3. CASE event # None
  <2>1. (i \in DOMAIN waiting_buffer /\ Queue[i] = waiting_buffer[i]) \/ Queue[i] = event
    BY <1>3, AppendProperties DEF Queue, IInv, TypeOK
  <2>2. QED
    BY <1>1, <1>3, <2>1 DEF Owed, ReleaseWaits
<1>4. QED
  BY <1>2, <1>3

LEMMA ShownIsOwed ==
  ASSUME IInv, KeysInv, NEW k \in Keys \ overtaken,
         IF k \in TapKeys THEN CodeIn(report, k) \/ ModIn(report, k) ELSE ShownIn(report, k)
  PROVE  Owed(k)
<1>1. Queue \in Seq(Events)
  <2>1. waiting_buffer \in Seq(Events) /\ (event # None => event \in Events)
    BY DEF Events, IInv, TypeOK
  <2>2. QED
    BY <2>1, AppendProperties DEF Queue
<1>2. Held(k) \/ ReleaseIn(Queue, k)
  <2>1. CASE k \in TapKeys
    <3>1. ~LetUp(Queue, k, Held(k))
      BY <2>1 DEF KeysInv, TapKeyInv, Shows
    <3>2. CASE NoneOf(Queue, k)
      BY <3>1, <3>2 DEF LetUp
    <3>3. CASE \E i \in DOMAIN Queue : First(Queue, k, i)
      BY <3>1, <3>3 DEF LetUp, First, ReleaseIn
    <3>4. QED
      BY <1>1, <3>2, <3>3, FirstExists
  <2>2. CASE k \notin TapKeys
    BY <2>2 DEF KeysInv, PlainKeyInv, PlainInv
  <2>3. QED
    BY <2>1, <2>2
<1>3. QED
  BY <1>2, ReleaseIsOwed DEF Held, Owed

\* No key sticks, for every keymap without a code or a modifier that two keys share,
\* every term, every clock and every size of the waiting buffer (process_tapping,
\* waiting_buffer_scan_tap, process_action).
THEOREM NoKeySticks == Spec => []NoStuckKey
<1>1. IInv /\ KeysInv => NoStuckKey
  <2> SUFFICES ASSUME IInv, KeysInv PROVE NoStuckKey
    OBVIOUS
  <2>1. ASSUME NEW c \in report.codes
        PROVE  \E k \in CodeKeys : codeOf[k] = c /\ (Owed(k) \/ k \in overtaken)
    <3>1. c \in Codes
      BY DEF IInv, TypeOK, Reports
    <3>2. PICK k \in CodeKeys : codeOf[k] = c
      BY <3>1 DEF Codes
    <3>3. k \in Keys /\ CodeIn(report, k) /\ (k \notin TapKeys => ShownIn(report, k))
      BY <3>2 DEF CodeKeys, CodeIn, ShownIn
    <3>4. QED
      BY <3>2, <3>3, ShownIsOwed
  <2>2. ASSUME NEW m \in report.mods
        PROVE  \E k \in TapKeys \cup ModKeys : modOf[k] = m /\ (Owed(k) \/ k \in overtaken)
    <3>1. m \in Mods
      BY DEF IInv, TypeOK, Reports
    <3>2. PICK k \in TapKeys \cup ModKeys : modOf[k] = m
      BY <3>1 DEF Mods
    <3>3. k \in Keys /\ ModIn(report, k) /\ (k \notin TapKeys => ShownIn(report, k))
      BY <3>2, TappingAssumption DEF ModIn, ShownIn
    <3>4. QED
      BY <3>2, <3>3, ShownIsOwed
  <2>3. QED
    BY <2>1, <2>2 DEF NoStuckKey
<1>2. QED
  BY <1>1, KeysInvariance, PTL

\* No plain key and no modifier is lost: what is held is shown when nothing waits,
\* unless the buffer overflowed or an event overtook another (waiting_buffer_enq,
\* action_tapping_process).
THEOREM NoPlainKeyIsLost == Spec => []NoLostKey
<1>1. IInv /\ KeysInv => NoLostKey
  <2> SUFFICES ASSUME IInv, KeysInv, Idle, waiting_buffer = <<>>,
                      NEW k \in down \ (TapKeys \cup forgotten \cup overtaken)
               PROVE  ShownIn(report, k)
    BY DEF NoLostKey, ShownIn, CodeIn, ModIn
  <2>1. NoneOf(Queue, k) /\ Held(k) /\ k \in Keys
    BY DEF Idle, Queue, NoneOf, Held, IInv, TypeOK
  <2>2. QED
    BY <2>1 DEF KeysInv, PlainKeyInv, PlainInv
<1>2. QED
  BY <1>1, KeysInvariance, PTL

\* With a keymap that has no tap key the report always shows exactly the keys that are
\* held, once their events have been acted on: no event overtakes another, and the
\* waiting buffer forgets none.
ShowsHeldKeys == Idle => \A k \in Keys : ShownIn(report, k) <=> k \in down

NothingOvertaken == overtaken = {} /\ forgotten = {}

THEOREM PlainKeymapShowsHeldKeys ==
  ASSUME TapKeys = {}
  PROVE  Spec => []ShowsHeldKeys
<1>1. Init => NothingOvertaken
  BY DEF Init, NothingOvertaken
<1>2. NothingWaits /\ NothingOvertaken /\ [Next]_vars => NothingOvertaken'
  <2> SUFFICES ASSUME NothingWaits, NothingOvertaken, [Next]_vars PROVE NothingOvertaken'
    OBVIOUS
  <2>1. CASE process_tapping
    <3>1. Consumed(None, waiting_buffer, process_action(report, Record))
      BY <2>1 DEF NothingWaits, process_tapping, Tapping, Undecided, Tapped, TapPress,
                  FirstTap, EarlierRelease, WaitForTap, HoldTimeout, TapRelease, TapInterferes,
                  ActWhileTapped, SequentialTap, OtherTapAfterTap, ActAfterTap, TapTimeout, NotTapping
    <3>2. \A buffer : SettledAhead(buffer) = {}
      BY DEF SettledAhead
    <3>3. ~\E k : Waits(k)
      BY DEF NothingWaits, Waits
    <3>4. QED
      BY <3>1, <3>2, <3>3 DEF Consumed, NothingOvertaken
  <2>2. CASE \E k \in Keys : KeyEvent(k)
    BY <2>2 DEF KeyEvent, NothingOvertaken
  <2>3. CASE Tick \/ PassTime \/ UNCHANGED vars
    BY <2>3 DEF Tick, PassTime, vars, NothingOvertaken
  <2>4. QED
    BY <2>1, <2>2, <2>3 DEF Next
<1>3. IInv /\ KeysInv /\ NothingWaits /\ NothingOvertaken => ShowsHeldKeys
  <2> SUFFICES ASSUME IInv, KeysInv, NothingWaits, NothingOvertaken, Idle, NEW k \in Keys
               PROVE  ShownIn(report, k) <=> k \in down
    BY DEF ShowsHeldKeys
  <2>1. Queue = <<>>
    BY DEF Idle, NothingWaits, Queue
  <2>2. PlainKeyInv(k)
    BY DEF KeysInv, NothingOvertaken
  <2>3. NoneOf(Queue, k) /\ ~ReleaseIn(Queue, k)
    BY <2>1 DEF NoneOf, ReleaseIn
  <2>4. QED
    BY <2>2, <2>3 DEF PlainKeyInv, PlainInv, NothingOvertaken, Held
<1>4. Spec => []NothingWaits
  BY PlainKeymapNeverWaits
<1>5. QED
  BY <1>1, <1>2, <1>3, <1>4, KeysInvariance, PTL DEF Spec

=============================================================================
