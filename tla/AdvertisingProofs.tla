------------------------- MODULE AdvertisingProofs -------------------------
(***************************************************************************)
(* Proofs about Advertising, for every set of hosts and every number of    *)
(* peer ids.                                                               *)
(***************************************************************************)
EXTENDS Advertising, SequenceTheorems, TLAPS

USE DEF BLE_ADV_MODE_IDLE, BLE_ADV_MODE_DIRECTED_HIGH_DUTY, BLE_ADV_MODE_DIRECTED,
        BLE_ADV_MODE_FAST, BLE_ADV_MODE_SLOW, BLE_ADV_MODES

(***************************************************************************)
(* Types.                                                                  *)
(***************************************************************************)

\* A step that adds an event at the end of the queue keeps the queue's type.
LEMMA AppendEvent ==
  ASSUME AdvTypeOK, NEW type \in EventTypes, NEW host \in Hosts \cup {Nobody},
         NEW peer \in PeerIds \cup {PM_PEER_ID_INVALID}
  PROVE  Append(events, BleEvent(type, host, peer)) \in Seq(BleEvents)
<1>1. BleEvent(type, host, peer) \in BleEvents
  BY DEF BleEvent, BleEvents
<1> QED
  BY <1>1 DEF AdvTypeOK

\* The event a handler takes, and those it leaves.
LEMMA TakeEvent ==
  ASSUME AdvTypeOK, events # <<>>
  PROVE  /\ events[1] \in BleEvents
         /\ Tail(events) \in Seq(BleEvents)
         /\ Len(events) \in Nat /\ 0 < Len(events)
         /\ Len(Tail(events)) = Len(events) - 1
         /\ Len(events) = 2 => Tail(events)[1] = events[2]
<1>1. events \in Seq(BleEvents)
  BY DEF AdvTypeOK
<1>2. Len(events) \in Nat /\ 0 < Len(events)
  BY <1>1, EmptySeq, LenProperties
<1>3. events[1] \in BleEvents
  BY <1>1, <1>2, ElementOfSeq
<1>4. Tail(events) \in Seq(BleEvents) /\ Len(Tail(events)) = Len(events) - 1
  BY <1>1, <1>2, HeadTailProperties
<1>5. Len(events) = 2 => Tail(events)[1] = events[2]
  BY <1>1, <1>2, HeadTailProperties
<1> QED
  BY <1>2, <1>3, <1>4, <1>5

\* Restarting after a refused call touches nothing but the two power variables.
LEMMA FailType ==
  ASSUME AdvTypeOK, NEW call \in {"identities", "whitelist"}, Fail(call),
         unreported' \subseteq unreported
  PROVE  AdvTypeOK'
BY DEF AdvTypeOK, Fail, listVars, paramVars, InUse, BleEvents

\* Starting the next mode keeps the types.
LEMMA AdvertiseType ==
  ASSUME AdvertisingAssumption, AdvTypeOK, events # <<>>, NEW mode \in 0 .. 4,
         NEW resolvable, Advertise(mode, resolvable)
  PROVE  AdvTypeOK'
<1>1. CASE IdentitiesRefused(mode, resolvable)
  BY <1>1, FailType DEF Advertise
<1>2. CASE ~IdentitiesRefused(mode, resolvable)
  <2>1. PeerAddrReply(mode) \in Hosts \cup {Nobody}
    BY DEF AdvTypeOK, PeerAddrReply, InUse
  <2>2. adv_mode_next_avail_get(mode, PeerAddrReply(mode)) \in 0 .. 4
    BY DEF adv_mode_next_avail_get
  <2>3. /\ ble_advertising_start(mode, m_wlisted_peers)
        /\ connPeer' = PM_PEER_ID_INVALID
        /\ events' = Tail(events)
        /\ UNCHANGED <<owner, stored, unreported, m_peer_id, listVars, sd_link, raced>>
    BY <1>2 DEF Advertise
  <2>4. /\ adv_mode_current' \in 0 .. BLE_ADV_MODES - 1
        /\ peer_address' \in Hosts \cup {Nobody}
        /\ filtered' \in BOOLEAN
        /\ power' \in {"on", "off", "restarting"}
        /\ fault' \in {"none", "identities", "whitelist"}
        /\ advertising' \in BOOLEAN
        /\ early' \in BOOLEAN
    BY <2>1, <2>2, <2>3 DEF ble_advertising_start, UsesWhitelist, WhitelistReply, BondOnItsWay
  <2>5. events' \in Seq(BleEvents)
    BY <2>3, TakeEvent
  <2> QED
    BY <2>3, <2>4, <2>5 DEF AdvTypeOK, listVars, InUse, BleEvents, EventTypes, PeerIds
<1> QED
  BY <1>1, <1>2

\* Every step keeps the types.
LEMMA TypeStep ==
  ASSUME AdvertisingAssumption, AdvTypeOK, [AdvNext]_advVars
  PROVE  AdvTypeOK'
<1> USE DEF pmVars, listVars, paramVars, powerVars
<1>1. CASE OnConnected
  <2>1. connPeer' \in PeerIds \cup {PM_PEER_ID_INVALID}
    BY <1>1 DEF OnConnected, AdvTypeOK, InUse
  <2>2. events' \in Seq(BleEvents)
    BY <1>1, TakeEvent DEF OnConnected, NextEvent
  <2> QED
    BY <1>1, <2>1, <2>2 DEF OnConnected, AdvTypeOK, InUse
<1>2. CASE OnBonded
  <2>1. events # <<>> /\ events' = Tail(events) /\ m_peer_id' = connPeer'
    BY <1>2 DEF OnBonded, NextEvent
  <2>2. events' \in Seq(BleEvents) /\ events[1] \in BleEvents
    BY <2>1, TakeEvent
  <2>3. events[1].host \in Hosts \cup {Nobody}
    BY <2>2 DEF BleEvents
  <2>4. /\ connPeer' \in PeerIds
        /\ owner' \in [PeerIds -> Hosts \cup {Nobody}]
        /\ \A p \in stored : owner'[p] = owner[p]
    BY <1>2, <2>3 DEF OnBonded, AdvTypeOK, InUse
  <2>5. stored \subseteq InUse'
    BY <2>4 DEF AdvTypeOK, InUse
  <2> QED
    BY <1>2, <2>1, <2>2, <2>4, <2>5 DEF OnBonded, AdvTypeOK
<1>3. CASE OnPaired
  <2>1. events' \in Seq(BleEvents)
    BY <1>3, TakeEvent DEF OnPaired, NextEvent
  <2> QED
    BY <1>3, <2>1 DEF OnPaired, AdvTypeOK, InUse
<1>4. CASE OnEncrypted
  <2>1. events' \in Seq(BleEvents) /\ events[1] \in BleEvents
    BY <1>4, TakeEvent DEF OnEncrypted, NextEvent
  <2>2. events[1].peer \in PeerIds \cup {PM_PEER_ID_INVALID}
    BY <2>1 DEF BleEvents
  <2> QED
    BY <1>4, <2>1, <2>2 DEF OnEncrypted, AdvTypeOK, InUse
<1>5. CASE OnDisconnected
  BY <1>5, AdvertiseType DEF OnDisconnected, NextEvent
<1>6. CASE OnTerminated
  <2>1. adv_mode_next_get(adv_mode_current) \in 0 .. 4
    BY DEF adv_mode_next_get, AdvTypeOK
  <2> QED
    BY <1>6, <2>1, AdvertiseType DEF OnTerminated, NextEvent
<1>7. ASSUME NEW p \in PeerIds, OnBondStored(p)
      PROVE  AdvTypeOK'
  <2>1. CASE advertising /\ filtered
    BY <1>7, <2>1, FailType DEF OnBondStored, whitelist_set
  <2>2. CASE ~(advertising /\ filtered)
    <3>1. HostsOf(stored) \subseteq Hosts
      BY DEF HostsOf, AdvTypeOK, InUse
    <3> QED
      BY <1>7, <2>2, <3>1 DEF OnBondStored, whitelist_set, AdvTypeOK, InUse
  <2> QED
    BY <2>1, <2>2
<1>8. CASE Boot
  <2>1. CASE Distinct(stored)
    <3>1. HostsOf(stored) \subseteq Hosts
      BY DEF HostsOf, AdvTypeOK, InUse
    <3>2. /\ owner' \in [PeerIds -> Hosts \cup {Nobody}]
          /\ stored \subseteq InUse'
      BY <1>8, <2>1 DEF Boot, AdvTypeOK, InUse
    <3>3. 0 \in PeerIds
      BY DEF AdvertisingAssumption, PeerIds
    <3>4. events' \in Seq(BleEvents)
      BY <1>8, <2>1 DEF Boot
    <3> QED
      BY <1>8, <2>1, <3>1, <3>2, <3>3, <3>4 DEF Boot, AdvTypeOK, WhitelistReply
  <2>2. CASE ~Distinct(stored)
    BY <1>8, <2>2, FailType DEF Boot
  <2> QED
    BY <2>1, <2>2
<1>9. ASSUME NEW h \in Hosts, HostConnects(h)
      PROVE  AdvTypeOK'
  <2>1. events' \in Seq(BleEvents)
    BY <1>9, AppendEvent DEF HostConnects, EventTypes
  <2> QED
    BY <1>9, <2>1 DEF HostConnects, AdvTypeOK, InUse
<1>10. CASE AdvertisingTimesOut
  <2>1. events' \in Seq(BleEvents)
    BY <1>10, AppendEvent DEF AdvertisingTimesOut, EventTypes
  <2> QED
    BY <1>10, <2>1 DEF AdvertisingTimesOut, AdvTypeOK, InUse
<1>11. CASE LinkEnds
  <2>1. events' \in Seq(BleEvents)
    BY <1>11, AppendEvent DEF LinkEnds, EventTypes, AdvTypeOK
  <2> QED
    BY <1>11, <2>1 DEF LinkEnds, AdvTypeOK, InUse
<1>12. ASSUME NEW type \in EventTypes, NEW peer \in PeerIds \cup {PM_PEER_ID_INVALID},
              SecurityEvent(type, peer)
       PROVE  AdvTypeOK'
  <2>1. BleEvent(type, sd_link, peer) \in BleEvents
    BY DEF BleEvent, BleEvents, AdvTypeOK
  <2>2. events' \in Seq(BleEvents)
    BY <1>12, <2>1 DEF SecurityEvent
  <2> QED
    BY <1>12, <2>2 DEF SecurityEvent, AdvTypeOK, InUse
<1>13. ASSUME NEW type \in {"BONDED", "PAIRED"}, HostPairs(type)
       PROVE  AdvTypeOK'
  BY <1>12, <1>13 DEF HostPairs, EventTypes
<1>14. ASSUME NEW p \in PeerIds, HostEncrypts(p)
       PROVE  AdvTypeOK'
  BY <1>12, <1>14 DEF HostEncrypts, EventTypes
<1>15. ASSUME NEW p \in PeerIds, FlashWrite(p)
       PROVE  AdvTypeOK'
  BY <1>15 DEF FlashWrite, AdvTypeOK, InUse
<1>16. CASE Reset
  BY <1>16 DEF Reset, AdvTypeOK, InUse
<1>17. CASE UNCHANGED advVars
  BY <1>17 DEF advVars, AdvTypeOK, InUse
<1> QED
  BY <1>1, <1>2, <1>3, <1>4, <1>5, <1>6, <1>7, <1>8, <1>9, <1>10, <1>11, <1>13, <1>14,
     <1>15, <1>16, <1>17 DEF AdvNext, Handler, Surroundings

(***************************************************************************)
(* Which events can wait, and in which order.                              *)
(***************************************************************************)

LinkEvents == {"CONNECTED", "BONDED", "PAIRED", "ENCRYPTED"}

Waiting(n) == Len(events) = n

\* While the SoftDevice advertises nothing waits; the end of a link or of an
\* advertising mode is the last event.
Shape ==
  power = "on" =>
    \/ advertising /\ sd_link = Nobody /\ Waiting(0)
    \/ ~advertising /\ sd_link # Nobody /\ Waiting(0)
    \/ ~advertising /\ sd_link # Nobody /\ Waiting(1) /\ events[1].type \in LinkEvents
    \/ ~advertising /\ sd_link = Nobody /\ Waiting(1)
         /\ events[1].type \in {"DISCONNECTED", "TERMINATED"}
    \/ ~advertising /\ sd_link = Nobody /\ Waiting(2)
         /\ events[1].type \in LinkEvents /\ events[2].type = "DISCONNECTED"

\* What adding an event does to a queue of at most one.
LEMMA AppendShape ==
  ASSUME AdvTypeOK, NEW e
  PROVE  /\ Len(Append(events, e)) = Len(events) + 1
         /\ Len(events) = 0 => Append(events, e)[1] = e
         /\ Len(events) = 1 => Append(events, e)[1] = events[1] /\ Append(events, e)[2] = e
BY AppendProperties DEF AdvTypeOK

LEMMA ShapeStep ==
  ASSUME AdvertisingAssumption, AdvTypeOK, Shape, [AdvNext]_advVars
  PROVE  Shape'
<1> USE DEF pmVars, listVars, paramVars, powerVars, Waiting
<1>0. ASSUME events = <<>> PROVE Waiting(0)
  BY <1>0, EmptySeq
<1>1. CASE OnConnected \/ OnBonded \/ OnPaired \/ OnEncrypted
  <2>1. /\ power = "on" /\ events # <<>> /\ events[1].type \in LinkEvents
        /\ events' = Tail(events)
        /\ UNCHANGED <<advertising, sd_link>>
    BY <1>1 DEF OnConnected, OnBonded, OnPaired, OnEncrypted, NextEvent, LinkEvents
  <2> QED
    BY <2>1, TakeEvent DEF Shape, LinkEvents
<1>2. ASSUME NEW mode, NEW resolvable, NextEvent("DISCONNECTED") \/ NextEvent("TERMINATED"),
             Advertise(mode, resolvable)
      PROVE  Shape'
  <2>1. CASE IdentitiesRefused(mode, resolvable)
    BY <1>2, <2>1 DEF Advertise, Fail, Shape
  <2>2. CASE ~IdentitiesRefused(mode, resolvable)
    <3>1. /\ events' = Tail(events) /\ sd_link' = sd_link
          /\ power' = "on" => advertising'
      BY <1>2, <2>2 DEF Advertise, ble_advertising_start
    <3>2. power = "on" /\ events # <<>> /\ events[1].type \in {"DISCONNECTED", "TERMINATED"}
      BY <1>2 DEF NextEvent
    <3> QED
      BY <3>1, <3>2, TakeEvent DEF Shape, LinkEvents
  <2> QED
    BY <2>1, <2>2
<1>3. CASE OnDisconnected \/ OnTerminated
  BY <1>2, <1>3 DEF OnDisconnected, OnTerminated
<1>4. ASSUME NEW p \in PeerIds, OnBondStored(p)
      PROVE  Shape'
  BY <1>4 DEF OnBondStored, whitelist_set, Fail, Shape
<1>5. CASE Boot
  <2>1. CASE Distinct(stored)
    BY <1>5, <2>1 DEF Boot, Shape
  <2>2. CASE ~Distinct(stored)
    BY <1>5, <2>2 DEF Boot, Fail, Shape
  <2> QED
    BY <2>1, <2>2
<1>6. ASSUME NEW h \in Hosts, HostConnects(h)
      PROVE  Shape'
  <2> DEFINE e == BleEvent("CONNECTED", h, PM_PEER_ID_INVALID)
  <2>1. /\ power = "on" /\ advertising /\ ~advertising' /\ sd_link' = h
        /\ events' = Append(events, e) /\ e.type = "CONNECTED"
    BY <1>6 DEF HostConnects, BleEvent
  <2>2. h # Nobody
    BY DEF AdvertisingAssumption
  <2> HIDE DEF e
  <2> QED
    BY <2>1, <2>2, AppendShape DEF Shape, LinkEvents
<1>7. CASE AdvertisingTimesOut
  <2> DEFINE e == BleEvent("TERMINATED", Nobody, PM_PEER_ID_INVALID)
  <2>1. /\ power = "on" /\ advertising /\ ~advertising' /\ sd_link' = sd_link
        /\ events' = Append(events, e) /\ e.type = "TERMINATED"
    BY <1>7 DEF AdvertisingTimesOut, BleEvent
  <2> HIDE DEF e
  <2> QED
    BY <2>1, AppendShape DEF Shape
<1>8. CASE LinkEnds
  <2> DEFINE e == BleEvent("DISCONNECTED", sd_link, PM_PEER_ID_INVALID)
  <2>1. /\ power = "on" /\ sd_link # Nobody /\ sd_link' = Nobody
        /\ advertising' = advertising
        /\ events' = Append(events, e) /\ e.type = "DISCONNECTED"
    BY <1>8 DEF LinkEnds, BleEvent
  <2> HIDE DEF e
  <2> QED
    BY <2>1, AppendShape DEF Shape
<1>9. ASSUME NEW type \in LinkEvents, NEW peer, SecurityEvent(type, peer)
      PROVE  Shape'
  <2> DEFINE e == BleEvent(type, sd_link, peer)
  <2>1. /\ power = "on" /\ sd_link # Nobody /\ events = <<>>
        /\ events' = <<e>> /\ e.type = type
        /\ UNCHANGED <<sd_link, advertising>>
    BY <1>9 DEF SecurityEvent, BleEvent
  <2> HIDE DEF e
  <2>2. Len(events') = 1 /\ events'[1] = e
    BY <2>1
  <2> QED
    BY <1>9, <2>1, <2>2, <1>0 DEF Shape
<1>10. ASSUME NEW type \in {"BONDED", "PAIRED"}, HostPairs(type)
       PROVE  Shape'
  BY <1>9, <1>10 DEF HostPairs, LinkEvents
<1>11. ASSUME NEW p \in PeerIds, HostEncrypts(p)
       PROVE  Shape'
  BY <1>9, <1>11 DEF HostEncrypts, LinkEvents
<1>12. ASSUME NEW p \in PeerIds, FlashWrite(p)
       PROVE  Shape'
  BY <1>12 DEF FlashWrite, Shape
<1>13. CASE Reset
  BY <1>13 DEF Reset, Shape
<1>14. CASE UNCHANGED advVars
  BY <1>14 DEF advVars, Shape
<1> QED
  BY <1>1, <1>3, <1>4, <1>5, <1>6, <1>7, <1>8, <1>10, <1>11, <1>12, <1>13, <1>14
  DEF AdvNext, Handler, Surroundings

(***************************************************************************)
(* What the lists and the advertising's parameters say about the bonds.    *)
(***************************************************************************)

\* The whitelist holds the listed peers, and those are all whose bond was reported.
Listed ==
  power = "on" =>
    sd_whitelist = HostsOf(m_wlisted_peers) /\ stored \ unreported \subseteq m_wlisted_peers

\* Advertising has an address to go to only in the directed mode, and then the bond's.
Directed ==
  power = "on" /\ advertising
    /\ (adv_mode_current = BLE_ADV_MODE_DIRECTED_HIGH_DUTY \/ peer_address # Nobody) =>
      m_peer_id \in stored /\ peer_address = owner[m_peer_id]

\* Only a whitelist that is not empty is in use.
Filtered == power = "on" /\ filtered => m_wlisted_peers # {}

ListInv == Listed /\ Directed /\ Filtered

\* A handler that takes an event is not run while the SoftDevice advertises.
LEMMA NoEventWhileAdvertising ==
  ASSUME AdvTypeOK, Shape, NEW type, NextEvent(type)
  PROVE  ~advertising
BY TakeEvent DEF Shape, Waiting, NextEvent

\* A change of the bonds that leaves those in flash alone leaves the lists true.
LEMMA SameHosts ==
  ASSUME NEW ids, \A p \in ids : owner'[p] = owner[p]
  PROVE  {owner'[p] : p \in ids} = {owner[p] : p \in ids}
OBVIOUS

LEMMA ListStep ==
  ASSUME AdvertisingAssumption, AdvTypeOK, Shape, ListInv, [AdvNext]_advVars
  PROVE  ListInv'
<1> USE DEF pmVars, listVars, paramVars, powerVars
<1>1. CASE OnConnected \/ OnPaired \/ OnEncrypted
  <2>1. /\ ~advertising /\ ~advertising'
        /\ UNCHANGED <<owner, stored, unreported, m_wlisted_peers, sd_whitelist, filtered, power>>
    BY <1>1, NoEventWhileAdvertising DEF OnConnected, OnPaired, OnEncrypted
  <2> QED
    BY <2>1 DEF ListInv, Listed, Directed, Filtered, HostsOf
<1>2. CASE OnBonded
  <2>1. /\ ~advertising /\ ~advertising'
        /\ UNCHANGED <<stored, unreported, m_wlisted_peers, sd_whitelist, filtered, power>>
    BY <1>2, NoEventWhileAdvertising DEF OnBonded
  <2>2. \A p \in m_wlisted_peers : owner'[p] = owner[p]
    BY <1>2 DEF OnBonded, AdvTypeOK, InUse
  <2>3. HostsOf(m_wlisted_peers)' = HostsOf(m_wlisted_peers)
    BY <2>1, <2>2, SameHosts DEF HostsOf
  <2> QED
    BY <2>1, <2>3 DEF ListInv, Listed, Directed, Filtered
<1>3. ASSUME NEW mode, NEW resolvable, Advertise(mode, resolvable), power = "on"
      PROVE  ListInv'
  <2>1. CASE IdentitiesRefused(mode, resolvable)
    BY <1>3, <2>1 DEF Advertise, Fail, ListInv, Listed, Directed, Filtered
  <2>2. CASE ~IdentitiesRefused(mode, resolvable)
    <3> DEFINE peer == PeerAddrReply(mode)
               available == adv_mode_next_avail_get(mode, peer)
    <3>1. /\ UNCHANGED <<owner, stored, unreported, m_wlisted_peers, sd_whitelist, m_peer_id>>
          /\ adv_mode_current' = available
          /\ peer_address' = peer
          /\ filtered' => m_wlisted_peers # {}
      BY <1>3, <2>2 DEF Advertise, ble_advertising_start, WhitelistReply
    <3>2. peer # Nobody => m_peer_id \in stored /\ peer = owner[m_peer_id]
      BY DEF PeerAddrReply
    <3>3. available = BLE_ADV_MODE_DIRECTED_HIGH_DUTY => peer # Nobody
      BY DEF adv_mode_next_avail_get
    <3> HIDE DEF peer, available
    <3> QED
      BY <1>3, <3>1, <3>2, <3>3 DEF ListInv, Listed, Directed, Filtered, HostsOf
  <2> QED
    BY <2>1, <2>2
<1>4. CASE OnDisconnected \/ OnTerminated
  BY <1>3, <1>4 DEF OnDisconnected, OnTerminated, NextEvent
<1>5. ASSUME NEW p \in PeerIds, OnBondStored(p)
      PROVE  ListInv'
  <2>1. CASE advertising /\ filtered
    BY <1>5, <2>1 DEF OnBondStored, whitelist_set, Fail, ListInv, Listed, Directed, Filtered
  <2>2. CASE ~(advertising /\ filtered)
    <3>1. stored # {}
      BY <1>5 DEF OnBondStored, AdvTypeOK
    <3> QED
      BY <1>5, <2>2, <3>1 DEF OnBondStored, whitelist_set, ListInv, Listed, Directed, Filtered,
                              HostsOf
  <2> QED
    BY <2>1, <2>2
<1>6. CASE Boot
  <2>1. CASE Distinct(stored)
    <3>1. \A p \in stored : owner'[p] = owner[p]
      BY <1>6, <2>1 DEF Boot, AdvTypeOK, InUse
    <3>2. {owner'[p] : p \in stored} = {owner[p] : p \in stored}
      BY <3>1, SameHosts
    <3>3. /\ m_wlisted_peers' = stored /\ sd_whitelist' = {owner[p] : p \in stored}
          /\ stored' = stored
          /\ adv_mode_current' = BLE_ADV_MODE_FAST /\ peer_address' = Nobody
          /\ filtered' => stored # {}
      BY <1>6, <2>1 DEF Boot, HostsOf, WhitelistReply
    <3>4. HostsOf(m_wlisted_peers)' = {owner'[p] : p \in stored}
      BY <3>3 DEF HostsOf
    <3>5. Listed'
      BY <3>2, <3>3, <3>4 DEF Listed
    <3>6. Directed' /\ Filtered'
      BY <3>3 DEF Directed, Filtered
    <3> QED
      BY <3>5, <3>6 DEF ListInv
  <2>2. CASE ~Distinct(stored)
    BY <1>6, <2>2 DEF Boot, Fail, ListInv, Listed, Directed, Filtered
  <2> QED
    BY <2>1, <2>2
<1>7. CASE (\E h \in Hosts : HostConnects(h)) \/ AdvertisingTimesOut
  BY <1>7 DEF HostConnects, AdvertisingTimesOut, ListInv, Listed, Directed, Filtered, HostsOf
<1>8. CASE LinkEnds
  BY <1>8 DEF LinkEnds, ListInv, Listed, Directed, Filtered, HostsOf
<1>9. CASE \/ \E type \in {"BONDED", "PAIRED"} : HostPairs(type)
           \/ \E p \in PeerIds : HostEncrypts(p)
  BY <1>9 DEF HostPairs, HostEncrypts, SecurityEvent, ListInv, Listed, Directed, Filtered, HostsOf
<1>10. ASSUME NEW p \in PeerIds, FlashWrite(p)
       PROVE  ListInv'
  BY <1>10 DEF FlashWrite, ListInv, Listed, Directed, Filtered, HostsOf
<1>11. CASE Reset
  BY <1>11 DEF Reset, ListInv, Listed, Directed, Filtered
<1>12. CASE UNCHANGED advVars
  BY <1>12 DEF advVars, ListInv, Listed, Directed, Filtered, HostsOf
<1> QED
  BY <1>1, <1>2, <1>4, <1>5, <1>6, <1>7, <1>8, <1>9, <1>10, <1>11, <1>12
  DEF AdvNext, Handler, Surroundings

(***************************************************************************)
(* Hosts that are not bonded.                                              *)
(***************************************************************************)

FirstIs(type) == ~Waiting(0) /\ events[1].type = type

\* While no host has raced the report of a bond there is one bond at most, and a host
\* that is connected without being recognised met a keyboard without bonds.
Strangers ==
  power = "on" =>
    /\ m_wlisted_peers \cap unreported = {}
    /\ advertising /\ peer_address = Nobody /\ ~filtered /\ ~early => InUse = {}
    /\ ~advertising /\ connPeer = PM_PEER_ID_INVALID /\ (Waiting(0) \/ FirstIs("PAIRED")) =>
         InUse = {}
    /\ FirstIs("CONNECTED") => InUse = {} \/ events[1].host \in HostsOf(stored)
    /\ FirstIs("BONDED") => InUse = {}
    /\ FirstIs("ENCRYPTED") => events[1].peer \in stored

OneInUse == \A p, q \in InUse : p = q

BondInv == ~raced => OneInUse /\ fault = "none" /\ Strangers

AdvInv == AdvTypeOK /\ Shape /\ ListInv /\ BondInv

\* What is left when a handler has taken an event of the link.
LEMMA AfterTake ==
  ASSUME AdvTypeOK, Shape, NEW type, NextEvent(type), events' = Tail(events)
  PROVE  /\ ~Waiting(0)
         /\ Waiting(0)' \/ (~Waiting(0)' /\ events'[1].type = "DISCONNECTED")
BY TakeEvent DEF Shape, Waiting, NextEvent

LEMMA BondStep ==
  ASSUME AdvertisingAssumption, AdvInv, [AdvNext]_advVars
  PROVE  BondInv'
<1> USE DEF pmVars, listVars, paramVars, powerVars
<1>0. AdvTypeOK /\ Shape /\ ListInv /\ BondInv /\ \A p \in PeerIds : p # PM_PEER_ID_INVALID
  BY DEF AdvInv, PeerIds, PM_PEER_ID_INVALID, AdvertisingAssumption
<1> SUFFICES ASSUME ~raced' PROVE (OneInUse /\ fault = "none" /\ Strangers)'
  BY DEF BondInv
<1>a. ~raced
  BY DEF AdvNext, Handler, Surroundings, OnConnected, OnBonded, OnPaired, OnEncrypted,
         OnDisconnected, OnTerminated, Advertise, Fail, OnBondStored, whitelist_set, Boot,
         HostConnects, AdvertisingTimesOut, LinkEnds, HostPairs, HostEncrypts, SecurityEvent,
         FlashWrite, Reset, advVars
<1>b. OneInUse /\ fault = "none" /\ Strangers
  BY <1>0, <1>a DEF BondInv
<1>c. stored \subseteq InUse /\ InUse \subseteq PeerIds /\ m_wlisted_peers \subseteq stored
      /\ unreported \subseteq stored
  BY <1>0 DEF AdvTypeOK, InUse
<1>d. ASSUME NEW ids, ids \subseteq InUse
      PROVE  Distinct(ids)
  BY <1>b, <1>d DEF Distinct, OneInUse
<1>1. CASE OnConnected
  <2>1. power = "on" /\ ~advertising /\ FirstIs("CONNECTED")
        /\ (Waiting(0)' \/ (~Waiting(0)' /\ events'[1].type = "DISCONNECTED"))
    BY <1>0, <1>1, NoEventWhileAdvertising, AfterTake DEF OnConnected, NextEvent, FirstIs
  <2>2. UNCHANGED <<owner, stored, unreported, m_wlisted_peers, advertising, power, fault>>
    BY <1>1 DEF OnConnected
  <2>3. connPeer' = PM_PEER_ID_INVALID => InUse = {}
    <3>1. InUse = {} \/ events[1].host \in HostsOf(stored)
      BY <1>b, <2>1 DEF Strangers
    <3>2. events[1].host \in HostsOf(stored) => connPeer' \in stored
      BY <1>1 DEF OnConnected, HostsOf
    <3> QED
      BY <1>0, <1>c, <3>1, <3>2
  <2> QED
    BY <1>b, <2>1, <2>2, <2>3 DEF Strangers, OneInUse, InUse, FirstIs
<1>2. CASE OnBonded
  <2>1. power = "on" /\ ~advertising /\ FirstIs("BONDED")
        /\ (Waiting(0)' \/ (~Waiting(0)' /\ events'[1].type = "DISCONNECTED"))
    BY <1>0, <1>2, NoEventWhileAdvertising, AfterTake DEF OnBonded, NextEvent, FirstIs
  <2>2. UNCHANGED <<stored, unreported, m_wlisted_peers, advertising, power, fault>>
    BY <1>2 DEF OnBonded
  <2>3. InUse = {} /\ stored = {}
    BY <1>b, <1>c, <2>1 DEF Strangers
  <2>4. PICK p \in PeerIds : connPeer' = p /\ owner' = [owner EXCEPT ![p] = events[1].host]
    BY <1>2, <2>3 DEF OnBonded
  <2>5. InUse' \subseteq {p}
    BY <1>0, <2>3, <2>4 DEF InUse, AdvTypeOK
  <2>6. OneInUse'
    BY <2>5 DEF OneInUse
  <2>7. connPeer' # PM_PEER_ID_INVALID
    BY <1>0, <2>4
  <2> QED
    BY <1>b, <2>1, <2>2, <2>6, <2>7 DEF Strangers, FirstIs
<1>3. CASE OnPaired
  <2>1. power = "on" /\ ~advertising /\ FirstIs("PAIRED")
        /\ (Waiting(0)' \/ (~Waiting(0)' /\ events'[1].type = "DISCONNECTED"))
    BY <1>0, <1>3, NoEventWhileAdvertising, AfterTake DEF OnPaired, NextEvent, FirstIs
  <2>2. UNCHANGED <<owner, stored, unreported, m_wlisted_peers, advertising, power, fault, connPeer>>
    BY <1>3 DEF OnPaired
  <2> QED
    BY <1>b, <2>1, <2>2 DEF Strangers, OneInUse, InUse, FirstIs
<1>4. CASE OnEncrypted
  <2>1. power = "on" /\ ~advertising /\ FirstIs("ENCRYPTED")
        /\ (Waiting(0)' \/ (~Waiting(0)' /\ events'[1].type = "DISCONNECTED"))
    BY <1>0, <1>4, NoEventWhileAdvertising, AfterTake DEF OnEncrypted, NextEvent, FirstIs
  <2>2. /\ UNCHANGED <<owner, stored, unreported, m_wlisted_peers, advertising, power, fault>>
        /\ connPeer' = events[1].peer
    BY <1>4 DEF OnEncrypted
  <2>3. connPeer' # PM_PEER_ID_INVALID
    BY <1>0, <1>b, <1>c, <2>1, <2>2 DEF Strangers
  <2> QED
    BY <1>b, <2>1, <2>2, <2>3 DEF Strangers, OneInUse, InUse, FirstIs
<1>5. ASSUME NEW mode, NEW resolvable \in SUBSET stored, Advertise(mode, resolvable),
             NEW type, NextEvent(type), type \in {"DISCONNECTED", "TERMINATED"}
      PROVE  (OneInUse /\ fault = "none" /\ Strangers)'
  <2>1. ~IdentitiesRefused(mode, resolvable)
    BY <1>c, <1>d DEF IdentitiesRefused
  <2> DEFINE peer == PeerAddrReply(mode)
             available == adv_mode_next_avail_get(mode, peer)
  <2>2. /\ UNCHANGED <<owner, stored, unreported, m_wlisted_peers>>
        /\ events' = Tail(events)
        /\ peer_address' = peer
        /\ filtered' = (UsesWhitelist(available) /\ m_wlisted_peers # {})
        /\ advertising' = (available # BLE_ADV_MODE_IDLE)
        /\ power' = IF available = BLE_ADV_MODE_IDLE THEN "off" ELSE "on"
        /\ fault' = "none"
        /\ early' = BondOnItsWay
    BY <1>5, <2>1 DEF Advertise, ble_advertising_start, WhitelistReply
  <2>3. power = "on" /\ Waiting(0)'
    BY <1>0, <1>5, <2>2, TakeEvent DEF NextEvent, Shape, Waiting, LinkEvents
  <2>4. available \in {BLE_ADV_MODE_IDLE, BLE_ADV_MODE_DIRECTED_HIGH_DUTY,
                       BLE_ADV_MODE_FAST, BLE_ADV_MODE_SLOW}
        /\ (available = BLE_ADV_MODE_DIRECTED_HIGH_DUTY => peer # Nobody)
    BY DEF adv_mode_next_avail_get
  <2> HIDE DEF peer, available
  <2>5. advertising' /\ peer_address' = Nobody /\ ~filtered' /\ ~early' => InUse' = {}
    <3> SUFFICES ASSUME advertising', peer_address' = Nobody, ~filtered', ~early'
                 PROVE  InUse' = {}
      OBVIOUS
    <3>1. m_wlisted_peers = {}
      BY <2>2, <2>4 DEF UsesWhitelist
    <3>2. unreported = {} /\ InUse = stored
      BY <2>2 DEF BondOnItsWay
    <3>3. stored \ unreported \subseteq m_wlisted_peers
      BY <1>0, <2>3 DEF ListInv, Listed
    <3> QED
      BY <2>2, <3>1, <3>2, <3>3 DEF InUse
  <2>6. power' = "on" => advertising'
    BY <2>2
  <2>7. UNCHANGED InUse
    BY <2>2 DEF InUse
  <2> QED
    BY <1>b, <2>2, <2>3, <2>5, <2>6, <2>7 DEF Strangers, OneInUse, FirstIs
<1>6. CASE OnDisconnected \/ OnTerminated
  BY <1>5, <1>6 DEF OnDisconnected, OnTerminated
<1>7. ASSUME NEW p \in PeerIds, OnBondStored(p)
      PROVE  (OneInUse /\ fault = "none" /\ Strangers)'
  <2>1. power = "on" /\ p \in unreported /\ unreported' = unreported \ {p}
    BY <1>7 DEF OnBondStored
  <2>2. stored = {p} /\ unreported' = {}
    BY <1>b, <1>c, <2>1 DEF OneInUse
  <2>3. ~(advertising /\ filtered)
    BY <1>0, <1>b, <1>c, <2>1, <2>2 DEF ListInv, Filtered, Strangers
  <2>4. UNCHANGED <<owner, stored, connPeer, m_peer_id, paramVars, powerVars, advertising,
                    sd_link, events, raced>>
    BY <1>7, <2>3 DEF OnBondStored, whitelist_set
  <2> QED
    BY <1>b, <2>1, <2>2, <2>4 DEF Strangers, OneInUse, InUse, FirstIs, Waiting, HostsOf
<1>8. CASE Boot
  <2>1. Distinct(stored)
    BY <1>c, <1>d
  <2>2. /\ owner' = [p \in PeerIds |-> IF p \in stored THEN owner[p] ELSE Nobody]
        /\ unreported' = {} /\ events' = <<>> /\ advertising' /\ fault' = "none"
        /\ filtered' = (stored # {})
    BY <1>8, <2>1 DEF Boot, WhitelistReply
  <2>3. InUse' \subseteq InUse /\ (stored = {} => InUse' = {})
    BY <1>0, <2>2 DEF InUse, AdvTypeOK
  <2>4. Waiting(0)'
    BY <2>2 DEF Waiting
  <2> QED
    BY <1>b, <2>2, <2>3, <2>4 DEF Strangers, OneInUse, FirstIs
<1>9. ASSUME NEW h \in Hosts, HostConnects(h)
      PROVE  (OneInUse /\ fault = "none" /\ Strangers)'
  <2> DEFINE e == BleEvent("CONNECTED", h, PM_PEER_ID_INVALID)
  <2>1. /\ power = "on" /\ advertising /\ ~advertising' /\ h \in Admitted
        /\ events' = Append(events, e) /\ e.type = "CONNECTED" /\ e.host = h
        /\ UNCHANGED <<owner, stored, unreported, m_wlisted_peers, power, fault>>
        /\ ~(early /\ peer_address = Nobody /\ ~filtered)
    BY <1>9 DEF HostConnects, BleEvent
  <2>2. InUse = {} \/ h \in HostsOf(stored)
    <3>1. CASE peer_address # Nobody
      BY <1>0, <2>1, <3>1 DEF Admitted, ListInv, Directed, HostsOf
    <3>2. CASE peer_address = Nobody /\ filtered
      BY <1>0, <1>c, <2>1, <3>2 DEF Admitted, ListInv, Listed, HostsOf
    <3>3. CASE peer_address = Nobody /\ ~filtered
      BY <1>b, <2>1, <3>3 DEF Strangers
    <3> QED
      BY <3>1, <3>2, <3>3
  <2> HIDE DEF e
  <2>3. ~Waiting(0)' /\ events'[1] = e
    BY <1>0, <2>1, AppendShape DEF Shape, Waiting
  <2> QED
    BY <1>b, <2>1, <2>2, <2>3 DEF Strangers, OneInUse, InUse, FirstIs, HostsOf
<1>10. ASSUME NEW e, events' = Append(events, e), e.type \in {"DISCONNECTED", "TERMINATED"},
              UNCHANGED <<pmVars, listVars, powerVars>>, ~advertising'
       PROVE  (OneInUse /\ fault = "none" /\ Strangers)'
  <2>1. power = "on" => ~Waiting(0)'
    BY <1>0, <1>10, AppendShape DEF Shape, Waiting
  <2>2. power = "on" => \/ events'[1] = e
                        \/ ~Waiting(0) /\ ~advertising /\ events'[1] = events[1]
    BY <1>0, <1>10, AppendShape DEF Shape, Waiting
  <2> QED
    BY <1>b, <1>10, <2>1, <2>2 DEF Strangers, OneInUse, InUse, FirstIs, HostsOf
<1>11. CASE AdvertisingTimesOut
  BY <1>10, <1>11 DEF AdvertisingTimesOut, BleEvent
<1>12. CASE LinkEnds
  <2>1. ~advertising'
    BY <1>0, <1>12 DEF LinkEnds, Shape
  <2> QED
    BY <1>10, <1>12, <2>1 DEF LinkEnds, BleEvent
<1>13. ASSUME NEW type \in {"BONDED", "PAIRED"}, HostPairs(type)
       PROVE  (OneInUse /\ fault = "none" /\ Strangers)'
  <2> DEFINE e == BleEvent(type, sd_link, PM_PEER_ID_INVALID)
  <2>1. /\ power = "on" /\ sd_link # Nobody /\ events = <<>> /\ events' = <<e>>
        /\ e.type = type /\ connPeer = PM_PEER_ID_INVALID
        /\ UNCHANGED <<pmVars, listVars, paramVars, powerVars, advertising>>
    BY <1>13 DEF HostPairs, SecurityEvent, BleEvent
  <2> HIDE DEF e
  <2>2. Waiting(0) /\ ~Waiting(0)' /\ events'[1] = e
    BY <2>1 DEF Waiting
  <2>3. InUse = {}
    BY <1>0, <1>b, <2>1, <2>2 DEF Strangers, Shape
  <2> QED
    BY <1>b, <2>1, <2>2, <2>3 DEF Strangers, OneInUse, InUse, FirstIs
<1>14. ASSUME NEW p \in PeerIds, HostEncrypts(p)
       PROVE  (OneInUse /\ fault = "none" /\ Strangers)'
  <2> DEFINE e == BleEvent("ENCRYPTED", sd_link, p)
  <2>1. /\ power = "on" /\ sd_link # Nobody /\ events = <<>> /\ events' = <<e>>
        /\ e.type = "ENCRYPTED" /\ e.peer = p /\ p \in stored
        /\ UNCHANGED <<pmVars, listVars, paramVars, powerVars, advertising>>
    BY <1>14 DEF HostEncrypts, SecurityEvent, BleEvent
  <2> HIDE DEF e
  <2>2. ~Waiting(0)' /\ events'[1] = e
    BY <2>1 DEF Waiting
  <2> QED
    BY <1>b, <2>1, <2>2 DEF Strangers, OneInUse, InUse, FirstIs
<1>15. ASSUME NEW p \in PeerIds, FlashWrite(p)
       PROVE  (OneInUse /\ fault = "none" /\ Strangers)'
  BY <1>b, <1>c, <1>15 DEF FlashWrite, Strangers, OneInUse, InUse, FirstIs, Waiting, HostsOf
<1>16. CASE Reset
  BY <1>b, <1>16 DEF Reset, Strangers, OneInUse, InUse
<1>17. CASE UNCHANGED advVars
  BY <1>b, <1>17 DEF advVars, Strangers, OneInUse, InUse, FirstIs, Waiting, HostsOf
<1> QED
  BY <1>1, <1>2, <1>3, <1>4, <1>6, <1>7, <1>8, <1>9, <1>11, <1>12, <1>13, <1>14, <1>15,
     <1>16, <1>17 DEF AdvNext, Handler, Surroundings

(***************************************************************************)
(* The properties.                                                         *)
(***************************************************************************)

\* The inductive invariant: the types, the order of the waiting events, the lists, and
\* the bonds.
LEMMA AdvInvariant == AdvSpec => []AdvInv
<1>1. AdvInit => AdvInv
  <2> SUFFICES ASSUME AdvInit PROVE AdvInv
    OBVIOUS
  <2>1. AdvTypeOK
    <3>1. 0 \in PeerIds
      BY AdvertisingAssumption DEF PeerIds
    <3>2. owner \in [PeerIds -> Hosts \cup {Nobody}] /\ events \in Seq(BleEvents)
      BY DEF AdvInit
    <3> QED
      BY <3>1, <3>2 DEF AdvInit, AdvTypeOK
  <2>2. power = "restarting" /\ fault = "none" /\ InUse = {}
    BY DEF AdvInit, InUse
  <2> QED
    BY <2>1, <2>2 DEF AdvInv, Shape, ListInv, Listed, Directed, Filtered, BondInv, OneInUse,
                      Strangers
<1>2. AdvInv /\ [AdvNext]_advVars => AdvInv'
  BY AdvertisingAssumption, TypeStep, ShapeStep, ListStep, BondStep DEF AdvInv
<1> QED
  BY <1>1, <1>2, PTL DEF AdvSpec

\* Every variable of the advertising, the bonds and the SoftDevice has its type; bonds
\* that are reported are in flash, and what is in flash belongs to somebody.
THEOREM AdvTypeCorrect == AdvSpec => []AdvTypeOK
BY AdvInvariant, PTL DEF AdvInv

\* A keyboard that is on advertises, has a host, or has the event before it that starts
\* the next mode.
THEOREM NeverFallsSilent == AdvSpec => []NeverSilent
<1>1. AdvInv => NeverSilent
  <2> SUFFICES ASSUME AdvInv, power = "on", ~advertising, sd_link = Nobody
               PROVE  events # <<>>
                      /\ events[Len(events)].type \in {"DISCONNECTED", "TERMINATED"}
    BY DEF NeverSilent
  <2>1. \/ Len(events) = 1 /\ events[1].type \in {"DISCONNECTED", "TERMINATED"}
        \/ Len(events) = 2 /\ events[2].type = "DISCONNECTED"
    BY DEF AdvInv, Shape, Waiting
  <2>2. Len(<<>>) = 0
    BY EmptySeq
  <2>3. events # <<>>
    BY <2>1, <2>2
  <2> QED
    BY <2>1, <2>3
<1> QED
  BY <1>1, AdvInvariant, PTL

\* Every host whose bond is in flash and reported is let in by a filtered advertising.
THEOREM KnownHostsLetIn == AdvSpec => []KnownHostsAdmitted
<1>1. AdvInv => KnownHostsAdmitted
  BY DEF AdvInv, ListInv, Listed, KnownHostsAdmitted, HostsOf
<1> QED
  BY <1>1, AdvInvariant, PTL

\* Directed advertising goes to the host of a bond in flash.
THEOREM DirectedToBond == AdvSpec => []DirectedAtBonded
<1>1. AdvInv => DirectedAtBonded
  BY DEF AdvInv, ListInv, Directed, DirectedAtBonded
<1> QED
  BY <1>1, AdvInvariant, PTL

\* Without the race of a host with the report of a bond there is never a second bond.
THEOREM OneBondOnly == AdvSpec => []OneBond
<1>1. AdvInv => OneBond
  BY DEF AdvInv, BondInv, OneInUse, OneBond
<1> QED
  BY <1>1, AdvInvariant, PTL

\* Without that race no call of these handlers is refused.
THEOREM NothingRefused == AdvSpec => []NoFault
<1>1. AdvInv => NoFault
  BY DEF AdvInv, BondInv, NoFault
<1> QED
  BY <1>1, AdvInvariant, PTL

\* Only the end of slow advertising, with nobody connected, puts the device to sleep.
THEOREM SleepIsLast == AdvSpec => SleepsOnlyAfterSlow
<1>1. ASSUME AdvInv, AdvNext, power = "on", power' = "off"
      PROVE  adv_mode_current = BLE_ADV_MODE_SLOW /\ ~advertising /\ sd_link = Nobody
  <2> USE DEF pmVars, listVars, paramVars, powerVars
  <2>1. OnDisconnected \/ OnTerminated
    BY <1>1 DEF AdvNext, Handler, Surroundings, OnConnected, OnBonded, OnPaired, OnEncrypted,
         OnBondStored, whitelist_set, Fail, Boot, HostConnects, AdvertisingTimesOut, LinkEnds,
         HostPairs, HostEncrypts, SecurityEvent, FlashWrite, Reset
  <2>2. PICK mode, resolvable :
          /\ Advertise(mode, resolvable)
          /\ \/ NextEvent("DISCONNECTED") /\ mode = BLE_ADV_MODE_DIRECTED_HIGH_DUTY
             \/ NextEvent("TERMINATED") /\ mode = adv_mode_next_get(adv_mode_current)
    BY <2>1 DEF OnDisconnected, OnTerminated
  <2>3. adv_mode_next_avail_get(mode, PeerAddrReply(mode)) = BLE_ADV_MODE_IDLE
    <3>1. ~IdentitiesRefused(mode, resolvable)
      BY <1>1, <2>2 DEF Advertise, Fail
    <3> QED
      BY <1>1, <2>2, <3>1 DEF Advertise, ble_advertising_start
  <2>4. mode \notin 1 .. 4
    BY <2>3 DEF adv_mode_next_avail_get
  <2>5. adv_mode_current \in 0 .. 4
    BY <1>1 DEF AdvInv, AdvTypeOK
  <2>6. mode = adv_mode_next_get(adv_mode_current) /\ NextEvent("TERMINATED")
    BY <2>2, <2>4
  <2>7. adv_mode_current = BLE_ADV_MODE_SLOW
    BY <2>4, <2>5, <2>6 DEF adv_mode_next_get
  <2>8. ~advertising
    BY <1>1, <2>6, NoEventWhileAdvertising DEF AdvInv
  <2>9. sd_link = Nobody
    BY <1>1, <2>6, TakeEvent DEF AdvInv, Shape, Waiting, NextEvent, LinkEvents
  <2> QED
    BY <2>7, <2>8, <2>9
<1>2. AdvInv /\ [AdvNext]_advVars =>
        [power = "on" /\ power' = "off" =>
           adv_mode_current = BLE_ADV_MODE_SLOW /\ ~advertising /\ sd_link = Nobody]_advVars
  BY <1>1
<1> QED
  BY <1>2, AdvInvariant, PTL DEF AdvSpec, SleepsOnlyAfterSlow
=============================================================================
