---------------------------- MODULE Advertising ----------------------------
(***************************************************************************)
(* How the keyboard gets and keeps its host: the advertising modes         *)
(* (ble_advertising.c), the whitelist and the bonds (ble_service.c, the    *)
(* Peer Manager), system off, and the restart after a failed               *)
(* APP_ERROR_CHECK.                                                        *)
(*                                                                         *)
(* Handlers run to completion in the main loop, one action each.  Beside   *)
(* it the SoftDevice advertises, keeps the link and writes bonds to flash; *)
(* what it reports waits in its queues until the main loop takes it.  A    *)
(* bond therefore exists three times: made (owner), written (stored) and   *)
(* reported (no longer in unreported), and the link may go and come back   *)
(* between any two of these.                                               *)
(*                                                                         *)
(* Hosts are taken to distribute an identity address and key when they     *)
(* bond.  One set of advertising data and one link, as configured.         *)
(***************************************************************************)
EXTENDS Integers, Sequences

CONSTANTS
  Hosts,      \* computers and phones, by identity
  MAX_PEERS,  \* PM_PEER_ID_N_AVAILABLE_IDS; a bound here, 256 in the code
  Nobody      \* no host

ASSUME AdvertisingAssumption ==
  /\ MAX_PEERS \in Nat /\ 0 < MAX_PEERS
  /\ Nobody \notin Hosts

PeerIds == 0 .. MAX_PEERS - 1
PM_PEER_ID_INVALID == MAX_PEERS

BLE_ADV_MODE_IDLE == 0
BLE_ADV_MODE_DIRECTED_HIGH_DUTY == 1
BLE_ADV_MODE_DIRECTED == 2
BLE_ADV_MODE_FAST == 3
BLE_ADV_MODE_SLOW == 4
BLE_ADV_MODES == 5

EventTypes == {"CONNECTED", "BONDED", "PAIRED", "ENCRYPTED", "DISCONNECTED", "TERMINATED"}

BleEvents ==
  [type : EventTypes, host : Hosts \cup {Nobody}, peer : PeerIds \cup {PM_PEER_ID_INVALID}]

BleEvent(type, host, peer) == [type |-> type, host |-> host, peer |-> peer]

VARIABLES
  \* the Peer Manager and the flash
  owner,             \* the host in the bond of each peer id in use, else Nobody
  stored,            \* the peer ids whose bond is in flash
  unreported,        \* those of them whose write has not been reported yet
  m_wlisted_peers,   \* the peers last given to pm_whitelist_set
  connPeer,          \* m_connections[].peer_id of the link
  \* ble_service.c and ble_advertising.c
  m_peer_id,         \* the bonded peer of the link that was last secured
  adv_mode_current,
  peer_address,      \* the host of directed advertising, or Nobody
  filtered,          \* filter_policy: only hosts of the whitelist may connect
  power,             \* "on", "off" or "restarting"
  fault,             \* the refused call that restarted the device, or "none"
  \* the SoftDevice
  advertising,
  sd_whitelist,
  sd_link,           \* the connected host, or Nobody
  events,            \* BLE events the main loop has not taken yet
  \* history
  early,             \* the advertising began while a bond was unreported
  raced              \* a host connected through such advertising, unfiltered

pmVars    == <<owner, stored, unreported, connPeer, m_peer_id>>
listVars  == <<m_wlisted_peers, sd_whitelist>>
paramVars == <<adv_mode_current, peer_address, filtered, early>>
powerVars == <<power, fault>>
advVars == <<owner, stored, unreported, m_wlisted_peers, connPeer, m_peer_id,
             adv_mode_current, peer_address, filtered, power, fault,
             advertising, sd_whitelist, sd_link, events, early, raced>>

InUse == {p \in PeerIds : owner[p] # Nobody}
HostsOf(ids) == {owner[p] : p \in ids}

\* No two bonds with one identity: sd_ble_gap_device_identities_set refuses such a list.
Distinct(ids) == \A p, q \in ids : owner[p] = owner[q] => p = q

\* A bond has been made and the application has not been told that it is in flash.
BondOnItsWay == unreported # {} \/ InUse # stored

AdvInit ==
  /\ owner = [p \in PeerIds |-> Nobody]
  /\ stored = {}
  /\ unreported = {}
  /\ m_wlisted_peers = {}
  /\ connPeer = PM_PEER_ID_INVALID
  /\ m_peer_id = 0
  /\ adv_mode_current = BLE_ADV_MODE_IDLE
  /\ peer_address = Nobody
  /\ filtered = FALSE
  /\ power = "restarting"
  /\ fault = "none"
  /\ advertising = FALSE
  /\ sd_whitelist = {}
  /\ sd_link = Nobody
  /\ events = <<>>
  /\ early = FALSE
  /\ raced = FALSE

(***************************************************************************)
(* Starting to advertise.                                                  *)
(***************************************************************************)

\* APP_ERROR_CHECK of a refused call: the device restarts.
Fail(call) ==
  /\ power' = "restarting"
  /\ fault' = call
  /\ UNCHANGED <<owner, stored, connPeer, m_peer_id, listVars, paramVars, advertising,
                 sd_link, events, raced>>

\* Faulty: after the fast mode there is none.
SkipsSlow(mode) == IF mode = BLE_ADV_MODE_FAST THEN BLE_ADV_MODE_IDLE ELSE (mode + 1) % BLE_ADV_MODES

\* Faulty: after the slow mode the fast one begins again.
NeverIdle(mode) == IF mode = BLE_ADV_MODE_SLOW THEN BLE_ADV_MODE_FAST ELSE (mode + 1) % BLE_ADV_MODES

adv_mode_next_get(mode) == (mode + 1) % BLE_ADV_MODES

\* Low duty directed advertising is disabled, and so is a whitelist that is given up for a time.
adv_mode_next_avail_get(mode, peer) ==
  IF mode = BLE_ADV_MODE_DIRECTED_HIGH_DUTY /\ peer # Nobody THEN mode
  ELSE IF mode \in BLE_ADV_MODE_DIRECTED_HIGH_DUTY .. BLE_ADV_MODE_FAST THEN BLE_ADV_MODE_FAST
  ELSE IF mode = BLE_ADV_MODE_SLOW THEN mode
  ELSE BLE_ADV_MODE_IDLE

\* Faulty: the bond need not be in flash.
PeerAddrUnchecked(mode) ==
  IF mode = BLE_ADV_MODE_DIRECTED_HIGH_DUTY /\ m_peer_id \in InUse
  THEN owner[m_peer_id] ELSE Nobody

\* BLE_ADV_EVT_PEER_ADDR_REQUEST.
PeerAddrReply(mode) ==
  IF mode = BLE_ADV_MODE_DIRECTED_HIGH_DUTY /\ m_peer_id \in stored
  THEN owner[m_peer_id] ELSE Nobody

\* Faulty: the whitelist is taken to hold whatever is in flash.
InUseIfStored(listed) == stored # {}

\* BLE_ADV_EVT_WHITELIST_REQUEST: whether the whitelist is in use.
WhitelistReply(listed) == listed # {}

UsesWhitelist(mode) == mode \in {BLE_ADV_MODE_FAST, BLE_ADV_MODE_SLOW}

\* identities_set is called for either request and restarts the device when it is
\* refused.  For the peer address it lists the peers in resolvable, those known to
\* resolve addresses; for the whitelist all that have a key.
IdentitiesRefused(mode, resolvable) ==
  \/ PeerAddrReply(mode) # Nobody /\ ~Distinct(resolvable)
  \/ UsesWhitelist(adv_mode_next_avail_get(mode, PeerAddrReply(mode))) /\ ~Distinct(stored)

\* ble_advertising_start, in the idle mode on to sleep_mode_enter.
ble_advertising_start(mode, listed) ==
  LET available == adv_mode_next_avail_get(mode, PeerAddrReply(mode))
  IN  /\ adv_mode_current' = available
      /\ peer_address' = PeerAddrReply(mode)
      /\ filtered' = (UsesWhitelist(available) /\ WhitelistReply(listed))
      /\ advertising' = (available # BLE_ADV_MODE_IDLE)
      /\ power' = IF available = BLE_ADV_MODE_IDLE THEN "off" ELSE "on"
      /\ fault' = "none"
      /\ early' = BondOnItsWay

(***************************************************************************)
(* The main loop.                                                          *)
(***************************************************************************)

NextEvent(type) ==
  /\ power = "on"
  /\ events # <<>>
  /\ events[1].type = type

\* The Peer Manager looks for the host among the bonds in flash.
OnConnected ==
  /\ NextEvent("CONNECTED")
  /\ LET matches == {p \in stored : owner[p] = events[1].host}
     IN  IF matches = {} THEN connPeer' = PM_PEER_ID_INVALID ELSE connPeer' \in matches
  /\ events' = Tail(events)
  /\ UNCHANGED <<owner, stored, unreported, m_peer_id, listVars, paramVars, powerVars,
                 advertising, sd_link, raced>>

\* Pairing with bonding has succeeded.  A host found in flash keeps its bond
\* there; any other gets the first free peer id and its bond is sent to flash.
OnBonded ==
  /\ NextEvent("BONDED")
  /\ LET host == events[1].host
         duplicates == {p \in stored : owner[p] = host}
     IN  IF duplicates # {}
         THEN connPeer' \in duplicates /\ UNCHANGED owner
         ELSE \E p \in PeerIds \ InUse :
                /\ \A q \in PeerIds \ InUse : p <= q
                /\ connPeer' = p
                /\ owner' = [owner EXCEPT ![p] = host]
  /\ m_peer_id' = connPeer'
  /\ events' = Tail(events)
  /\ UNCHANGED <<stored, unreported, listVars, paramVars, powerVars, advertising, sd_link, raced>>

\* Pairing without bonding has succeeded.
OnPaired ==
  /\ NextEvent("PAIRED")
  /\ m_peer_id' = connPeer
  /\ events' = Tail(events)
  /\ UNCHANGED <<owner, stored, unreported, connPeer, listVars, paramVars, powerVars,
                 advertising, sd_link, raced>>

\* The link was encrypted with the keys of a bond.
OnEncrypted ==
  /\ NextEvent("ENCRYPTED")
  /\ connPeer' = events[1].peer
  /\ m_peer_id' = events[1].peer
  /\ events' = Tail(events)
  /\ UNCHANGED <<owner, stored, unreported, listVars, paramVars, powerVars,
                 advertising, sd_link, raced>>

\* The next mode is started, or the device restarts.
Advertise(mode, resolvable) ==
  IF IdentitiesRefused(mode, resolvable)
  THEN Fail("identities") /\ UNCHANGED unreported
  ELSE /\ ble_advertising_start(mode, m_wlisted_peers)
       /\ connPeer' = PM_PEER_ID_INVALID
       /\ events' = Tail(events)
       /\ UNCHANGED <<owner, stored, unreported, m_peer_id, listVars, sd_link, raced>>

\* Faulty: only a bonded host is waited for again.
OnDisconnectedBonded ==
  /\ NextEvent("DISCONNECTED")
  /\ IF connPeer # PM_PEER_ID_INVALID
     THEN \E resolvable \in SUBSET stored : Advertise(BLE_ADV_MODE_DIRECTED_HIGH_DUTY, resolvable)
     ELSE /\ events' = Tail(events)
          /\ UNCHANGED <<pmVars, listVars, paramVars, powerVars, advertising, sd_link, raced>>

OnDisconnected ==
  /\ NextEvent("DISCONNECTED")
  /\ \E resolvable \in SUBSET stored : Advertise(BLE_ADV_MODE_DIRECTED_HIGH_DUTY, resolvable)

\* An advertising mode has timed out.
OnTerminated ==
  /\ NextEvent("TERMINATED")
  /\ Advertise(adv_mode_next_get(adv_mode_current), {})

\* Faulty: the refusal is not looked at.
WhitelistUnchecked ==
  IF advertising /\ filtered
  THEN UNCHANGED <<owner, stored, connPeer, m_peer_id, listVars, paramVars, powerVars,
                   advertising, sd_link, events, raced>>
  ELSE /\ m_wlisted_peers' = stored
       /\ sd_whitelist' = HostsOf(stored)
       /\ UNCHANGED <<owner, stored, connPeer, m_peer_id, paramVars, powerVars,
                      advertising, sd_link, events, raced>>

\* whitelist_set: the SoftDevice refuses to change a whitelist in use.
whitelist_set ==
  IF advertising /\ filtered
  THEN Fail("whitelist")
  ELSE /\ m_wlisted_peers' = stored
       /\ sd_whitelist' = HostsOf(stored)
       /\ UNCHANGED <<owner, stored, connPeer, m_peer_id, paramVars, powerVars,
                      advertising, sd_link, events, raced>>

\* PM_EVT_PEER_DATA_UPDATE_SUCCEEDED for a bond.
OnBondStored(p) ==
  /\ power = "on"
  /\ p \in unreported
  /\ unreported' = unreported \ {p}
  /\ whitelist_set

Handler ==
  \/ OnConnected \/ OnBonded \/ OnPaired \/ OnEncrypted \/ OnDisconnected \/ OnTerminated
  \/ \E p \in PeerIds : OnBondStored(p)

\* Faulty: main does not fill the whitelist.
BootUnlisted ==
  /\ power = "restarting"
  /\ Distinct(stored)
  /\ owner' = [p \in PeerIds |-> IF p \in stored THEN owner[p] ELSE Nobody]
  /\ unreported' = {}
  /\ m_wlisted_peers' = {}
  /\ sd_whitelist' = {}
  /\ connPeer' = PM_PEER_ID_INVALID
  /\ m_peer_id' = 0
  /\ sd_link' = Nobody
  /\ events' = <<>>
  /\ adv_mode_current' = BLE_ADV_MODE_FAST
  /\ peer_address' = Nobody
  /\ filtered' = FALSE
  /\ advertising' = TRUE
  /\ power' = "on"
  /\ fault' = "none"
  /\ early' = FALSE
  /\ UNCHANGED <<stored, raced>>

\* main, from pm_init, which reads the bonds in flash, to advertising_start.
Boot ==
  /\ power = "restarting"
  /\ IF Distinct(stored)
     THEN /\ owner' = [p \in PeerIds |-> IF p \in stored THEN owner[p] ELSE Nobody]
          /\ unreported' = {}
          /\ m_wlisted_peers' = stored
          /\ sd_whitelist' = HostsOf(stored)
          /\ connPeer' = PM_PEER_ID_INVALID
          /\ m_peer_id' = 0
          /\ sd_link' = Nobody
          /\ events' = <<>>
          /\ adv_mode_current' = BLE_ADV_MODE_FAST
          /\ peer_address' = Nobody
          /\ filtered' = WhitelistReply(stored)
          /\ advertising' = TRUE
          /\ power' = "on"
          /\ fault' = "none"
          /\ early' = FALSE
          /\ UNCHANGED <<stored, raced>>
     ELSE Fail("identities") /\ UNCHANGED unreported

(***************************************************************************)
(* The SoftDevice and the hosts.                                           *)
(***************************************************************************)

\* Hosts that the advertising lets in.
Admitted ==
  IF peer_address # Nobody THEN {peer_address}
  ELSE IF filtered THEN sd_whitelist
  ELSE Hosts

HostConnects(h) ==
  /\ power = "on"
  /\ advertising
  /\ h \in Admitted
  /\ advertising' = FALSE
  /\ sd_link' = h
  /\ events' = Append(events, BleEvent("CONNECTED", h, PM_PEER_ID_INVALID))
  /\ raced' = (raced \/ (early /\ peer_address = Nobody /\ ~filtered))
  /\ UNCHANGED <<pmVars, listVars, paramVars, powerVars>>

\* Every mode has a duration.
AdvertisingTimesOut ==
  /\ power = "on"
  /\ advertising
  /\ advertising' = FALSE
  /\ events' = Append(events, BleEvent("TERMINATED", Nobody, PM_PEER_ID_INVALID))
  /\ UNCHANGED <<pmVars, listVars, paramVars, powerVars, sd_link, raced>>

LinkEnds ==
  /\ power = "on"
  /\ sd_link # Nobody
  /\ sd_link' = Nobody
  /\ events' = Append(events, BleEvent("DISCONNECTED", sd_link, PM_PEER_ID_INVALID))
  /\ UNCHANGED <<pmVars, listVars, paramVars, powerVars, advertising, raced>>

\* A security procedure ends.  Its last request was answered in the main loop, so
\* no earlier event of the link is left.
SecurityEvent(type, peer) ==
  /\ power = "on"
  /\ sd_link # Nobody
  /\ events = <<>>
  /\ events' = <<BleEvent(type, sd_link, peer)>>
  /\ UNCHANGED <<pmVars, listVars, paramVars, powerVars, advertising, sd_link, raced>>

\* A recognised peer may not pair again: smd_params_reply.
HostPairs(type) ==
  /\ connPeer = PM_PEER_ID_INVALID
  /\ InUse # PeerIds
  /\ SecurityEvent(type, PM_PEER_ID_INVALID)

\* The keys are looked for in flash.
HostEncrypts(p) ==
  /\ p \in stored
  /\ owner[p] = sd_link
  /\ SecurityEvent("ENCRYPTED", p)

\* The write of a bond ends, however long it took, retries included.
FlashWrite(p) ==
  /\ power = "on"
  /\ p \in InUse \ stored
  /\ stored' = stored \cup {p}
  /\ unreported' = unreported \cup {p}
  /\ UNCHANGED <<owner, connPeer, m_peer_id, listVars, paramVars, powerVars,
                 advertising, sd_link, events, raced>>

\* The reset pin, the battery, an error elsewhere in the firmware.
Reset ==
  /\ power \in {"on", "off"}
  /\ power' = "restarting"
  /\ fault' = "none"
  /\ UNCHANGED <<pmVars, listVars, paramVars, advertising, sd_link, events, raced>>

Surroundings ==
  \/ \E h \in Hosts : HostConnects(h)
  \/ AdvertisingTimesOut \/ LinkEnds
  \/ \E type \in {"BONDED", "PAIRED"} : HostPairs(type)
  \/ \E p \in PeerIds : HostEncrypts(p) \/ FlashWrite(p)

AdvNext == Handler \/ Surroundings \/ Boot \/ Reset

AdvSpec == AdvInit /\ [][AdvNext]_advVars

(***************************************************************************)
(* Properties.                                                             *)
(***************************************************************************)

AdvTypeOK ==
  /\ owner \in [PeerIds -> Hosts \cup {Nobody}]
  /\ unreported \subseteq stored
  /\ stored \subseteq InUse
  /\ m_wlisted_peers \subseteq stored
  /\ connPeer \in PeerIds \cup {PM_PEER_ID_INVALID}
  /\ m_peer_id \in PeerIds \cup {PM_PEER_ID_INVALID}
  /\ adv_mode_current \in 0 .. BLE_ADV_MODES - 1
  /\ peer_address \in Hosts \cup {Nobody}
  /\ filtered \in BOOLEAN
  /\ power \in {"on", "off", "restarting"}
  /\ fault \in {"none", "identities", "whitelist"}
  /\ advertising \in BOOLEAN
  /\ sd_whitelist \subseteq Hosts
  /\ sd_link \in Hosts \cup {Nobody}
  /\ events \in Seq(BleEvents)
  /\ early \in BOOLEAN
  /\ raced \in BOOLEAN

\* The keyboard never falls silent: while it is on it advertises, or has a host,
\* or an event waits whose handler starts the next advertising mode.
NeverSilent ==
  power = "on" /\ ~advertising /\ sd_link = Nobody =>
    events # <<>> /\ events[Len(events)].type \in {"DISCONNECTED", "TERMINATED"}

\* A filtered advertising lets in every host whose bond is in flash and reported:
\* no change of the bonds leaves a host locked out by a whitelist of before.
KnownHostsAdmitted ==
  power = "on" /\ advertising /\ filtered => HostsOf(stored \ unreported) \subseteq sd_whitelist

\* Directed advertising, which no other host can answer, goes to a host whose
\* bond is in flash, although m_peer_id starts as a valid id and is set before
\* the bond is written.
DirectedAtBonded ==
  power = "on" /\ advertising /\ adv_mode_current = BLE_ADV_MODE_DIRECTED_HIGH_DUTY =>
    m_peer_id \in stored /\ peer_address = owner[m_peer_id]

\* Unless a host came in through advertising that began before a bond was
\* reported, the keyboard has one bond at most: the whitelist keeps all other
\* hosts out from the first bond on, over losses of the link, sleep and restarts.
OneBond == ~raced => \A p, q \in InUse : p = q

\* Without such a race no handler's call is refused: neither the whitelist is
\* changed while it is in use, nor are two bonds of one host in flash.
NoFault == ~raced => fault = "none"

\* The device goes to sleep only when slow advertising, the last mode, has ended
\* and nobody is connected.
SleepsOnlyAfterSlow ==
  [][power = "on" /\ power' = "off" =>
       adv_mode_current = BLE_ADV_MODE_SLOW /\ ~advertising /\ sd_link = Nobody]_advVars

\* Without a host the keyboard gets one, or goes to sleep, or restarts.
FindsHostOrSleeps == (power = "on" /\ sd_link = Nobody) ~> (sd_link # Nobody \/ power # "on")
=============================================================================
