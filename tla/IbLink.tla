------------------------------- MODULE IbLink -------------------------------
(***************************************************************************)
(* One Infiniband port and the IPoIB device on it, as the port's link      *)
(* state reaches IPoIB:                                                    *)
(*   - ib_smc_update (ib_smc.c): four subnet-management queries in a row   *)
(*     (node info, port info, GUID info, P_Key table), each copied into    *)
(*     the ib_device as it arrives; the first failure returns, and only a  *)
(*     complete update notifies the drivers (ib_link_state_changed);       *)
(*   - ib_smc_set_port_info: read, modify and write back the port info;    *)
(*   - ipoib_link_state_changed (ipoib.c): leave the broadcast group, take *)
(*     the GID prefix and P_Key from the ib_device, set the link state,    *)
(*     and join again when the device is open and the link is up;          *)
(*   - ipoib_open and ipoib_close, and ipoib_join_complete, the callback   *)
(*     of the asynchronous join.                                           *)
(* The subnet manager's view of the port (sma) is the environment: it may  *)
(* change at any time.                                                     *)
(***************************************************************************)
EXTENDS Integers, Bitwise

CONSTANTS
    Prefixes,     \* GID prefixes the subnet manager may assign
    Pkeys,        \* partition keys it may assign
    SpeedBytes,   \* values of link_speed_active__link_speed_enabled
    MadMayFail,   \* a management datagram may fail (local_mad returns an error)
    JoinMayFail,  \* ib_mcast_join may fail before it sends its request
    NoPrefix,     \* ipoib->mac before the first link-state change (zeroed)
    DefaultPkey   \* the P_Key of ipoib_broadcast before the first change

PortStates == {"Down", "Active"}

(* Port info byte 1: active speed in the high nibble, enabled speed in the *)
(* low one.                                                                *)
SpeedActive(b)  == shiftR(b, 4)
SpeedEnabled(b) == b & 15

VARIABLES
    sma,        \* what the port's subnet-management agent answers
    ibdev,      \* the copies ib_smc_get keeps in struct ib_device
    isOpen,     \* the IPoIB net device (and so the ib_device) is open
    joined,     \* ipoib->broadcast_joined
    pending,    \* the broadcast join's request is in flight
    macPrefix,  \* ipoib->mac.gid.s.prefix
    bcastPkey,  \* the P_Key in ipoib->broadcast.gid
    link        \* the net device's link status (netdev_link_err)

vars == <<sma, ibdev, isOpen, joined, pending, macPrefix, bcastPkey, link>>

Snapshots ==
    [prefix : Prefixes, pkey : Pkeys, state : PortStates, speed : SpeedBytes]

LinkStatuses == {"unknown", "ok", "joining", "down", "joinfail"}

-----------------------------------------------------------------------------
(* ib_smc_get with the P_Key table queried before the GUID info.           *)
SmcGetPkeyFirst(k) ==
    [prefix   |-> IF k >= 2 THEN sma.prefix ELSE ibdev.prefix,
     pkey     |-> IF k >= 3 THEN sma.pkey ELSE ibdev.pkey,
     state    |-> IF k >= 2 THEN sma.state ELSE ibdev.state,
     sActive  |-> IF k >= 2 THEN SpeedActive(sma.speed) ELSE ibdev.sActive,
     sEnabled |-> IF k >= 2 THEN SpeedEnabled(sma.speed) ELSE ibdev.sEnabled]

(* ib_smc_get when the first k queries succeed: node info (the node GUID), *)
(* port info (the GID prefix, LID, port state and speeds), GUID info (the  *)
(* port GUID), P_Key table; each is copied as soon as it is answered.  The *)
(* port GUID and node GUID are the hardware's and never change, so they    *)
(* are not followed.                                                       *)
SmcGet(k) ==
    [prefix   |-> IF k >= 2 THEN sma.prefix ELSE ibdev.prefix,
     pkey     |-> IF k >= 4 THEN sma.pkey ELSE ibdev.pkey,
     state    |-> IF k >= 2 THEN sma.state ELSE ibdev.state,
     sActive  |-> IF k >= 2 THEN SpeedActive(sma.speed) ELSE ibdev.sActive,
     sEnabled |-> IF k >= 2 THEN SpeedEnabled(sma.speed) ELSE ibdev.sEnabled]

(* The number of queries that succeed.                                     *)
Answered == IF MadMayFail THEN 0..4 ELSE {4}

(* ipoib_link_state_changed, on the ib_device dev with the device open or  *)
(* not: leave the group (which also abandons a join in flight), take the   *)
(* prefix and P_Key, report -EINPROGRESS_JOINING or ib_link_rc, and join   *)
(* when open and up; a join that cannot be sent is reported as the link    *)
(* error.                                                                  *)
LinkStateChangedNoJoinError(dev, open) ==
    /\ macPrefix' = dev.prefix
    /\ bcastPkey' = dev.pkey
    /\ IF open /\ dev.state = "Active"
       THEN \E fails \in IF JoinMayFail THEN BOOLEAN ELSE {FALSE} :
              /\ joined' = ~fails
              /\ pending' = ~fails
              /\ link' = "joining"
       ELSE /\ joined' = FALSE
            /\ pending' = FALSE
            /\ link' = IF dev.state = "Active" THEN "joining" ELSE "down"

LinkStateChanged(dev, open) ==
    /\ macPrefix' = dev.prefix
    /\ bcastPkey' = dev.pkey
    /\ IF open /\ dev.state = "Active"
       THEN \E fails \in IF JoinMayFail THEN BOOLEAN ELSE {FALSE} :
              /\ joined' = ~fails
              /\ pending' = ~fails
              /\ link' = IF fails THEN "joinfail" ELSE "joining"
       ELSE /\ joined' = FALSE
            /\ pending' = FALSE
            /\ link' = IF dev.state = "Active" THEN "joining" ELSE "down"

-----------------------------------------------------------------------------
(* The port was registered after ib_smc_init read it; IPoIB was probed     *)
(* (mac zeroed, default broadcast address) and its net device is closed.   *)
Init ==
    /\ sma \in Snapshots
    /\ ibdev = [prefix |-> sma.prefix, pkey |-> sma.pkey, state |-> sma.state,
                sActive |-> SpeedActive(sma.speed),
                sEnabled |-> SpeedEnabled(sma.speed)]
    /\ isOpen = FALSE
    /\ joined = FALSE
    /\ pending = FALSE
    /\ macPrefix = NoPrefix
    /\ bcastPkey = DefaultPkey
    /\ link = "unknown"

(* The subnet manager reassigns the prefix or P_Key, or the link goes up   *)
(* or down, or the link trains to another speed.                          *)
SubnetChange ==
    /\ \E s \in Snapshots \ {sma} : sma' = s
    /\ UNCHANGED <<ibdev, isOpen, joined, pending, macPrefix, bcastPkey, link>>

(* ib_smc_update, called by the port-state-change event: the queries, then *)
(* the notification only if all four were answered.                       *)
SmcUpdate ==
    \E k \in Answered :
        /\ ibdev' = SmcGet(k)
        /\ IF k = 4 THEN LinkStateChanged(ibdev', isOpen)
           ELSE UNCHANGED <<joined, pending, macPrefix, bcastPkey, link>>
        /\ UNCHANGED <<sma, isOpen>>

(* The speed mask inverted: the enabled nibble kept, the active cleared.  *)
SetPortInfoMaskSwapped ==
    /\ \E ok \in IF MadMayFail THEN BOOLEAN ELSE {TRUE} :
         sma' = IF ok THEN [sma EXCEPT !.speed = (@ & 15) | 1] ELSE sma
    /\ UNCHANGED <<ibdev, isOpen, joined, pending, macPrefix, bcastPkey, link>>

(* ib_smc_set_port_info: get the port info, keep the active speed and set  *)
(* the enabled speed to 2.5 Gb/s (with the link-down default state and the *)
(* extended speeds, which are not followed), and set it back; either MAD   *)
(* may fail, and then nothing is set.                                      *)
SetPortInfo ==
    /\ \E ok \in IF MadMayFail THEN BOOLEAN ELSE {TRUE} :
         sma' = IF ok THEN [sma EXCEPT !.speed = (@ & 240) | 1] ELSE sma
    /\ UNCHANGED <<ibdev, isOpen, joined, pending, macPrefix, bcastPkey, link>>

(* ipoib_open without the faked link-state change.                        *)
IpoibOpenNoLinkChange ==
    /\ ~isOpen
    /\ isOpen' = TRUE
    /\ UNCHANGED <<sma, ibdev, joined, pending, macPrefix, bcastPkey, link>>

(* ipoib_open: ib_open, the queues (a failure undoes what was done and     *)
(* leaves the device closed, as it was), then a faked link-state change.   *)
IpoibOpen ==
    /\ ~isOpen
    /\ isOpen' = TRUE
    /\ LinkStateChanged(ibdev, TRUE)
    /\ UNCHANGED <<sma, ibdev>>

(* ipoib_close: flush the REMAC cache, leave the broadcast group (which    *)
(* abandons a join in flight), tear down the queues, ib_close.  The link   *)
(* status is left as it was.                                               *)
IpoibClose ==
    /\ isOpen
    /\ isOpen' = FALSE
    /\ joined' = FALSE
    /\ pending' = FALSE
    /\ UNCHANGED <<sma, ibdev, macPrefix, bcastPkey, link>>

(* ipoib_join_complete: the join's answer, or its timeout, becomes the     *)
(* net device's link status.                                               *)
JoinComplete ==
    /\ pending
    /\ pending' = FALSE
    /\ \E ok \in BOOLEAN : link' = IF ok THEN "ok" ELSE "joinfail"
    /\ UNCHANGED <<sma, ibdev, isOpen, joined, macPrefix, bcastPkey>>

Next ==
    \/ SubnetChange
    \/ SmcUpdate
    \/ SetPortInfo
    \/ IpoibOpen
    \/ IpoibClose
    \/ JoinComplete

(* A join in flight is answered or times out: ipoib_poll drives the        *)
(* retry timers of the join request.  Nothing else is bound to happen.     *)
Spec == Init /\ [][Next]_vars /\ WF_vars(JoinComplete)

-----------------------------------------------------------------------------
TypeOK ==
    /\ sma \in Snapshots
    /\ ibdev \in [prefix : Prefixes, pkey : Pkeys, state : PortStates,
                  sActive : 0..15, sEnabled : 0..15]
    /\ isOpen \in BOOLEAN
    /\ joined \in BOOLEAN
    /\ pending \in BOOLEAN
    /\ macPrefix \in Prefixes \cup {NoPrefix}
    /\ bcastPkey \in Pkeys \cup {DefaultPkey}
    /\ link \in LinkStatuses

(* IPoIB is a member of the broadcast group of the partition the port is   *)
(* in now: whenever broadcast_joined is set, the P_Key of ipoib->broadcast *)
(* is the ib_device's.  It holds across failed ib_smc_update calls only    *)
(* because the P_Key table is the last query, so the P_Key is copied only  *)
(* by an update that also notifies IPoIB.                                  *)
BroadcastGroupCurrent ==
    joined => bcastPkey = ibdev.pkey

(* An open net device reports its link up only while IPoIB is a member of *)
(* the broadcast group with no join in flight.  ipoib_close leaves the     *)
(* link status as it was, so a reopened device must not inherit "up" from  *)
(* its last session: ipoib_open's faked link-state change resets it.       *)
LinkUpOnlyWhenJoined ==
    isOpen /\ link = "ok" => joined /\ ~pending

(* An open device whose link reads "joining" leaves that state: the join   *)
(* it sent is answered or times out, and a join that could not be sent is  *)
(* reported as the link error at once (ipoib_link_state_changed).          *)
JoiningResolves ==
    (isOpen /\ link = "joining") ~> (link # "joining" \/ ~isOpen)

=============================================================================
