----------------------------- MODULE IpoibRemac -----------------------------
(***************************************************************************)
(* The REMAC cache of the IPoIB driver (src/drivers/net/ipoib.c).  Each    *)
(* IPoIB net device keeps a list of peers, most recently used first, and a *)
(* count total_peers beside it.  Received ARPs fill it (ipoib_map_remac),  *)
(* transmit reads it (ipoib_find_remac), close flushes it, and the cache   *)
(* discarder that malloc calls when the heap is full thins it.  The heap   *)
(* is counted in blocks: one per IPoIB net device and one per peer.        *)
(***************************************************************************)
EXTENDS Integers, SequencesExt, Functions, FiniteSets

CONSTANTS
    Devices,          \* the Infiniband devices on the ib_devices list
    Remacs,           \* unicast REMACs (the broadcast REMAC never enters the cache)
    Macs,             \* the IPoIB MACs that peers announce
    Starts,           \* start states: [heap |-> heap blocks of the platform,
                      \*   owner |-> [Devices -> {"none", "ipoib"}], probed already or not]
    RegisterMayFail,  \* register_netdev may fail in ipoib_probe
    NoMac             \* no IPoIB MAC: ipoib_find_remac returned NULL

IPOIB_MIN_DROP_CACHE == 3

VARIABLES
    owner,     \* [Devices -> {"none", "ipoib", "gone"}]: ib_get_ownerdata, or off the list
    isOpen,    \* [Devices -> BOOLEAN]: the IPoIB net device is open
    peers,     \* [Devices -> Seq([remac, mac])]: ipoib->peers from the head
    total,     \* [Devices -> Nat]: ipoib->total_peers
    nullRead,  \* the discarder has read netdev->op through a NULL owner
    crashed,   \* ... and that read trapped
    answer,    \* the last transmit lookup: [dev, remac, mac]
    arp,       \* the last received ARP mapping: [dev, remac, mac]
    lastUse,   \* history: [Devices -> Seq(Remacs)], most recently used first
    capacity   \* heap blocks available to IPoIB net devices and peers (fixed)

vars == <<owner, isOpen, peers, total, nullRead, crashed, answer, arp, lastUse, capacity>>

-----------------------------------------------------------------------------
(* The position of remac r in the peer list of d, 0 when it is absent.     *)
IndexOf(d, r) ==
    IF \E i \in DOMAIN peers[d] : peers[d][i].remac = r
    THEN CHOOSE i \in DOMAIN peers[d] : peers[d][i].remac = r
    ELSE 0

(* list_del then list_add: entry i goes to the head.                       *)
MoveToFront(s, i) == Cons(s[i], RemoveAt(s, i))

(* ipoib_add_peer: list_add at the head, total_peers++.                    *)
AddPeer(s, t, e) == [list |-> Cons(e, s), count |-> t + 1]

RemovePeerNoCount(s, t, i) == [list |-> RemoveAt(s, i), count |-> t]

(* ipoib_remove_peer: unlink entry i and count down, only while            *)
(* total_peers > 0.                                                        *)
RemovePeer(s, t, i) ==
    IF t > 0 THEN [list |-> RemoveAt(s, i), count |-> t - 1]
    ELSE [list |-> s, count |-> t]

(* ipoib_flush_remac: remove_peer and free every entry, in list order.  An *)
(* entry remove_peer does not unlink (count already 0) is freed but stays  *)
(* linked; the loop goes on from the next one.                             *)
FlushPeers(s, t) ==
    LET RECURSIVE Go(_, _, _)
        Go(cur, cnt, skipped) ==
            IF skipped = Len(cur) THEN [list |-> cur, count |-> cnt]
            ELSE LET r == RemovePeer(cur, cnt, skipped + 1) IN
                 IF r.list = cur THEN Go(cur, cnt, skipped + 1)
                 ELSE Go(r.list, r.count, skipped)
    IN Go(s, t, 0)

(* The heap blocks in use.                                                 *)
Used ==
    Cardinality({d \in Devices : owner[d] = "ipoib"}) +
    SumFunction([d \in Devices |-> Len(peers[d])])

-----------------------------------------------------------------------------
(* ipoib_discard_remac, one round over for_each_ibdev: skip a device whose *)
(* net device is not IPoIB, skip one with an empty list or fewer than      *)
(* IPOIB_MIN_DROP_CACHE peers, else remove and free its last peer.         *)
Victims == {d \in Devices : owner[d] = "ipoib" /\ peers[d] # << >>
                            /\ total[d] >= IPOIB_MIN_DROP_CACHE}

DiscardRound ==
    [d \in Devices |-> IF d \in Victims THEN RemovePeer(peers[d], total[d], Len(peers[d]))
                       ELSE [list |-> peers[d], count |-> total[d]]]

(* A device whose probe is still allocating its net device is on the list  *)
(* with no owner: netdev->op reads through NULL.  What it reads is left to  *)
(* the platform: it either traps or is some value other than              *)
(* &ipoib_operations, and the device is skipped.                          *)
DiscardHitsNull == \E d \in Devices : owner[d] = "none"

MallocOffByOne ==
    IF Used <= capacity
    THEN {[rc |-> "ok", null |-> FALSE, peers |-> peers, total |-> total]}
    ELSE LET base == [rc    |-> IF Victims # {} THEN "ok" ELSE "fail",
                      null  |-> DiscardHitsNull,
                      peers |-> [d \in Devices |-> DiscardRound[d].list],
                      total |-> [d \in Devices |-> DiscardRound[d].count]]
         IN {base} \cup (IF DiscardHitsNull THEN {[base EXCEPT !.rc = "crash"]} ELSE {})

(* malloc of one block.  When the heap is full it calls discard_cache and  *)
(* retries while something was discarded; the cheaper discarders are taken *)
(* to have nothing to drop, so the IPoIB round decides.                    *)
Malloc ==
    IF Used < capacity
    THEN {[rc |-> "ok", null |-> FALSE, peers |-> peers, total |-> total]}
    ELSE LET base == [rc    |-> IF Victims # {} THEN "ok" ELSE "fail",
                      null  |-> DiscardHitsNull,
                      peers |-> [d \in Devices |-> DiscardRound[d].list],
                      total |-> [d \in Devices |-> DiscardRound[d].count]]
         IN {base} \cup (IF DiscardHitsNull THEN {[base EXCEPT !.rc = "crash"]} ELSE {})

(* The recency history, restricted to what the lists still hold.           *)
SyncUse(p) ==
    [d \in Devices |-> SelectSeq(lastUse[d], LAMBDA x : \E i \in DOMAIN p[d] : p[d][i].remac = x)]

Touch(u, d, r) == [u EXCEPT ![d] = Cons(r, Remove(@, r))]

(* The effects of a malloc result on the variables every allocation        *)
(* touches.                                                               *)
Allocated(a) ==
    /\ peers' = a.peers
    /\ total' = a.total
    /\ nullRead' = (nullRead \/ a.null)
    /\ crashed' = (a.rc = "crash")

-----------------------------------------------------------------------------
Init ==
    /\ \E st \in Starts : capacity = st.heap /\ owner = st.owner
    /\ isOpen = [d \in Devices |-> FALSE]
    /\ peers = [d \in Devices |-> << >>]
    /\ total = [d \in Devices |-> 0]
    /\ nullRead = FALSE
    /\ crashed = FALSE
    /\ answer = [dev |-> NoMac, remac |-> NoMac, mac |-> NoMac]
    /\ arp = [dev |-> NoMac, remac |-> NoMac, mac |-> NoMac]
    /\ lastUse = [d \in Devices |-> << >>]

(* ipoib_probe: alloc_ipoibdev, then ib_set_ownerdata, then               *)
(* register_netdev.  The device is on the list, ownerless, while its net   *)
(* device is allocated.  A failed probe takes the device off the list      *)
(* (register_ibdev); a failed register_netdev frees the net device.        *)
Probe(d) ==
    /\ ~crashed
    /\ owner[d] = "none"
    /\ \E a \in Malloc :
          /\ Allocated(a)
          /\ \/ a.rc = "ok" /\ owner' = [owner EXCEPT ![d] = "ipoib"]
             \/ a.rc = "ok" /\ RegisterMayFail /\ owner' = [owner EXCEPT ![d] = "gone"]
             \/ a.rc = "fail" /\ owner' = [owner EXCEPT ![d] = "gone"]
             \/ a.rc = "crash" /\ UNCHANGED owner
          /\ lastUse' = SyncUse(a.peers)
    /\ UNCHANGED <<isOpen, answer, arp, capacity>>

(* ipoib_open; its queue allocations are left out (see OtherAlloc).        *)
Open(d) ==
    /\ ~crashed
    /\ owner[d] = "ipoib" /\ ~isOpen[d]
    /\ isOpen' = [isOpen EXCEPT ![d] = TRUE]
    /\ UNCHANGED <<owner, peers, total, nullRead, crashed, answer, arp, lastUse, capacity>>

(* ipoib_close: ipoib_flush_remac, then the queues are torn down.          *)
Close(d) ==
    /\ ~crashed
    /\ isOpen[d]
    /\ isOpen' = [isOpen EXCEPT ![d] = FALSE]
    /\ LET f == FlushPeers(peers[d], total[d]) IN
       /\ peers' = [peers EXCEPT ![d] = f.list]
       /\ total' = [total EXCEPT ![d] = f.count]
    /\ lastUse' = [lastUse EXCEPT ![d] = << >>]
    /\ UNCHANGED <<owner, nullRead, crashed, answer, arp, capacity>>

(* ipoib_remove: unregister_netdev (which closes an open device), then the *)
(* net device is freed and unregister_ibdev takes the device off the list. *)
IpoibRemove(d) ==
    /\ ~crashed
    /\ owner[d] = "ipoib"
    /\ owner' = [owner EXCEPT ![d] = "gone"]
    /\ isOpen' = [isOpen EXCEPT ![d] = FALSE]
    /\ LET f == IF isOpen[d] THEN FlushPeers(peers[d], total[d])
                ELSE [list |-> peers[d], count |-> total[d]] IN
       /\ peers' = [peers EXCEPT ![d] = f.list]
       /\ total' = [total EXCEPT ![d] = f.count]
    /\ lastUse' = [lastUse EXCEPT ![d] = << >>]
    /\ UNCHANGED <<nullRead, crashed, answer, arp, capacity>>

(* ipoib_map_remac: an entry for r moves to the head and takes MAC m;      *)
(* otherwise a new entry is malloc'd (-ENOMEM on NULL) and added.          *)
MapRemacNoUpdate(d, r, m) ==
    LET i == IndexOf(d, r) IN
    IF i # 0
    THEN {[rc |-> "ok", null |-> FALSE, total |-> total,
           peers |-> [peers EXCEPT ![d] = MoveToFront(@, i)]]}
    ELSE {IF a.rc # "ok" THEN a
          ELSE LET n == AddPeer(a.peers[d], a.total[d], [remac |-> r, mac |-> m]) IN
               [a EXCEPT !.peers[d] = n.list, !.total[d] = n.count] : a \in Malloc}

MapRemacNoSearch(d, r, m) ==
    {IF a.rc # "ok" THEN a
     ELSE LET n == AddPeer(a.peers[d], a.total[d], [remac |-> r, mac |-> m]) IN
          [a EXCEPT !.peers[d] = n.list, !.total[d] = n.count] : a \in Malloc}

MapRemac(d, r, m) ==
    LET i == IndexOf(d, r) IN
    IF i # 0
    THEN {[rc |-> "ok", null |-> FALSE, total |-> total,
           peers |-> [peers EXCEPT ![d] = MoveToFront([@ EXCEPT ![i].mac = m], i)]]}
    ELSE {IF a.rc # "ok" THEN a
          ELSE LET n == AddPeer(a.peers[d], a.total[d], [remac |-> r, mac |-> m]) IN
               [a EXCEPT !.peers[d] = n.list, !.total[d] = n.count] : a \in Malloc}

(* ipoib_complete_recv of an ARP whose sender is REMAC r with IPoIB MAC m: *)
(* ipoib_translate_rx_arp maps it; on failure the packet is dropped.       *)
RxArp(d, r, m) ==
    /\ ~crashed
    /\ isOpen[d]
    /\ \E res \in MapRemac(d, r, m) :
          /\ Allocated(res)
          /\ lastUse' = IF res.rc = "ok" THEN Touch(SyncUse(res.peers), d, r)
                        ELSE SyncUse(res.peers)
    /\ arp' = [dev |-> d, remac |-> r, mac |-> m]
    /\ UNCHANGED <<owner, isOpen, answer, capacity>>

(* ipoib_find_remac for a unicast REMAC: a hit moves to the head.          *)
FindRemacNoMove(d, r) ==
    LET i == IndexOf(d, r) IN
    IF i = 0 THEN [mac |-> NoMac, peers |-> peers]
    ELSE [mac |-> peers[d][i].mac, peers |-> peers]

FindRemac(d, r) ==
    LET i == IndexOf(d, r) IN
    IF i = 0 THEN [mac |-> NoMac, peers |-> peers]
    ELSE [mac |-> peers[d][i].mac, peers |-> [peers EXCEPT ![d] = MoveToFront(@, i)]]

(* ipoib_transmit to REMAC r: find_remac, -ENXIO on a miss.                *)
Tx(d, r) ==
    /\ ~crashed
    /\ isOpen[d]
    /\ LET f == FindRemac(d, r) IN
       /\ peers' = f.peers
       /\ answer' = [dev |-> d, remac |-> r, mac |-> f.mac]
       /\ lastUse' = IF f.mac = NoMac THEN lastUse ELSE Touch(lastUse, d, r)
    /\ UNCHANGED <<owner, isOpen, total, nullRead, crashed, arp, capacity>>

(* Any other allocation (I/O buffers, queues, other drivers) that finds    *)
(* the heap full; the block it gets is freed again.                        *)
OtherAlloc ==
    /\ ~crashed
    /\ ~(Used < capacity)
    /\ \E a \in Malloc :
          /\ Allocated(a)
          /\ lastUse' = SyncUse(a.peers)
    /\ UNCHANGED <<owner, isOpen, answer, arp, capacity>>

Next ==
    \/ \E d \in Devices : Probe(d) \/ Open(d) \/ Close(d) \/ IpoibRemove(d)
    \/ \E d \in Devices, r \in Remacs, m \in Macs : RxArp(d, r, m)
    \/ \E d \in Devices, r \in Remacs : Tx(d, r)
    \/ OtherAlloc

Spec == Init /\ [][Next]_vars

-----------------------------------------------------------------------------
(* TypeOK: the variables have their types, an open net device belongs to  *)
(* a probed device, and the heap never holds more blocks than it has       *)
(* (malloc only hands out a block it has, after discarding if it must).   *)
TypeOK ==
    /\ owner \in [Devices -> {"none", "ipoib", "gone"}]
    /\ isOpen \in [Devices -> BOOLEAN]
    /\ \A d \in Devices : peers[d] \in Seq([remac : Remacs, mac : Macs])
    /\ total \in [Devices -> Nat]
    /\ nullRead \in BOOLEAN /\ crashed \in BOOLEAN
    /\ {answer, arp} \subseteq [dev : Devices \cup {NoMac}, remac : Remacs \cup {NoMac},
                                mac : Macs \cup {NoMac}]
    /\ \A d \in Devices : isOpen[d] => owner[d] = "ipoib"
    /\ capacity \in {st.heap : st \in Starts} /\ Used <= capacity

(* total_peers counts exactly the entries on the list: the guarded count   *)
(* in ipoib_remove_peer, the flush on close and the discarder's removal    *)
(* never leave a freed entry linked or a count without its entry.          *)
CountMatchesList == \A d \in Devices : total[d] = Len(peers[d])

(* A REMAC has at most one entry per device: ipoib_map_remac updates the   *)
(* entry it finds instead of adding a second one, whatever the discarder   *)
(* dropped in between.                                                     *)
RemacsUnique == \A d \in Devices : IsInjective([i \in DOMAIN peers[d] |-> peers[d][i].remac])

(* The position of r in the recency history (after the end when absent).   *)
Rank(u, r) == IF r \in ToSet(u) THEN CHOOSE i \in DOMAIN u : u[i] = r ELSE Len(u) + 1

RemacSet(s) == {s[i].remac : i \in DOMAIN s}

(* The discarder drops least recently used entries: when a step removes    *)
(* some entries of a device and keeps others, every removed REMAC was used *)
(* (found by transmit or mapped by a received ARP) less recently than      *)
(* every kept one.  This rests on find_remac and map_remac moving a hit to *)
(* the head and the discarder taking the tail.                             *)
DiscardsLeastRecentlyUsed ==
    [][\A d \in Devices :
          \A gone \in RemacSet(peers[d]) \ RemacSet(peers'[d]),
             kept \in RemacSet(peers[d]) \cap RemacSet(peers'[d]) :
                Rank(lastUse[d], kept) < Rank(lastUse[d], gone)]_vars

(* The cache as the map its users see: REMAC to the MAC of its entry.      *)
AbsMap ==
    [d \in Devices |-> [r \in Remacs |->
        IF IndexOf(d, r) = 0 THEN NoMac ELSE peers[d][IndexOf(d, r)].mac]]

Abstract == INSTANCE RemacMap WITH map <- AbsMap, heard <- arp

(* The cache implements RemacMap: a received ARP makes its REMAC map to    *)
(* the MAC it carries, also when the REMAC is cached with an older MAC (or *)
(* leaves the REMAC unmapped when malloc fails), transmit answers with    *)
(* the MAC last learned for the REMAC or none, and flush and discard only  *)
(* forget entries.                                                         *)
RemacMapRefined == Abstract!Spec

(* The cache discarder never reads the net device of an Infiniband device  *)
(* that has none: ipoib_discard_remac dereferences ib_get_ownerdata        *)
(* without a NULL check.                                                   *)
NoNullOwnerRead == ~nullRead

====
