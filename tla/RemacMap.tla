------------------------------ MODULE RemacMap ------------------------------
(***************************************************************************)
(* What the IPoIB REMAC cache promises its users: per device, a partial    *)
(* map from the Ethernet MAC that eIPoIB shows to the network stack (the   *)
(* REMAC) to the IPoIB MAC (QPN and GID) of the peer.  A received ARP may  *)
(* learn an entry; a lookup answers with what the map holds; an entry may  *)
(* be forgotten at any time, since it is a cache.                          *)
(***************************************************************************)
CONSTANTS Devices, Remacs, Macs, NoMac

VARIABLES map,     \* [Devices -> [Remacs -> Macs \cup {NoMac}]]
          answer,  \* the last lookup: [dev, remac, mac], mac = NoMac on a miss
          heard    \* the last mapping offered to Learn: [dev, remac, mac]

MapType == [Devices -> [Remacs -> Macs \cup {NoMac}]]

(* Every entry of m2 is the entry of m1 or forgotten.                      *)
Forgets(m1, m2) ==
    \A d \in Devices, r \in Remacs : m2[d][r] \in {m1[d][r], NoMac}

(* Learning (d, r) -> m; the memory it takes may make other entries go.    *)
(* When it fails for lack of memory, r stays unmapped.                     *)
Learn(d, r, m) ==
    /\ heard' = [dev |-> d, remac |-> r, mac |-> m]
    /\ UNCHANGED answer
    /\ map' \in MapType
    /\ Forgets([map EXCEPT ![d][r] = m], map')
    /\ (map'[d][r] = m \/ map[d][r] = NoMac)

(* A lookup answers with the entry, and changes no entry.                  *)
Lookup(d, r) ==
    /\ answer' = [dev |-> d, remac |-> r, mac |-> map[d][r]]
    /\ UNCHANGED <<map, heard>>

(* Entries are dropped (flush on close, discard under memory pressure).    *)
Forget ==
    /\ UNCHANGED <<answer, heard>>
    /\ map' \in MapType
    /\ Forgets(map, map')

Init ==
    /\ map = [d \in Devices |-> [r \in Remacs |-> NoMac]]
    /\ answer = [dev |-> NoMac, remac |-> NoMac, mac |-> NoMac]
    /\ heard = [dev |-> NoMac, remac |-> NoMac, mac |-> NoMac]

Next ==
    \/ \E d \in Devices, r \in Remacs, m \in Macs : Learn(d, r, m)
    \/ \E d \in Devices, r \in Remacs : Lookup(d, r)
    \/ Forget

Spec == Init /\ [][Next]_<<map, answer, heard>>

=============================================================================
