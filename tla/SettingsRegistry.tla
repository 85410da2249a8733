-------------------------- MODULE SettingsRegistry --------------------------
(***************************************************************************)
(* The life of the settings registry (driver_settings.c, the init code of  *)
(* hermon_settings.c): the singleton nv_settings_root, the global list     *)
(* driver_settings_list of owners (one firmware owner per adapter, one per *)
(* port), the subtrees and modified-list entries the owners hold on the   *)
(* heap, and the extended metadata that fill_extended_settings allocates.  *)
(* Memory is followed block group by block group: what is live, and what  *)
(* the code touches after it was freed.                                    *)
(***************************************************************************)
EXTENDS Integers, SequencesExt, FiniteSets

CONSTANTS
    Adapters,      \* ConnectX-3 adapters (struct hermon) probed over time
    Ports,         \* the ports of an adapter
    AllocMayFail,  \* the checked allocations (menu name, firmware block) may fail
    MaxPending,    \* modified-list entries an owner may hold in the model
    NoRoot         \* nv_settings_root == NULL, and a subtree that is not allocated

FW == "fw"
Owners == Adapters \X (Ports \cup {FW})

VARIABLES
    adapter,    \* [Adapters -> {"absent", "live", "freed"}]: struct hermon
    portDone,   \* [Adapters -> SUBSET Ports]: ports whose init has run
    root,       \* nv_settings_root: the adapter whose hermon_settings it points to
    list,       \* driver_settings_list from the head
    pending,    \* [Owners -> Nat]: live entries on the owner's modified_list
    tree,       \* [Owners -> Adapters \cup {NoRoot}]: the root the owner's heap subtree hangs under
    ext,        \* the generation the ext->instructions / ext->data pointers hold (0 = NULL)
    extLive,    \* the generations of extended metadata not yet freed
    walkedFreed,\* a walk of driver_settings_list reached the owner of a freed adapter
    freedTwice  \* destroy_driver_settings freed extended metadata already freed

vars == <<adapter, portDone, root, list, pending, tree, ext, extLive, walkedFreed, freedTwice>>

Listed == ToSet(list)

-----------------------------------------------------------------------------
FillExtendedNoStore ==
    LET g == Max(extLive \cup {ext}) + 1 IN
    /\ UNCHANGED ext
    /\ extLive' = extLive \cup {g}

(* fill_extended_settings: a new option list for every OPTION setting and  *)
(* new instructions for every described setting; the pointers to the      *)
(* previous ones are overwritten.                                         *)
FillExtended ==
    LET g == Max(extLive \cup {ext}) + 1 IN
    /\ ext' = g
    /\ extLive' = extLive \cup {g}

(* init_firmware_settings: zalloc the "Firmware Image Properties" block   *)
(* and register it under nv_settings_root, or -ENOMEM.                     *)
InitFirmwareSettings(a) ==
    \/ tree' = [tree EXCEPT ![<<a, FW>>] = a]
    \/ AllocMayFail /\ UNCHANGED tree

(* hermon_init_settings for a newly probed adapter: register the "System   *)
(* setup" root, point nv_settings_root at it, add the firmware owner at    *)
(* the head of driver_settings_list, then init_firmware_settings (its      *)
(* -ENOMEM is ignored).                                                    *)
HermonInitSettings(a) ==
    /\ adapter[a] = "absent"
    /\ adapter' = [adapter EXCEPT ![a] = "live"]
    /\ root' = a
    /\ list' = Cons(<<a, FW>>, list)
    /\ InitFirmwareSettings(a)
    /\ UNCHANGED <<portDone, pending, ext, extLive, walkedFreed, freedTwice>>

(* init_driver_settings for owner o: -EINVAL when nv_settings_root is     *)
(* NULL; otherwise the owner's pages are malloc'd and registered under     *)
(* nv_settings_root, the owner is added at the head of the list, and       *)
(* fill_extended_settings runs.                                            *)
InitDriverSettings(o) ==
    \/ root = NoRoot /\ UNCHANGED <<list, tree, ext, extLive>>
    \/ /\ root # NoRoot
       /\ tree' = [tree EXCEPT ![o] = root]
       /\ list' = Cons(o, list)
       /\ FillExtended

(* hermon_init_port_settings: the menu name is zalloc'd (-ENOMEM), then    *)
(* init_driver_settings; its result is not checked.                        *)
HermonInitPortSettings(a, p) ==
    /\ adapter[a] = "live" /\ p \notin portDone[a]
    /\ portDone' = [portDone EXCEPT ![a] = @ \cup {p}]
    /\ \/ AllocMayFail /\ UNCHANGED <<list, tree, ext, extLive>>
       \/ InitDriverSettings(<<a, p>>)
    /\ UNCHANGED <<adapter, root, pending, walkedFreed, freedTwice>>

(* A menu store that tracks a change: hermon_store mallocs an entry for    *)
(* the owner's modified_list.                                              *)
Track(o) ==
    /\ o \in Listed /\ adapter[o[1]] = "live"
    /\ pending[o] < MaxPending
    /\ pending' = [pending EXCEPT ![o] = @ + 1]
    /\ UNCHANGED <<adapter, portDone, root, list, tree, ext, extLive, walkedFreed, freedTwice>>

(* hermon_nv_store walks driver_settings_list and every modified_list on   *)
(* it; it changes none of them.                                            *)
CommitWalk ==
    /\ root # NoRoot
    /\ walkedFreed' = (walkedFreed \/ \E o \in Listed : adapter[o[1]] = "freed")
    /\ UNCHANGED <<adapter, portDone, root, list, pending, tree, ext, extLive, freedTwice>>

(* destroy_modified_list for every owner on driver_settings_list.          *)
DestroyModified == [o \in Owners |-> IF o \in Listed THEN 0 ELSE pending[o]]

(* destroy_settings_children of every child of the root: the subtrees     *)
(* hanging under nv_settings_root are freed.                               *)
FreeSubtrees == [o \in Owners |-> IF tree[o] = root THEN NoRoot ELSE tree[o]]

(* destroy_driver_settings: nothing when nv_settings_root is NULL; else    *)
(* free the modified lists of every listed owner, free the subtrees under  *)
(* the root (a port's own node is only unregistered: it lives in struct    *)
(* hermon), unregister the root, free ext->instructions and the option     *)
(* lists when the pointers are not NULL (they are left as they are), and   *)
(* set nv_settings_root to NULL.  driver_settings_list is not emptied.     *)
Destroy ==
    IF root = NoRoot
    THEN /\ UNCHANGED <<root, pending, tree, extLive, walkedFreed, freedTwice>>
    ELSE /\ walkedFreed' = (walkedFreed \/ \E o \in Listed : adapter[o[1]] = "freed")
         /\ freedTwice' = (freedTwice \/ (ext # 0 /\ ext \notin extLive))
         /\ pending' = DestroyModified
         /\ tree' = FreeSubtrees
         /\ extLive' = extLive \ {ext}
         /\ root' = NoRoot

(* The adapter goes: its settings are destroyed, then struct hermon (with  *)
(* the owners embedded in it) is freed.                                    *)
HermonRemove(a) ==
    /\ adapter[a] = "live" /\ portDone[a] = Ports
    /\ Destroy
    /\ adapter' = [adapter EXCEPT ![a] = "freed"]
    /\ UNCHANGED <<portDone, list, ext>>

-----------------------------------------------------------------------------
Init ==
    /\ adapter = [a \in Adapters |-> "absent"]
    /\ portDone = [a \in Adapters |-> {}]
    /\ root = NoRoot
    /\ list = << >>
    /\ pending = [o \in Owners |-> 0]
    /\ tree = [o \in Owners |-> NoRoot]
    /\ ext = 0
    /\ extLive = {}
    /\ walkedFreed = FALSE
    /\ freedTwice = FALSE

Next ==
    \/ \E a \in Adapters : HermonInitSettings(a) \/ HermonRemove(a)
    \/ \E a \in Adapters, p \in Ports : HermonInitPortSettings(a, p)
    \/ \E o \in Owners : Track(o)
    \/ CommitWalk

Spec == Init /\ [][Next]_vars

-----------------------------------------------------------------------------
(* TypeOK: the variables have their types, and driver_settings_list never  *)
(* links the same owner twice (list_add of a linked entry corrupts it).    *)
TypeOK ==
    /\ adapter \in [Adapters -> {"absent", "live", "freed"}]
    /\ portDone \in [Adapters -> SUBSET Ports]
    /\ root \in Adapters \cup {NoRoot}
    /\ list \in Seq(Owners) /\ IsInjective(list)
    /\ pending \in [Owners -> 0..MaxPending]
    /\ tree \in [Owners -> Adapters \cup {NoRoot}]
    /\ ext \in Nat /\ extLive \subseteq 1..ext   \* no block is newer than the pointers
    /\ walkedFreed \in BOOLEAN /\ freedTwice \in BOOLEAN

(* Nothing the registry allocates is lost: every live block of extended   *)
(* metadata is the one the ext pointers hold, every live subtree hangs     *)
(* under the current nv_settings_root, and every live modified-list entry *)
(* belongs to a listed owner of a live adapter.  destroy_driver_settings   *)
(* is meant to free all of it (spec 4.2).                                  *)
NoLeak ==
    /\ extLive \subseteq {ext}
    /\ \A o \in Owners : tree[o] # NoRoot => tree[o] = root
    /\ \A o \in Owners : pending[o] > 0 => o \in Listed /\ adapter[o[1]] = "live"

(* No freed memory is used: every walk of driver_settings_list          *)
(* (destroy_driver_settings, hermon_nv_store) reaches only owners of live  *)
(* adapters, and destroy_driver_settings frees the extended metadata at    *)
(* most once, over any sequence of adapters coming and going (spec 4.2:    *)
(* destroy clears the registry).                                           *)
NoUseAfterFree == ~walkedFreed /\ ~freedTwice

====
