--------------------------- MODULE HermonSettings ---------------------------
(***************************************************************************)
(* The per-port driver settings of the hermon (ConnectX-3) driver:        *)
(*   - hermon_store: the per-setting value-store hook (validation,        *)
(*     defaulting, the iSCSI root-path side effect), the generic store    *)
(*     and the tracking of the change in the port's modified list;        *)
(*   - hermon_restore_port_default: the restore-defaults sweep;           *)
(*   - hermon_nv_store: the commit of every modified list to flash TLVs,  *)
(*     deduplicated by flash-persist hook.                                 *)
(* A setting value is abstracted to what the hooks look at: "Enabled" /   *)
(* "Disabled", a boot protocol name, an integer, an IPv4 address as four  *)
(* octets, and an iSCSI name as its length.                               *)
(***************************************************************************)
EXTENDS Integers, SequencesExt

CONSTANTS
    Ports,           \* the physical ports, each an owner of a port subtree
    Settings,        \* the port settings modelled in a run (names of the catalog)
    Inputs,          \* [Settings -> SUBSET data]: what the menu may store
    Defaults,        \* port->defaults, the compiled-in hardware defaults
    InitialTree,     \* [Settings -> value]: the values loaded at port init
    StoreMenu,       \* driver_settings->store_menu: changes are tracked
    AllocFailPoints, \* the generic stores that may fail with -ENOMEM
    FlashMayFail,    \* a TLV write or invalidate may fail
    OpenMayFail,     \* hermon_open may fail at commit
    NoValue,         \* a setting that has no value in the tree
    Null,            \* data == NULL: delete the setting (restore its default)
    Garbled,         \* a value the rollback stored as text in a raw field
    NoPath           \* no root-path on the net device

Enabled  == "Enabled"
Disabled == "Disabled"
BootProtocols == {"None", "PXE", "iSCSI"}

(* The port settings of hermon_setting_operations, in table order.         *)
Catalog == << "boot_protocol", "virt_lan", "virt_id", "dhcp_ip", "dhcp_iscsi",
              "iscsi_chap", "iscsi_mutual_chap", "ipv4_add", "iscsi_init_name",
              "init_chapid", "init_chapsec", "connect", "target_ip", "tcp_port",
              "boot_lun", "iscsi_target_name", "target_chapid",
              "target_chapsec" >>

ASSUME Settings \subseteq ToSet(Catalog)
ASSUME AllocFailPoints \subseteq {"hook", "netdev", "generic"}

(* The settings whose store hook recomputes the root-path.                 *)
TargetParams == {"target_ip", "tcp_port", "boot_lun", "iscsi_target_name"}
(* Settings whose store hook writes a default when given no data.         *)
RestoreHooks == {"boot_protocol", "virt_lan", "virt_id", "dhcp_ip",
                 "dhcp_iscsi", "iscsi_chap", "iscsi_mutual_chap", "connect"}

(* The settings whose store hook also stores the value into the port's    *)
(* net device settings, and the net-device setting each one writes.        *)
MirrorSettings == {"ipv4_add", "iscsi_init_name", "init_chapid",
                   "init_chapsec", "target_chapid", "target_chapsec"}
NetKey(s) ==
    CASE s = "ipv4_add"        -> "ip"
      [] s = "iscsi_init_name" -> "initiator-iqn"
      [] s = "init_chapid"     -> "reverse-username"
      [] s = "init_chapsec"    -> "reverse-password"
      [] s = "target_chapid"   -> "username"
      [] s = "target_chapsec"  -> "password"
NetKeys == {NetKey(s) : s \in Settings \cap MirrorSettings}
(* The port comes up with no initiator or CHAP parameters, so its net      *)
(* device holds none either.                                                *)
ASSUME \A s \in Settings \cap MirrorSettings : InitialTree[s] = NoValue

(* The flash-persist hook (nv_store) of each setting, named by the TLV it  *)
(* writes: settings sharing a hook share a TLV.                            *)
TlvOf(s) ==
    CASE s \in {"boot_protocol", "virt_lan", "virt_id"} -> "NicBoot"
      [] s \in {"dhcp_ip", "dhcp_iscsi"}               -> "DhcpFlags"
      [] s \in {"iscsi_chap", "iscsi_mutual_chap"}     -> "GenFlags"
      [] OTHER                                         -> s
Tlvs == {TlvOf(s) : s \in Settings}

(* A value of the tree seen through fetchf_setting: absent when the run    *)
(* does not model the setting.                                             *)
Get(t, s) == IF s \in DOMAIN t THEN t[s] ELSE NoValue
StoredValue(d) == IF d = Null THEN NoValue ELSE d

-----------------------------------------------------------------------------
(* Formatting: the length of the text fetchf_setting produces.             *)
RECURSIVE DecLen(_)
DecLen(n) == IF n < 10 THEN 1 ELSE 1 + DecLen(n \div 10)

IpText(ip) == 3 + DecLen(ip[1]) + DecLen(ip[2]) + DecLen(ip[3]) + DecLen(ip[4])
TextLen(s, v) ==
    CASE v \in {NoValue, Garbled} -> 0
      [] s = "target_ip"          -> IpText(v)
      [] OTHER                    -> DecLen(v)

MAX_ROOT_PATH_LEN == 253
MAX_ISCSI_NAME    == 223
MAX_CHAP_ID       == 128
MIN_CHAP_SECRET   == 12
MAX_CHAP_SECRET   == 16

(* iscsi_settings_check_and_store: the lengths it lets through to the net  *)
(* device (a string setting's data is its characters, no terminator).      *)
NetLengths(s) ==
    CASE s = "iscsi_init_name"                  -> 0..MAX_ISCSI_NAME
      [] s \in {"init_chapid", "target_chapid"}   -> 0..MAX_CHAP_ID
      [] s \in {"init_chapsec", "target_chapsec"} -> MIN_CHAP_SECRET..MAX_CHAP_SECRET

(* root_path_store: snprintf into root_path[MAX_ROOT_PATH_LEN] of           *)
(* "iscsi:<ip>:<protocol>:<port>:<lun>:<name>", the protocol empty.  The    *)
(* name is last, so truncation cuts only the name: the path keeps the      *)
(* fields before it and nameLen characters of the name.                    *)
RootPath(t) ==
    LET prefix == 10 + TextLen("target_ip", Get(t, "target_ip"))
                     + TextLen("tcp_port", Get(t, "tcp_port"))
                     + TextLen("boot_lun", Get(t, "boot_lun"))
        name   == IF Get(t, "iscsi_target_name") = NoValue THEN 0
                  ELSE Get(t, "iscsi_target_name")
    IN  [ip      |-> Get(t, "target_ip"),
         port    |-> Get(t, "tcp_port"),
         lun     |-> Get(t, "boot_lun"),
         nameLen |-> Min({name, MAX_ROOT_PATH_LEN - 1 - prefix})]

(* When a mirroring store hook passes the value on to the net device:      *)
(* netdevice_settings_store only for an iSCSI port whose IP is not from    *)
(* DHCP (is_protocol_iscsi looks at the first letter only); the CHAP hooks *)
(* unless CHAP (for the initiator's, also mutual CHAP) reads "D..." or     *)
(* connect does not read "E...".  A setting with no value reads as "", so  *)
(* an absent CHAP flag opens the gate.                                      *)
IsProtocolIscsi(t) == Get(t, "boot_protocol") = "iSCSI"

MirrorGate(t, s) ==
    CASE s = "ipv4_add"        ->
            IsProtocolIscsi(t) /\ Get(t, "dhcp_ip") # Enabled
      [] s = "iscsi_init_name" -> TRUE
      [] s \in {"init_chapid", "init_chapsec"} ->
            ~(\/ Get(t, "iscsi_chap") = Disabled
              \/ Get(t, "iscsi_mutual_chap") = Disabled
              \/ Get(t, "connect") # Enabled)
      [] s \in {"target_chapid", "target_chapsec"} ->
            ~(Get(t, "iscsi_chap") = Disabled \/ Get(t, "connect") # Enabled)

(* root_path_store: the root-path is cleared, not set, when DHCP supplies  *)
(* both the IP and the iSCSI parameters or connect is not enabled.         *)
RootPathCleared(t) ==
    \/ Get(t, "dhcp_ip") = Enabled /\ Get(t, "dhcp_iscsi") = Enabled
    \/ Get(t, "connect") # Enabled

-----------------------------------------------------------------------------
VARIABLES
    tree,        \* [Ports -> [Settings -> value]]: the port subtree values
    rootPath,    \* [Ports -> path]: root-path on the port's net device
    netdev,      \* [Ports -> [NetKeys -> value]]: the other iSCSI settings
                 \* the hooks store on the port's net device
    modified,    \* [Ports -> Seq(Settings)]: modified_list, newest first
    flash,       \* [Ports -> [Tlvs -> image]]: the TLVs in non-volatile memory
    nvBootProt,  \* port->port_nv_conf.nic.boot_conf.legacy_boot_prot
    restoring,   \* the restore sweep in progress: [port, at] or NoRestore
    lastRc,      \* what the last hermon_store returned ("none" otherwise)
    written      \* [Ports -> Seq(Tlvs)]: TLV writes of the last step

vars == <<tree, rootPath, netdev, modified, flash, nvBootProt, restoring, lastRc, written>>

NoRestore == [port |-> NoValue, at |-> 0]
NoWrites  == [p \in Ports |-> << >>]

-----------------------------------------------------------------------------
(* The flash images the nv_store hooks write, from the tree values.        *)
ProtCode(v) == CASE v = "None" -> 0 [] v = "PXE" -> 1 [] v = "iSCSI" -> 2
ProtName(c) == CASE c = 0 -> "None" [] c = 1 -> "PXE" [] OTHER -> "iSCSI"

(* nic_boot_nv_store: legacy_boot_prot is left as it was (cur) when the   *)
(* fetched protocol starts with none of 'N', 'P', 'i'; strtoul of an       *)
(* absent vlan id is 0.                                                    *)
NicBootProtOf(t, cur) ==
    IF Get(t, "boot_protocol") \in BootProtocols
    THEN ProtCode(Get(t, "boot_protocol")) ELSE cur

(* nic_boot_nv_store: the boot_conf dword it packs.                        *)
NicBootImage(t, cur) ==
    [prot |-> NicBootProtOf(t, cur),
     vlan |-> Get(t, "virt_lan") = Enabled,
     vid  |-> IF Get(t, "virt_id") = NoValue THEN 0 ELSE Get(t, "virt_id")]

(* dhcp_flags_nv_store: the init_dhcp_conf dword it packs.                 *)
DhcpFlagsImage(t) ==
    [ip    |-> Get(t, "dhcp_ip") = Enabled,
     iscsi |-> Get(t, "dhcp_iscsi") = Enabled]

(* iscsi_gen_flags_nv_store: the gen_conf flags it packs.                 *)
GenFlagsImage(t) ==
    [chap   |-> Get(t, "iscsi_chap") = Enabled,
     mutual |-> Get(t, "iscsi_mutual_chap") = Enabled]

(* The wrappers of iscsi_parameters_nv_store (ipv4_address_nv_store ..    *)
(* iscsi_target_chapsec_nv_store) each fetch their own setting into their  *)
(* own TLV: the image is the setting's value, or none (invalidated).       *)
ParamImage(t, s) == t[s]

(* The image the nv_store hook of tlv writes for the tree values t; the    *)
(* target hooks (iscsi_parameters_nv_store) write the fetched value, or    *)
(* invalidate the TLV when there is none.                                  *)
ImageOf(t, cur, tlv) ==
    CASE tlv = "NicBoot"   -> NicBootImage(t, cur)
      [] tlv = "DhcpFlags" -> DhcpFlagsImage(t)
      [] tlv = "GenFlags"  -> GenFlagsImage(t)
      [] OTHER             -> ParamImage(t, tlv)

Image(p, tlv) == ImageOf(tree[p], nvBootProt[p], tlv)

(* What a setting reads back from flash.                                   *)
FlashView(p, s) ==
    LET img == flash[p][TlvOf(s)] IN
    CASE s = "boot_protocol" -> ProtName(img.prot)
      [] s = "virt_lan"      -> IF img.vlan THEN Enabled ELSE Disabled
      [] s = "virt_id"       -> img.vid
      [] s = "dhcp_ip"       -> IF img.ip THEN Enabled ELSE Disabled
      [] s = "dhcp_iscsi"    -> IF img.iscsi THEN Enabled ELSE Disabled
      [] s = "iscsi_chap"    -> IF img.chap THEN Enabled ELSE Disabled
      [] s = "iscsi_mutual_chap" -> IF img.mutual THEN Enabled ELSE Disabled
      [] OTHER               -> img

-----------------------------------------------------------------------------
(* Validation of the value-store hooks (the data is never NULL here).      *)
Valid(s, d) ==
    CASE s = "virt_id"           -> d \in 1..4094
      [] s = "tcp_port"          -> d \in 1..65535
      [] s = "boot_lun"          -> d \in 0..255
      [] s = "iscsi_target_name" -> d <= MAX_ISCSI_NAME
      [] s = "iscsi_init_name"   -> d \in NetLengths(s)
      [] OTHER                   -> TRUE

EnDis(b) == IF b THEN Enabled ELSE Disabled

(* The default a restore hook stores when given no data.  connect_restore  *)
(* reads the boot protocol of the flash shadow, not of the tree.           *)
Default(p, s) ==
    CASE s = "boot_protocol" -> ProtName(Defaults.boot_protocol)
      [] s = "virt_lan"      -> EnDis(Defaults.boot_vlan_en)
      [] s = "virt_id"       -> Defaults.boot_vlan
      [] s = "dhcp_ip"       -> EnDis(Defaults.iscsi_ipv4_dhcp_en)
      [] s = "dhcp_iscsi"    -> EnDis(Defaults.iscsi_dhcp_params_en)
      [] s = "iscsi_chap"    -> EnDis(Defaults.iscsi_chap_auth_en)
      [] s = "iscsi_mutual_chap" -> EnDis(Defaults.iscsi_chap_mutual_auth_en)
      [] s = "connect"       ->
            EnDis(nvBootProt[p] = 2 /\ ~Defaults.iscsi_dhcp_params_en)

(* iscsi_tgt_store_root_path's rollback stores the text fetchf_setting     *)
(* produced as the raw value: faithful for a string, garbage for an int32  *)
(* or an IPv4 address.                                                     *)
Rollback(s, old) == IF s = "iscsi_target_name" THEN old ELSE Garbled

(* The value-store hook of s once the data passed validation: the return  *)
(* code, and the tree value and the root-path it leaves.  rc "ERR" is a    *)
(* failed store inside the hook.                                            *)
Keep(p, s) == [rc   |-> "SUCCESS", val |-> tree[p][s], path |-> rootPath[p],
               net  |-> netdev[p]]

(* iscsi_tgt_store_root_path: save the old value, generic store, then      *)
(* root_path_store on the tree as it now is; when root_path_store fails,   *)
(* roll back only if there was an old value.                               *)
TargetHookPathBeforeStore(p, s, d, fails) ==
    LET old == tree[p][s]
        t1  == [tree[p] EXCEPT ![s] = StoredValue(d)]
    IN
    CASE d # Null /\ "hook" \in fails -> [Keep(p, s) EXCEPT !.rc = "ERR"]
      [] RootPathCleared(t1) ->
            [Keep(p, s) EXCEPT !.val = StoredValue(d), !.path = NoPath]
      [] "netdev" \in fails ->
            [Keep(p, s) EXCEPT !.rc = "INVALID_INPUT",
                !.val = IF old # NoValue THEN Rollback(s, old) ELSE StoredValue(d)]
      [] OTHER ->
            [Keep(p, s) EXCEPT !.val = StoredValue(d), !.path = RootPath(tree[p])]

TargetHook(p, s, d, fails) ==
    LET old == tree[p][s]
        t1  == [tree[p] EXCEPT ![s] = StoredValue(d)]
    IN
    CASE d # Null /\ "hook" \in fails -> [Keep(p, s) EXCEPT !.rc = "ERR"]
      [] RootPathCleared(t1) ->
            [Keep(p, s) EXCEPT !.val = StoredValue(d), !.path = NoPath]
      [] "netdev" \in fails ->
            [Keep(p, s) EXCEPT !.rc = "INVALID_INPUT",
                !.val = IF old # NoValue THEN Rollback(s, old) ELSE StoredValue(d)]
      [] OTHER ->
            [Keep(p, s) EXCEPT !.val = StoredValue(d), !.path = RootPath(t1)]

(* The mirroring hooks (netdevice_settings_store, the iscsi_initiator_*   *)
(* and iscsi_target_chap*_store hooks): behind the gate, the length check   *)
(* of iscsi_settings_check_and_store (data == NULL has length 0 and passes) *)
(* and then store_setting on the net device, whose failure is INVALID_INPUT.*)
(* A closed gate returns SUCCESS at once, so the length is never checked   *)
(* and the generic store that follows puts the value in the tree only.     *)
MirrorHook(p, s, d, fails) ==
    CASE ~MirrorGate(tree[p], s)            -> Keep(p, s)
      [] s # "ipv4_add" /\ d # Null /\ d \notin NetLengths(s) ->
            [Keep(p, s) EXCEPT !.rc = "INVALID_INPUT"]
      [] "netdev" \in fails                 -> [Keep(p, s) EXCEPT !.rc = "INVALID_INPUT"]
      [] OTHER -> [Keep(p, s) EXCEPT !.net[NetKey(s)] = StoredValue(d)]

(* The hooks past validation: the target parameters recompute the          *)
(* root-path; a restore hook given no data stores its default with         *)
(* generic_settings_store, drops that call's return code and says STORED,  *)
(* so a default that could not be allocated leaves the old value in place. *)
HookBody(p, s, d, fails) ==
    CASE s \in TargetParams              -> TargetHook(p, s, d, fails)
      [] s \in MirrorSettings            -> MirrorHook(p, s, d, fails)
      [] s \in RestoreHooks /\ d = Null  ->
            [Keep(p, s) EXCEPT !.rc = "STORED",
                !.val = IF "generic" \in fails THEN @ ELSE Default(p, s)]
      [] OTHER                           -> Keep(p, s)

HookNoValidate(p, s, d, fails) == HookBody(p, s, d, fails)

(* The value-store hook of s: data out of the setting's range is rejected  *)
(* before anything is stored.                                               *)
Hook(p, s, d, fails) ==
    IF d # Null /\ ~Valid(s, d)
    THEN [Keep(p, s) EXCEPT !.rc = "INVALID_INPUT"]
    ELSE HookBody(p, s, d, fails)

(* The modified list after a store returned rc: on success and with         *)
(* store_menu set, the setting goes at the head unless it is in the list.   *)
Track(p, s, rc) ==
    IF rc = "SUCCESS" /\ StoreMenu /\ ~Contains(modified[p], s)
    THEN Cons(s, modified[p]) ELSE modified[p]

(* hermon_store(settings, setting, data, len) on the subtree of port p.    *)
(* After the hook: unless it stored, the generic store (which keeps the     *)
(* old value when it cannot allocate); then the tracking.                  *)
HermonStore(p, s, d, fails) ==
    LET h   == Hook(p, s, d, fails)
        gen == d # Null /\ "generic" \in fails
        rc  == CASE h.rc = "INVALID_INPUT" -> "INVALID_INPUT"
                 [] h.rc = "STORED"        -> "SUCCESS"
                 [] gen                    -> "ENOMEM"
                 [] OTHER                  -> "SUCCESS"
        val == IF h.rc \in {"INVALID_INPUT", "STORED"} \/ gen
               THEN h.val ELSE StoredValue(d)
    IN  /\ tree' = [tree EXCEPT ![p][s] = val]
        /\ rootPath' = [rootPath EXCEPT ![p] = h.path]
        /\ netdev' = [netdev EXCEPT ![p] = h.net]
        /\ modified' = [modified EXCEPT ![p] = Track(p, s, rc)]
        /\ lastRc' = rc

FailChoices == SUBSET AllocFailPoints

-----------------------------------------------------------------------------
Init ==
    /\ tree = [p \in Ports |-> InitialTree]
    /\ rootPath = [p \in Ports |-> NoPath]
    /\ netdev = [p \in Ports |-> [k \in NetKeys |-> NoValue]]
    /\ modified = [p \in Ports |-> << >>]
    /\ nvBootProt = [p \in Ports |-> NicBootProtOf(InitialTree, 0)]
    /\ flash = [p \in Ports |-> [tlv \in Tlvs |-> ImageOf(InitialTree, 0, tlv)]]
    /\ restoring = NoRestore
    /\ lastRc = "none"
    /\ written = NoWrites

-----------------------------------------------------------------------------
Idle == restoring = NoRestore

(* The menu stores data d into setting s of port p (storef_setting, which  *)
(* turns an empty input into data == NULL).                                *)
Store(p, s, d) ==
    /\ Idle
    /\ \E fails \in FailChoices : HermonStore(p, s, d, fails)
    /\ written' = NoWrites
    /\ UNCHANGED <<flash, nvBootProt, restoring>>

(* hermon_restore_port_default: for each setting of the operations table   *)
(* in order that has a value in the port subtree (fetch_setting_origin)    *)
(* and is not a LABEL, hermon_store(origin, setting, NULL, 0); a failure   *)
(* is only logged.  The sweep runs to completion before anything else.     *)
RestoreOrder == SelectSeq(Catalog, LAMBDA s : s \in Settings)

RestoreStart(p) ==
    /\ Idle
    /\ restoring' = [port |-> p, at |-> 1]
    /\ lastRc' = "none"
    /\ written' = NoWrites
    /\ UNCHANGED <<tree, rootPath, netdev, modified, flash, nvBootProt>>

(* hermon_store(origin, setting, NULL, 0) of the sweep.                    *)
RestoreStoreUntracked(p, s) ==
    /\ tree' = [tree EXCEPT ![p][s] = Hook(p, s, Null, {}).val]
    /\ rootPath' = [rootPath EXCEPT ![p] = Hook(p, s, Null, {}).path]
    /\ netdev' = [netdev EXCEPT ![p] = Hook(p, s, Null, {}).net]
    /\ lastRc' = "SUCCESS"
    /\ UNCHANGED modified

RestoreStore(p, s) == \E fails \in FailChoices : HermonStore(p, s, Null, fails)

RestoreStep ==
    LET p    == restoring.port
        s    == RestoreOrder[restoring.at]
        next == IF restoring.at = Len(RestoreOrder) THEN NoRestore
                ELSE [restoring EXCEPT !.at = @ + 1]
    IN  /\ ~Idle
        /\ restoring' = next
        /\ written' = NoWrites
        /\ UNCHANGED <<flash, nvBootProt>>
        /\ IF tree[p][s] # NoValue
           THEN RestoreStore(p, s)
           ELSE /\ lastRc' = "none"
                /\ UNCHANGED <<tree, rootPath, netdev, modified>>

(* hermon_nv_store.  An entry is skipped when a later entry of the same    *)
(* list has the same nv_store (modified_has_duplicates), so each hook of a *)
(* list runs once, for its oldest entry.  The hooks read the tree at       *)
(* commit time; nic_boot_nv_store updates the port_nv_conf shadow before   *)
(* it writes.  A failed write is logged and the batch goes on.  The        *)
(* modified lists are left as they are.                                    *)
HasDuplicateAnySide(l, i) ==
    \E j \in 1..Len(l) : j # i /\ TlvOf(l[j]) = TlvOf(l[i])

HasDuplicate(l, i) ==
    \E j \in (i + 1)..Len(l) : TlvOf(l[j]) = TlvOf(l[i])

CommitWrites(l) ==
    LET kept == SelectSeq([i \in 1..Len(l) |-> i], LAMBDA i : ~HasDuplicate(l, i))
    IN  [k \in 1..Len(kept) |-> TlvOf(l[kept[k]])]

Pending == \E p \in Ports : modified[p] # << >>

Commit ==
    /\ Idle
    /\ Pending
    /\ \E failed \in SUBSET (IF FlashMayFail THEN Ports \X Tlvs ELSE {}) :
         LET w == [p \in Ports |-> CommitWrites(modified[p])] IN
         /\ written' = w
         /\ flash' = [p \in Ports |-> [tlv \in Tlvs |->
                        IF Contains(w[p], tlv) /\ <<p, tlv>> \notin failed
                        THEN Image(p, tlv) ELSE flash[p][tlv]]]
         /\ nvBootProt' = [p \in Ports |->
                        IF Contains(w[p], "NicBoot")
                        THEN NicBootProtOf(tree[p], nvBootProt[p])
                        ELSE nvBootProt[p]]
    /\ lastRc' = "none"
    /\ UNCHANGED <<tree, rootPath, netdev, modified, restoring>>

(* hermon_open fails: the commit returns before writing anything.          *)
CommitOpenFails ==
    /\ OpenMayFail
    /\ Idle
    /\ Pending
    /\ lastRc' = "none"
    /\ written' = NoWrites
    /\ UNCHANGED <<tree, rootPath, netdev, modified, flash, nvBootProt, restoring>>

Next ==
    \/ \E p \in Ports, s \in Settings : \E d \in Inputs[s] : Store(p, s, d)
    \/ \E p \in Ports : RestoreStart(p)
    \/ RestoreStep
    \/ Commit
    \/ CommitOpenFails

Spec == Init /\ [][Next]_vars

-----------------------------------------------------------------------------
(* The values setting s can hold: its initial value, the menu inputs its   *)
(* validation accepts (a gated hook's, any input), the restore defaults    *)
(* and the rollback's garbage.                                             *)
SettingValues(s) ==
    {NoValue, Garbled, InitialTree[s]} \cup
    {d \in Inputs[s] \ {Null} : Valid(s, d) \/ s \in MirrorSettings} \cup
    (IF s \in RestoreHooks THEN {Default(p, s) : p \in Ports} ELSE {})

(* Type invariant: the shapes of the variables, and every tree value one   *)
(* the code can store (a value outside a setting's validated range is      *)
(* never in the tree); the modified list holds a setting at most once.     *)
TypeOK ==
    /\ DOMAIN tree = Ports
    /\ \A p \in Ports :
         /\ DOMAIN tree[p] = Settings
         /\ \A s \in Settings : tree[p][s] \in SettingValues(s)
         /\ rootPath[p] = NoPath \/ rootPath[p].nameLen \in Nat
         /\ DOMAIN netdev[p] = NetKeys
         /\ \A s \in Settings \cap MirrorSettings :
               netdev[p][NetKey(s)] \in SettingValues(s)
         /\ modified[p] \in Seq(Settings)
         /\ IsInjective(modified[p])
         /\ written[p] \in Seq(Tlvs)
    /\ nvBootProt \in [Ports -> 0..2]
    /\ restoring = NoRestore \/ restoring.at \in 1..Len(RestoreOrder)
    /\ lastRc \in {"none", "SUCCESS", "INVALID_INPUT", "ENOMEM"}

-----------------------------------------------------------------------------
(* root_path_store keeps the net device's root-path in step with the       *)
(* target parameters: whenever a root-path is set, it is the one the       *)
(* current target IP, TCP port, boot LUN and name format to, whatever      *)
(* connect, DHCP or restore steps happened in between.                     *)
RootPathMatchesTarget ==
    \A p \in Ports : rootPath[p] # NoPath => rootPath[p] = RootPath(tree[p])

(* hermon_store and hermon_nv_store together never lose a change: with     *)
(* store_menu set, a setting whose value in the tree differs from what     *)
(* flash holds for it is in its port's modified list, so the next commit   *)
(* writes it, across failed TLV writes, failed opens and restores.         *)
TrackedOrPersisted ==
    StoreMenu =>
        \A p \in Ports, s \in Settings :
            FlashView(p, s) = tree[p][s] \/ Contains(modified[p], s)

(* hermon_nv_store writes, for every port, each TLV of its modified list   *)
(* exactly once (the modified_has_duplicates deduplication), and no TLV   *)
(* outside it.                                                             *)
CommitWritesTrackedTlvsOnce ==
    [][(\E p \in Ports : written'[p] # << >>) =>
         \A p \in Ports :
            /\ IsInjective(written'[p])
            /\ ToSet(written'[p]) = {TlvOf(s) : s \in ToSet(modified[p])}]_vars

(* A store of a target parameter is all or nothing (the design's          *)
(* ValidationError, "value rejected, tree unchanged", spec 4.3's tracking  *)
(* of exactly the stores that succeed, and "changes to the target          *)
(* parameters recompute the root-path"): a store that returns an error     *)
(* (INVALID_INPUT from the hooks, -ENOMEM from the generic store) leaves   *)
(* the tree as it was, so no change escapes the modified list, and after a *)
(* store that returns SUCCESS any root-path is the one the target          *)
(* parameters now format to.  iscsi_tgt_store_root_path stores before      *)
(* root_path_store, and hermon_store stores again after the hook.          *)
TargetStoreAtomic ==
    [][/\ lastRc' \in {"INVALID_INPUT", "ENOMEM"} => tree' = tree
       /\ lastRc' = "SUCCESS" =>
            \A p \in Ports : rootPath'[p] # NoPath => rootPath'[p] = RootPath(tree'[p])]_vars

(* The net device holds iSCSI settings only while the port's settings     *)
(* call for them: a root-path only with boot protocol iSCSI, connect       *)
(* enabled and DHCP not supplying both the IP and the iSCSI parameters;    *)
(* the static IP only on an iSCSI port whose IP is not from DHCP; the      *)
(* CHAP credentials only with CHAP (for the reverse ones, mutual CHAP)     *)
(* and connect enabled (the design's gates on the derived root-path and    *)
(* on the reverse-CHAP write).  The hooks check a gate when the gated      *)
(* setting itself is stored; this asks whether that is enough after the    *)
(* protocol, connect, DHCP or CHAP settings are stored.                    *)
NetdevGated ==
    \A p \in Ports :
        /\ rootPath[p] # NoPath =>
              /\ Get(tree[p], "boot_protocol") = "iSCSI"
              /\ ~RootPathCleared(tree[p])
        /\ \A s \in Settings \cap MirrorSettings :
              netdev[p][NetKey(s)] # NoValue => MirrorGate(tree[p], s)

(* Spec 4.1 (VALIDATE, Scenario E): a CHAP id or secret of a length the   *)
(* hooks reject never enters the tree.  So whenever the port's settings    *)
(* call for CHAP (CHAP and connect Enabled, for the initiator's also       *)
(* mutual CHAP) the credentials the tree holds, which the commit writes to *)
(* flash, have lengths iscsi_settings_check_and_store accepts.  The CHAP   *)
(* store hooks look at the lengths only while their gate is open.          *)
ActiveCredentialsValid ==
    \A p \in Ports, s \in Settings \cap (MirrorSettings \ {"ipv4_add", "iscsi_init_name"}) :
        MirrorGate(tree[p], s) /\ tree[p][s] # NoValue =>
            tree[p][s] \in NetLengths(s)

=============================================================================
