-------------------------- MODULE FirmwareSettings --------------------------
(***************************************************************************)
(* The adapter-wide owner of the hermon settings: the "System setup" root  *)
(* that hermon_init_settings registers with default scope main_scope.      *)
(* Of its settings the virtualization mode and the number of virtual       *)
(* functions can change; virt_num_max and the identity fields are LABELs.  *)
(*   - hermon_store on the root, with virt_mode_restore and                *)
(*     virt_num_check_or_restore as the value-store hooks;                 *)
(*   - hermon_restore_default: the sweep of the whole operations table     *)
(*     through setting_applies on the root;                                *)
(*   - the root's part of hermon_nv_store: virt_nv_store packing both      *)
(*     settings into the virtualization TLV;                               *)
(*   - get_virt_num_type, which makes virt_num a LABEL in the menu unless  *)
(*     virtualization applies and reads "S...".                            *)
(***************************************************************************)
EXTENDS Integers, Sequences, SequencesExt, SettingsCatalog

CONSTANTS
    Caps,         \* the adapters: capability bits, virt_num_max, firmware defaults
    Inputs,       \* [FwSettings -> SUBSET data]: what the menu may store
    InitialTrees, \* the values the firmware may have reported at init
    StoreMenu,    \* the root's store_menu: its changes are tracked
    AllocMayFail, \* generic_settings_store may fail with -ENOMEM
    FlashMayFail, \* hermon_open or the TLV write may fail at commit
    NoValue,      \* virt_num_max absent from the tree
    Null          \* data == NULL: restore the default

SRIOV == "SR-IOV"

(* The root's settings that have a value-store or nv_store hook.          *)
FwSettings == {"virt_mode", "virt_num"}

VARIABLES
    cap,        \* the adapter: [sriov, wolPorts, beacon, max, sriov_en, total_vfs]
    fwTree,     \* [FwSettings -> value]: the values in the root block
    fwModified, \* the root's modified_list, newest first
    fwFlash,    \* the virtualization TLV: [mode |-> BOOLEAN, vfs |-> Int]
    sweep       \* the next table row of a running hermon_restore_default, or 0

fwVars == <<cap, fwTree, fwModified, fwFlash, sweep>>

(* The root block: main scope, no port behind it.                          *)
Root == [scope |-> "main", port |-> 0, cap |-> cap]

-----------------------------------------------------------------------------
(* virt_mode_restore: no data stores the default (SR-IOV when the          *)
(* firmware's sriov_en is set) and says STORED; data goes on to the        *)
(* generic store.                                                          *)
VirtModeRestore(d) ==
    IF d = Null
    THEN [rc |-> "STORED", val |-> IF cap.sriov_en THEN SRIOV ELSE "None"]
    ELSE [rc |-> "SUCCESS", val |-> d]

(* virt_num_check_or_restore: no data stores total_vfs; a negative number  *)
(* is rejected; then virt_num_max is fetched, and when it is absent the    *)
(* fetch status (-ENOENT, not INVALID_INPUT) is returned, so the generic   *)
(* store goes ahead; otherwise the number must be below the maximum.       *)
VirtNumCheckOrRestoreOffByOne(d) ==
    CASE d = Null          -> [rc |-> "STORED", val |-> cap.total_vfs]
      [] d < 0             -> [rc |-> "INVALID_INPUT", val |-> d]
      [] cap.max = NoValue -> [rc |-> "ENOENT", val |-> d]
      [] d > cap.max       -> [rc |-> "INVALID_INPUT", val |-> d]
      [] OTHER             -> [rc |-> "SUCCESS", val |-> d]

VirtNumCheckOrRestore(d) ==
    CASE d = Null          -> [rc |-> "STORED", val |-> cap.total_vfs]
      [] d < 0             -> [rc |-> "INVALID_INPUT", val |-> d]
      [] cap.max = NoValue -> [rc |-> "ENOENT", val |-> d]
      [] d >= cap.max      -> [rc |-> "INVALID_INPUT", val |-> d]
      [] OTHER             -> [rc |-> "SUCCESS", val |-> d]

FwHook(s, d) ==
    IF s = "virt_mode" THEN VirtModeRestore(d) ELSE VirtNumCheckOrRestore(d)

(* hermon_store on the root.  INVALID_INPUT returns at once.  STORED means *)
(* the hook stored the default itself; its generic store's status is      *)
(* dropped, so a failed allocation still reports SUCCESS.  Any other       *)
(* status (SUCCESS, -ENOENT) goes on to the generic store.  A SUCCESS is   *)
(* tracked once per setting when store_menu is set.                        *)
FwHermonStore(s, d) ==
    \E genFails \in IF AllocMayFail THEN BOOLEAN ELSE {FALSE} :
        LET h  == FwHook(s, d)
            rc == CASE h.rc = "INVALID_INPUT" -> "INVALID_INPUT"
                    [] h.rc = "STORED"        -> "SUCCESS"
                    [] genFails               -> "ENOMEM"
                    [] OTHER                  -> "SUCCESS"
        IN  /\ fwTree' = IF h.rc = "INVALID_INPUT" \/ genFails
                         THEN fwTree ELSE [fwTree EXCEPT ![s] = h.val]
            /\ fwModified' =
                 IF rc = "SUCCESS" /\ StoreMenu /\ s \notin ToSet(fwModified)
                 THEN <<s>> \o fwModified ELSE fwModified

(* The menu's view of a setting: get_virt_num_type overrides the static   *)
(* kind of virt_num; everything else keeps its ext->type.                  *)
GetVirtNumType ==
    IF HermonApplies(Root, "virt_mode") /\ fwTree["virt_mode"] = SRIOV
    THEN "INPUT" ELSE "LABEL"

ExtendedType(s) == IF s = "virt_num" THEN GetVirtNumType ELSE ExtType(s)

-----------------------------------------------------------------------------
(* The virtualization TLV virt_nv_store packs: the mode is SR-IOV when the *)
(* text reads "S...", the count is strtoul of the formatted number.        *)
VirtImage(t) ==
    [mode |-> t["virt_mode"] = SRIOV, vfs |-> t["virt_num"]]

(* The firmware filled the tree from flash.                                *)
Init ==
    /\ cap \in Caps
    /\ fwTree \in InitialTrees
    /\ fwModified = << >>
    /\ fwFlash = [mode |-> fwTree["virt_mode"] = SRIOV, vfs |-> fwTree["virt_num"]]
    /\ sweep = 0

(* A store from the menu: store_setting refuses a setting that does not    *)
(* apply to the root, and the menu offers no LABEL for editing.            *)
FwStore(s, d) ==
    /\ sweep = 0
    /\ HermonApplies(Root, s)
    /\ ExtendedType(s) # "LABEL"
    /\ FwHermonStore(s, d)
    /\ UNCHANGED <<cap, fwFlash, sweep>>

(* hermon_restore_default: every row of the operations table in order;     *)
(* those that apply to the root (setting_applies) and whose static ext     *)
(* type is not LABEL get hermon_store(root, setting, NULL, 0); a failure   *)
(* is only logged.  The call runs to its end before the menu goes on.      *)
RestoreDefaultStart ==
    /\ sweep = 0
    /\ sweep' = 1
    /\ UNCHANGED <<cap, fwTree, fwModified, fwFlash>>

(* The row restored only when the menu's dynamic type allows it.           *)
RestoreDefaultDynamicType ==
    LET s == OperationsTable[sweep] IN
    /\ sweep # 0
    /\ sweep' = IF sweep = Len(OperationsTable) THEN 0 ELSE sweep + 1
    /\ UNCHANGED <<cap, fwFlash>>
    /\ IF HermonApplies(Root, s) /\ ExtendedType(s) # "LABEL"
       THEN FwHermonStore(s, Null)
       ELSE UNCHANGED <<fwTree, fwModified>>

(* The loop bound read as i <= the table's size.                           *)
RestoreDefaultStepOffByOne ==
    LET s == OperationsTable[sweep] IN
    /\ sweep # 0
    /\ sweep' = IF sweep > Len(OperationsTable) THEN 0 ELSE sweep + 1
    /\ UNCHANGED <<cap, fwFlash>>
    /\ IF HermonApplies(Root, s) /\ ExtType(s) # "LABEL"
       THEN FwHermonStore(s, Null)
       ELSE UNCHANGED <<fwTree, fwModified>>

RestoreDefaultStep ==
    LET s == OperationsTable[sweep] IN
    /\ sweep # 0
    /\ sweep' = IF sweep = Len(OperationsTable) THEN 0 ELSE sweep + 1
    /\ UNCHANGED <<cap, fwFlash>>
    /\ IF HermonApplies(Root, s) /\ ExtType(s) # "LABEL"
       THEN FwHermonStore(s, Null)
       ELSE UNCHANGED <<fwTree, fwModified>>

(* The root's part of hermon_nv_store: something is modified, so the      *)
(* hardware is opened; both entries of the list share virt_nv_store, so    *)
(* only the oldest, with no later duplicate, runs.  An open failure or a   *)
(* failed TLV write leaves flash as it was; the list is never cleared.     *)
FwCommit ==
    /\ sweep = 0
    /\ fwModified # << >>
    /\ \E fails \in IF FlashMayFail THEN BOOLEAN ELSE {FALSE} :
         fwFlash' = IF fails THEN fwFlash ELSE VirtImage(fwTree)
    /\ UNCHANGED <<cap, fwTree, fwModified, sweep>>

Next ==
    \/ \E s \in FwSettings : \E d \in Inputs[s] : FwStore(s, d)
    \/ RestoreDefaultStart
    \/ RestoreDefaultStep
    \/ FwCommit

Spec == Init /\ [][Next]_fwVars

-----------------------------------------------------------------------------
TypeOK ==
    /\ cap \in Caps
    /\ DOMAIN fwTree = FwSettings
    /\ fwTree["virt_mode"] \in {"None", SRIOV}
    /\ fwTree["virt_num"] \in Int
    /\ fwModified \in Seq(FwSettings)
    /\ fwFlash \in [mode : BOOLEAN, vfs : Int]
    /\ sweep \in 0..Len(OperationsTable)

(* Scenario D of the design: a number of virtual functions at or above     *)
(* virt_num_max is rejected.  So whenever the adapter reports a maximum,   *)
(* the count the virtualization TLV holds is below it, after any sequence  *)
(* of menu stores, restores and commits (virt_num_check_or_restore,        *)
(* hermon_restore_default, virt_nv_store).                                 *)
FlashVfsBelowMax ==
    cap.max # NoValue => fwFlash.vfs < cap.max

(* Spec 8, restore defaults: when hermon_restore_default returns, the      *)
(* number of virtual functions is the firmware's total_vfs and, where      *)
(* virtualization applies, the mode is the firmware's default, whatever    *)
(* the order of the table and the mode the restore itself just set.        *)
RestoreDefaultSetsDefaults ==
    [][sweep # 0 /\ sweep' = 0 =>
         /\ fwTree'["virt_num"] = cap.total_vfs
         /\ cap.sriov =>
              fwTree'["virt_mode"] = IF cap.sriov_en THEN SRIOV ELSE "None"]_fwVars

=============================================================================
