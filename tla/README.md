# TLA+ models of the FlexBoot driver settings, settings registry and IPoIB (REMAC cache, link state)

This directory holds TLA+ models of the configuration subsystem of FlexBoot. FlexBoot is the iPXE-based boot ROM of the Mellanox ConnectX-3 (hermon) adapters. The models are checked with TLC. The subsystem keeps a tree of settings per adapter port, which the boot menu edits. It derives an iSCSI root-path for the port's net device from the target settings. It writes the changed settings to flash as TLV records (type-length-value).

## 1. The system

| Part | Source | State | Operations |
|---|---|---|---|
| Setting catalog and extended metadata | `src/core/driver_settings.c` (tables), `src/include/ipxe/driver_settings.h` | static tables, per-setting option lists and help text | `find_extended`, `create_options_list`, `fill_extended_settings` |
| Owner lifecycle | `driver_settings.c` `init_driver_settings`, `init_firmware_settings`, `destroy_driver_settings`; `hermon_settings.c` `hermon_init_settings`, `hermon_init_port_settings` | `nv_settings_root`, `driver_settings_list`, the per-port subtrees (port, NIC, iSCSI, general, initiator, target) | create the root, add the ports, destroy |
| Store pipeline | `hermon_settings.c` `hermon_store` and the per-setting hooks (lines 88-296, 421-600) | the tree values of a port, the port's `modified_list` | validation, then the hook, then the generic store, then tracking |
| Root-path derivation | `driver_settings.c` `root_path_store` | the `root-path` setting of the port's net device | clear it, or format `iscsi:<ip>::<port>:<lun>:<name>` |
| Restore defaults | `hermon_restore_port_default`, `hermon_restore_default` | the tree values | `hermon_store(…, NULL)` for every setting of the table |
| Commit engine and TLV codec | `hermon_nv_store`, `modified_has_duplicates`, the `*_nv_store` hooks | the flash TLVs, the `port_nv_conf` shadow | open, one hook per hook group, close |
| Applicability and editability | `hermon_applies`, `get_virt_id_type`, `get_virt_num_type` | none (pure) | predicates |
| IPoIB REMAC cache | `src/drivers/net/ipoib.c` 124-283 | the LRU list `peers` and the count `total_peers` | map, find, discard, flush |
| IB subnet-management client | `src/net/infiniband/ib_smc.c` | port attributes copied from MADs into `struct ib_device` | `ib_smc_init`, `ib_smc_update`, `ib_smc_set_port_info` |
| IPoIB link state | `src/drivers/net/ipoib.c` 760-960 | `ipoib->mac` prefix, `ipoib->broadcast`, `broadcast_joined`, the net device's link status | link-state change, open, close, join and its completion |

How the parts interact:
- The boot menu (not under `src/`) stores values through `hermon_store`, runs restore, and calls the commit.
- The menu also sets `store_menu`. In the code under `src/` this flag is always 0, so it is a constant of the model.
- A store of a target parameter (IP, TCP port, boot LUN, name) calls `root_path_store`, which writes to the net device.
- Commit calls the `nv_store` hook of every setting in the modified lists. Each hook reads the tree at commit time and writes one TLV.
- `nic_boot_nv_store` also updates `port_nv_conf`, which `connect_restore` later reads.
- A port event makes the hermon driver (outside `src/`) call `ib_smc_update`; a complete update calls `ib_link_state_changed` in iPXE core, which calls IPoIB's `notify`, `ipoib_link_state_changed`. It leaves the broadcast group, takes the new GID prefix and P_Key and joins again. `ipoib_join_complete` is the join's callback.

Everything runs single-threaded and to completion (spec section 5), so one menu action is one atomic step. The hard behaviours are these:
- the order of the steps inside one store (hook, generic store, root-path, rollback, tracking);
- allocation failures between those steps;
- failing flash writes and a failing `hermon_open`;
- long sequences of stores, restores and commits.

## 2. Modules

### `HermonSettings.tla`: the store pipeline, root-path, restore and commit for the ports

Constants:
- `Ports`, and `Settings` (a subset of the port catalog);
- `Inputs` (what the menu may store), `Defaults` (`port->defaults`), `InitialTree`;
- `StoreMenu`;
- `AllocFailPoints`, `FlashMayFail` and `OpenMayFail`, which choose the failures a run allows.

| Variable | Code |
|---|---|
| `tree[p][s]` | the value of setting `s` in port `p`'s subtree (`NoValue` = absent) |
| `netdev[p][k]` | the other iSCSI settings of the port's net device that the mirroring hooks write: `ip`, `initiator-iqn`, `reverse-username`, `reverse-password`, `username`, `password` |
| `rootPath[p]` | `root-path` on the port's net device, as the fields it was formatted from and the length of the name it kept |
| `modified[p]` | `modified_list`, newest first (`list_add` at the head) |
| `flash[p][tlv]` | the decoded TLV records in flash; settings that share an `nv_store` hook share a TLV (`NicBoot`, `DhcpFlags`, `GenFlags`) |
| `nvBootProt[p]` | `port_nv_conf.nic.boot_conf.legacy_boot_prot` |
| `restoring` | the position of a running `hermon_restore_port_default` sweep |
| `lastRc`, `written` | what the last `hermon_store` returned, and the TLVs the last commit wrote (used only by the action properties) |

| Action | Code |
|---|---|
| `Store(p, s, d)` | one call of `hermon_store` from the menu. It is `HermonStore`, which is `Hook` (validation, then `TargetHook` = `iscsi_tgt_store_root_path`, `MirrorHook` = a mirroring hook, or a restore hook), then the generic store, then `Track`. The failure points are an `\E` over `AllocFailPoints`: `"hook"` is the generic store inside the target hook, `"netdev"` is `store_setting` on the net device (in `root_path_store` or a mirroring hook), and `"generic"` is the store in `hermon_store` or, for a restore hook given no data, the hook's own store of the default, whose failure the hook hides behind STORED. |
| `RestoreStart(p)`, `RestoreStep` | `hermon_restore_port_default`: one step per table entry, in table order, that stores `NULL` into each setting that has a value. Other actions are disabled until the sweep ends, because it runs to completion. |
| `Commit` | `hermon_nv_store`, with the pending check, the dedup of `modified_has_duplicates`, and any subset of the TLV writes failing. The lists are left as they are, as in the code. |
| `CommitOpenFails` | `hermon_open` fails, so the commit returns before writing anything. |

The mirroring hooks (`MirrorHook`, hermon_settings.c 87-229) store the initiator IPv4 address, the initiator name and the CHAP credentials into the net device as well. Each is behind a gate that `MirrorGate` states: the IPv4 hook needs an iSCSI port whose IP is not from DHCP (`is_protocol_iscsi` reads the first letter); the CHAP hooks return `SUCCESS` at once when CHAP (for the initiator's, also mutual CHAP) reads `D...` or connect does not read `E...`. A closed gate skips the length check of `iscsi_settings_check_and_store` too, so the value goes into the tree unchecked.

Data abstractions:
- An IPv4 address is a 4-tuple.
- An int32 setting is an integer.
- An iSCSI name, a CHAP id and a CHAP secret are their lengths. Length is all that validation and `snprintf` truncation look at.
- `"Enabled"`, `"Disabled"` and the protocol names are strings.
- The text produced by `fetchf_setting` is modelled by its length (`TextLen`, `DecLen`). The root-path keeps `min(name, 252 − prefix)` characters of the name.
- Byte swapping in the TLV codec is left out: a TLV holds the decoded record.

### `MCHermonSettings.tla` and the cfg files

The MC module instantiates the model with:
- ports `p1` and `p2`;
- subsets of the catalog: the root-path settings with CHAP and the target secret (`CredentialSettings`), the commit settings, and every net-device setting (`NetdevSettings`);
- inputs on both sides of every validation bound: TCP port 0/3260/65535/65536, LUN 0/255/256, VLAN 0/4094/4095, name lengths 8/223/224, CHAP id lengths 8/128/129, CHAP secret lengths 11/12/16/17, the IPs 10.0.0.5 and 255.255.255.255, and `NULL` (an empty menu entry);
- the initial port state of a fresh adapter: PXE, DHCP for everything, no target.

### `SettingsCatalog.tla`: the tables

The static data the other modules look up, translated from the tables: `OperationsTable` (`hermon_setting_operations` in order), the scope of every setting (`SystemScopes` and the four settings pages of `driver_settings.c`), `OptionList` (`extended_options_list`), the static `ext->type` (`LabelKind`, `ExtType`), and `HermonApplies` (`hermon_applies`: the table entry, the scope match against the block's default scope, then `hermon_vm_applies`, `hermon_wol_applies` or `hermon_blink_leds_applies` over the adapter's capability bits). A block is a record of its default scope, its port (0 for the adapter root) and the capabilities.

### `FirmwareSettings.tla`: the adapter root ("System setup")

The block `hermon_init_settings` registers with default scope `main_scope`. Of its settings only `virt_mode` and `virt_num` can change; the rest are LABELs.

| Variable | Code |
|---|---|
| `cap` | `hermon->cap` (SR-IOV and wake-on-LAN bits, beacon), `virt_num_max` as the firmware filled it in (or absent), and `hermon->defaults` (`sriov_en`, `total_vfs`); fixed at init |
| `fwTree` | the values of `virt_mode` and `virt_num` in the root block |
| `fwModified` | the root's `modified_list`, newest first |
| `fwFlash` | the virtualization TLV: the mode bit and `num_of_vfs` |
| `sweep` | the next row of a running `hermon_restore_default` |

| Action | Code |
|---|---|
| `FwStore(s, d)` | a menu store on the root: only of a setting that applies there (`HermonApplies`) and is not a LABEL in the menu (`ExtendedType`, with `get_virt_num_type`: `virt_num` is editable only while virtualization applies and reads `SR-IOV`). `FwHermonStore` is `hermon_store` with `virt_mode_restore` or `virt_num_check_or_restore` as the hook, the generic store and tracking. |
| `RestoreDefaultStart`, `RestoreDefaultStep` | `hermon_restore_default`: one step per row of the whole operations table, skipping rows for which `setting_applies` is false and static LABELs, and storing `NULL` into the rest. Menu actions wait for the sweep to end. |
| `FwCommit` | the root's part of `hermon_nv_store`: both entries share `virt_nv_store`, so one TLV write, which (or whose `hermon_open`) may fail. |

`virt_num_check_or_restore` returns the status of the `virt_num_max` fetch when that fails, and -ENOENT is not INVALID_INPUT, so with no maximum `hermon_store` stores any non-negative number. The restore hooks drop their generic store's status and return STORED.

`MCFirmwareSettings.tla` enumerates adapters with and without SR-IOV, with `virt_num_max` 8 or absent, and with either default mode; `total_vfs` is 4. The menu offers both modes and the numbers -1, 0, 7, 8 and 9 and the empty input. Two initial trees are used (`None`/0 and `SR-IOV`/2).

### `IpoibRemac.tla`: the IPoIB REMAC cache under memory pressure

eIPoIB shows IPoIB ports to the network stack as Ethernet. The REMAC (remote Ethernet MAC) of a peer is built from its QPN and LID, and each IPoIB device keeps a list of REMAC-to-IPoIB-MAC entries, most recently used first, with a count `total_peers`.

Constants: `Devices`, `Remacs`, `Macs`, `Starts` (the possible boot states: a heap size in blocks and which devices are already probed), `RegisterMayFail`. The variable `capacity` holds the heap size chosen at start and never changes.

| Variable | Code |
|---|---|
| `owner[d]` | `ib_get_ownerdata(ibdev)`: `"none"` while the device is on `ib_devices` but not yet probed, `"ipoib"` after `ib_set_ownerdata`, `"gone"` when the device has left the list |
| `isOpen[d]` | the net device is open |
| `peers[d]`, `total[d]` | `ipoib->peers` from the head, `ipoib->total_peers` |
| `nullRead`, `crashed` | the discarder read `netdev->op` through a NULL owner, and that read trapped |
| `answer`, `arp` | the last transmit lookup and the last received ARP mapping (inputs and outputs, for the refinement) |
| `lastUse[d]` | history: the REMACs from most to least recently used (for the LRU property only) |

| Action | Code |
|---|---|
| `Probe(d)` | `ipoib_probe`: `alloc_ipoibdev` (a malloc that may discard, fail or crash), then the owner is set, then `register_netdev` may fail |
| `Open(d)`, `Close(d)`, `IpoibRemove(d)` | `ipoib_open`; `ipoib_close` with `ipoib_flush_remac`; `ipoib_remove` (unregister closes an open device) |
| `RxArp(d, r, m)` | a received ARP whose sender is REMAC `r` with IPoIB MAC `m`: `ipoib_translate_rx_arp` calls `MapRemac` = `ipoib_map_remac` |
| `Tx(d, r)` | `ipoib_transmit` to `r`: `FindRemac` = `ipoib_find_remac`; a miss is `-ENXIO` |
| `OtherAlloc` | any other allocation (receive buffers from `ipoib_alloc_iob`, other drivers) that finds the heap full |

`Malloc` is the part of iPXE's allocator this cache meets: when the heap is full, malloc calls `discard_cache`, which runs the discarders, and retries while one of them freed something. The cheaper discarders are taken to have nothing to drop, so `ipoib_discard_remac` decides: one round over the device list drops the last entry of every device with at least `IPOIB_MIN_DROP_CACHE` = 3 entries. A device with no owner makes the round read `netdev->op` through NULL. What that read returns depends on the platform, so it is a choice between a trap (`crashed`) and a value that is not `&ipoib_operations` (the device is skipped). The allocator and `register_ibdev` (which puts a device on the list before probing it) are iPXE core, not part of this repository; their behaviour here is an assumption.

### `SettingsRegistry.tla`: the owner lifecycle and the registry's memory

The registry is what `driver_settings.c` keeps across adapters: the singleton `nv_settings_root`, the global `driver_settings_list` of owners (one firmware owner per adapter and one per port), the subtrees and modified-list entries the owners hold on the heap, and the extended metadata `fill_extended_settings` allocates. Memory is followed block group by block group.

| Variable | Code |
|---|---|
| `adapter[a]` | `struct hermon`: absent, live, or freed by `hermon_remove` (the owners are embedded in it) |
| `portDone[a]` | the ports whose `hermon_init_port_settings` has run |
| `root` | `nv_settings_root`: the adapter whose root it points to, or `NoRoot` |
| `list` | `driver_settings_list` from the head |
| `pending[o]`, `tree[o]` | the live entries of owner `o`'s `modified_list`; the root its heap subtree hangs under |
| `ext`, `extLive` | the generation `ext->instructions` and the option-list pointers hold; the generations not yet freed |
| `walkedFreed`, `freedTwice` | a walk reached a freed owner; destroy freed extended metadata twice |

| Action | Code |
|---|---|
| `HermonInitSettings(a)` | `hermon_init_settings`: register the root, set `nv_settings_root`, add the firmware owner, `init_firmware_settings` (may fail) |
| `HermonInitPortSettings(a, p)` | `hermon_init_port_settings`: the menu-name zalloc (may fail), then `init_driver_settings` with `fill_extended_settings` |
| `Track(o)` | a store through `hermon_store` that adds a modified-list entry |
| `CommitWalk` | `hermon_nv_store` walking the list and every modified list |
| `HermonRemove(a)` | `destroy_driver_settings` (`DestroyModified`, `FreeSubtrees`, the extended metadata, the root), then `struct hermon` is freed |

`HermonRemove` is modelled from the spec: the remove path that calls `destroy_driver_settings` is iPXE core glue, and the model takes it to run once all ports are initialised. Values and their stores are `HermonSettings`'s business; here a store is only the entry it allocates.

### `RemacMap.tla`: what the cache promises

Per device, a partial map from REMAC to MAC, with `Learn` (a received ARP; entries may go to make room, and on failure the REMAC stays unmapped), `Lookup` (answers what the map holds) and `Forget` (any entries go). `IpoibRemac` maps its lists to this map in `AbsMap` and checks `RemacMapRefined == Abstract!Spec`.

### `MCIpoibRemac.tla`

Two devices, three REMACs (the discarder needs three entries on a device), two MACs (so a MAC can change), and the initial owners: one port probed and one still to probe, or both probed.

### `IbLink.tla`: one port's link state, from the subnet-management agent to IPoIB

| Variable | Code |
|---|---|
| `sma` | what the port's subnet-management agent answers (prefix, P_Key, port state, speed byte); the environment |
| `ibdev` | the copies `ib_smc_get` keeps in `struct ib_device` (prefix, P_Key, port state, active and enabled speed) |
| `isOpen`, `joined`, `pending` | the net device is open; `broadcast_joined`; the join request is in flight |
| `macPrefix`, `bcastPkey`, `link` | `ipoib->mac.gid.s.prefix`, the P_Key word of `ipoib->broadcast`, the status `netdev_link_err` set |

| Action | Code |
|---|---|
| `Init` | `ib_smc_init` read the port; `ipoib_probe` zeroed the MAC and copied the default broadcast address |
| `SubnetChange` | the subnet manager changes the prefix, the P_Key, the port state or the trained speed |
| `SmcUpdate` | `ib_smc_update`: `SmcGet(k)` copies what the first `k` of the four queries returned (`ib_smc_get` returns on the first failure); only `k = 4` calls `LinkStateChanged` |
| `SetPortInfo` | `ib_smc_set_port_info`: get, `&= ~0xf`, `|= 1` on the speed byte, set; either MAD may fail |
| `IpoibOpen` | `ipoib_open` and its faked `ipoib_link_state_changed` |
| `IpoibClose` | `ipoib_close`: leave the group; the link status is left as it was |
| `JoinComplete` | `ipoib_join_complete`: the answer or timeout of the join becomes the link status |

`LinkStateChanged(dev, open)` is `ipoib_link_state_changed`: the leave (which abandons a join in flight), the prefix and P_Key copies, `-EINPROGRESS_JOINING` or `ib_link_rc`, and the join when open and up, whose immediate failure is the link error. `MCIbLink` gives two prefixes, two P_Keys and the speed bytes `0x23` and `0x21`, so `SetPortInfo` changes one into the other.

## 3. Runs

| Run | Expect | What it shows |
|---|---|---|
| `rootpath` | pass: 427,057 states, about 95 s | Over every sequence of stores, restore sweeps and commits of the eight root-path settings of one port, with CHAP and the target CHAP secret, a root-path that is set is always the one the current target parameters format to (`RootPathMatchesTarget`). `TypeOK` also checks that no value outside a validated range reaches the tree, except for the CHAP settings, whose check the gate may skip. |
| `commit` | pass: 465,001 states, about 105 s | With `store_menu` on, failed TLV writes, failed opens and restores, every tree value that differs from flash is tracked (`TrackedOrPersisted`). Each commit writes each tracked TLV exactly once and no other TLV (`CommitWritesTrackedTlvsOnce`), including the pair `boot_protocol`/`virt_lan` that share `nic_boot_nv_store`. |
| `root_path_gate` | violation | The net device holds iSCSI parameters the port's settings do not call for (`NetdevGated`: the root-path needs an iSCSI port whose DHCP does not supply the target, and each mirrored IP or CHAP value needs its hook's gate to be open). TLC's shortest trace: `root_path_store` sets a root-path on a PXE port, since it never checks the protocol. Every gate is looked at only when its own setting is stored: with the protocol fixed to iSCSI, a later `dhcp_ip` store leaves a root-path the gate would now clear, and with the settings restricted to CHAP, a target secret stored while CHAP and connect were on stays on the net device after connect is turned off. |
| `chap_secret_unchecked` | violation | A CHAP secret of a length the spec rejects becomes the port's configured secret (`ActiveCredentialsValid`). The CHAP hooks return `SUCCESS` before their length check while CHAP or connect is off. TLC's trace: connect on, an 11-character target secret stored with CHAP off, then CHAP on. |
| `target_store_atomicity` | violation | A target store is not all or nothing (`TargetStoreAtomic`: an error return leaves the tree as it was; a success leaves the root-path in step). All three allocation failure points are on. The shortest counterexample is one `target_ip` store (TLC, with two workers, may print a longer one that starts with an unrelated store such as `boot_protocol`): the hook stores the value and sets the root-path, then the generic store in `hermon_store` fails with ENOMEM. `hermon_store` returns the error and skips the modified list, but the tree keeps the new value, which no commit will ever write. With only `"netdev"` failing, the store returns `INVALID_INPUT` with the new value in the tree (there is no old value to roll back to). With only `"hook"` failing, an ENOMEM inside the target hook is followed by a successful second store in `hermon_store`, and the root-path keeps the old target. |
| `firmware` | pass: 5,156 states, 1 s | On the adapter root, through menu stores, `hermon_restore_default` sweeps and commits with failing flash writes: when the adapter reports `virt_num_max`, flash never holds a count at or above it (`FlashVfsBelowMax`, Scenario D). A finished sweep leaves `virt_num` at `total_vfs` and, where virtualization applies, the mode at the firmware default (`RestoreDefaultSetsDefaults`), although the sweep restores the mode first, after which the menu may show `virt_num` as a LABEL. |
| `remac_cache` | pass: 117,402 states, about 40 s | Two starts: one port probed with a second one still to probe into a full 3-block heap, or both ports probed sharing a 5-block heap. Probes and `register_netdev` fail, ports open, close and go, discards and `-ENOMEM` happen. The heap never holds more than it has (`TypeOK`). `total_peers` always equals the list length (`CountMatchesList`). A REMAC has one entry per device (`RemacsUnique`). The discarder drops only entries used less recently than every entry it keeps (`DiscardsLeastRecentlyUsed`). The cache implements `RemacMap` (`RemacMapRefined`): a received ARP updates the MAC of a cached REMAC, a lookup answers the last MAC learned, and flush and discard only forget. |
| `remac_null_owner` | violation | The heap fills while port 2's net device is allocated, and the discarder reads `netdev->op` through port 2's NULL owner (`NoNullOwnerRead`). |
| `registry_lifecycle` | pass: 65,742 states, 3 s | Two adapters with two ports each are probed, store changes and commit, and go, in every order, with the menu-name and firmware allocations failing. No owner is on `driver_settings_list` twice, and no generation of extended metadata is newer than the pointers (`TypeOK`). The run fires every registry action, including those whose effects the two violation runs below report. |
| `registry_leak` | violation | A second adapter's `hermon_init_settings` points `nv_settings_root` at its own root, and the first adapter's subtrees are lost (`NoLeak`). |
| `ib_link` | pass: 4,864 states, about 1 s | Subnet changes, `ib_smc_update` calls that stop after any query, `set_port_info`, open, close and join completions interleave. IPoIB is joined only to the broadcast group of the current P_Key (`BroadcastGroupCurrent`), which holds because the P_Key query is the last of `ib_smc_get`. An open device reports its link up only while joined with no join in flight (`LinkUpOnlyWhenJoined`), which needs `ipoib_open`'s faked link change since close keeps the status. A "joining" link on an open device always ends (`JoiningResolves`). `TypeOK` also checks that `set_port_info` only rewrites the enabled-speed nibble. |
| `registry_use_after_free` | violation | Adapter 1 is removed and adapter 2 probed; `driver_settings_list` still links adapter 1's firmware owner, and the commit walk reaches it in freed memory (`NoUseAfterFree`). |

Each violation is recorded as a finding in `PROJECT.json`. Each property of a passing run has a mutant in `PROJECT.json`, a plausible bug that TLC catches:
- validation skipped;
- the root-path formatted before the store;
- a restore that bypasses `hermon_store`;
- dedup looking at both sides of the list;
- malloc handing out a block when the heap is exactly full;
- `map_remac` not updating the MAC of an entry it finds;
- `remove_peer` not counting down;
- `map_remac` adding without searching first;
- `find_remac` not moving a hit to the head;
- `fill_extended_settings` not storing the new pointers;
- `virt_num_check_or_restore` comparing with `>` instead of `>=`;
- the restore sweep filtering on the menu's dynamic type;
- the restore loop bound read as `<=`;
- `ib_smc_get` querying the P_Key table before the GUID info;
- `ipoib_open` without its faked link-state change;
- `ipoib_link_state_changed` not reporting a join that cannot be sent;
- `ib_smc_set_port_info` with the speed mask inverted.

### Bounds, and why they are enough

- **One port.** Ports share no state in these operations except the single commit, and `Commit` quantifies over all ports.
- **Root-path run: eight settings.** They are every input of `root_path_store`.
- **Commit run: four settings.** Two share a TLV, which exercises the dedup. `connect` is included because its default reads the flash shadow. `tcp_port` has a TLV of its own and a rejected input.
- **Inputs.** Each validation bound is crossed on both sides. The longest IP and port make truncation reachable.
- **IPoIB: two devices, three REMACs, two MACs, 3 or 5 heap blocks.** Three entries are the least the discarder drops from; five blocks let one device reach three entries while the other holds some, so a discard, a failed malloc and a second device's allocation all happen. The heap bounds every list, so no other cap is needed.
- **Registry: two adapters, two ports, one pending entry per owner.** Two adapters are the least for a second root and a re-probe; two ports make `fill_extended_settings` run twice on one adapter. One entry per owner is enough to see entries freed or lost.
- **Firmware root: two settings, `virt_num_max` 8 or absent.** The menu numbers are a negative one, zero, the last valid count, the maximum and one past it. Adapters without SR-IOV make `virt_mode` not apply and `virt_num` a LABEL; both default modes make the restore order matter. Allocations succeed in this run (see the hazards: with `AllocMayFail` on, the masked STORED status breaks `RestoreDefaultSetsDefaults`).
- **Link state: two prefixes, two P_Keys, two speed bytes, every MAD and join may fail.** Two values of each field are the least for a change to be seen; `ib_smc_update` may stop after 0 to 4 queries, which covers every early return.
- **Depth.** No counter needs a cap. The state space is finite because the modified list holds each setting at most once.

### Fairness

`FirmwareSettings` splits the single call of `hermon_restore_default` into one step per table row only to follow the rows. The loop is a `for` over a constant table, so its termination follows from its shape and is not checked.

The one fairness condition is in `IbLink`: weak fairness on `JoinComplete`: a join in flight is answered or times out, because `ipoib_poll` calls `retry_poll`, which drives the retry timers of the join's MAD, and a net device that is open is polled. That is what `JoiningResolves` relies on. Subnet changes, updates, opens and closes are not fair.

Apart from that, every step is a menu action by a user who may stop at any time, and the code runs nothing of its own accord. In the REMAC cache model every step is a packet, a probe or a user action, none of which is bound to happen. The properties other than `JoiningResolves` are safety properties.

The IPoIB and registry runs do not check deadlock: once every device is removed, or the discarder has trapped, the driver has nothing left to do; likewise the registry once every adapter is removed.

## 4. Not modelled, and why

- The subnet, gateway and DNS mirrors (the same `netdevice_settings_store` as the IPv4 one), `blink_leds_store` (it drives the LEDs through `hermon_open` and stores nothing in flash), and the `wol` `nv_store` hook.
- `hermon->defaults`, `virt_num_max` and the initial tree are filled in by firmware queries outside `src/`; they are constants of `FirmwareSettings`, with `total_vfs` below `virt_num_max`.
- In the registry: the tree nodes themselves (names, settings blocks) are followed per owner, not per node, and `fill_extended_settings`' unchecked `malloc` (driver_settings.c:699) is not modelled, since a NULL there is written through at once. The menu-name string leaked by a failing `init_driver_settings` is not followed.
- The help texts of the catalog and the string copies of `create_options_list`: layout. The tables themselves are data in `SettingsCatalog`.
- `get_virt_id_type`: the menu's view of `virt_id`, read-only and not consulted by any store.
- The IPoIB packet rewriting, queues and the failure of `ipoib_open`'s queue allocations (a failed open leaves the device closed, as it was). The ARP neighbour table of iPXE core, which the discarder's workaround keeps in step with the cache, is not in this repository.
- In `ib_smc`: the node and port GUIDs, LIDs, widths and SL are copied but fixed by the hardware or never read by a property; the MAD framing is one success or failure per query. The caller of `ib_smc_update` (the hermon port event) and `ib_link_state_changed` are outside `src/`; the model takes an update to run at any time and a complete one to notify IPoIB. `ib_mcast_leave` (iPXE core) is taken to cancel a join in flight, so its completion never arrives.
- The menu UI: outside the settings subsystem.
- The BullseyeCoverage run-time. FlexBoot builds the small one (`libcov-core-small.h`). Its try-locks are meant for threads, but under iPXE it runs on one thread, so they never contend. What is left is formatting and console output. `libcov-core-big.h` and its auto-save thread are not built. `mlx_debug` is logging.
- `fetch_setting_origin`, which lives in iPXE core and is not under `src/`. It is taken to succeed exactly when the setting has a value in the port subtree. Under that reading, restore skips settings without a value.
- The allocation of the modified-list entry is assumed to succeed. A failure there writes through `NULL`.

## 5. Plan

The most important behaviour comes first. Items 1 to 4, 6 to 9, 11 and 12 are done; item 10 was dropped:

1. `HermonSettings`: the store pipeline, root-path, restore and commit (done).
2. Findings on the root-path and on allocation failure (done).
3. `commit`: tracking and dedup under flash failures (done).
4. Net-device staleness: a property that relates the root-path and the mirrored credentials to the gate settings (done: `NetdevGated`).
5. Restore: idempotence (spec section 8), and the `connect` default that follows the committed protocol rather than the tree.
6. The net-device mirror: `netdevice_settings_store` and the gated CHAP stores, with the stale-mirror hazard (done: `NetdevGated`).
7. The firmware owner: `virt_mode`, `virt_num` (Scenario D of the spec, and the absent-maximum hazard), `virt_nv_store`, and `hermon_restore_default` (done: `FirmwareSettings`).
8. `SettingsRegistry`: the owner lifecycle (init root, init port, destroy, re-init, second adapter), with the double-free, leak and list hazards (done: the leak and the use after free are findings).
9. `Applicability`: `hermon_applies` as an operator, checked against the table in spec section 4.4 (done: `SettingsCatalog.HermonApplies`, used by `FirmwareSettings`).
10. An abstract specification of the commit. Dropped: an edit/save spec that lets a failed write keep the old value refines the commit by construction, since the TLV images and the flash view are an encode/decode pair. `CommitWritesTrackedTlvsOnce` and `TrackedOrPersisted` state what the commit promises.
11. `IpoibRemac`: the LRU cache with the discarder, the refinement of `RemacMap`, and the NULL owner finding (done).
12. `IbLink`: `ib_smc` and the IPoIB link state (done). A partial `ib_smc_update` leaves the MAC prefix and an "up" link stale until the next complete update; TLC shows it, and it is listed as a hazard.
