--------------------------- MODULE SettingsCatalog ---------------------------
(***************************************************************************)
(* The static catalog of the hermon settings, as the tables of             *)
(* driver_settings.c and hermon_settings.c define it:                      *)
(*   - hermon_setting_operations, in table order;                          *)
(*   - the scope of every setting (the settings page it lives on);         *)
(*   - the presentation kind of every extended setting (LABEL, INPUT or    *)
(*     OPTION) and the option lists of fill_extended_settings;             *)
(*   - hermon_applies with the applies predicates of the table.            *)
(* A settings block ("node") is a record of its default scope, the        *)
(* physical port it belongs to (0 for the adapter root) and the adapter's *)
(* capability bits.                                                        *)
(***************************************************************************)
EXTENDS Integers, Sequences, TLC

(* hermon_setting_operations, in order.                                    *)
OperationsTable ==
    << "virt_mode", "virt_num", "virt_num_max", "blink_leds", "device_name",
       "chip_type", "pci_id", "bus_dev_fun", "mac_add", "virt_mac",
       "flex_version", "fw_version", "boot_protocol", "virt_lan", "virt_id",
       "opt_rom", "boot_retries", "wol", "dhcp_ip", "dhcp_iscsi",
       "iscsi_chap", "iscsi_mutual_chap", "ip_ver", "ipv4_add", "subnet_mask",
       "ipv4_gateway", "ipv4_dns", "iscsi_init_name", "init_chapid",
       "init_chapsec", "connect", "target_ip", "tcp_port", "boot_lun",
       "iscsi_target_name", "target_chapid", "target_chapsec" >>

(* The settings of the adapter and port pages, with their scopes.          *)
SystemScopes ==
    [s \in {"virt_mode", "virt_num", "virt_num_max", "device_name",
            "chip_type", "pci_id", "bus_dev_fun"} |-> "main"]
    @@ [s \in {"blink_leds", "mac_add", "virt_mac"} |-> "port"]
    @@ [s \in {"flex_version", "fw_version"} |-> "fw"]

NicPage ==
    {"boot_protocol", "virt_lan", "virt_id", "opt_rom", "boot_retries", "wol"}
IscsiGeneralPage ==
    {"ip_ver", "dhcp_ip", "dhcp_iscsi", "iscsi_chap", "iscsi_mutual_chap"}
IscsiInitiatorPage ==
    {"ipv4_add", "subnet_mask", "ipv4_gateway", "ipv4_dns", "iscsi_init_name",
     "init_chapid", "init_chapsec"}
IscsiTargetPage ==
    {"connect", "target_ip", "tcp_port", "boot_lun", "iscsi_target_name",
     "target_chapid", "target_chapsec"}

(* setting->scope.                                                         *)
ScopeOf(s) ==
    CASE s \in DOMAIN SystemScopes -> SystemScopes[s]
      [] s \in NicPage             -> "nic"
      [] s \in IscsiGeneralPage    -> "iscsi_general"
      [] s \in IscsiInitiatorPage  -> "iscsi_init"
      [] s \in IscsiTargetPage     -> "iscsi_target"

(* extended_options_list: the choices of every OPTION setting.             *)
OptionList ==
    [s \in {"virt_mode"} |-> {"None", "SR-IOV"}]
    @@ [s \in {"boot_protocol"} |-> {"None", "PXE", "iSCSI"}]
    @@ [s \in {"boot_retries"} |->
            {"No retries", "1 Retry", "2 Retries", "3 Retries", "4 Retries",
             "5 Retries", "6 Retries", "Indefinite Retries"}]
    @@ [s \in {"virt_lan", "opt_rom", "wol", "connect", "dhcp_ip",
               "dhcp_iscsi", "iscsi_chap", "iscsi_mutual_chap"} |->
            {"Disabled", "Enabled"}]

(* The static kind (ext->type) of each extended setting.                   *)
LabelKind ==
    {"virt_num_max", "device_name", "chip_type", "pci_id", "bus_dev_fun",
     "mac_add", "virt_mac", "flex_version", "fw_version", "ip_ver"}
ExtType(s) ==
    IF s \in LabelKind THEN "LABEL"
    ELSE IF s \in DOMAIN OptionList THEN "OPTION" ELSE "INPUT"

(* The applies column of the operations table: hermon_vm_applies,          *)
(* hermon_wol_applies and hermon_blink_leds_applies; the last two find no  *)
(* port behind the adapter root.                                            *)
OpApplies(node, s) ==
    CASE s = "virt_mode"  -> node.cap.sriov
      [] s = "wol"        -> node.port \in node.cap.wolPorts
      [] s = "blink_leds" -> node.port # 0 /\ node.cap.beacon
      [] OTHER            -> TRUE

(* hermon_applies: the setting's entry in the table, at a block whose      *)
(* default scope is the setting's own, and its predicate if it has one.    *)
HermonApplies(node, s) ==
    \E i \in 1..Len(OperationsTable) :
        /\ OperationsTable[i] = s
        /\ ScopeOf(s) = node.scope
        /\ OpApplies(node, s)

=============================================================================
