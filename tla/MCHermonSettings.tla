-------------------------- MODULE MCHermonSettings --------------------------
(***************************************************************************)
(* Instantiation of HermonSettings for TLC: one or two ports, a few        *)
(* settings per run, and inputs at the validation boundaries.              *)
(***************************************************************************)
EXTENDS HermonSettings

CONSTANTS p1, p2

OnePort  == {p1}
TwoPorts == {p1, p2}

(* The settings a run models.                                              *)
RootPathSettings ==
    {"boot_protocol", "dhcp_ip", "dhcp_iscsi", "connect",
     "target_ip", "tcp_port", "boot_lun", "iscsi_target_name"}
(* The root-path settings with CHAP on the target side: the CHAP flag and  *)
(* connect open and close the gate of the target CHAP secret.              *)
CredentialSettings ==
    RootPathSettings \cup {"iscsi_chap", "target_chapsec"}
(* Every setting whose hook stores on the net device, and their gates.     *)
NetdevSettings ==
    RootPathSettings \cup {"iscsi_chap", "iscsi_mutual_chap"} \cup MirrorSettings
(* Two settings sharing the NicBoot TLV, connect (whose default reads the  *)
(* flash shadow) and one setting with a TLV of its own.                    *)
CommitSettings ==
    {"boot_protocol", "virt_lan", "connect", "tcp_port"}

(* The menu inputs: every option of an OPTION setting, and for an INPUT    *)
(* setting values on both sides of each bound of its validation, plus the  *)
(* empty input (NULL).                                                     *)
MCInputs ==
    [s \in ToSet(Catalog) |->
        CASE s = "boot_protocol"     -> BootProtocols
          [] s = "virt_id"           -> {0, 4094, 4095, Null}
          [] s = "target_ip"         -> {<<10, 0, 0, 5>>, <<255, 255, 255, 255>>, Null}
          [] s = "tcp_port"          -> {0, 3260, 65535, 65536, Null}
          [] s = "boot_lun"          -> {0, 255, 256, Null}
          [] s = "iscsi_target_name" -> {8, 223, 224, Null}
          [] s = "ipv4_add"          -> {<<10, 0, 0, 7>>, Null}
          [] s = "iscsi_init_name"   -> {8, 223, 224, Null}
          [] s \in {"init_chapid", "target_chapid"}   -> {8, 128, 129, Null}
          [] s \in {"init_chapsec", "target_chapsec"} -> {11, 12, 16, 17, Null}
          [] OTHER                   -> {Enabled, Disabled}]

(* The commit run stores one valid and one rejected TCP port.              *)
CommitInputs ==
    [MCInputs EXCEPT !["tcp_port"] = {3260, 0, Null}]

(* port->defaults as the firmware reports them.                           *)
MCDefaults ==
    [boot_protocol        |-> 2,
     boot_vlan_en         |-> FALSE,
     boot_vlan            |-> 1,
     iscsi_ipv4_dhcp_en   |-> TRUE,
     iscsi_dhcp_params_en |-> FALSE,
     iscsi_chap_auth_en   |-> FALSE,
     iscsi_chap_mutual_auth_en |-> FALSE]

(* A port as it comes up: PXE boot, DHCP for everything, no CHAP, no iSCSI *)
(* initiator or target parameters.                                          *)
InitValue ==
    [boot_protocol |-> "PXE", virt_lan |-> Disabled, virt_id |-> 1,
     dhcp_ip |-> Enabled, dhcp_iscsi |-> Enabled, connect |-> Disabled,
     iscsi_chap |-> Disabled, iscsi_mutual_chap |-> Disabled,
     ipv4_add |-> NoValue, iscsi_init_name |-> NoValue,
     init_chapid |-> NoValue, init_chapsec |-> NoValue,
     target_chapid |-> NoValue, target_chapsec |-> NoValue,
     target_ip |-> NoValue, tcp_port |-> NoValue, boot_lun |-> NoValue,
     iscsi_target_name |-> NoValue]

MCInitialTree == [s \in Settings |-> InitValue[s]]

=============================================================================
