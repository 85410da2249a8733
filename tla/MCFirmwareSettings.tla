------------------------- MODULE MCFirmwareSettings -------------------------
(***************************************************************************)
(* Instantiation of FirmwareSettings for TLC: adapters with and without    *)
(* SR-IOV and with and without a virt_num_max, both firmware defaults of   *)
(* the mode, and menu numbers on both sides of each bound.                 *)
(***************************************************************************)
EXTENDS FirmwareSettings

MaxVfs == 8

(* The adapters hermon_init_settings may find: total_vfs is a count the   *)
(* firmware itself accepts, so below its maximum.                          *)
MCCaps ==
    [sriov : BOOLEAN, wolPorts : {{}}, beacon : {FALSE},
     max : {NoValue, MaxVfs}, sriov_en : BOOLEAN, total_vfs : {4}]

(* Every option of virt_mode; for virt_num a negative number, zero, the   *)
(* last valid count, the maximum and one past it, and the empty input.     *)
MCInputs ==
    [s \in FwSettings |->
        IF s = "virt_mode" THEN OptionList["virt_mode"] \cup {Null}
        ELSE {-1, 0, MaxVfs - 1, MaxVfs, MaxVfs + 1, Null}]

MCInitialTrees ==
    {[virt_mode |-> "None", virt_num |-> 0],
     [virt_mode |-> SRIOV, virt_num |-> 2]}

=============================================================================
