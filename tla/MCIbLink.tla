------------------------------ MODULE MCIbLink ------------------------------
(***************************************************************************)
(* Instantiation of IbLink for TLC: two prefixes and two partitions, so    *)
(* that both can change under IPoIB, and the speed byte 0x23 (QDR active,  *)
(* SDR and DDR enabled) with what ib_smc_set_port_info makes of it, 0x21.  *)
(***************************************************************************)
EXTENDS IbLink

MCSpeedBytes == {35, 33}

=============================================================================
