----------------------------- MODULE MCDevices ------------------------------
(* A drive of 65538 sectors, one of which is damaged: addresses that use   *)
(* each byte of the LBA, one behind the drive and one of a negative        *)
(* position.                                                               *)
EXTENDS Devices

MCLbas == {-1, 0, 255, 257, 65536, 65538}
=============================================================================
