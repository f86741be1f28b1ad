------------------------------ MODULE MCPcapNg ------------------------------
(***************************************************************************)
(* Bytes of eight values: a u32 ends at 4096.  Messages of three and six   *)
(* bytes, names of three bytes and of one, and times on both sides of the  *)
(* carry into the upper half.                                              *)
(***************************************************************************)
EXTENDS PcapNg

MCSHB     == <<2, 5, 5, 2>>
MCMagic   == <<5, 4, 3, 1>>
MCNames   == <<<<7, 4, 3>>, <<6>>>>
MCMessage == {<<1, 0, 7>>, <<2, 1, 5, 0, 0, 4>>}
MCClock   == {4095, 4097}
=============================================================================
