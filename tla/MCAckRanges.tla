---------------------------- MODULE MCAckRanges -----------------------------
(***************************************************************************)
(* Instance of AckRanges with bytes of two bits, sequence numbers of three *)
(* and ints of five: as in the code a number takes several bytes and an    *)
(* int more of them, ranges begin anywhere in a byte, and all starts and   *)
(* counts are tried.                                                       *)
(***************************************************************************)
EXTENDS AckRanges
=============================================================================
