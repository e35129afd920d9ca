-------------------------- MODULE MCCircularBuffer --------------------------
(***************************************************************************)
(* Instances of CircularBuffer.  The passing one has blocks of three bytes *)
(* and calls of one byte, of two, which may or may not cross the end of a  *)
(* block, and of four, which always do; the table grows to two blocks and  *)
(* shrinks again.  While the buffer is intact it has one block, so three   *)
(* byte values tell its bytes apart.                                       *)
(***************************************************************************)
EXTENDS CircularBuffer
=============================================================================
