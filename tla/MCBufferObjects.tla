-------------------------- MODULE MCBufferObjects ---------------------------
(***************************************************************************)
(* Instance of BufferObjects: two objects and a table more than objects,   *)
(* since growing allocates the new table before it frees the old one.      *)
(***************************************************************************)
EXTENDS BufferObjects
=============================================================================
