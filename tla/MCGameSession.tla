--------------------------- MODULE MCGameSession ----------------------------
(***************************************************************************)
(* Instance of GameSession on a listen server: a frame may account for     *)
(* several steps, and a step is not a divisor of it.                       *)
(***************************************************************************)
EXTENDS GameSession
=============================================================================
