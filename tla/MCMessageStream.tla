--------------------------- MODULE MCMessageStream ---------------------------
(***************************************************************************)
(* A small instance of MessageStream: a command without a payload, one     *)
(* with, and one whose payload is longer than is allowed.                  *)
(***************************************************************************)
EXTENDS MessageStream, TLC

CONSTANTS start, data, huge

Lengths == start :> 0 @@ data :> 2 @@ huge :> 3
=============================================================================
