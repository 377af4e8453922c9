---------------------------- MODULE MCGraphStreams ----------------------------
(* Finite instances of GraphStreams. *)
EXTENDS GraphStreams

OrderedFailures == {"start", "slice"}
AllFailures == {"start", "copy", "slice"}
=============================================================================
