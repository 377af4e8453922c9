---------------------------- MODULE MCRequestCycle ----------------------------
(* Finite instances of RequestCycle. *)
EXTENDS RequestCycle

M(kind, graph, max, scales, declared, stateful) ==
    [kind |-> kind, graph |-> graph, max |-> max, scales |-> scales,
     declared |-> declared, stateful |-> stateful]

(* A batching model on the graph path, which keeps a sequence state; one   *)
(* run eagerly that refers to an output it does not have; one on the CPU   *)
(* that does not batch; and one that chooses its devices itself.           *)
BatchingModels ==
    {M("GPU", TRUE, 2, <<TRUE, TRUE>>, {1, 2}, TRUE),
     M("GPU", FALSE, 2, <<TRUE>>, {1, 2}, FALSE),
     M("CPU", FALSE, 0, <<TRUE>>, {1}, FALSE),
     M("MODEL", FALSE, 2, <<TRUE>>, {1}, FALSE)}

(* A model with an output of a single row behind one with a row per request. *)
FixedOutputModels == {M("GPU", TRUE, 2, <<TRUE, FALSE>>, {1, 2}, FALSE)}
=============================================================================
