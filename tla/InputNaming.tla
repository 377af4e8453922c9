----------------------------- MODULE InputNaming -----------------------------
(***************************************************************************)
(* Which tensor names and types of a model configuration an instance       *)
(* accepts (model_instance_state.cc: GetNamingConvention, ValidateInputs,  *)
(* ValidateOutputs and the two sequence-control checks).  Where an         *)
(* accepted tensor goes in the argument list is left out: the code takes   *)
(* it from the name or from the order, and checks neither.                 *)
(*                                                                         *)
(* A tensor is modelled by what the checks read off it: whether its name   *)
(* is of the form <name>__<index>, and whether its type is supported.      *)
(***************************************************************************)
EXTENDS Sequences

Tensor == [indexed : BOOLEAN, supported : BOOLEAN]
State == [in : Tensor, out : Tensor]

(* The tensors of one model configuration.  Nothing is checked of the      *)
(* targets of batch inputs.                                                *)
Naming == [inputs : Seq(Tensor), outputs : Seq(Tensor), controls : Seq(Tensor),
           states : Seq(State)]

Every(seq, Test(_)) == \A n \in DOMAIN seq : Test(seq[n])
Indexed(t) == t.indexed
Supported(t) == t.supported
OutIndexed(s) == Indexed(s.out)
StateSupported(s) == Supported(s.in) /\ Supported(s.out)

(* GetNamingConvention: allowed_ios is empty in both calls, so that io_kind *)
(* is "output" and the input names are not looked at.                       *)
NamingConvention(c) ==
    IF Every(c.outputs, Indexed) THEN "NAMED_INDEX" ELSE "STRICT_CONFIG_ORDERING"

ConventionRefused(c) ==
    c.states # <<>> /\ (NamingConvention(c) # "NAMED_INDEX" \/ ~Every(c.states, OutIndexed))

(* ValidateBooleanSequenceControl, ValidateTypedSequenceControl *)
ControlsRefused(c) == ~Every(c.controls, Indexed) \/ ~Every(c.controls, Supported)

InputsRefused(c) ==
    \/ c.inputs = <<>> \/ ConventionRefused(c)
    \/ ~Every(c.inputs, Supported) \/ ~Every(c.states, StateSupported)

OutputsRefused(c) ==
    \/ c.outputs = <<>> \/ ConventionRefused(c)
    \/ ~Every(c.outputs, Supported) \/ ~Every(c.states, StateSupported)
=============================================================================
