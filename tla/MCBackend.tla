------------------------------ MODULE MCBackend ------------------------------
(* Finite instances of Backend. *)
EXTENDS Backend

CONSTANTS i1, i2, i3

(* Tensors: named <name>__<index>, named otherwise, of an unsupported type. *)
Named == [indexed |-> TRUE, supported |-> TRUE]
Plain == [indexed |-> FALSE, supported |-> TRUE]
Bytes == [indexed |-> TRUE, supported |-> FALSE]

Names(inputs, outputs, controls, states) ==
    [inputs |-> inputs, outputs |-> outputs, controls |-> controls, states |-> states]
Pair(in, out) == [in |-> in, out |-> out]

Packed == Names(<<Named, Named>>, <<Named>>, <<>>, <<>>)

Of(kind, devices, count) == [kind |-> kind, devices |-> devices, count |-> count]
On(group, device) == [group |-> group, device |-> device]

Conf(sharing, graphs, warmup, groups, members, naming) ==
    [sharing |-> sharing, graph |-> graphs, warmup |-> warmup, groups |-> groups,
     members |-> members, naming |-> naming]

(* CUDA graphs, weight sharing asked for as well: two instances on one GPU, *)
(* and an instance on a GPU beside one on the CPU.                          *)
TwoOnOneGpu == <<Of("GPU", {0}, 2)>>
GraphConfigs ==
    {Conf("true", "true", warmup, TwoOnOneGpu, [i \in {i1, i2} |-> On(1, 0)], Packed) :
        warmup \in BOOLEAN}
MixedConfigs ==
    {Conf("true", "true", TRUE, <<Of("GPU", {0}, 1), Of("CPU", {0}, 1)>>,
          [i \in {i1, i2} |-> IF i = i1 THEN On(1, 0) ELSE On(2, 0)], Packed)}

(* Without graphs.  Two groups, one of them on two GPUs; instances of      *)
(* KIND_CPU and KIND_MODEL, which share the CPU's key; no sharing; and     *)
(* parameters that are not booleans.                                       *)
SharingConfigs ==
    {Conf("true", "false", FALSE, <<Of("GPU", {0}, 1), Of("GPU", {0, 1}, 1)>>,
          [i \in {i1, i2, i3} |-> IF i = i1 THEN On(1, 0)
                                 ELSE IF i = i2 THEN On(2, 0) ELSE On(2, 1)], Packed),
     Conf("true", "absent", FALSE, <<Of("CPU", {0}, 1), Of("MODEL", {0}, 2)>>,
          [i \in {i1, i2, i3} |-> IF i = i1 THEN On(1, 0) ELSE On(2, 0)], Packed),
     Conf("absent", "absent", FALSE, TwoOnOneGpu, [i \in {i1, i2} |-> On(1, 0)], Packed),
     Conf("malformed", "true", TRUE, TwoOnOneGpu, [i \in {i1, i2} |-> On(1, 0)], Packed)}

(* One CPU instance: strict ordering, controls and states accepted, and a *)
(* configuration for each reason to refuse one.                           *)
NamingCases ==
    {Names(<<Plain>>, <<Plain>>, <<Named>>, <<>>),
     Names(<<Named>>, <<Named>>, <<>>, <<Pair(Plain, Named)>>),
     Names(<<>>, <<Named>>, <<>>, <<>>),
     Names(<<Named>>, <<>>, <<>>, <<>>),
     Names(<<Bytes>>, <<Named>>, <<>>, <<>>),
     Names(<<Named>>, <<Bytes>>, <<>>, <<>>),
     Names(<<Named>>, <<Named>>, <<Plain>>, <<>>),
     Names(<<Named>>, <<Named>>, <<Bytes>>, <<>>),
     Names(<<Named>>, <<Plain>>, <<>>, <<Pair(Named, Named)>>),
     Names(<<Named>>, <<Named>>, <<>>, <<Pair(Named, Plain)>>),
     Names(<<Named>>, <<Named>>, <<>>, <<Pair(Bytes, Named)>>)}
NamingConfigs ==
    {Conf("absent", "absent", FALSE, <<Of("CPU", {0}, 1)>>, [i \in {i1} |-> On(1, 0)], c) :
        c \in NamingCases}

(* One or two families at a time, the others failing to be created. *)
SomeFamilies == {{"replays"}, {"pad_waste"}, {"capture_failures", "eager_fallbacks"}}

BackendConfigs == GraphConfigs \cup MixedConfigs \cup SharingConfigs \cup NamingConfigs
=============================================================================
