----------------------------- MODULE MCGraphCache -----------------------------
(* Finite instances of GraphCache. *)
EXTENDS GraphCache

Conf(inputs, buckets, single, multi, traffic) ==
    [inputs |-> inputs, buckets |-> buckets, single |-> single, multi |-> multi,
     traffic |-> traffic]

Of(single, ends) == [single |-> single, ends |-> ends]

(* Ragged traffic: requests with equal and with unequal element counts, a  *)
(* batch without elements, one with fewer elements than requests, and one  *)
(* (<<2, 3, 5>>) that PadRequestsUp cannot fit into bucket 4.              *)
RaggedBatches ==
    {Of(2, ends) : ends \in
       {<<0>>, <<1>>, <<2>>, <<1, 4>>, <<2, 4>>, <<0, 0, 1>>, <<2, 3, 5>>}}

(* Warmup at the traffic's widths, an allowlist with a useless bucket and  *)
(* lazy capture only, the empty allowlist, and another input layout.       *)
RaggedConfigs ==
    {Conf(3, {1, 4}, 2, 2, RaggedBatches), Conf(3, {-1, 2}, 0, 0, RaggedBatches),
     Conf(3, {}, 0, 0, RaggedBatches), Conf(2, {2}, 2, 1, RaggedBatches)}

(* Uniform traffic: the requests of a batch have equal counts, while       *)
(* widths and counts vary between batches and differ from the warmup's.    *)
UniformBatches ==
    {Of(single, ends) : single \in {2, 3}, ends \in {<<2>>, <<3>>, <<2, 4>>, <<2, 4, 6>>}}
(* Uniform traffic of a single column, which copy_ would broadcast. *)
NarrowBatches == {Of(1, <<2>>), Of(1, <<2, 4>>)}
UniformConfigs ==
    {Conf(3, {1, 4}, 2, 2, UniformBatches), Conf(3, {2, 3}, 2, 3, UniformBatches),
     Conf(3, {}, 0, 0, UniformBatches), Conf(3, {2}, 2, 2, NarrowBatches)}

AllBatches == RaggedBatches \cup UniformBatches \cup NarrowBatches
AllConfigs == RaggedConfigs \cup UniformConfigs
=============================================================================
