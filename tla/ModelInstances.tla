---------------------------- MODULE ModelInstances ----------------------------
(* What the parts of one model have in common: its instances, each with a  *)
(* thread of its own, and the request buckets CUDA_GRAPH_BATCH_SIZES lists. *)
EXTENDS Integers

CONSTANTS Instances, Buckets

ASSUME BucketAssumption == Buckets \subseteq Int
=============================================================================
