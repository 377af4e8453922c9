---------------------------- MODULE RequestContract ----------------------------
(***************************************************************************)
(* What the backend promises Triton about the requests of a batch          *)
(* (TRITONBACKEND_ModelInstanceExecute, libtorch.cc): a request is         *)
(* answered at most once and never after it was given back, an answer is   *)
(* an error or a success, the successes are sent together, and a batch is  *)
(* given back as a whole, when every request that can be answered was.     *)
(* Drop is the exception the code makes: ProcessRequests may return        *)
(* without giving the batch back, but only if nothing in it succeeded.     *)
(***************************************************************************)
CONSTANT Slots  \* the positions of a batch

VARIABLE state  \* where the request in each slot stands

States == {"out", "held", "mute", "error", "ok", "lost"}

In(what) == {i \in Slots : state[i] = what}
Move(S, to) == state' = [i \in Slots |-> IF i \in S THEN to ELSE state[i]]

Init == state = [i \in Slots |-> "out"]

(* A batch arrives when the backend is done with the one before. *)
Accept ==
    /\ In("out") \cup In("lost") = Slots
    /\ \E S \in SUBSET Slots :
          state' = [i \in Slots |-> IF i \in S THEN "held" ELSE "out"]

(* No response object could be made for a request: it gets no answer. *)
Mute ==
    /\ In("held") \cup In("out") = Slots
    /\ \E S \in SUBSET In("held") : Move(S, "mute")

Refuse == \E S \in SUBSET In("held") : Move(S, "error")

Serve == Move(In("held"), "ok")

GiveBack == In("held") = {} /\ Move(Slots, "out")

(* A batch that cannot be admitted is refused and given back at once. *)
Bounce == In("held") \cup In("out") = Slots /\ Move(Slots, "out")

Drop == In("ok") = {} /\ Move(Slots \ In("out"), "lost")

Next == Accept \/ Mute \/ Refuse \/ Serve \/ GiveBack \/ Bounce \/ Drop

Spec == Init /\ [][Next]_state
=============================================================================
