------------------------ MODULE MCInteractionKernel -------------------------
(* Sets whose members are interchangeable, for runs without liveness.       *)
EXTENDS InteractionKernel, TLC

Interchangeable ==
  Permutations(Requests) \cup Permutations(Keys) \cup Permutations(Contents)
    \cup Permutations(Envelopes)
=============================================================================
