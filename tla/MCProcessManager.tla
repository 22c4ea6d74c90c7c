--------------------------- MODULE MCProcessManager ---------------------------
(* Plans for TLC: a reversible request, then a gate or a timer, then another. *)
EXTENDS ProcessManager

OfKind(kind) == [kind |-> kind, undoes |-> 0]

MixedPlans == {<<OfKind("reversible"), OfKind("approval"), OfKind("reversible")>>,
               <<OfKind("timer"), OfKind("integration")>>}
GatePlan == {<<OfKind("approval")>>}
=============================================================================
