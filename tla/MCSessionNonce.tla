---------------------------- MODULE MCSessionNonce ----------------------------
(* Instances of SessionNonce for TLC. *)
EXTENDS SessionNonce

\* The first handler runs on the first pod, the others on the last.
MCPodOf == [w \in Clients |-> IF w = "w1" \/ "pod2" \notin Pods THEN "pod1" ELSE "pod2"]

TLCModule == INSTANCE TLC

\* No definition tells two addresses apart.
MCSymmetry == TLCModule!Permutations(IPs)
=============================================================================
