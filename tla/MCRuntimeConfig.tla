---------------------------- MODULE MCRuntimeConfig ----------------------------
(* Instances of RuntimeConfig for TLC: two pods with a volume and a handler each. *)
EXTENDS RuntimeConfig

CONSTANTS pod1, pod2, h1, h2

MCVolumeOf == [p \in Pods |-> p]

MCPodOf == [h \in Handlers |-> IF h = h1 THEN pod1 ELSE pod2]

TLCModule == INSTANCE TLC

\* Pods may change places, each with its handler.
MCSymmetry ==
    {f \in TLCModule!Permutations(Pods \union Handlers) :
        \A h \in Handlers : f[h] \in Handlers /\ f[PodOf[h]] = PodOf[f[h]]}
=============================================================================
