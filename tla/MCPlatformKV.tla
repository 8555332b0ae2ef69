----------------------------- MODULE MCPlatformKV -----------------------------
(* Instances of PlatformKV for TLC. *)
EXTENDS PlatformKV

\* Two clients on the first pod, the others on the second.
MCPodOf == [c \in Clients |-> IF c \in {"c1", "c2"} THEN "pod1" ELSE "pod2"]

\* Only the second pod may be one that was started without MySQL.
MCInit == Init /\ wiring["pod1"] = Connected

MCFairSpec == MCInit /\ [][Next]_vars /\ Fairness
=============================================================================
