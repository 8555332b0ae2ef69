---------------------------- MODULE MCBaotaSync ----------------------------
(* Small instances of BaotaSync for TLC. *)
EXTENDS BaotaSync

\* Goroutines are named for their pod: those ending in 2 run on the second one.
MCPodOf == [g \in Workers \union Requests |->
              IF g \in {"timer2", "manual2", "delete2"} THEN "pod2" ELSE "pod1"]

Plain(h, u) ==
    [managed |-> TRUE, host |-> h, url |-> u, https |-> FALSE, panel |-> ""]

\* One plain host, one that wants HTTPS.
WithHTTPS == {[Plain("h1", "u1") EXCEPT !.https = TRUE]}

\* An Ingress may be unmanaged, or name an unknown panel, or the second one.
SeveralPanels ==
    {[Plain("h1", "u1") EXCEPT !.managed = FALSE],
     [Plain("h1", "u1") EXCEPT !.panel = "unknown"],
     [Plain("h1", "u1") EXCEPT !.panel = "panel2"]}

OneHost == {Plain("h1", "u1")}
=============================================================================
