---------------------------- MODULE MCQueryCache ----------------------------
(* The query cache with every page of the catalogue. *)
EXTENDS QueryCache

Dns == INSTANCE UiDns
Kafka == INSTANCE UiKafka
Redis == INSTANCE UiRedis
OpenClaw == INSTANCE UiOpenClaw
CloudVm == INSTANCE UiCloudVm
Monitor == INSTANCE UiMonitor
Vcenter == INSTANCE UiVcenter
Cluster == INSTANCE UiCluster
Resources == INSTANCE UiResources
Inspect == INSTANCE UiInspect
Admin == INSTANCE UiAdmin

Pages == Dns!Pages \cup Kafka!Pages \cup Redis!Pages \cup OpenClaw!Pages \cup CloudVm!Pages
         \cup Monitor!Pages \cup Vcenter!Pages \cup Cluster!Pages \cup Resources!Pages
         \cup Inspect!Pages \cup Admin!Pages

\* A screen without a button to reload does nothing that the same screen with one cannot do.
\* Where the server repeats its answers, one screen for each way of polling: such a screen
\* has ten times the states of another one.
MCScreens ==
    LET all == ScreensOf(Pages)
        distinct == {s \in all : s.reload \/ [s EXCEPT !.reload = TRUE] \notin all}
        slow == {s \in distinct : s.copied /\ s.changes}
    IN  {s \in distinct : ~s.copied}
          \cup {CHOOSE s \in slow : s.poll = r.poll : r \in slow}

=============================================================================
