---------------------------- MODULE MCHealthPage ----------------------------
(* A rule of NetObserv for nodes and one for the cluster, one of OVN       *)
(* without annotation, one with, and one of another tab that is found by   *)
(* label and by group, and is gone at the second of two moments.           *)
EXTENDS HealthPage

Rule(name, tab, kind, labelled, ovnGroup, severity, threshold) ==
  [name |-> name, tab |-> tab, kind |-> kind, labelled |-> labelled, ovnGroup |-> ovnGroup, ovnName |-> ovnGroup,
   severity |-> severity, threshold |-> threshold, labels |-> "rule" :> name]
MCRules ==
  {Rule("drops", "none", "Node", TRUE, FALSE, "critical", 1), Rule("latency", "none", "Node", TRUE, FALSE, "info", 0),
   Rule("full", "none", "Node", TRUE, FALSE, "critical", 4),
   Rule("legacy", "none", "Global", FALSE, TRUE, "warning", 0), Rule("ovs", "ovn", "Global", TRUE, TRUE, "warning", 0),
   Rule("mesh", "kiali", "Global", TRUE, TRUE, "warning", 0)}
MCRecordings == {[name |-> "ratio", kind |-> "Node", critical |-> 3, warning |-> 1, info |-> None]}

OnNode(n) == "node" :> n
Alert(node, state, value) == [labels |-> OnNode(node), state |-> state, value |-> value]
NoSilence == [active |-> FALSE, netobserv |-> TRUE, matchers |-> {}]
Silence(name, values) ==
  [active |-> TRUE, netobserv |-> TRUE,
   matchers |-> {[name |-> name, values |-> values, equal |-> TRUE, valid |-> TRUE]}]
MCWorlds ==
  <<[alerts |-> "drops" :> {Alert("n1", "firing", 2), Alert("n2", "pending", 4)} @@ "latency" :> {Alert("n1", "firing", 3)}
                  @@ "full" :> {Alert("n2", "firing", 4)} @@ "legacy" :> {Alert("n1", "firing", 1)}
                  @@ "ovs" :> {Alert("n1", "firing", 1)} @@ "mesh" :> {Alert("", "firing", 1)},
     values |-> "ratio" :> {[labels |-> OnNode("n1"), value |-> 2], [labels |-> OnNode("n2"), value |-> 0]},
     silences |-> {NoSilence, Silence("rule", {"legacy", "latency"})}],
    [alerts |-> "drops" :> {Alert("n1", "firing", 2)} @@ "latency" :> {Alert("n1", "firing", 1)} @@ "full" :> {}
                  @@ "legacy" :> {Alert("n1", "firing", 1)} @@ "ovs" :> {Alert("n1", "firing", 1)},
     values |-> "ratio" :> {[labels |-> OnNode("n1"), value |-> 4]},
     silences |-> {Silence("node", {"n2"})}]>>
=============================================================================
