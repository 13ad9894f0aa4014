--------------------------- MODULE MCFlowsRequest ---------------------------
(***************************************************************************)
(* Instances of FlowsRequest for TLC: at most three records, of two        *)
(* streams, two of them at the same time; two groups that may overlap.     *)
(***************************************************************************)
EXTENDS FlowsRequest

F(s, l, t, gs, src, dst) ==
  [stream |-> s, line |-> l, time |-> t, groups |-> gs, src |-> src, dst |-> dst]

Groups == {"g1", "g2"}
Ends == {<<TRUE, TRUE>>, <<TRUE, FALSE>>, <<FALSE, TRUE>>, <<FALSE, FALSE>>}

MCStores ==
  {{F("s1", "l1", 1, a, e[1], e[2]), F("s1", "l2", 1, b, TRUE, d[2]), F("s2", "l1", 2, c, d[1], d[2])} :
     a \in SUBSET Groups, b \in {{"g1"}, Groups}, c \in {{"g2"}, Groups},
     e \in {<<TRUE, TRUE>>, <<FALSE, TRUE>>, <<FALSE, FALSE>>}, d \in {<<TRUE, TRUE>>, <<TRUE, FALSE>>}}

R(on, ok, x, dev, gs, js, n) ==
  [enabled |-> on, valid |-> ok, export |-> x, dev |-> dev, groups |-> gs, json |-> js, limit |-> n]

MCRequests ==
  {R(TRUE, TRUE, x, dev, gs, {}, n) : x \in {"no", "other"}, dev \in BOOLEAN, gs \in {{"g1"}, Groups}, n \in {0, 2, 3}}
  \cup {R(TRUE, TRUE, "csv", FALSE, Groups, js, 3) : js \in {{"g1"}, Groups}}
  \cup {R(TRUE, FALSE, "csv", FALSE, Groups, {}, 2), R(FALSE, TRUE, "csv", FALSE, Groups, {}, 2)}

MCFailures == [b \in {"loki", "prom"} |-> {403}]
=============================================================================
