--------------------------- MODULE TopologyRouting ---------------------------
(***************************************************************************)
(* How GET /api/flow/metrics decides what to ask and of whom               *)
(* (pkg/handler/topology.go, pkg/prometheus/inventory.go,                  *)
(* pkg/model/filters/filters.go).                                          *)
(*                                                                         *)
(* A request carries filter groups, OR'ed with each other; a group is a    *)
(* set of matches, AND'ed.  Every group is first expanded, into an ingress *)
(* and an egress branch and, in the developer view, into a source and a    *)
(* destination namespace branch; each resulting query is then routed to a  *)
(* Prometheus metric that has all the labels it needs or else to Loki.     *)
(* The same test (ForProm) is made at both stages, on different filters.   *)
(*                                                                         *)
(* A group is abstracted to the keys of its matches, to whether one of     *)
(* them is a ">=" match, and to whether the Loki query builder accepts its *)
(* values.  A query is the group it comes from and the branches it took.   *)
(***************************************************************************)
EXTENDS Naturals

CONSTANT Labels      \* names of flow fields, which are also metric labels

FlowDirection == "FlowDirection"
SrcNamespace == "SrcK8S_Namespace"
DstNamespace == "DstK8S_Namespace"
DstType == "DstK8S_Type"
DropLabels == {"PktDropLatestState", "PktDropLatestDropCause"}

ASSUME LabelsAssumption ==
  {FlowDirection, SrcNamespace, DstNamespace, DstType} \subseteq Labels

Fields == {"Bytes", "Packets", "PktDropBytes", "PktDropPackets", "DnsLatencyMs"}
Directions == {"Any", "Ingress", "Egress"}
DataSources == {"auto", "loki", "prom"}
Backends == {"loki", "prom"}

(* What config.yaml says of one Prometheus metric. *)
Metric == [labels : SUBSET Labels, field : Fields, dir : Directions,
           enabled : BOOLEAN]

(* A conversation is what the user means by traffic: the agents record it  *)
(* once or twice, depending on its path.  src and dst say which of its     *)
(* ends are in the namespace of the request.                               *)
Paths == {"inCluster", "sameNode", "outbound", "toService", "inbound"}
Conversation == [path : Paths, src : BOOLEAN, dst : BOOLEAN]

Records(c) ==
  CASE c.path = "inCluster" -> {[dir |-> "ingress", dstType |-> "Pod"],
                                [dir |-> "egress",  dstType |-> "Pod"]}
    [] c.path = "sameNode"  -> {[dir |-> "inner",   dstType |-> "Pod"]}
    [] c.path = "outbound"  -> {[dir |-> "egress",  dstType |-> ""]}
    [] c.path = "toService" -> {[dir |-> "egress",  dstType |-> "Service"]}
    [] OTHER                -> {[dir |-> "ingress", dstType |-> "Pod"]}

(* One SingleQuery of the request's filters, before any expansion; flows   *)
(* are the conversations its matches select.                               *)
Group == [keys : SUBSET Labels, moreThan : BOOLEAN, wellFormed : BOOLEAN,
          flows : SUBSET Conversation]

(* The parameters of a request that routing depends on: dev says that the  *)
(* "namespace" parameter is set; plainLog that the record type is flowLog. *)
Input(Groups) ==
  [groups : Groups, field : Fields, aggregate : SUBSET Labels,
   plainLog : BOOLEAN, dev : BOOLEAN]

Config == [loki : BOOLEAN, prom : BOOLEAN, metrics : SUBSET Metric]

Reporters == {"ingress", "egress"}
Sides == {"src", "dst"}
Query == [group : Nat, reporter : Reporters \cup {"both"}, side : Sides \cup {"any"}]

-----------------------------------------------------------------------------
(* The inventory of metrics. *)

ActualField(needed, field) ==
  IF needed \cap DropLabels = {} THEN field
  ELSE CASE field = "Bytes"   -> "PktDropBytes"
         [] field = "Packets" -> "PktDropPackets"
         [] OTHER             -> field

CheckMatch(m, needed, field, dir) ==
  /\ m.field = field
  /\ m.dir = dir
  /\ needed \subseteq m.labels

Matching(metrics, needed, field, dir) ==
  {m \in metrics : CheckMatch(m, needed, ActualField(needed, field), dir)}

FoundIn(metrics, needed, field, dir) ==
  {m \in Matching(metrics, needed, field, dir) : m.enabled}

(* Enabled metrics of the right field and direction that lack a label. *)
LackingIn(metrics, needed, field, dir) ==
  {m \in metrics : /\ m.enabled
                   /\ CheckMatch(m, {}, ActualField(needed, field), dir)
                   /\ ~ needed \subseteq m.labels}

(* A metric of any direction is preferred; without one, an ingress and an  *)
(* egress metric are OR'ed.  Only the ingress search's missing labels      *)
(* survive the merge of the three searches.                                *)
Search(metrics, needed, field) ==
  LET found(dir) == FoundIn(metrics, needed, field, dir)
      disabled(dir) == {m \in Matching(metrics, needed, field, dir) : ~m.enabled}
  IN  [found |-> IF found("Any") # {} THEN found("Any")
                 ELSE found("Ingress") \cup found("Egress"),
       candidates |-> disabled("Any") \cup disabled("Ingress") \cup disabled("Egress"),
       missing |-> LackingIn(metrics, needed, field, "Ingress")]

-----------------------------------------------------------------------------
(* The filters of a query: the group's own and those of its branches. *)

ReporterKeys(q) ==
  CASE q.reporter = "ingress" -> {FlowDirection}
    [] q.reporter = "egress"  -> {FlowDirection, DstType}
    [] OTHER                  -> {}

SideKeys(q) ==
  CASE q.side = "src" -> {SrcNamespace}
    [] q.side = "dst" -> {DstNamespace}
    [] OTHER          -> {}

Keys(in, q) == in.groups[q.group].keys \cup ReporterKeys(q) \cup SideKeys(q)

FiltersToLabels(in, q) == Keys(in, q) \ {FlowDirection}

LabelsNeeded(in, q) ==
  in.aggregate \cup FiltersToLabels(in, q)
    \cup (IF in.dev THEN {SrcNamespace, DstNamespace} ELSE {})

(* getEligiblePromMetric: whether the inventory is searched at all, and    *)
(* what it finds.                                                          *)
PromAsked(cfg, ds) == cfg.prom /\ ds \in {"auto", "prom"}
PromSupports(in, q) == in.plainLog /\ ~in.groups[q.group].moreThan
Eligible(cfg, in, q) == Search(cfg.metrics, LabelsNeeded(in, q), in.field)

ForProm(cfg, in, ds, q) ==
  /\ PromAsked(cfg, ds)
  /\ PromSupports(in, q)
  /\ Eligible(cfg, in, q).found # {}

-----------------------------------------------------------------------------
(* Expansion. *)

(* Each query that is not ignored is replaced by its alternatives. *)
Distribute(queries, Alternatives(_), Ignored(_)) ==
  {q \in queries : Ignored(q)}
    \cup UNION {Alternatives(q) : q \in {r \in queries : ~Ignored(r)}}

ByReporter(q) == {[q EXCEPT !.reporter = r] : r \in Reporters}
BySide(q) == {[q EXCEPT !.side = s] : s \in Sides}

ShouldMergeReporters(field) == field \in {"Bytes", "Packets"}

Unexpanded(in) ==
  {[group |-> i, reporter |-> "both", side |-> "any"] : i \in DOMAIN in.groups}

ExpandQueries(cfg, in, ds) ==
  LET forProm(q) == ForProm(cfg, in, ds, q)
      skipReporters(q) == forProm(q) \/ FlowDirection \in Keys(in, q)
      byReporter == Distribute(Unexpanded(in), ByReporter, skipReporters)
  IN  IF in.dev THEN Distribute(byReporter, BySide, forProm) ELSE byReporter

(* filterGroups, as extractTopologyQueryParams returns them. *)
FilterGroups(cfg, in, ds) ==
  IF ShouldMergeReporters(in.field) THEN ExpandQueries(cfg, in, ds)
  ELSE Unexpanded(in)

(* The flow records the filters of a branch let through. *)
InReporterAnyEgress(q, record) ==                                \* mutant
  CASE q.reporter = "ingress" -> record.dir \in {"ingress", "inner"}
    [] q.reporter = "egress"  -> record.dir = "egress"
    [] OTHER                  -> TRUE

InReporter(q, record) ==
  CASE q.reporter = "ingress" -> record.dir \in {"ingress", "inner"}
    [] q.reporter = "egress"  -> /\ record.dir = "egress"
                                 /\ record.dstType \in {"", "Service"}
    [] OTHER                  -> TRUE

InSide(q, c) ==
  CASE q.side = "src" -> c.src
    [] q.side = "dst" -> c.dst
    [] OTHER          -> TRUE

-----------------------------------------------------------------------------
(* buildTopologyQuery: the backend of a query, or why it has none. *)

LokiAllowed(cfg, ds) == cfg.loki /\ ds # "prom"

BuildError(cfg, in, ds, q) ==
  LET searched == PromAsked(cfg, ds) /\ PromSupports(in, q)
      found == Eligible(cfg, in, q)
  IN  CASE ForProm(cfg, in, ds, q)              -> "none"
        [] LokiAllowed(cfg, ds)                 ->
             IF in.groups[q.group].wellFormed THEN "none" ELSE "badFilter"
        [] searched /\ found.candidates # {}    -> "promDisabledMetrics"
        [] searched /\ found.candidates = {} /\ found.missing # {}
                                                -> "promMissingLabels"
        [] OTHER                                -> "promUnsupported"

Backend(cfg, in, ds, q) == IF ForProm(cfg, in, ds, q) THEN "prom" ELSE "loki"
=============================================================================
