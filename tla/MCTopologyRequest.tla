-------------------------- MODULE MCTopologyRequest --------------------------
(* A small instance of TopologyRequest: four inventories, groups that make *)
(* every routing decision possible, one or two groups per request.         *)
EXTENDS TopologyRequest

MCLabels == {FlowDirection, SrcNamespace, DstNamespace, DstType,
             "SrcK8S_OwnerName", "PktDropLatestState"}
MCFailureCodes == [b \in {"loki", "prom"} |->
                     IF b = "prom" THEN {403, 503} ELSE {400, 403}]

Namespaces == {SrcNamespace, DstNamespace}
M(labels, field, dir, enabled) ==
  [labels |-> labels, field |-> field, dir |-> dir, enabled |-> enabled]

NamespaceBytes == {M(Namespaces, "Bytes", "Ingress", TRUE),
                   M(Namespaces, "Bytes", "Egress", TRUE)}
WorkloadBytes(enabled) ==
  {M(Namespaces \cup {"SrcK8S_OwnerName"}, "Bytes", "Ingress", enabled)}
Drops == {M(Namespaces \cup {"PktDropLatestState"}, "PktDropBytes", "Any", TRUE)}

Inventories == {{}, NamespaceBytes, NamespaceBytes \cup WorkloadBytes(FALSE) \cup Drops,
                WorkloadBytes(TRUE)}

MCConfigs ==
  {[loki |-> TRUE, prom |-> FALSE, metrics |-> {}]}
    \cup {[loki |-> l, prom |-> TRUE, metrics |-> m] : l \in BOOLEAN, m \in Inventories}

(* Groups select disjoint conversations, but for the last one. *)
Outgoing == {c \in Conversation : c.src}
Incoming == {c \in Conversation : ~c.src}
G(keys, flows) ==
  [keys |-> keys, moreThan |-> FALSE, wellFormed |-> TRUE, flows |-> flows]
ByNamespace == G({SrcNamespace}, Outgoing)
ByOwner == G({"SrcK8S_OwnerName"}, Incoming)
ByDirection == G({FlowDirection}, Incoming)
ByDrop == G({"PktDropLatestState"}, Incoming)
ByAmount == [G({}, Outgoing) EXCEPT !.moreThan = TRUE]
BadGroup == [G({"SrcK8S_OwnerName"}, Outgoing) EXCEPT !.wellFormed = FALSE]
Everything == G({}, Conversation)

MCGroups == {<<ByNamespace>>, <<ByOwner>>, <<ByDrop>>, <<ByAmount>>, <<BadGroup>>,
             <<Everything>>, <<ByNamespace, ByOwner>>, <<ByNamespace, ByDirection>>,
             <<ByAmount, ByDrop>>, <<ByNamespace, BadGroup>>}

R(ds, groups, field, dev) ==
  [ds |-> ds, valid |-> TRUE,
   in |-> [groups |-> groups, field |-> field, aggregate |-> Namespaces,
           plainLog |-> TRUE, dev |-> dev]]

MCRequests ==
  {R(ds, g, f, FALSE) : ds \in DataSources, g \in MCGroups, f \in {"Bytes", "DnsLatencyMs"}}
  \cup {R(ds, g, "Bytes", TRUE) : ds \in DataSources,
                                  g \in {h \in MCGroups : Len(h) = 1}}
  \cup {[R("auto", <<Everything>>, "Bytes", FALSE) EXCEPT !.valid = FALSE],
        [R("auto", <<Everything>>, "Bytes", FALSE) EXCEPT !.in.plainLog = FALSE]}
=============================================================================
