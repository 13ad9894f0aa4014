--------------------------- MODULE MCTrafficViews ---------------------------
(* Generic columns, selected or not, those of two features and of one that *)
(* is disabled, and as many panels; the columns of a preset, as those of   *)
(* model/views.ts, are not in the order of the configuration, and the      *)
(* metric of "tls" is one that no feature adds.                            *)
EXTENDS TrafficViews

MCColumns == <<"g1", "g2", "d1", "d2", "t1", "u1">>
MCPanels == <<"pg", "pd">>
MCDefaults == {"g1", "pg", "u1"}
MCFeatureOf == [i \in {"g1", "g2", "pg"} |-> "none"] @@ [i \in {"d1", "d2", "pd"} |-> "dns"]
                 @@ [i \in {"t1"} |-> "tls"] @@ [i \in {"u1"} |-> "udn"]
MCPresets ==
  "dns" :> [feature |-> "dns", columns |-> <<"d2", "g1", "d1">>, panels |-> <<"pd", "pg">>, metric |-> "Dns"]
  @@ "tls" :> [feature |-> "tls", columns |-> <<"g1", "t1">>, panels |-> <<"pg">>, metric |-> "TlsFlows"]
  @@ "udn" :> [feature |-> "udn", columns |-> <<"g1", "u1">>, panels |-> <<"pg">>, metric |-> "Bytes"]
MCMetricOf == "dns" :> "Dns"
=============================================================================
