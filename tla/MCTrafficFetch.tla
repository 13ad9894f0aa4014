--------------------------- MODULE MCTrafficFetch ---------------------------
(***************************************************************************)
(* Instances of TrafficFetch for TLC.                                      *)
(***************************************************************************)
EXTENDS TrafficFetch

(* Values that the user gives to the filters.                              *)
NamespaceOnly == {[on |-> f, off |-> {}] : f \in {{}, {"namespace"}}}
NamespaceAndZone == {[on |-> f, off |-> {}] : f \in SUBSET {"namespace", "zone"}}
UrlNamespace == [on |-> {"namespace"}, off |-> {}]
NoUrl == None
=============================================================================
