---------------------------- MODULE FilterQueries ----------------------------
(***************************************************************************)
(* What the filters of the page ask of the back end (utils/back-and-       *)
(* forth.ts, model/flow-query.ts, utils/filter-definitions.ts,             *)
(* utils/filters-helper.ts).                                               *)
(*                                                                         *)
(* A filter is on a field of the source, of the destination or of either   *)
(* end, or on a field of the flow (side "none").  The list of filters is   *)
(* written down as a text in which '|' separates groups and '&' the        *)
(* matches of a group: the text is modelled as the sequence of its groups, *)
(* each the set of its matches, which is how the back end reads it.        *)
(***************************************************************************)
EXTENDS SequencesExt

CONSTANTS Names,     \* fields that a flow has for its source and its destination
          Commons,   \* fields that it has once
          Values     \* what a field may hold

Ends == {"src", "dst"}

Def == [side : Ends \cup {"either"}, name : Names] \cup [side : {"none"}, name : Commons]
Flow == [src : [Names -> Values], dst : [Names -> Values], none : [Commons -> Values]]

(* A filter of a query: values are alternatives, and not tells "!=".       *)
Filter == [def : Def, not : BOOLEAN, values : SUBSET Values]

Other(end) == IF end = "src" THEN "dst" ELSE "src"
Mirror(flow) == [flow EXCEPT !.src = flow.dst, !.dst = flow.src]

-----------------------------------------------------------------------------
(* From the list of filters to the text of the query, and back.            *)

Match(f, side) == [side |-> side, name |-> f.def.name, not |-> f.not, values |-> f.values]

(* A filter on either end is written as an alternative; negated, it is     *)
(* written as two matches, so that neither end may have the values.        *)
Encoded(f) ==
  IF f.def.side # "either" THEN <<{Match(f, f.def.side)}>>
  ELSE IF f.not THEN <<{Match(f, "src"), Match(f, "dst")}>>
  ELSE <<{Match(f, "src")}, {Match(f, "dst")}>>

(* '&' binds tighter than the '|' that an operand holds: it joins the last *)
(* group of the one with the first group of the other.                     *)
JoinAnd(t, u) == Front(t) \o <<Last(t) \cup Head(u)>> \o Tail(u)

(* The empty text is one group without a match.                            *)
ToText(filters, any) ==
  LET text[i \in 0..Len(filters)] ==
        IF i = 0 THEN <<{}>>
        ELSE IF any /\ i > 1 THEN text[i - 1] \o Encoded(filters[i])
        ELSE JoinAnd(text[i - 1], Encoded(filters[i]))
  IN  text[Len(filters)]

Holds(m, flow) == (flow[m.side][m.name] \in m.values) # m.not

(* The records of a text are those of any of its groups; its metrics are   *)
(* those of its groups added up.                                           *)
Selected(text) == UNION {{flow \in Flow : \A m \in group : Holds(m, flow)} : group \in ToSet(text)}
Counts(text, flow) == Cardinality({i \in DOMAIN text : \A m \in text[i] : Holds(m, flow)})

-----------------------------------------------------------------------------
(* Directions.                                                             *)

(* Mutant: only sources are swapped.                      *)
SwapSources(def) == IF def.side = "src" THEN [def EXCEPT !.side = "dst"] ELSE def

SwapDef(def) == IF def.side \in Ends THEN [def EXCEPT !.side = Other(@)] ELSE def
EndpointDef(def, end) == IF def.side = "either" THEN [def EXCEPT !.side = end] ELSE def

SwapFilters(filters) == [i \in DOMAIN filters |-> [filters[i] EXCEPT !.def = SwapDef(@)]]
SetEndpoint(filters, end) == [i \in DOMAIN filters |-> [filters[i] EXCEPT !.def = EndpointDef(@, end)]]

(* Mutant: the match of the page is not considered.       *)
HalvesOfEither(filters, match) ==
  IF \E i \in DOMAIN filters : filters[i].def.side = "either"
    THEN <<SetEndpoint(filters, "src"), SetEndpoint(filters, "dst")>>
  ELSE <<filters>>

(* The lists that one query is made of.                                    *)
Halves(filters, match) ==
  IF \E i \in DOMAIN filters : filters[i].def.side = "either"
    THEN <<SetEndpoint(filters, "src"), SetEndpoint(filters, "dst")>>
  ELSE IF match = "bidirectional" /\ filters # <<>> THEN <<filters, SwapFilters(filters)>>
  ELSE <<filters>>

(* getRecords: one request, the halves of which are alternatives.          *)
RecordsText(filters, match) ==
  LET h == Halves(filters, match)
      orig == ToText(h[1], match = "any")
  IN  IF Len(h) = 1 THEN orig ELSE orig \o ToText(h[2], match = "any")

(* Mutant: the overlap is counted twice.                  *)
MetricsAddedUp(filters, match) ==
  [flow \in Flow |-> Counts(RecordsText(filters, match), flow)]

(* getMetrics: a request for each half and, unless any filter will do, one *)
(* for their overlap, which is subtracted.  What is counted of each flow.  *)
Metrics(filters, match) ==
  LET h == Halves(filters, match)
      any == match = "any"
      orig == ToText(h[1], any)
      swapped == ToText(h[2], any)
      overlap == ToText(h[1] \o h[2], any)
  IN  [flow \in Flow |->
        IF Len(h) = 1 THEN Counts(orig, flow)
        ELSE Counts(orig, flow) + Counts(swapped, flow) - IF any THEN 0 ELSE Counts(overlap, flow)]
=============================================================================
