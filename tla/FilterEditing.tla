---------------------------- MODULE FilterEditing ----------------------------
(***************************************************************************)
(* The filters that the user edits, through the search field, the chips of *)
(* the toolbar and the elements of the topology, and what they select      *)
(* (filter-search-input.tsx, filters-chips.tsx, topology-content.tsx,      *)
(* model/topology.ts, utils/filters-helper.ts, model/filters.ts).          *)
(*                                                                         *)
(* The chips change JavaScript objects in place, compare some by reference *)
(* and look others up by a part of their key: a value is therefore modelled*)
(* as what it says, v, and the object that says it, obj.  A disabled value *)
(* is an object that is marked so, in every filter that refers to it.      *)
(***************************************************************************)
EXTENDS FilterQueries

CONSTANTS MaxAdds,      \* bound on the values that are created
          MaxFilters    \* bound on the length of the list

ASSUME FilterBounds == MaxAdds \in Nat \ {0} /\ MaxFilters \in Nat \ {0}

VARIABLES list,      \* the filters, in order: their definition, "!=", and values
          match,     \* how they are combined
          off,       \* the objects of disabled values
          adds       \* the number of values created so far, the last object
vars == <<list, match, off, adds>>

Objs(l) == {x.obj : x \in UNION {ToSet(l[i].values) : i \in DOMAIN l}}
Said(f) == {x.v : x \in ToSet(f.values)}

SameKey(f, g) == f.def = g.def /\ f.not = g.not
WithKey(l, def, not) == SelectInSeq(l, LAMBDA f : f.def = def /\ f.not = not)
WithId(l, def) == SelectInSeq(l, LAMBDA f : f.def = def)

(* The elements of l at some of its places, in their order.                *)
At(l, places) ==
  [k \in 1..Cardinality(places) |-> l[CHOOSE i \in places : Cardinality(places \cap 1..i) = k]]

(* removeFromFilters drops every filter with the key of l[i].              *)
WithoutKey(l, i) == At(l, {j \in DOMAIN l : ~SameKey(l[j], l[i])})
WithoutValue(f, v) == [f EXCEPT !.values = At(@, {k \in DOMAIN @ : @[k].v # v})]

-----------------------------------------------------------------------------
(* An effect of the page makes an empty list match all.                    *)
Edit(l, m) ==
  /\ Len(l) <= MaxFilters
  /\ list' = l
  /\ match' = IF l = <<>> THEN "all" ELSE m

Init == list = <<>> /\ match = "all" /\ off = {} /\ adds = 0

Created(v) == [v |-> v, obj |-> adds + 1]
Create == adds < MaxAdds /\ adds' = adds + 1
Keep == adds' = adds /\ off' = off \cap Objs(list')

(* The search field.  The message "Filter already exists" leaves the list  *)
(* as it is.                                                               *)
AddFilter == \E d \in Def, not \in BOOLEAN, v \in Values, end \in Ends :
  LET def == IF match = "bidirectional" THEN EndpointDef(d, end) ELSE d
      i == WithKey(list, def, not)
  IN  /\ i # 0 => v \notin Said(list[i])
      /\ Create /\ UNCHANGED off
      /\ Edit(IF i = 0 THEN Append(list, [def |-> def, not |-> not, values |-> <<Created(v)>>])
              ELSE [list EXCEPT ![i].values = Append(@, Created(v))], match)

(* Mutant: the other values leave with it.                *)
TakenAll(l, i, v) == At(l, DOMAIN l \ {i})

(* A value leaves the first filter with the id of its own, and that filter *)
(* leaves the list when it has no other value.                             *)
Taken(l, i, v) ==
  IF WithoutValue(l[i], v).values = <<>> THEN At(l, DOMAIN l \ {i})
  ELSE [l EXCEPT ![i] = WithoutValue(@, v)]

(* It joins the first filter with the id wanted, if this object is not in. *)
Put(l, def, not, x) ==
  LET i == WithId(l, def)
  IN  IF i = 0 THEN Append(l, [def |-> def, not |-> not, values |-> <<x>>])
      ELSE IF x \in ToSet(l[i].values) THEN l
      ELSE [l EXCEPT ![i].values = Append(@, x)]

Moved(f, x, def) ==
  LET i == WithId(list, f.def) IN Put(Taken(list, i, x.v), def, list[i].not, x)

(* "As source" and "As destination", of an enabled value.                  *)
MoveValue(f, x, end) ==
  /\ x.obj \notin off
  /\ f.def.side \in {"either", Other(end)}
  /\ Edit(Moved(f, x, [f.def EXCEPT !.side = end]), match) /\ Keep

(* "Either".                                                               *)
EitherValue(f, x) ==
  /\ x.obj \notin off
  /\ match # "bidirectional" /\ f.def.side \in Ends
  /\ Edit(Moved(f, x, [f.def EXCEPT !.side = "either"]), match) /\ Keep

(* "Remove"; "Edit" also copies the value to the search field.             *)
RemoveValue(i, x) ==
  LET f == WithoutValue(list[i], x.v)
  IN  /\ x.obj \notin off
      /\ Edit(IF f.values = <<>> THEN WithoutKey(list, i) ELSE [list EXCEPT ![i] = f], match)
      /\ Keep

RemoveFilter(i) == Edit(WithoutKey(list, i), match) /\ Keep

(* "Disable" and "Enable" of a value.                                      *)
ToggleValue(x) ==
  /\ off' = IF x.obj \in off THEN off \ {x.obj} ELSE off \cup {x.obj}
  /\ UNCHANGED <<list, match, adds>>

(* A click on the name of a filter: its values are disabled if one is not. *)
ToggleFilter(f) ==
  LET objs == {x.obj : x \in ToSet(f.values)}
  IN  /\ off' = IF objs \subseteq off THEN off \ objs ELSE off \cup objs
      /\ UNCHANGED <<list, match, adds>>

(* "Swap".                                                                 *)
SwapAll ==
  /\ match # "bidirectional" /\ \E i \in DOMAIN list : list[i].def.side \in Ends
  /\ Edit(SwapFilters(list), match) /\ Keep

(* The dropdown between two filters of a group of chips, or between two of *)
(* the groups: only the latter offers "Bidirectional".                     *)
ChipGroups == {IF list[i].def.side \in Ends THEN list[i].def.side ELSE "common" : i \in DOMAIN list}
SetMatch(m) ==
  /\ IF m = "bidirectional" THEN Cardinality(ChipGroups) >= 2 ELSE Len(list) >= 2
  /\ Edit(IF m = "bidirectional" THEN SetEndpoint(list, "src") ELSE list, m) /\ Keep

(* toggleFilter, of a positive filter and of the value of an element.      *)
WithElement(def, v) ==
  LET i == WithKey(list, def, FALSE)
  IN  IF i = 0 THEN Append(list, [def |-> def, not |-> FALSE, values |-> <<Created(v)>>])
      ELSE [list EXCEPT ![i].values = Append(@, Created(v))]

(* The filter icon of an element of the topology, a toggle.                *)
FilterElement == \E def \in Def, v \in Values :
  /\ def.side # "either"
  /\ LET i == WithKey(list, def, FALSE)
         emptied == [list EXCEPT ![i] = WithoutValue(@, v)]
     IN  IF i # 0 /\ v \in Said(list[i])
           THEN Edit(At(emptied, {j \in DOMAIN list : emptied[j].values # <<>>}), match) /\ Keep
           ELSE Create /\ UNCHANGED off /\ Edit(WithElement(def, v), match)

(* The step into an element: its value becomes a source, both directions.  *)
StepInto == \E name \in Names, v \in Values :
  LET def == [side |-> "src", name |-> name]
      i == WithKey(list, def, FALSE)
  IN  /\ i # 0 => v \notin Said(list[i])
      /\ Create /\ UNCHANGED off
      /\ Edit(WithElement(def, v), "bidirectional")

Clear == list # <<>> /\ Edit(<<>>, "all") /\ Keep

(* What is kept of disabled values: one list for all filters with a key,   *)
(* of the last of them that has any.                                       *)
Disabled(f) == {x.v : x \in {y \in ToSet(f.values) : y.obj \in off}}

(* Mutant: the key does not tell "!=".                    *)
DisabledRecordById(f) ==
  LET i == SelectLastInSeq(list, LAMBDA g : g.def = f.def /\ Disabled(g) # {})
  IN  IF i = 0 THEN {} ELSE Disabled(list[i])

DisabledRecord(f) ==
  LET i == SelectLastInSeq(list, LAMBDA g : SameKey(f, g) /\ Disabled(g) # {})
  IN  IF i = 0 THEN {} ELSE Disabled(list[i])

(* The page is loaded again: the filters are read from the URL as they     *)
(* were written to it, each value a new object, and those that the browser *)
(* stores as disabled are marked so.                                       *)
Reload ==
  LET upTo[i \in 0..Len(list)] == IF i = 0 THEN 0 ELSE upTo[i - 1] + Len(list[i].values)
      total == upTo[Len(list)]
      read == [i \in DOMAIN list |-> [list[i] EXCEPT !.values =
                 [k \in DOMAIN @ |-> [v |-> @[k].v, obj |-> upTo[i - 1] + k]]]]
  IN  /\ list # <<>> /\ total <= MaxAdds
      /\ list' = read
      /\ adds' = Max({adds, total})
      /\ off' = UNION {{x.obj : x \in {y \in ToSet(read[i].values) : y.v \in DisabledRecord(list[i])}} : i \in DOMAIN list}
      /\ UNCHANGED match

Next ==
  \/ AddFilter \/ SwapAll \/ FilterElement \/ StepInto \/ Clear \/ Reload
  \/ \E m \in {"any", "all", "bidirectional"} : SetMatch(m)
  \/ \E i \in DOMAIN list : RemoveFilter(i) \/ ToggleFilter(list[i])
  \/ \E i \in DOMAIN list : \E x \in ToSet(list[i].values) :
       \/ RemoveValue(i, x) \/ ToggleValue(x) \/ EitherValue(list[i], x)
       \/ \E end \in Ends : MoveValue(list[i], x, end)

Spec == Init /\ [][Next]_vars

-----------------------------------------------------------------------------
(* What is queried: the enabled values of the filters that have any.       *)
On(f) == [def |-> f.def, not |-> f.not, values |-> {x.v : x \in {y \in ToSet(f.values) : y.obj \notin off}}]
Enabled == At([i \in DOMAIN list |-> On(list[i])], {i \in DOMAIN list : On(list[i]).values # {}})

(* The list is bound, so that what is enabled is worked out once.          *)
Displayed == UNION {Selected(RecordsText(enabled, match)) : enabled \in {Enabled}}
AllSaid == UNION {Said(list[i]) : i \in DOMAIN list}

Value == [v : Values, obj : 1..MaxAdds]
TypeOK ==
  /\ Len(list) <= MaxFilters
  /\ \A i \in DOMAIN list :
       /\ list[i].def \in Def /\ list[i].not \in BOOLEAN
       /\ list[i].values # <<>> /\ ToSet(list[i].values) \subseteq Value
  /\ match \in {"any", "all", "bidirectional"}
  /\ off \subseteq Objs(list) /\ adds \in 0..MaxAdds

(* The table and the graphs are about the same flows: the sum of the       *)
(* halves, less their overlap, counts a flow once if its record is         *)
(* displayed and not at all otherwise.                                     *)
MetricsAgree ==
  match # "any" =>
    Metrics(Enabled, match) = LET shown == Displayed IN [flow \in Flow |-> IF flow \in shown THEN 1 ELSE 0]

(* The list is well-formed, and what is displayed hangs together.          *)
FilterInv == TypeOK /\ MetricsAgree

(* "The traffic is matched in both directions": with a flow, its mirror    *)
(* image is displayed, unless a filter is already on either end.           *)
BothDirections ==
  match = "bidirectional" /\ (\A f \in ToSet(Enabled) : f.def.side # "either")
    => LET shown == Displayed IN \A flow \in shown : Mirror(flow) \in shown

(* "Swap" displays the mirror image of what was displayed, also when some  *)
(* filters are on either end and when some values are disabled.            *)
SwapAllMirrors == [][SwapAll => Displayed' = {Mirror(flow) : flow \in Displayed}]_vars

(* With AND, and in both directions, a new filter narrows what is          *)
(* displayed; with OR it extends it, if there was a filter before.         *)
NewFilterNarrows ==
  [][Len(list') > Len(list) /\ AddFilter =>
       IF match # "any" THEN Displayed' \subseteq Displayed
       ELSE Enabled # <<>> => Displayed \subseteq Displayed']_vars

(* What the user asks of the display is what it does.                      *)
EditsDisplayed == SwapAllMirrors /\ NewFilterNarrows

(* A change of direction or of the combination loses no value that the     *)
(* user entered, in whichever filter it ends up.                           *)
ValuesKept ==
  [][AllSaid' # AllSaid =>
       ~ \/ SwapAll \/ \E m \in {"any", "all", "bidirectional"} : SetMatch(m)
         \/ \E i \in DOMAIN list : \E x \in ToSet(list[i].values) :
              EitherValue(list[i], x) \/ \E end \in Ends : MoveValue(list[i], x, end)]_vars

(* A value that is moved to the other end leaves the filters of its own end *)
(* and joins those of the other, which keep the values that they had; this *)
(* where the filters on its field agree in their comparison, because they  *)
(* are looked up without it, and no other filter has its definition, as    *)
(* SetMatch leaves behind: the value is taken from the first one.          *)
MovesItsValue ==
  [][\A i \in DOMAIN list : \A x \in ToSet(list[i].values), end \in Ends :
       LET from == list[i].def
           SaidOn(l, side) == UNION {Said(f) : f \in {g \in ToSet(l) : g.def = [from EXCEPT !.side = side]}}
           Clashes(j) == list[j].def.name = from.name /\ (list[j].not # list[i].not \/ (list[j].def = from /\ j # i))
       IN  MoveValue(list[i], x, end) /\ (\A j \in DOMAIN list : ~Clashes(j)) =>
             /\ SaidOn(list', end) = SaidOn(list, end) \cup {x.v}
             /\ SaidOn(list', from.side) = SaidOn(list, from.side) \ {x.v}]_vars

(* No edit loses, adds or changes a value that it is not about.            *)
MovesKeepValues == ValuesKept /\ MovesItsValue

(* A page that is loaded again displays what it displayed, although the    *)
(* URL and the browser each hold a part of the filters; as long as no two  *)
(* filters have the same key and none says a value twice.                  *)
ReloadIsDisplayed ==
  [][Reload
       /\ (\A i, j \in DOMAIN list : SameKey(list[i], list[j]) => i = j)
       /\ (\A i \in DOMAIN list : Cardinality(Said(list[i])) = Len(list[i].values))
     => Displayed' = Displayed]_vars
=============================================================================
