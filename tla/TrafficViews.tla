---------------------------- MODULE TrafficViews ----------------------------
(***************************************************************************)
(* The views of the traffic page (components/netflow-traffic.tsx,          *)
(* model/views.ts, utils/netflow-capabilities-hook.ts): the Default view   *)
(* with the columns, the panels and the metric that the user selected, the *)
(* presets of the features, a draft that overrides one of them, and        *)
(* preferences on generic items that hold in all the views.                *)
(*                                                                         *)
(* An event of the user or a load changes state; effects then run, all on  *)
(* the state of one render, until no state changes any more.               *)
(***************************************************************************)
EXTENDS Integers, SequencesExt

CONSTANTS Columns,    \* the items of the configuration, in its order: ids of columns
          Panels,     \* and of panels of the overview
          Defaults,   \* the items that are selected by default
          FeatureOf,  \* the feature of an item, or "none" of a generic one
          Enabled,    \* features of the configuration
          Presets,    \* the views but the Default one: feature, columns, panels and metric
          MetricOf,   \* the metric that a feature adds to the topology
          MaxEdits    \* bounds the number of modals that are saved

Views == {"all"} \cup DOMAIN Presets
Parts == {"columns", "panels"}
Items(part) == IF part = "columns" THEN Columns ELSE Panels

Ids == ToSet(Columns) \cup ToSet(Panels)

(* A list has items of its kind, once.                                     *)
IsListOf(ids, part) == ids \in Seq(ToSet(Items(part))) /\ IsInjective(ids)

ASSUME ViewsAssumption ==
  /\ MaxEdits \in Nat
  /\ DOMAIN Presets \cap {"all", "none"} = {}
  /\ \A part \in Parts :
       /\ IsListOf(Items(part), part)
       /\ \A v \in DOMAIN Presets : IsListOf(Presets[v][part], part)

Generic(item) == FeatureOf[item] = "none"
Available(item) == FeatureOf[item] \in Enabled \cup {"none"}
AvailableViews == {"all"} \cup {v \in DOMAIN Presets : Presets[v].feature \in Enabled}

VARIABLES view,    \* the active view
          stored,  \* whether the browser stores it: it does once the view was set
          tab,
          metric,  \* of the topology
          saved,   \* the metric of the Default view
          draft,
          listed,  \* columns and panels in the order of the user, selected or not, as of the Default
                   \* view; of an order that is not stored, the storage keeps the selection
          prefs,   \* generic columns and panels that were added or removed
          loaded,  \* whether the configuration is
          pending, \* effects that the last render must run
          last,    \* what the user did last: the URL of a load, and what a property must know
          own,     \* the metric of the Default view as the user left it
          edits
vars == <<view, stored, tab, metric, saved, draft, listed, prefs, loaded, pending, last, own, edits>>

NoDraft == [base |-> "none", columns |-> <<>>, panels |-> <<>>, metric |-> "Bytes"]
NoPrefs == [added |-> <<>>, removed |-> {}]

(* The members of a set, in the order in which s has them.                 *)
Picked[p \in Seq(Ids) \X SUBSET Ids] ==
  LET upTo[n \in 0..Len(p[1])] ==
        IF n = 0 THEN <<>> ELSE IF p[1][n] \in p[2] THEN Append(upTo[n - 1], p[1][n]) ELSE upTo[n - 1]
  IN  upTo[Len(p[1])]
Only(s, S) == Picked[<<s, S>>]
Without(s, S) == Only(s, ToSet(s) \ S)

(* A list is that of the ids, of which some are selected.                  *)
Selected(list) == Only(list.ids, list.selected)
OfferedSet(part) == {id \in ToSet(listed[part].ids) : Available(id)}
Offered(part) == Only(listed[part].ids, OfferedSet(part))
DefaultList(part) == [ids |-> Items(part), selected |-> Defaults \cap ToSet(Items(part))]

(* A generic item follows the preferences, in any view without a draft.    *)
Kept(part, chosen) ==
  {id \in OfferedSet(part) :
     /\ ~(Generic(id) /\ id \in prefs[part].removed)
     /\ id \in chosen \/ (Generic(id) /\ id \in ToSet(prefs[part].added))}

(* The columns of a draft are shown in its order, its panels are not.      *)
ShownIn(v, part) ==
  IF draft.base = v
    THEN IF part = "columns" THEN Only(draft.columns, OfferedSet(part))
         ELSE Only(Offered(part), ToSet(draft.panels))
  ELSE Only(Offered(part), Kept(part, IF v = "all" THEN listed[part].selected ELSE ToSet(Presets[v][part])))
Shown(part) == ShownIn(view, part)

(* The metrics of the features, in the topology or in a view.              *)
Allowed == {"Bytes"} \cup {MetricOf[f] : f \in {g \in Enabled \cap DOMAIN MetricOf : tab = "topology" \/ view # "all"}}

-----------------------------------------------------------------------------
(* reconcileDraftWithGenericPrefs.                                         *)
Expected(d, part) ==
  Without(Presets[d.base][part], prefs[part].removed)
    \o Without(prefs[part].added, ToSet(Presets[d.base][part]) \ prefs[part].removed)

(* Of a column, its feature is known when it is available.                 *)
OfFeature(part) == {id \in ToSet(Items(part)) : ~Generic(id) /\ (part = "columns" => id \in OfferedSet(part))}
AddedItems(d, part) == Only(d[part], OfFeature(part) \ ToSet(Presets[d.base][part]))
RemovedItems(d, part) == (ToSet(Presets[d.base][part]) \cap OfFeature(part)) \ ToSet(d[part])

MatchesPreset(d) ==
  \A part \in Parts : AddedItems(d, part) = <<>> /\ RemovedItems(d, part) = {} /\ d[part] = Expected(d, part)

(* A column is put after those that precede it in the order of the user, a *)
(* panel at the end.                                                       *)
Earlier(id) ==
  LET order == listed["columns"].ids
      offered == OfferedSet("columns")
  IN  {y \in offered : id \in offered /\ \E i, j \in DOMAIN order : i < j /\ order[i] = y /\ order[j] = id}
Inserted[p \in Seq(Ids) \X Ids \X SUBSET Ids] ==
  InsertAt(p[1], SelectLastInSeq(p[1], LAMBDA y : y \in p[3]) + 1, p[2])

AllInserted(list, missing) ==
  LET with[n \in 0..Len(missing)] ==
        IF n = 0 THEN list ELSE Inserted[<<with[n - 1], missing[n], Earlier(missing[n])>>]
  IN  with[Len(missing)]

Arranged[p \in Parts \X Seq(Ids) \X Seq(Ids)] ==
  LET kept == Only(p[2], ToSet(p[3]))
      missing == Without(p[3], ToSet(p[2]))
  IN  IF p[1] = "columns" THEN AllInserted(kept, missing) ELSE kept \o missing

(* Mutant: what the user removed comes back. *)
RebuiltAll(d, part) == Arranged[<<part, d[part], Expected(d, part) \o AddedItems(d, part)>>]
Rebuilt(d, part) ==
  Arranged[<<part, d[part], Without(Expected(d, part) \o AddedItems(d, part), RemovedItems(d, part))>>]

Reconciled(d) == [d EXCEPT !.columns = Rebuilt(d, "columns"), !.panels = Rebuilt(d, "panels")]

(* Mutant: another object is another draft. *)
DiffersAlways(d, r) == TRUE
Differs(d, r) == \E part \in Parts : ToSet(d[part]) # ToSet(r[part])

-----------------------------------------------------------------------------
(* computeUpdatedGenericPrefs, of the items that a save has toggled.       *)

UpdatedPrefs(part, list) ==
  LET was == ToSet(Shown(part))
      toggled == {id \in ToSet(list.ids) : Generic(id) /\ (id \in list.selected) # (id \in was)}
      added == Without(prefs[part].added, toggled \ list.selected)
  IN  [added |-> added \o Without(Only(list.ids, toggled \cap list.selected), ToSet(added)),
       removed |-> (prefs[part].removed \ toggled) \cup (toggled \ list.selected)]

(* setColumnsWithDraft and setPanelsWithDraft: the other part and the      *)
(* metric are those of the draft that there is, whichever its view.        *)
WithDraft(part, list) ==
  IF Selected(list) = Shown(part) THEN draft
  ELSE LET was(other) == IF draft = NoDraft THEN Shown(other) ELSE draft[other]
       IN  [base |-> view,
            columns |-> IF part = "columns" THEN Selected(list) ELSE was("columns"),
            panels |-> IF part = "panels" THEN Selected(list) ELSE was("panels"),
            metric |-> IF draft = NoDraft THEN metric ELSE draft.metric]

-----------------------------------------------------------------------------
(* Effects whose dependencies have changed.                                *)
Changed ==
  {e \in {"saved", "metric", "view", "draft"} :
     \/ e \in {"saved", "metric", "view"} /\ view' # view
     \/ e \in {"saved", "metric"} /\ metric' # metric
     \/ e = "metric" /\ tab' # tab
     \/ e = "draft" /\ (prefs' # prefs \/ listed'["columns"] # listed["columns"])}

(* Mutant: the metric of any view is saved. *)
SavedAlways == metric
Saved == IF view = "all" THEN metric ELSE saved

(* Of the view, in "all", the metric that was saved; else that of its      *)
(* draft, or of the preset.                                                *)
MetricOfView(v, default) ==
  IF v = "all" THEN default
  ELSE IF draft.base = v THEN draft.metric ELSE Presets[v].metric

StoredList(part) ==
  LET selected == ToSet(Selected(listed[part]))
  IN  IF selected = {} THEN DefaultList(part) ELSE [ids |-> Items(part), selected |-> selected]

(* Every effect reads the state of the render; what is set last wins.      *)
Effects ==
  \E next \in {IF "draft" \in pending /\ draft # NoDraft THEN Reconciled(draft) ELSE draft} :
    LET reset == "config" \in pending /\ ~last.url.filters
        toAll == reset \/ ("view" \in pending /\ loaded /\ view \notin AvailableViews)
        forbidden == "metric" \in pending /\ loaded /\ metric \notin Allowed
        dropped == "draft" \in pending /\ draft # NoDraft /\ MatchesPreset(draft)
        updated == "draft" \in pending /\ draft # NoDraft /\ ~dropped /\ Differs(draft, next)
    IN  /\ pending # {}
        /\ saved' = IF "saved" \in pending THEN Saved ELSE saved
        /\ draft' = IF reset \/ dropped THEN NoDraft ELSE IF updated THEN next ELSE draft
        /\ view' = IF toAll THEN "all" ELSE view
        /\ stored' = (stored \/ toAll)
        /\ metric' = IF toAll THEN saved' ELSE IF forbidden THEN "Bytes" ELSE metric
        /\ listed' = IF "config" \in pending THEN [part \in Parts |-> StoredList(part)] ELSE listed
        /\ UNCHANGED <<tab, prefs, loaded, edits, last>>
        /\ pending' = Changed \cup {e \in {"draft"} : updated /\ ~reset}
        /\ own' = IF pending' = {} /\ view' = "all" THEN metric' ELSE own

-----------------------------------------------------------------------------
Urls == [view : Views, filters : BOOLEAN]
NoUrl == [view |-> "all", filters |-> FALSE]
Did(act) == [act |-> act, columns |-> <<>>, panels |-> <<>>, metric |-> "Bytes", url |-> NoUrl]

(* A load keeps what is stored.  The first render has the stored view, if  *)
(* any, and the view of the URL is set by an effect of it; otherwise it    *)
(* has the view of the URL, which is not stored.  The reference to the     *)
(* saved metric starts anew.                                               *)
FirstView(url) == IF stored THEN view ELSE url.view
LoadedView(url) == IF url.view # "all" THEN url.view ELSE FirstView(url)

Init ==
  /\ stored = FALSE /\ tab = "overview" /\ metric = "Bytes" /\ saved = "Bytes"
  /\ draft = NoDraft /\ listed = [part \in Parts |-> DefaultList(part)] /\ prefs = [part \in Parts |-> NoPrefs]
  /\ loaded = FALSE /\ pending = {}
  /\ edits = 0 /\ own = "Bytes"
  /\ \E url \in Urls : view = url.view /\ last = [Did("load") EXCEPT !.url = url]

Ready == loaded /\ pending = {}

Load(url) ==
  /\ Ready
  /\ view' = LoadedView(url)
  /\ saved' = IF FirstView(url) = "all" THEN metric ELSE "Bytes"
  /\ draft' = NoDraft /\ loaded' = FALSE
  /\ last' = [Did("load") EXCEPT !.url = url]
  /\ own' = saved'
  /\ UNCHANGED <<stored, tab, metric, listed, prefs, pending, edits>>

(* Metrics are allowed by features: the effect runs if one adds a metric.  *)
ConfigLoaded ==
  /\ ~loaded
  /\ loaded' = TRUE
  /\ pending' = {"config", "view", "draft"} \cup {e \in {"metric"} : Enabled \cap DOMAIN MetricOf # {}}
  /\ UNCHANGED <<view, stored, tab, metric, saved, draft, listed, prefs, edits, last, own>>

(* applyView.                                                              *)
SelectView(v) ==
  /\ Ready /\ v \in AvailableViews \ {view}
  /\ view' = v /\ stored' = TRUE /\ metric' = MetricOfView(v, saved)
  /\ last' = [Did("metric") EXCEPT !.metric = IF v = "all" THEN own
                                              ELSE IF draft.base = v THEN draft.metric ELSE Presets[v].metric]
  /\ UNCHANGED <<tab, saved, draft, listed, prefs, loaded, edits, own>>
  /\ pending' = Changed

SelectTab ==
  /\ Ready
  /\ tab' = IF tab = "overview" THEN "topology" ELSE "overview"
  /\ last' = Did("other")
  /\ UNCHANGED <<view, stored, metric, saved, draft, listed, prefs, loaded, edits, own>>
  /\ pending' = Changed

SelectMetric(m) ==
  /\ Ready /\ tab = "topology" /\ m \in Allowed \ {metric}
  /\ metric' = m
  /\ last' = Did("other")
  /\ UNCHANGED <<view, stored, tab, saved, draft, listed, prefs, loaded, edits, own>>
  /\ pending' = Changed

(* What a save must show: the list, and the other part as it was; of a     *)
(* draft of another view nothing is said.                                  *)
Chosen(part, list) ==
  IF view # "all" /\ draft.base \notin {"none", view} THEN Did("other")
  ELSE [Did("save") EXCEPT !.columns = IF part = "columns" THEN Selected(list) ELSE Shown("columns"),
                           !.panels = IF part = "panels" THEN Selected(list) ELSE Shown("panels")]

(* Mutant: a save in any view is one of the Default view. *)
ListedInAny(part, list) == [listed EXCEPT ![part] = list]
Listed(part, list) == IF view = "all" THEN [listed EXCEPT ![part] = list] ELSE listed

MayEdit == Ready /\ edits < MaxEdits

Save(part, list, newPrefs) ==
  /\ edits' = edits + 1
  /\ Selected(list) # <<>>
  /\ listed' = Listed(part, list)
  /\ draft' = IF view = "all" THEN draft ELSE WithDraft(part, list)
  /\ prefs' = [prefs EXCEPT ![part] = newPrefs]
  /\ last' = Chosen(part, list)
  /\ UNCHANGED <<view, stored, tab, metric, saved, loaded, own>>
  /\ pending' = Changed \cup {e \in {"draft"} : draft' # draft}

(* The lists of a modal: the available items, as they are shown, with one  *)
(* item toggled, or with the first one dragged to the end.                 *)
InModal(part) == [ids |-> Offered(part), selected |-> ToSet(Shown(part))]
Toggled(list, id) == [list EXCEPT !.selected = IF id \in @ THEN @ \ {id} ELSE @ \cup {id}]
Dragged(ids) == Append(Tail(ids), Head(ids))

SaveModal(part) ==
  /\ MayEdit /\ Offered(part) # <<>>
  /\ \E list \in {Toggled(InModal(part), id) : id \in OfferedSet(part)}
                   \cup {[InModal(part) EXCEPT !.ids = Dragged(@)]} :
       Save(part, list, UpdatedPrefs(part, list))

(* The header of the table: the columns that are shown, in another order,  *)
(* and then the others.                                                    *)
DragColumn ==
  LET shown == Dragged(Shown("columns"))
  IN  /\ MayEdit /\ Shown("columns") # <<>>
      /\ Save("columns", [ids |-> shown \o Without(Offered("columns"), ToSet(shown)), selected |-> ToSet(shown)],
              prefs["columns"])

(* "Restore defaults" of a modal: what the configuration selects, or, in a *)
(* view, first the items of the preset.                                    *)
ResetList(part) ==
  LET offered == OfferedSet(part)
      first == Only(Presets[view][part], offered)
  IN  IF view = "all" THEN [ids |-> Only(Items(part), offered), selected |-> Defaults \cap offered]
      ELSE [ids |-> first \o Without(Offered(part), ToSet(first)), selected |-> ToSet(first)]

(* "Restore default columns", then "Save".  The draft is dropped as well,  *)
(* and the Default view has all the columns, available or not.             *)
ResetColumns ==
  /\ MayEdit /\ edits' = edits + 1
  /\ Selected(ResetList("columns")) # <<>>
  /\ prefs' = [prefs EXCEPT !["columns"] = NoPrefs]
  /\ listed' = IF view = "all" THEN [listed EXCEPT !["columns"] = DefaultList("columns")] ELSE listed
  /\ draft' = NoDraft
  /\ last' = Did("other")
  /\ UNCHANGED <<view, stored, tab, metric, saved, loaded, own>>
  /\ pending' = Changed

(* "Restore default panels": in a view, those of the preset are a draft.   *)
ResetPanels == MayEdit /\ Save("panels", ResetList("panels"), NoPrefs)

(* "Discard changes".                                                      *)
Discard ==
  /\ Ready /\ draft # NoDraft /\ draft.base = view
  /\ metric' = Presets[draft.base].metric
  /\ draft' = NoDraft
  /\ last' = [Did("metric") EXCEPT !.metric = Presets[view].metric]
  /\ UNCHANGED <<view, stored, tab, saved, listed, prefs, loaded, edits, own>>
  /\ pending' = Changed

(* "Restore defaults".                                                     *)
RestoreDefaults ==
  /\ Ready /\ view = "all" /\ \E part \in Parts : listed[part] # DefaultList(part)
  /\ listed' = [part \in Parts |-> DefaultList(part)] /\ prefs' = [part \in Parts |-> NoPrefs]
  /\ last' = Did("other")
  /\ UNCHANGED <<view, stored, tab, metric, saved, draft, loaded, edits, own>>
  /\ pending' = Changed

(* resetDefaultFilters, of the toolbar.                                    *)
ResetFilters ==
  /\ Ready
  /\ draft' = NoDraft /\ view' = "all" /\ stored' = TRUE /\ metric' = saved
  /\ last' = IF view = "all" THEN Did("other") ELSE [Did("metric") EXCEPT !.metric = own]
  /\ UNCHANGED <<tab, saved, listed, prefs, loaded, edits, own>>
  /\ pending' = Changed

Next ==
  \/ Effects \/ ConfigLoaded
  \/ \E url \in Urls : Load(url)
  \/ \E v \in Views : SelectView(v)
  \/ SelectTab
  \/ \E m \in {"Bytes"} \cup {MetricOf[f] : f \in DOMAIN MetricOf} : SelectMetric(m)
  \/ \E part \in Parts : SaveModal(part)
  \/ DragColumn \/ ResetColumns \/ ResetPanels
  \/ Discard \/ RestoreDefaults \/ ResetFilters

(* React runs the effects of a render.                                     *)
Spec == Init /\ [][Next]_vars /\ WF_vars(Effects)
-----------------------------------------------------------------------------
(* Lists have items of their kind, once; a draft is one of a preset.       *)
TypeOK ==
  /\ view \in Views /\ stored \in BOOLEAN /\ tab \in {"overview", "topology"} /\ loaded \in BOOLEAN
  /\ draft = NoDraft \/ draft.base \in DOMAIN Presets
  /\ pending \subseteq {"config", "saved", "metric", "view", "draft"}
  /\ \A part \in Parts :
       /\ IsListOf(draft[part], part) /\ IsListOf(prefs[part].added, part)
       /\ IsListOf(listed[part].ids, part) /\ listed[part].selected \subseteq ToSet(listed[part].ids)
       /\ ToSet(prefs[part].added) \cap prefs[part].removed = {}

(* When the effects of a save have run, the columns and the panels are     *)
(* those that were selected, and the columns in the order in which they    *)
(* were left: neither the preferences nor the reconciliation of the draft  *)
(* with them take anything back.  A save in a view while the draft of      *)
(* another one is open is left out: the new draft takes the other part and *)
(* the metric of that one (prev?.panels, prev?.columns); and a draft whose *)
(* columns come to the order of the preset is dropped, though they were    *)
(* not shown in that order before it.                                      *)
SavedIsShown ==
  Ready /\ last.act = "save" =>
    /\ \A part \in Parts : ToSet(Shown(part)) = ToSet(last[part])
    /\ draft.base = view \/ view = "all" => Shown("columns") = last.columns

(* After a change of view the metric is the one of the Default view as the *)
(* user left it, however many views were visited in between, or that of    *)
(* the draft or of the preset, unless no feature provides it.              *)
MetricIsDue ==
  Ready /\ last.act = "metric" => metric = IF last.metric \in Allowed THEN last.metric ELSE "Bytes"

(* A link opens its view, "URL view param takes priority over localStorage *)
(* on initial load" (netflow-traffic.tsx:168), if that view is available.  *)
(* A link without filters is left out: the default filters replace the     *)
(* missing ones, and their reset selects the Default view.                 *)
UrlViewShown ==
  Ready /\ last.act = "load" /\ last.url.filters /\ last.url.view # "all" =>
    view = IF last.url.view \in AvailableViews THEN last.url.view ELSE "all"

(* The page is well-formed, and what was saved or linked is what is shown. *)
ViewsInv == TypeOK /\ SavedIsShown /\ UrlViewShown

(* A draft that the reconciliation drops is one that made no difference:   *)
(* what is shown stays.                                                    *)
ClearKeepsShown ==
  [][Effects /\ "config" \notin pending /\ draft # NoDraft /\ draft' = NoDraft =>
       \A part \in Parts : ToSet(Shown(part)') = ToSet(Shown(part))]_vars

(* What a save does to the items of features stays in the view: in any     *)
(* other one that has no draft, the same ones are shown as before.         *)
FeatureItems(v, part) == {id \in ToSet(ShownIn(v, part)) : ~Generic(id)}
FeaturesStayInView ==
  [][edits' > edits =>
       \A v \in AvailableViews \ {view, draft.base}, part \in Parts : FeatureItems(v, part)' = FeatureItems(v, part)]_vars

(* What the user did not touch stays as it was.                            *)
OthersKept == ClearKeepsShown /\ FeaturesStayInView

(* The effects come to an end: none sets what sets it off again, forever.  *)
Settles == (pending # {}) ~> (pending = {})
=============================================================================
