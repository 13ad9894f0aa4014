---------------------------- MODULE TrafficFetch ----------------------------
(***************************************************************************)
(* What makes the Network Traffic page query its data, and what it does    *)
(* with the answers (web/src/utils/netflow-fetching-hook.ts, with the      *)
(* parts of netflow-traffic.tsx, the drawer and the tabs that it calls).   *)
(*                                                                         *)
(* Event handlers and promise callbacks change the state of the page, ui.  *)
(* React renders it later: Render commits ui to page, may create a new     *)
(* tick, and runs the effects.  A tick is a closure: it keeps the values   *)
(* of the render that created it until one of its dependencies changes.    *)
(***************************************************************************)
EXTENDS Naturals, SequencesExt

CONSTANTS
  Views,          \* tabs the user visits, among "overview", "table", "topology"
  Filters,        \* filters the user can set
  FilterEdits,    \* values of the filters the user can choose: [on, off]
  Presets,        \* presets (activeView): panels and columns of the tabs
  Scopes,         \* inputs that tick depends on: range, aggregation, metric
  Options,        \* inputs that only the query holds: limit, data source, ...
  NoColumn,       \* filters for which the configuration has no column
  MissingFields,  \* filters on a label that the Prometheus metrics lack
  UrlFilters,     \* the filters of the URL, or None
  Tabs,           \* whether it is a tab of a resource (forcedFilters, parentConfig)
  LokiEnabled,    \* the configuration has the Loki data source
  SideQuery,      \* each fetch has a second part (drops, histogram, totals)
  Failing,        \* tabs whose main query may be answered by an error
  Interval,       \* auto-refresh is on
  InOrder,        \* answers come in the order of the queries
  Hasty,          \* the user may act while a tick waits in setTimeout
  MaxChanges,     \* bound: changes that the user makes
  MaxQueries      \* bound: queries in flight when one more is asked by hand

None == [on |-> {}, off |-> {"none"}]
NoFilters == [on |-> {}, off |-> {}]
Nothing == [view |-> "none"]

ASSUME TrafficAssumption ==
  /\ Views \subseteq {"overview", "table", "topology"} /\ Views # {}
  /\ NoColumn \subseteq Filters /\ MissingFields \subseteq Filters
  /\ FilterEdits \subseteq [on : SUBSET Filters, off : SUBSET Filters]
  /\ UrlFilters \in FilterEdits \cup {None}
  /\ Failing \subseteq {"table", "topology"}
  /\ "all" \in Presets /\ Scopes # {} /\ Options # {}
  /\ {LokiEnabled, SideQuery, Interval, InOrder, Hasty} \subseteq BOOLEAN
  /\ Tabs \subseteq BOOLEAN /\ MaxChanges \in Nat /\ MaxQueries \in Nat

VARIABLES
  init,      \* initState: how far the page is initialised
  ui,        \* state of the page's components
  page,      \* ui at the last commit
  event,     \* an event of the user is not rendered yet
  tick,      \* the tick of the last commit
  urlPending,  \* the filters of the URL are being resolved
  timers,    \* ticks waiting in setTimeout
  queries,   \* queries in flight, oldest first
  asked,     \* history: what the last query asked for
  changes    \* number of changes made by the user

vars == <<init, ui, page, event, tick, urlPending, timers, queries, asked, changes>>

(* The configuration of a tab is given by its parent, not loaded.          *)
Tab == "configLoading" \notin init

Parts == IF SideQuery THEN {"main", "side"} ELSE {"main"}

(* What the page holds to display: flows for the table, main and side for  *)
(* the metrics of the other tabs (side also for the histogram).            *)
Stores == {"flows", "main", "side"}
Empty == [k \in Stores |-> Nothing]

(* The values a tick closes over: those of its dependencies, and the ones  *)
(* that are missing from its dependencies.                                 *)
Closure(u) == [view |-> u.view, scope |-> u.scope, modal |-> u.modal, loki |-> u.loki,
               filters |-> u.filters, error |-> u.error, popover |-> u.popover]
TickDeps(u) == <<u.view, u.scope, u.modal, u.loki>>
EffectDepsButPreset(u) == <<u.config>>                           \* mutant
EffectDeps(u) == <<u.config, u.preset>>

(* What a tab asks for when a page p fetches with the scope of a tick.     *)
Params(p, scope) == [view |-> p.view, on |-> IF Tab THEN {} ELSE p.filters.on, scope |-> scope,
                     option |-> p.option, preset |-> IF p.view = "overview" THEN p.preset ELSE "all"]
Wanted == Params(ui, ui.scope)

(* showFullError of the drawer: the tab is replaced by the error.          *)
FullError(p) ==
  /\ p.error # "none"
  /\ \/ p.error = "config"
     \/ p.view = "table"
     \/ p.view = "topology" /\ p.shown["main"] = Nothing

(* The handle through which dispatchFetch reaches the tab of a tick.       *)
HasHandle(c, p) ==
  /\ p.view = c.view
  /\ ~FullError(p)
  /\ c.view = "table" => c.loki

CanTickWhenIdle(c) ==                                            \* mutant
  /\ {"forcedFiltersLoaded", "configLoaded"} \subseteq init'
  /\ "configLoadError" \notin init'
  /\ ~c.modal /\ ~ui.loading

CanTick(c) ==
  /\ {"forcedFiltersLoaded", "configLoaded"} \subseteq init'
  /\ "configLoadError" \notin init'
  /\ ~c.modal

(* What a tab clears when it starts to fetch.                              *)
Cleared(view, shown) ==
  [shown EXCEPT !["flows"] = IF view = "table" THEN @ ELSE Nothing,
                !["main"] = IF ~SideQuery /\ view # "topology" THEN Nothing ELSE @,
                !["side"] = IF ~SideQuery THEN Nothing ELSE @]
StartFetch(view, now) == [now EXCEPT !.loading = TRUE, !.error = "none", !.shown = Cleared(view, now.shown)]

(* One call of the tick c, when the components' state is now and the other *)
(* waiting ticks are rest.                                                 *)
RunTick(c, now, rest) ==
  IF ~CanTick(c) THEN
    ui' = now /\ timers' = rest /\ UNCHANGED <<queries, asked>>
  ELSE IF ~page'.ready THEN
    ui' = now /\ timers' = rest \cup {c} /\ UNCHANGED <<queries, asked>>
  ELSE IF HasHandle(c, page') THEN
    /\ ui' = StartFetch(c.view, now)
    /\ asked' = Params(page', c.scope)
    /\ queries' = Append(queries, [asked |-> asked', left |-> Parts, failed |-> FALSE,
                                   filters |-> c.filters, popover |-> c.popover])
    /\ timers' = rest
  ELSE
    /\ ui' = [now EXCEPT !.loading = TRUE,
                         !.error = IF c.view = "table" /\ ~c.loki THEN "noLoki" ELSE "none"]
    /\ timers' = IF c.error # "none" THEN rest \cup {c} ELSE rest
    /\ UNCHANGED <<queries, asked>>

-----------------------------------------------------------------------------
(* After the first commit: the configuration is being loaded, or was given *)
(* by the parent; a preset of the URL replaces the stored one.             *)
Init ==
  /\ \E tab \in Tabs : init = {"initDone", IF tab THEN "configLoaded" ELSE "configLoading"}
  /\ \E v \in Views, s \in Scopes, o \in Options, stored, url \in Presets, r \in BOOLEAN :
       /\ page = [view |-> v, filters |-> NoFilters, fresh |-> FALSE, preset |-> stored,
                  scope |-> s, option |-> o, modal |-> FALSE, config |-> FALSE, loki |-> TRUE,
                  ready |-> r, error |-> "none", loading |-> TRUE, popover |-> FALSE,
                  shown |-> Empty]
       /\ ui = [page EXCEPT !.preset = IF url = "all" THEN stored ELSE url,
                            !.config = Tab, !.loki = IF Tab THEN LokiEnabled ELSE TRUE]
  /\ event = FALSE
  /\ tick = Closure(page)
  /\ urlPending = FALSE /\ timers = {} /\ queries = <<>> /\ asked = Nothing /\ changes = 0

-----------------------------------------------------------------------------
(* setFiltersFromURL, run by the validation of a new configuration.        *)
ReadUrlFilters(now) ==
  IF Tab THEN now
  ELSE IF UrlFilters # None THEN now
  ELSE [now EXCEPT !.preset = "all", !.filters = NoFilters, !.fresh = TRUE,
                   !.shown = Empty]

(* A commit and its effects: a new tick if a dependency changed, the fetch *)
(* effect if one of its inputs changed, then the effect on config.         *)
Render ==
  LET newTick    == TickDeps(ui) # TickDeps(page)
      newConfig  == ui.config # page.config
      newEffect  == newTick \/ ui.fresh \/ EffectDeps(ui) # EffectDeps(page)
      first      == newEffect /\ "forcedFiltersLoaded" \notin init
      now        == [ui EXCEPT !.fresh = FALSE]
      checked    == IF newConfig THEN ReadUrlFilters(now) ELSE now
      pending    == newConfig /\ ~Tab /\ UrlFilters # None
      ticks      == newEffect /\ ~(first /\ ~Tab) /\ "urlFiltersPending" \notin init
  IN  /\ ui # page
      /\ page' = now
      /\ event' = FALSE
      /\ tick' = IF newTick THEN Closure(ui) ELSE tick
      /\ init' = init \cup (IF first THEN {"forcedFiltersLoaded"} ELSE {})
                      \cup (IF pending THEN {"urlFiltersPending"} ELSE {})
      /\ urlPending' = (urlPending \/ pending)
      /\ IF ticks THEN RunTick(tick', checked, timers)
                  ELSE ui' = checked /\ UNCHANGED <<timers, queries, asked>>
      /\ UNCHANGED changes

(* Calls of the last tick: the refresh button, and the auto-refresh.       *)
CallTick ==
  /\ ~event
  /\ Len(queries) < MaxQueries
  /\ UNCHANGED <<init, page, tick, urlPending>>
  /\ RunTick(tick, ui, timers)

Refresh ==
  /\ page.ready /\ ui = page
  /\ changes < MaxChanges
  /\ changes' = changes + 1
  /\ CallTick
  /\ event' = (ui' # page)

Poll == Interval /\ UNCHANGED <<event, changes>> /\ CallTick

(* setTimeout(tick) *)
Timer ==
  /\ ~event
  /\ UNCHANGED <<init, page, event, tick, urlPending, changes>>
  /\ \E c \in timers : RunTick(c, ui, timers \ {c})

-----------------------------------------------------------------------------
(* The component renders nothing until its extensions are resolved.        *)
ExtensionsResolved ==
  /\ ~event
  /\ ~ui.ready
  /\ ui' = [ui EXCEPT !.ready = TRUE]
  /\ UNCHANGED <<init, page, event, tick, urlPending, timers, queries, asked, changes>>

ConfigAnswer ==
  /\ ~event
  /\ "configLoading" \in init /\ "configLoaded" \notin init
  /\ \E failed \in BOOLEAN :
       /\ init' = init \cup {"configLoaded"} \cup (IF failed THEN {"configLoadError"} ELSE {})
       /\ ui' = IF failed THEN [ui EXCEPT !.error = "config"]
                 ELSE [ui EXCEPT !.config = TRUE, !.loki = LokiEnabled]
  /\ UNCHANGED <<page, event, tick, urlPending, timers, queries, asked, changes>>

(* updateTableFilters *)
SetFilters(u, filters) == [u EXCEPT !.filters = filters, !.fresh = TRUE, !.shown = Empty]

UrlFiltersResolved ==
  /\ ~event
  /\ urlPending
  /\ urlPending' = FALSE
  /\ init' = init \ {"urlFiltersPending"}
  /\ ui' = SetFilters(ui, UrlFilters)
  /\ UNCHANGED <<page, event, tick, timers, queries, asked, changes>>

-----------------------------------------------------------------------------
(* React renders what precedes an event of the user before it handles it,  *)
(* and renders the event before anything else.                             *)
Shows(new) == ui' = new /\ event' = (new # page)

UserAction ==
  /\ ~event
  /\ page.ready /\ ui = page
  /\ Hasty \/ timers = {}
  /\ changes < MaxChanges
  /\ changes' = changes + 1
  /\ UNCHANGED <<page, tick, urlPending, timers, queries, asked>>

EditFilters ==
  /\ UserAction
  /\ ~Tab /\ page.config /\ ~ui.modal
  /\ init' = init \ {"urlFiltersPending"}
  /\ \E f \in FilterEdits : Shows(SetFilters(ui, f))

(* A dropdown or, for the range, its modal, which closes.                  *)
EditInputs ==
  /\ UserAction
  /\ UNCHANGED init
  /\ \/ \E p \in Presets : page.config /\ ~ui.modal /\ Shows([ui EXCEPT !.preset = p])
     \/ \E o \in Options : page.config /\ ~ui.modal /\ Shows([ui EXCEPT !.option = o])
     \/ \E s \in Scopes : Shows([ui EXCEPT !.scope = s, !.modal = FALSE])

ToggleModal ==
  /\ UserAction
  /\ UNCHANGED init
  /\ Shows([ui EXCEPT !.modal = ~@])

SelectView ==
  /\ UserAction
  /\ UNCHANGED init
  /\ \E v \in Views \ {ui.view} :
       Shows([ui EXCEPT !.view = v, !.modal = FALSE, !.shown = Empty,
                        !.error = IF "configLoadError" \in init THEN @ ELSE "none"])

-----------------------------------------------------------------------------
ReceivedAlone(q, part, left, shown) ==                           \* mutant
  [k \in Stores |-> IF k = part THEN q.asked ELSE Nothing]

(* Part of the answer to a query q, with left still to come, in the store. *)
Received(q, part, left, shown) ==
  CASE q.asked.view = "overview" ->
         [k \in Stores |-> IF k = "flows" THEN shown[k]
                           ELSE IF k \in Parts \ left THEN q.asked ELSE Nothing]
    [] q.asked.view = "table" /\ part = "main" -> [shown EXCEPT !["flows"] = q.asked]
    [] q.asked.view = "table" /\ part = "side" ->
         [shown EXCEPT !["main"] = Nothing, !["side"] = q.asked]
    [] q.asked.view = "topology" -> [shown EXCEPT ![part] = q.asked]

LacksLabels(q) == q.asked.view = "topology" /\ q.asked.on \cap MissingFields # {}

(* The promise of the whole query settles with its last part, or with the  *)
(* first error; the parts that are left still have their effect.           *)
Ended(i, left, failed) ==
  queries' = IF left = {} THEN RemoveAt(queries, i)
             ELSE [queries EXCEPT ![i].left = left, ![i].failed = failed]

UnloadedOnError(q, left) ==                                      \* mutant
  IF left = {} /\ q.failed THEN FALSE ELSE ui.loading
Unloaded(q, left) == IF left = {} /\ ~q.failed THEN FALSE ELSE ui.loading

PartSucceeds(i, part, q, left) ==
  /\ ~(part = "main" /\ LacksLabels(q))
  /\ ui' = [ui EXCEPT !.shown = Received(q, part, left, @), !.loading = Unloaded(q, left)]
  /\ Ended(i, left, q.failed)
  /\ UNCHANGED init

(* An error of the drops of the topology is shown; one of an overview or   *)
(* of a histogram is a part like another, that says so in its panel.       *)
SideFails(i, part, q, left) ==
  /\ part = "side" /\ q.asked.view = "topology"
  /\ ui' = [ui EXCEPT !.error = "side", !.loading = Unloaded(q, left)]
  /\ Ended(i, left, q.failed)
  /\ UNCHANGED init

(* handleQueryError: a missing label disables filters, once; another error *)
(* is displayed.  The filters and the message are those of the tick.       *)
MainFails(i, part, q, left) ==
  LET listed   == q.filters.on \cup q.filters.off
      disabled == listed \cap NoColumn
      filters  == [on |-> q.filters.on \ disabled, off |-> q.filters.off \cup disabled]
  IN  /\ part = "main"
      /\ q.asked.view \in Failing \/ LacksLabels(q)
      /\ IF LacksLabels(q) /\ ~q.popover /\ disabled # {}
         THEN /\ Len(queries) <= MaxQueries
              /\ init' = init \ {"urlFiltersPending"}
              /\ ui' = [SetFilters(ui, filters) EXCEPT !.popover = TRUE, !.loading = FALSE]
         ELSE /\ ui' = [ui EXCEPT !.shown = Empty, !.error = "query",
                                  !.popover = FALSE, !.loading = FALSE]
              /\ UNCHANGED init
      /\ Ended(i, left, TRUE)

Answer ==
  /\ ~event
  /\ UNCHANGED <<page, event, tick, urlPending, timers, asked, changes>>
  /\ \E i \in DOMAIN queries : \E part \in queries[i].left :
       LET q    == queries[i]
           left == q.left \ {part}
       IN  /\ InOrder => i = 1
           /\ \/ PartSucceeds(i, part, q, left)
              \/ SideFails(i, part, q, left)
              \/ MainFails(i, part, q, left)

-----------------------------------------------------------------------------
User == EditFilters \/ EditInputs \/ ToggleModal \/ SelectView \/ Refresh

Next ==
  \/ Render \/ Timer \/ Poll
  \/ ExtensionsResolved \/ ConfigAnswer \/ UrlFiltersResolved
  \/ User
  \/ Answer

(* React renders what changed, timers fire, and what was requested is      *)
(* answered; nothing obliges the user to act.                              *)
Fairness ==
  /\ WF_vars(Render) /\ WF_vars(Timer) /\ WF_vars(Poll)
  /\ WF_vars(ExtensionsResolved) /\ WF_vars(ConfigAnswer) /\ WF_vars(UrlFiltersResolved)
  /\ WF_vars(Answer)

Spec == Init /\ [][Next]_vars /\ Fairness

-----------------------------------------------------------------------------
Askable ==
  {Params([ui EXCEPT !.view = v, !.preset = p, !.option = o, !.filters.on = f], s) :
   v \in Views, p \in Presets, o \in Options, f \in SUBSET Filters, s \in Scopes}

TypeOK ==
  /\ init \subseteq {"initDone", "configLoading", "configLoaded", "configLoadError",
                     "forcedFiltersLoaded", "urlFiltersPending"}
  /\ {ui.view, page.view, tick.view} \subseteq Views
  /\ {ui.scope, page.scope, tick.scope} \subseteq Scopes
  /\ {ui.preset, page.preset} \subseteq Presets
  /\ ui.filters \in [on : SUBSET Filters, off : SUBSET Filters]
  /\ {ui.error, page.error, tick.error} \subseteq {"none", "config", "noLoki", "query", "side"}
  /\ \A i \in DOMAIN queries : queries[i].left \in (SUBSET Parts) \ {{}}
  /\ asked = Nothing \/ asked \in Askable

(* Nothing is left to render or to retry.                                  *)
Settled == ui = page /\ timers = {}

CanFetch ==
  /\ {"forcedFiltersLoaded", "configLoaded"} \subseteq init
  /\ {"configLoadError", "urlFiltersPending"} \cap init = {}
  /\ ui.ready /\ ~ui.modal

(* The last query asked for what the page wants, its options left aside.   *)
UpToOption(p) == [p EXCEPT !.option = Wanted.option]
Fetched == asked # Nothing /\ UpToOption(asked) = Wanted

(* Once all is rendered, the last query that was sent is the one of the    *)
(* current tab, filters, preset and range: no change is lost because a     *)
(* modal was open, the URL was being read or tick was out of date          *)
(* (the effect that calls tick, "refresh when inputs change").             *)
InputsFetched == Settled /\ CanFetch => Fetched

(* When nothing runs any more, the spinner is off (loading).               *)
IdleNotLoading == Settled /\ CanFetch /\ queries = <<>> => ~ui.loading

(* When all the answers are there, the tab displays the answer to the last *)
(* query, or an error (setFlows, setMetrics, setError).                    *)
Displayed == ui.shown[IF ui.view = "table" THEN "flows" ELSE "main"]
ShownIsCurrent ==
  Settled /\ CanFetch /\ queries = <<>> => ui.error # "none" \/ Displayed = asked

(* Loading is well-formed and ends with the queries: none that is waited   *)
(* for has all its parts, and none keeps the spinner on.                   *)
LoadingInv == TypeOK /\ IdleNotLoading

(* A change of the inputs is fetched in the end, unless the page stops     *)
(* being able to fetch (usePoll and the retries of tick).                  *)
ChangeFetched == (CanFetch /\ ~Fetched) ~> (Fetched \/ ~CanFetch)
=============================================================================
