------------------------- MODULE TrafficFetch_proofs -------------------------
(***************************************************************************)
(* Theorems about TrafficFetch, for any filters, presets, ranges, options  *)
(* and URL, and any number of changes and queries: what the page wants is  *)
(* asked, its answer is displayed, and the spinner stops.                  *)
(*                                                                         *)
(* They are about a calm page: queries succeed and are answered in order,  *)
(* Loki is there, and the user does not act while a tick waits.  Without   *)
(* this, changes may be fetched by the next refresh only, which TLC shows  *)
(* (ChangeFetched).                                                        *)
(***************************************************************************)
EXTENDS TrafficFetch, SequenceTheorems, TLAPS

Calm ==
  /\ Failing = {} /\ MissingFields = {} /\ LokiEnabled /\ InOrder /\ ~Hasty
  /\ SideQuery => "topology" \notin Views

FilterT == [on : SUBSET Filters, off : SUBSET Filters]
Asking == [view : Views, on : SUBSET Filters, scope : Scopes, option : Options, preset : Presets]
Errors == {"none", "config"}
Ui == [view : Views, filters : FilterT, fresh : BOOLEAN, preset : Presets, scope : Scopes, option : Options,
       modal : BOOLEAN, config : BOOLEAN, loki : {TRUE}, ready : BOOLEAN, error : Errors, loading : BOOLEAN,
       popover : BOOLEAN, shown : [Stores -> Asking \cup {Nothing}]]
Tick == [view : Views, scope : Scopes, modal : BOOLEAN, loki : {TRUE}, filters : FilterT, error : Errors,
         popover : BOOLEAN]
Query == [asked : Asking, left : (SUBSET Parts) \ {{}}, failed : {FALSE}, filters : FilterT, popover : BOOLEAN]
InitStates == {"initDone", "configLoading", "configLoaded", "configLoadError", "forcedFiltersLoaded",
               "urlFiltersPending"}

(* What is asked, in the form of Params. *)
WellAsked(a) == a \in Asking /\ (Tab => a.on = {}) /\ (a.view # "overview" => a.preset = "all")

Types ==
  /\ init \subseteq InitStates
  /\ ui \in Ui /\ page \in Ui /\ ~page.fresh
  /\ event \in BOOLEAN /\ urlPending \in BOOLEAN
  /\ tick \in Tick /\ timers \subseteq Tick
  /\ queries \in Seq(Query)
  /\ asked = Nothing \/ WellAsked(asked)

(* A tick waits only if it can run, and no change can be made meanwhile;   *)
(* the last tick is that of the page.                                      *)
CanRun == {"forcedFiltersLoaded", "configLoaded"} \subseteq init /\ "configLoadError" \notin init
SamePage(u) == u.view = page.view /\ u.scope = page.scope
Ticks ==
  /\ TickDeps(tick) = TickDeps(page)
  /\ timers # {} => CanRun
  /\ \A c \in timers : SamePage(c) /\ ~c.modal
  /\ ~event \/ timers # {} => SamePage(ui) /\ ui.modal = page.modal

(* How far the page is initialised. *)
Initialised ==
  /\ ui.error = "config" \/ page.error = "config" \/ tick.error = "config" => "configLoadError" \in init
  /\ "configLoadError" \in init => "configLoaded" \in init
  /\ "configLoaded" \notin init => ~ui.config /\ ~page.config
  /\ CanRun \/ ("configLoaded" \in init /\ "configLoadError" \notin init) => ui.config
  /\ "forcedFiltersLoaded" \notin init => ~page.config
  /\ Tab => "configLoaded" \in init
  /\ urlPending => ~Tab /\ UrlFilters # None

(* A change that is not rendered, or what keeps the page from fetching,    *)
(* or the last query is that of the page.                                  *)
Pending == ui.fresh \/ EffectDeps(ui) # EffectDeps(page) \/ TickDeps(ui) # TickDeps(page)
Barred ==
  \/ ~CanRun
  \/ "urlFiltersPending" \in init
  \/ page.modal
ToOption(p, q) == [p EXCEPT !.option = q.option]
Sent == asked # Nothing /\ ToOption(asked, Params(page, page.scope)) = Params(page, page.scope)

(* Its answer is to come, or displayed. *)
Answering ==
  \/ Len(queries) >= 2
  \/ Len(queries) = 1 /\ "main" \in queries[1].left
  \/ Displayed = asked

Sending ==
  /\ ~ui.fresh => ui.filters = page.filters
  /\ Pending \/ timers # {} \/ Barred \/ (Sent /\ Answering)

Queue ==
  /\ queries # <<>> => asked # Nothing /\ queries[Len(queries)].asked = asked
  /\ \A i \in 2..Len(queries) : queries[i].left = Parts
  /\ asked # Nothing /\ queries = <<>> => ~ui.loading

IInv == Types /\ Ticks /\ Initialised /\ Sending /\ Queue

-----------------------------------------------------------------------------
(* What the operators return.                                              *)

LEMMA DepsFacts ==
  ASSUME NEW u, NEW v
  PROVE  /\ TickDeps(u) = TickDeps(v) <=> u.view = v.view /\ u.scope = v.scope /\ u.modal = v.modal /\ u.loki = v.loki
         /\ EffectDeps(u) = EffectDeps(v) <=> u.config = v.config /\ u.preset = v.preset
BY DEF TickDeps, EffectDeps

LEMMA PartsFacts == "main" \in Parts /\ Parts \in (SUBSET Parts) \ {{}} /\ Parts \subseteq Stores
BY DEF Parts, Stores

LEMMA ClosureFacts ==
  ASSUME NEW u \in Ui
  PROVE  Closure(u) \in Tick /\ TickDeps(Closure(u)) = TickDeps(u) /\ Closure(u).error = u.error
BY DEF Closure, Ui, Tick, TickDeps

(* The inputs that neither an answer nor the start of a fetch changes. *)
SameInputs(u, v) ==
  /\ u.view = v.view /\ u.scope = v.scope /\ u.modal = v.modal /\ u.loki = v.loki
  /\ u.filters = v.filters /\ u.fresh = v.fresh /\ u.preset = v.preset /\ u.option = v.option
  /\ u.config = v.config /\ u.ready = v.ready

LEMMA StartFetchFacts ==
  ASSUME NEW u \in Ui, NEW view
  PROVE  /\ StartFetch(view, u) \in Ui /\ SameInputs(StartFetch(view, u), u)
         /\ StartFetch(view, u).error = "none"
<1> DEFINE shown == Cleared(view, u.shown)
<1>1. shown \in [Stores -> Asking \cup {Nothing}]
  BY DEF Ui, Cleared
<1>2. StartFetch(view, u) = [u EXCEPT !.loading = TRUE, !.error = "none", !.shown = shown]
  BY DEF StartFetch
<1> HIDE DEF shown
<1> QED
  BY <1>1, <1>2, ZenonT(60) DEF Ui, Errors, SameInputs

LEMMA ParamsFacts ==
  ASSUME NEW p \in Ui, "all" \in Presets
  PROVE  WellAsked(Params(p, p.scope))
BY DEF WellAsked, Params, Asking, Ui, FilterT

(* What one call of a tick of the page may do. *)
Skips(c, now, rest) == ~CanTick(c) /\ ui' = now /\ timers' = rest /\ UNCHANGED <<queries, asked>>
Waits(c, now, rest) == CanTick(c) /\ ui' = now /\ timers' = rest \cup {c} /\ UNCHANGED <<queries, asked>>
Asks(c, now, rest) ==
  /\ CanTick(c) /\ timers' = rest
  /\ ui' = StartFetch(c.view, now)
  /\ asked' = Params(page', page'.scope)
  /\ queries' = Append(queries, [asked |-> asked', left |-> Parts, failed |-> FALSE,
                                 filters |-> c.filters, popover |-> c.popover])

LEMMA RunTickCases ==
  ASSUME NEW c \in Tick, NEW now, NEW rest, page' \in Ui,
         c.view = page'.view, c.scope = page'.scope, page'.error = "config" => "configLoadError" \in init',
         RunTick(c, now, rest)
  PROVE  Skips(c, now, rest) \/ Waits(c, now, rest) \/ Asks(c, now, rest)
<1>1. CASE ~CanTick(c)
  BY <1>1 DEF RunTick, Skips
<1>2. CASE CanTick(c) /\ ~page'.ready
  BY <1>2 DEF RunTick, Waits
<1>3. CASE CanTick(c) /\ page'.ready
  <2>1. page'.error = "none"
    BY <1>3 DEF CanTick, Ui, Errors
  <2>2. HasHandle(c, page')
    BY <2>1 DEF HasHandle, FullError, Tick
  <2> QED
    BY <1>3, <2>2 DEF RunTick, Asks
<1> QED
  BY <1>1, <1>2, <1>3

LEMMA CanTickFacts == \A c : CanTick(c) <=> CanRun' /\ ~c.modal
BY DEF CanTick, CanRun

LEMMA TypedConstants ==
  /\ "all" \in Presets /\ NoFilters \in FilterT /\ Empty \in [Stores -> Asking \cup {Nothing}]
  /\ FilterEdits \subseteq FilterT
  /\ UrlFilters # None => UrlFilters \in FilterT
BY TrafficAssumption DEF TrafficAssumption, NoFilters, FilterT, Empty

LEMMA InitIInv == Calm /\ Init => IInv
<1> SUFFICES ASSUME Calm, Init PROVE IInv
  OBVIOUS
<1>1. PICK v \in Views, s \in Scopes, o \in Options, stored, url \in Presets, r \in BOOLEAN :
        /\ page = [view |-> v, filters |-> NoFilters, fresh |-> FALSE, preset |-> stored,
                   scope |-> s, option |-> o, modal |-> FALSE, config |-> FALSE, loki |-> TRUE,
                   ready |-> r, error |-> "none", loading |-> TRUE, popover |-> FALSE,
                   shown |-> Empty]
        /\ ui = [page EXCEPT !.preset = IF url = "all" THEN stored ELSE url,
                             !.config = Tab, !.loki = IF Tab THEN LokiEnabled ELSE TRUE]
  BY DEF Init
<1>2. init = {"initDone", "configLoaded"} \/ init = {"initDone", "configLoading"}
  BY DEF Init
<1>3. Tab \in BOOLEAN /\ (Tab <=> "configLoaded" \in init)
  BY <1>2 DEF Tab
<1>3a. LokiEnabled = TRUE
  BY TrafficAssumption DEF TrafficAssumption, Calm
<1>4. page \in Ui /\ ~page.fresh /\ page.error = "none" /\ ~page.config /\ page.loki
  BY <1>1, TypedConstants DEF Ui, Errors
<1>5. ui \in Ui /\ ui.error = "none" /\ ui.config = Tab /\ SamePage(ui) /\ ui.modal = page.modal /\ ui.filters = page.filters
  <2> DEFINE pr == IF url = "all" THEN stored ELSE url
             tab == Tab
  <2>1. pr \in Presets /\ tab \in BOOLEAN
    BY <1>3
  <2>2. ui = [page EXCEPT !.preset = pr, !.config = tab, !.loki = TRUE]
    BY <1>1, <1>3a
  <2>3. tab = Tab
    OBVIOUS
  <2> HIDE DEF pr, tab
  <2>4. ui \in Ui
    BY <1>4, <2>1, <2>2 DEF Ui
  <2> QED
    BY <1>4, <2>1, <2>2, <2>3, <2>4 DEF Ui, SamePage
<1>6. tick \in Tick /\ TickDeps(tick) = TickDeps(page) /\ tick.error = "none"
  BY <1>4, ClosureFacts DEF Init
<1>7. Types
  <2>1. init \subseteq InitStates
    BY <1>2 DEF InitStates
  <2>2. queries \in Seq(Query) /\ timers \subseteq Tick
    BY DEF Init
  <2> QED
    BY <1>4, <1>5, <1>6, <2>1, <2>2 DEF Types, Init
<1>8. Ticks
  BY <1>5, <1>6 DEF Ticks, Init
<1>9. Initialised
  BY <1>2, <1>3, <1>4, <1>5, <1>6 DEF Initialised, Init, CanRun
<1>10. Sending
  BY <1>2, <1>5 DEF Sending, Barred, CanRun
<1>11. Queue
  BY DEF Queue, Init, Nothing
<1> QED
  BY <1>7, <1>8, <1>9, <1>10, <1>11 DEF IInv

(* A query that is asked for comes last, and waits for all its parts. *)
LEMMA AskedFacts ==
  ASSUME queries \in Seq(Query), NEW c \in Tick, NEW now, NEW rest, page' \in Ui, Asks(c, now, rest)
  PROVE  /\ queries' \in Seq(Query) /\ WellAsked(asked') /\ asked' # Nothing
         /\ Len(queries') = Len(queries) + 1
         /\ queries'[Len(queries')].asked = asked' /\ queries'[Len(queries')].left = Parts
         /\ \A i \in 1..Len(queries) : queries'[i] = queries[i]
<1> DEFINE q == [asked |-> asked', left |-> Parts, failed |-> FALSE, filters |-> c.filters, popover |-> c.popover]
<1>1. WellAsked(asked')
  BY ParamsFacts, TypedConstants DEF Asks
<1>2. asked' # Nothing
  BY <1>1 DEF WellAsked, Asking, Nothing
<1>3. q \in Query /\ q.asked = asked' /\ q.left = Parts
  BY <1>1, PartsFacts DEF WellAsked, Query, Tick
<1>4. queries' = Append(queries, q)
  BY DEF Asks
<1> HIDE DEF q
<1> QED
  BY <1>1, <1>2, <1>3, <1>4

-----------------------------------------------------------------------------
(* A tick that is called between two renders. *)
LEMMA TickStep ==
  ASSUME Calm, IInv, ~event, event' \in BOOLEAN, UNCHANGED <<init, page, tick, urlPending>>,
         NEW c \in Tick, NEW rest \in SUBSET timers, SamePage(c),
         c \in timers \/ (c.modal = page.modal /\ rest = timers),
         RunTick(c, ui, rest)
  PROVE  IInv'
<1>1. Types /\ Ticks /\ Initialised /\ Sending /\ Queue
  BY DEF IInv
<1>2. page' \in Ui /\ page' = page /\ Tab' = Tab /\ CanRun' = CanRun /\ init' = init
  BY <1>1 DEF Types, Tab, CanRun
<1>3. Skips(c, ui, rest) \/ Waits(c, ui, rest) \/ Asks(c, ui, rest)
  BY <1>1, <1>2, RunTickCases DEF SamePage, Initialised
<1>4. SamePage(ui) /\ ui.modal = page.modal /\ ui \in Ui /\ queries \in Seq(Query) /\ timers \subseteq Tick
  BY <1>1 DEF Ticks, Types
<1>5. ui' \in Ui /\ SameInputs(ui', ui) /\ ui'.error \in {ui.error, "none"}
  <2>1. CASE Asks(c, ui, rest)
    BY <2>1, <1>4, StartFetchFacts DEF Asks
  <2> QED
    BY <2>1, <1>3, <1>4 DEF Skips, Waits, SameInputs
<1>6. timers' \subseteq timers \cup (IF CanTick(c) THEN {c} ELSE {})
  BY <1>3 DEF Skips, Waits, Asks
<1>7. CanTick(c) <=> CanRun /\ ~c.modal
  BY <1>2, CanTickFacts
<1>8. Types'
  <2>1. queries' \in Seq(Query) /\ (asked' = Nothing \/ WellAsked(asked'))
    <3>1. CASE Asks(c, ui, rest)
      BY <3>1, <1>2, <1>4, AskedFacts
    <3> QED
      BY <3>1, <1>1, <1>3 DEF Skips, Waits, Types
  <2>2. asked' = Nothing \/ WellAsked(asked)'
    BY <2>1, <1>2 DEF WellAsked
  <2>3. timers' \subseteq Tick
    BY <1>4, <1>6
  <2> QED
    BY <2>1, <2>2, <2>3, <1>1, <1>2, <1>5 DEF Types
<1>9. Ticks'
  <2>1. TickDeps(tick)' = TickDeps(page)'
    BY <1>1 DEF Ticks, TickDeps
  <2>2. timers' # {} => CanRun'
    BY <1>1, <1>2, <1>6, <1>7 DEF Ticks
  <2>3. \A t \in timers' : SamePage(t)' /\ ~t.modal
    BY <1>1, <1>2, <1>6, <1>7 DEF Ticks, SamePage
  <2>4. SamePage(ui)' /\ ui'.modal = page'.modal
    BY <1>2, <1>4, <1>5 DEF SamePage, SameInputs
  <2> QED
    BY <2>1, <2>2, <2>3, <2>4 DEF Ticks
<1>10. Initialised'
  BY <1>1, <1>2, <1>5 DEF Initialised, SameInputs
<1>11. Sending'
  <2>1. Pending' = Pending /\ Barred' = Barred /\ (~ui'.fresh => ui'.filters = page'.filters)
    BY <1>1, <1>2, <1>5 DEF Pending, Barred, Sending, SameInputs, EffectDeps, TickDeps
  <2>2. CASE Asks(c, ui, rest)
    <3>1. asked' # Nothing /\ Len(queries') = Len(queries) + 1 /\ queries'[Len(queries')].left = Parts
      BY <2>2, <1>2, <1>4, AskedFacts
    <3>2. Sent'
      BY <2>2, <3>1, <1>2 DEF Sent, Asks, ToOption, Params
    <3>3. Answering'
      BY <3>1, <1>4, PartsFacts DEF Answering
    <3> QED
      BY <2>1, <3>2, <3>3 DEF Sending
  <2>3. CASE Waits(c, ui, rest)
    BY <2>1, <2>3 DEF Sending, Waits
  <2>4. CASE Skips(c, ui, rest)
    <3>1. CASE c \in timers
      BY <3>1, <2>4, <1>1, <1>7 DEF Skips, Ticks
    <3>2. CASE c.modal = page.modal /\ rest = timers
      <4>1. ui' = ui /\ timers' = timers /\ queries' = queries /\ asked' = asked
        BY <2>4, <3>2 DEF Skips
      <4>2. Sent' = Sent /\ Answering' = Answering
        BY <4>1, <1>2 DEF Sent, Params, Answering, Displayed
      <4> QED
        BY <4>1, <4>2, <2>1, <1>1 DEF Sending
    <3> QED
      BY <3>1, <3>2
  <2> QED
    BY <2>2, <2>3, <2>4, <1>3
<1>12. Queue'
  <2>1. CASE Asks(c, ui, rest)
    BY <2>1, <1>1, <1>2, <1>4, AskedFacts DEF Queue
  <2>2. CASE Skips(c, ui, rest) \/ Waits(c, ui, rest)
    BY <2>2, <1>1, <1>2 DEF Queue, Skips, Waits
  <2> QED
    BY <2>1, <2>2, <1>3
<1> QED
  BY <1>8, <1>9, <1>10, <1>11, <1>12 DEF IInv

LEMMA TimerStep == Calm /\ IInv /\ Timer => IInv'
<1> SUFFICES ASSUME Calm, IInv, Timer PROVE IInv'
  OBVIOUS
<1>1. PICK c \in timers : RunTick(c, ui, timers \ {c})
  BY DEF Timer
<1>2. c \in Tick /\ SamePage(c) /\ event \in BOOLEAN
  BY DEF IInv, Types, Ticks
<1> QED
  BY <1>1, <1>2, TickStep DEF Timer

LEMMA CallTickStep == Calm /\ IInv /\ CallTick /\ event' \in BOOLEAN => IInv'
<1> SUFFICES ASSUME Calm, IInv, CallTick, event' \in BOOLEAN PROVE IInv'
  OBVIOUS
<1>1. tick \in Tick /\ SamePage(tick) /\ tick.modal = page.modal
  BY DepsFacts DEF IInv, Types, Ticks, SamePage
<1> QED
  BY <1>1, TickStep DEF CallTick

-----------------------------------------------------------------------------
(* A change of what the page holds, that is not rendered yet: either it    *)
(* will be fetched, or it leaves what is fetched and displayed as it was.  *)
LEMMA ChangeStep ==
  ASSUME Calm, IInv, ~event, event' \in BOOLEAN,
         UNCHANGED <<page, tick, timers, queries, asked>>, urlPending' \in {urlPending, FALSE},
         init' \in {init, init \ {"urlFiltersPending"}},
         ui' \in Ui, ui'.error \in {ui.error, "none"}, ui'.config = ui.config, ui'.loading = ui.loading,
         ui'.fresh \/ (ui'.fresh = ui.fresh /\ ui'.filters = ui.filters),
         (ui'.view = ui.view /\ ui'.scope = ui.scope /\ ui'.modal = ui.modal)
           \/ (event' /\ timers = {}),
         Pending' \/ (init' = init /\ Pending' = Pending /\ ui'.shown = ui.shown /\ ui'.view = ui.view)
  PROVE  IInv'
<1>1. Types /\ Ticks /\ Initialised /\ Sending /\ Queue
  BY DEF IInv
<1>2. Tab' = Tab /\ CanRun' = CanRun /\ page' = page
  BY DEF Tab, CanRun
<1>3. WellAsked(asked)' <=> WellAsked(asked)
  BY <1>2 DEF WellAsked
<1>4. Types'
  BY <1>1, <1>2, <1>3 DEF Types
<1>5. Ticks'
  BY <1>1, <1>2 DEF Ticks, TickDeps, SamePage
<1>6. Initialised'
  <2>1. /\ "configLoaded" \in init' <=> "configLoaded" \in init
        /\ "configLoadError" \in init' <=> "configLoadError" \in init
        /\ "forcedFiltersLoaded" \in init' <=> "forcedFiltersLoaded" \in init
    OBVIOUS
  <2>2. ui'.error = "config" => ui.error = "config"
    OBVIOUS
  <2>3. urlPending' => urlPending
    OBVIOUS
  <2>4. (Tab' <=> Tab) /\ (CanRun' <=> CanRun) /\ page' = page /\ tick' = tick /\ ui'.config = ui.config
    BY <1>2
  <2>5. Initialised
    BY <1>1
  <2> QED
    BY ONLY <2>1, <2>2, <2>3, <2>4, <2>5 DEF Initialised
<1>7. Sending'
  <2>1. ~ui'.fresh => ui'.filters = page'.filters
    BY <1>1, <1>2 DEF Sending, Types, Ui
  <2>2. CASE Pending'
    BY <2>1, <2>2 DEF Sending
  <2>3. CASE init' = init /\ Pending' = Pending /\ ui'.shown = ui.shown /\ ui'.view = ui.view
    <3>1. Barred' = Barred /\ Sent' = Sent /\ Answering' = Answering
      BY <2>3, <1>2 DEF Barred, Sent, Params, Answering, Displayed
    <3> QED
      BY <2>1, <2>3, <3>1, <1>1 DEF Sending
  <2> QED
    BY <2>2, <2>3
<1>8. Queue'
  BY <1>1 DEF Queue
<1> QED
  BY <1>4, <1>5, <1>6, <1>7, <1>8 DEF IInv

LEMMA SetFiltersFacts ==
  ASSUME NEW u \in Ui, NEW filters \in FilterT
  PROVE  /\ SetFilters(u, filters) \in Ui /\ SetFilters(u, filters).fresh
         /\ \A f \in {"view", "scope", "modal", "config", "error", "loading"} :
              SetFilters(u, filters)[f] = u[f]
<1> DEFINE empty == Empty
<1>1. empty \in [Stores -> Asking \cup {Nothing}]
  BY TypedConstants
<1>2. SetFilters(u, filters) = [u EXCEPT !.filters = filters, !.fresh = TRUE, !.shown = empty]
  BY DEF SetFilters
<1> HIDE DEF empty
<1> QED
  BY <1>1, <1>2 DEF Ui

LEMMA UrlFiltersResolvedStep == Calm /\ IInv /\ UrlFiltersResolved => IInv'
<1> SUFFICES ASSUME Calm, IInv, UrlFiltersResolved PROVE IInv'
  OBVIOUS
<1>1. ui \in Ui /\ UrlFilters \in FilterT /\ event \in BOOLEAN
  <2>1. ui \in Ui /\ event \in BOOLEAN
    BY DEF IInv, Types
  <2>2. UrlFilters # None
    BY DEF IInv, Initialised, UrlFiltersResolved
  <2> QED
    BY <2>1, <2>2, TypedConstants
<1>2. ui' = SetFilters(ui, UrlFilters)
  BY DEF UrlFiltersResolved
<1>3. ui' \in Ui /\ ui'.fresh /\ ui'.view = ui.view /\ ui'.scope = ui.scope /\ ui'.modal = ui.modal
      /\ ui'.config = ui.config /\ ui'.error = ui.error /\ ui'.loading = ui.loading
  BY <1>1, <1>2, SetFiltersFacts
<1>4. Pending'
  BY <1>3 DEF Pending
<1> QED
  BY <1>1, <1>3, <1>4, ChangeStep DEF UrlFiltersResolved

LEMMA ExtensionsResolvedStep == Calm /\ IInv /\ ExtensionsResolved => IInv'
<1> SUFFICES ASSUME Calm, IInv, ExtensionsResolved PROVE IInv'
  OBVIOUS
<1>1. ui \in Ui /\ event \in BOOLEAN /\ ui' = [ui EXCEPT !.ready = TRUE]
  BY DEF IInv, Types, ExtensionsResolved
<1>2. ui' \in Ui /\ SameInputs([ui' EXCEPT !.ready = ui.ready], ui) /\ ui'.error = ui.error
      /\ ui'.loading = ui.loading /\ ui'.shown = ui.shown
  BY <1>1 DEF Ui, SameInputs
<1>3. /\ ui'.view = ui.view /\ ui'.scope = ui.scope /\ ui'.modal = ui.modal /\ ui'.loki = ui.loki
      /\ ui'.config = ui.config /\ ui'.preset = ui.preset /\ ui'.fresh = ui.fresh /\ ui'.filters = ui.filters
  BY <1>1 DEF Ui
<1>4. Pending' = Pending
  BY <1>3 DEF Pending, EffectDeps, TickDeps, ExtensionsResolved
<1> QED
  BY <1>1, <1>2, <1>3, <1>4, ChangeStep DEF ExtensionsResolved

(* What a user's event finds. *)
LEMMA UserFacts ==
  ASSUME Calm, IInv, UserAction, NEW new \in Ui, Shows(new)
  PROVE  /\ ~event /\ event' \in BOOLEAN /\ ui = page /\ timers = {} /\ ui' = new /\ (new # page => event')
         /\ new = page => event' = FALSE
         /\ ui \in Ui /\ ~ui.fresh
         /\ UNCHANGED <<page, tick, urlPending, timers, queries, asked>>
BY DEF Calm, IInv, Types, UserAction, Shows

LEMMA EditFiltersStep == Calm /\ IInv /\ EditFilters => IInv'
<1> SUFFICES ASSUME Calm, IInv, EditFilters PROVE IInv'
  OBVIOUS
<1>1. PICK f \in FilterEdits : Shows(SetFilters(ui, f))
  BY DEF EditFilters
<1>2. ui \in Ui /\ UserAction /\ init' = init \ {"urlFiltersPending"} /\ f \in FilterT
  BY TypedConstants DEF IInv, Types, EditFilters
<1> DEFINE new == SetFilters(ui, f)
<1>3. new \in Ui /\ new.fresh /\ new.view = ui.view /\ new.scope = ui.scope /\ new.modal = ui.modal
      /\ new.config = ui.config /\ new.error = ui.error /\ new.loading = ui.loading
  BY <1>2, SetFiltersFacts
<1>3a. Shows(new)
  BY <1>1
<1> HIDE DEF new
<1>4. ui' = new /\ ~event /\ event' \in BOOLEAN /\ UNCHANGED <<page, tick, urlPending, timers, queries, asked>>
  BY <1>2, <1>3, <1>3a, UserFacts
<1>5. Pending'
  BY <1>3, <1>4 DEF Pending
<1> QED
  BY <1>2, <1>3, <1>4, <1>5, ChangeStep

(* Any other change of the user. *)
LEMMA UserStep ==
  ASSUME Calm, IInv, UserAction, init' = init, NEW new \in Ui, Shows(new),
         new.error \in {ui.error, "none"}, new.config = ui.config, new.loki = ui.loki,
         new.loading = ui.loading, new.fresh = ui.fresh, new.filters = ui.filters,
         new.view # ui.view \/ (new.view = ui.view /\ new.shown = ui.shown)
  PROVE  IInv'
<1>1. /\ ~event /\ event' \in BOOLEAN /\ ui = page /\ timers = {} /\ ui' = new /\ (new # page => event')
      /\ ui \in Ui /\ ~ui.fresh
      /\ UNCHANGED <<page, tick, urlPending, timers, queries, asked>>
  BY UserFacts
<1>2. Pending <=> FALSE
  BY <1>1 DEF Pending
<1>3. Pending' \/ (Pending' = FALSE /\ new.view = ui.view)
  BY <1>1, DepsFacts DEF Pending, TickDeps
<1>4. (ui'.view = ui.view /\ ui'.scope = ui.scope /\ ui'.modal = ui.modal) \/ (event' /\ timers = {})
  BY <1>1
<1> QED
  BY <1>1, <1>2, <1>3, <1>4, ChangeStep

LEMMA EditInputsStep == Calm /\ IInv /\ EditInputs => IInv'
<1> SUFFICES ASSUME Calm, IInv, EditInputs PROVE IInv'
  OBVIOUS
<1>1. ui \in Ui /\ UserAction /\ init' = init
  BY DEF IInv, Types, EditInputs
<1>2. ASSUME NEW p \in Presets, Shows([ui EXCEPT !.preset = p]) PROVE IInv'
  BY <1>1, <1>2, UserStep DEF Ui
<1>3. ASSUME NEW o \in Options, Shows([ui EXCEPT !.option = o]) PROVE IInv'
  BY <1>1, <1>3, UserStep DEF Ui
<1>4. ASSUME NEW s \in Scopes, Shows([ui EXCEPT !.scope = s, !.modal = FALSE]) PROVE IInv'
  BY <1>1, <1>4, UserStep DEF Ui
<1> QED
  BY <1>2, <1>3, <1>4 DEF EditInputs

LEMMA ToggleModalStep == Calm /\ IInv /\ ToggleModal => IInv'
<1> SUFFICES ASSUME Calm, IInv, ToggleModal PROVE IInv'
  OBVIOUS
<1>1. ui \in Ui /\ UserAction /\ init' = init /\ Shows([ui EXCEPT !.modal = ~ui.modal])
  BY DEF IInv, Types, ToggleModal
<1> DEFINE modal == ~ui.modal
<1>2. modal \in BOOLEAN /\ Shows([ui EXCEPT !.modal = modal])
  BY <1>1
<1> HIDE DEF modal
<1> QED
  BY <1>1, <1>2, UserStep DEF Ui

LEMMA SelectViewStep == Calm /\ IInv /\ SelectView => IInv'
<1> SUFFICES ASSUME Calm, IInv, SelectView PROVE IInv'
  OBVIOUS
<1>1. ui \in Ui /\ UserAction /\ init' = init
  BY DEF IInv, Types, SelectView
<1>2. PICK v \in Views \ {ui.view} :
        Shows([ui EXCEPT !.view = v, !.modal = FALSE, !.shown = Empty,
                         !.error = IF "configLoadError" \in init THEN ui.error ELSE "none"])
  BY DEF SelectView
<1> DEFINE empty == Empty
           error == IF "configLoadError" \in init THEN ui.error ELSE "none"
<1>3. empty \in [Stores -> Asking \cup {Nothing}] /\ error \in {ui.error, "none"}
      /\ Shows([ui EXCEPT !.view = v, !.modal = FALSE, !.shown = empty, !.error = error])
  BY <1>2, TypedConstants
<1> HIDE DEF empty, error
<1> QED
  BY <1>1, <1>3, UserStep DEF Ui, Errors

LEMMA ConfigAnswerStep == Calm /\ IInv /\ ConfigAnswer => IInv'
<1> SUFFICES ASSUME Calm, IInv, ConfigAnswer PROVE IInv'
  OBVIOUS
<1>1. Types /\ Ticks /\ Initialised /\ Sending /\ Queue
  BY DEF IInv
<1>2. UNCHANGED <<page, event, tick, urlPending, timers, queries, asked>> /\ ~event
  BY DEF ConfigAnswer
<1>3. PICK failed \in BOOLEAN :
        /\ init' = init \cup {"configLoaded"} \cup (IF failed THEN {"configLoadError"} ELSE {})
        /\ ui' = IF failed THEN [ui EXCEPT !.error = "config"]
                  ELSE [ui EXCEPT !.config = TRUE, !.loki = LokiEnabled]
  BY DEF ConfigAnswer
<1>4. ~Tab /\ ~Tab' /\ ~CanRun /\ timers = {} /\ ~ui.config /\ ~page.config
  BY <1>1, <1>3 DEF Tab, CanRun, Initialised, Ticks, ConfigAnswer
<1>5. LokiEnabled = TRUE /\ ui \in Ui /\ page \in Ui
  BY <1>1, TrafficAssumption DEF TrafficAssumption, Calm, Types
<1>6. /\ ui' \in Ui /\ ui'.fresh = ui.fresh /\ ui'.filters = ui.filters /\ ui'.loading = ui.loading
      /\ SamePage(ui') /\ ui'.modal = page.modal
  BY <1>1, <1>2, <1>3, <1>5 DEF Ui, Errors, SamePage, Ticks
<1>7. Types'
  <2>1. init' \subseteq InitStates
    BY <1>1, <1>3 DEF Types, InitStates
  <2>2. asked = Nothing \/ WellAsked(asked)'
    BY <1>1, <1>2, <1>4 DEF Types, WellAsked
  <2> QED
    BY <2>1, <2>2, <1>1, <1>2, <1>6 DEF Types
<1>8. Ticks'
  BY <1>1, <1>2, <1>4, <1>6 DEF Ticks, TickDeps, SamePage
<1>9. Initialised' /\ (Pending' \/ Barred')
  <2>1. CASE failed
    <3>1. "configLoaded" \in init' /\ "configLoadError" \in init' /\ ui'.config = ui.config
      BY <2>1, <1>3, <1>5 DEF Ui
    <3>2. ~CanRun'
      BY <3>1 DEF CanRun
    <3>3. Initialised'
      BY <3>1, <3>2, <1>1, <1>2, <1>4 DEF Initialised
    <3> QED
      BY <3>2, <3>3 DEF Barred
  <2>2. CASE ~failed
    <3>1. /\ "configLoaded" \in init' /\ init' = init \cup {"configLoaded"}
          /\ ui'.config = TRUE /\ ui'.error = ui.error
      BY <2>2, <1>3, <1>5 DEF Ui
    <3>2. Pending'
      BY <3>1, <1>2, <1>4 DEF Pending, EffectDeps
    <3>3. Initialised'
      BY <3>1, <1>1, <1>2, <1>4 DEF Initialised
    <3> QED
      BY <3>2, <3>3
  <2> QED
    BY <2>1, <2>2
<1>10. Sending'
  BY <1>1, <1>2, <1>6, <1>9 DEF Sending
<1>11. Queue'
  BY <1>1, <1>2, <1>6 DEF Queue
<1> QED
  BY <1>7, <1>8, <1>9, <1>10, <1>11 DEF IInv

-----------------------------------------------------------------------------
(* What a render has read of the URL. *)
LEMMA ReadFacts ==
  ASSUME NEW u \in Ui, ~u.fresh
  PROVE  /\ ReadUrlFilters(u) \in Ui
         /\ \A f \in {"view", "scope", "modal", "loki", "config", "error", "loading", "ready"} :
              ReadUrlFilters(u)[f] = u[f]
         /\ ReadUrlFilters(u).fresh \/ ReadUrlFilters(u) = u
         /\ ReadUrlFilters(u).fresh <=> ~Tab /\ UrlFilters = None
<1> DEFINE empty == Empty
           none  == NoFilters
<1>1. empty \in [Stores -> Asking \cup {Nothing}] /\ none \in FilterT /\ "all" \in Presets
  BY TypedConstants
<1>2. ReadUrlFilters(u) = IF Tab \/ UrlFilters # None THEN u
                          ELSE [u EXCEPT !.preset = "all", !.filters = none, !.fresh = TRUE, !.shown = empty]
  BY DEF ReadUrlFilters
<1> HIDE DEF empty, none
<1> QED
  BY <1>1, <1>2, ZenonT(60) DEF Ui

LEMMA RenderStep == Calm /\ IInv /\ Render => IInv'
<1> SUFFICES ASSUME Calm, IInv, Render PROVE IInv'
  OBVIOUS
<1> DEFINE newTick   == TickDeps(ui) # TickDeps(page)
           newConfig == ui.config # page.config
           newEffect == newTick \/ ui.fresh \/ EffectDeps(ui) # EffectDeps(page)
           first     == newEffect /\ "forcedFiltersLoaded" \notin init
           now       == [ui EXCEPT !.fresh = FALSE]
           checked   == IF newConfig THEN ReadUrlFilters(now) ELSE now
           pending   == newConfig /\ ~Tab /\ UrlFilters # None
           ticks     == newEffect /\ ~(first /\ ~Tab) /\ "urlFiltersPending" \notin init
<1>1. Types /\ Ticks /\ Initialised /\ Sending /\ Queue
  BY DEF IInv
<1>2. /\ page' = now /\ event' = FALSE
      /\ tick' = (IF newTick THEN Closure(ui) ELSE tick)
      /\ init' = init \cup (IF first THEN {"forcedFiltersLoaded"} ELSE {})
                      \cup (IF pending THEN {"urlFiltersPending"} ELSE {})
      /\ urlPending' = (urlPending \/ pending)
      /\ IF ticks THEN RunTick(tick', checked, timers)
                  ELSE ui' = checked /\ UNCHANGED <<timers, queries, asked>>
  BY DEF Render
<1>3. newEffect <=> Pending
  BY DEF Pending
<1>4. ui \in Ui /\ page \in Ui /\ tick \in Tick /\ timers \subseteq Tick /\ queries \in Seq(Query)
  BY <1>1 DEF Types
<1>5. now \in Ui /\ ~now.fresh /\ SameInputs([now EXCEPT !.fresh = ui.fresh], ui)
      /\ now.shown = ui.shown /\ now.error = ui.error /\ now.loading = ui.loading
  BY <1>4 DEF Ui, SameInputs
<1>6. /\ now.view = ui.view /\ now.scope = ui.scope /\ now.modal = ui.modal /\ now.loki = ui.loki
      /\ now.filters = ui.filters /\ now.preset = ui.preset /\ now.option = ui.option
      /\ now.config = ui.config
  BY <1>4 DEF Ui
<1> HIDE DEF now
<1>7. /\ checked \in Ui /\ checked.view = now.view /\ checked.scope = now.scope /\ checked.modal = now.modal
      /\ checked.config = now.config /\ checked.error = now.error /\ checked.loading = now.loading
      /\ checked.fresh \/ checked = now
      /\ newConfig /\ ~Tab /\ UrlFilters = None => checked.fresh
  BY <1>5, ReadFacts
<1>8. /\ Tab' <=> Tab
      /\ "configLoaded" \in init' <=> "configLoaded" \in init
      /\ "configLoadError" \in init' <=> "configLoadError" \in init
      /\ "forcedFiltersLoaded" \in init' <=> "forcedFiltersLoaded" \in init \/ newEffect
      /\ "urlFiltersPending" \in init' <=> "urlFiltersPending" \in init \/ pending
      /\ init' \subseteq InitStates
  <2>1. init \subseteq InitStates
    BY <1>1 DEF Types
  <2> HIDE DEF newEffect, pending
  <2> QED
    BY <2>1, <1>2 DEF Tab, InitStates
<1>9. CanRun => CanRun'
  BY <1>8 DEF CanRun
<1>10. /\ tick' \in Tick /\ TickDeps(tick') = TickDeps(page') /\ tick'.error \in {ui.error, tick.error}
       /\ tick'.view = page'.view /\ tick'.scope = page'.scope /\ tick'.modal = page'.modal
  <2>1. TickDeps(now) = TickDeps(ui)
    BY <1>6 DEF TickDeps
  <2>2. TickDeps(tick) = TickDeps(page)
    BY <1>1 DEF Ticks
  <2>3. tick' \in Tick /\ TickDeps(tick') = TickDeps(page') /\ tick'.error \in {ui.error, tick.error}
    BY <2>1, <2>2, <1>2, <1>4, ClosureFacts
  <2> QED
    BY <2>3, DepsFacts
<1>11. page' \in Ui /\ page' = now
  BY <1>2, <1>5
<1> HIDE DEF checked, newEffect, pending, first
<1>12. \/ ticks /\ Skips(tick', checked, timers)
       \/ ticks /\ Waits(tick', checked, timers)
       \/ ticks /\ Asks(tick', checked, timers)
       \/ ~ticks /\ ui' = checked /\ UNCHANGED <<timers, queries, asked>>
  <2>1. page'.error = "config" => "configLoadError" \in init'
    BY <1>1, <1>5, <1>8, <1>11 DEF Initialised
  <2> HIDE DEF ticks
  <2> QED
    BY <2>1, <1>2, <1>10, <1>11, RunTickCases
<1>13. CanTick(tick') <=> CanRun' /\ ~page'.modal
  BY <1>10, CanTickFacts
<1>14. /\ ui' \in Ui /\ SamePage(ui)' /\ ui'.modal = page'.modal /\ ui'.config = page'.config
       /\ ui'.error \in {ui.error, "none"} /\ ui'.fresh = checked.fresh /\ ui'.filters = checked.filters
       /\ Asks(tick', checked, timers) \/ ui' = checked
  <2>1. CASE Asks(tick', checked, timers)
    <3>1. ui' = StartFetch(tick'.view, checked)
      BY <2>1 DEF Asks
    <3> QED
      BY <2>1, <3>1, <1>5, <1>6, <1>7, <1>11, StartFetchFacts DEF SameInputs, SamePage
  <2>2. CASE ui' = checked
    BY <2>2, <1>5, <1>7, <1>11 DEF SamePage
  <2> QED
    BY <2>1, <2>2, <1>12 DEF Skips, Waits
<1>15. /\ timers' = timers \/ (CanTick(tick') /\ timers' = timers \cup {tick'})
       /\ Asks(tick', checked, timers) \/ (queries' = queries /\ asked' = asked)
  BY <1>12 DEF Skips, Waits, Asks
<1>16. Asks(tick', checked, timers) =>
         /\ queries' \in Seq(Query) /\ WellAsked(asked') /\ asked' # Nothing
         /\ Len(queries') = Len(queries) + 1
         /\ queries'[Len(queries')].asked = asked' /\ queries'[Len(queries')].left = Parts
         /\ \A i \in 1..Len(queries) : queries'[i] = queries[i]
  BY <1>4, <1>10, <1>11, AskedFacts
<1>17. Types'
  <2>1. queries' \in Seq(Query) /\ (asked' = Nothing \/ WellAsked(asked)')
    BY <1>1, <1>8, <1>15, <1>16 DEF Types, WellAsked
  <2>2. urlPending' \in BOOLEAN /\ event' \in BOOLEAN
    BY <1>2
  <2> QED
    BY <2>1, <2>2, <1>4, <1>5, <1>8, <1>10, <1>11, <1>14, <1>15 DEF Types
<1>18. Ticks'
  <2>1. timers' # {} => CanRun'
    BY <1>1, <1>9, <1>13, <1>15 DEF Ticks
  <2>2. \A t \in timers : SamePage(t)' /\ ~t.modal
    BY <1>1, <1>6, <1>11 DEF Ticks, SamePage
  <2>3. \A t \in timers' : SamePage(t)' /\ ~t.modal
    BY <2>2, <1>10, <1>13, <1>15 DEF SamePage
  <2> QED
    BY <2>1, <2>3, <1>10, <1>14 DEF Ticks
<1>19. Initialised'
  <2>1. ui'.error = "config" \/ page'.error = "config" \/ tick'.error = "config" => "configLoadError" \in init'
    BY <1>1, <1>5, <1>8, <1>10, <1>11, <1>14 DEF Initialised
  <2>2. "configLoaded" \notin init' => ~ui'.config /\ ~page'.config
    BY <1>1, <1>6, <1>8, <1>11, <1>14 DEF Initialised
  <2>3. "configLoaded" \in init' /\ "configLoadError" \notin init' => ui'.config
    BY <1>1, <1>6, <1>8, <1>11, <1>14 DEF Initialised
  <2>4. "forcedFiltersLoaded" \notin init' => ~page'.config
    BY <1>1, <1>6, <1>8, <1>11 DEF Initialised, newEffect, EffectDeps
  <2>5. urlPending' => ~Tab' /\ UrlFilters # None
    BY <1>1, <1>2, <1>8 DEF Initialised, pending
  <2>6. ("configLoadError" \in init' => "configLoaded" \in init') /\ (Tab' => "configLoaded" \in init')
    BY <1>1, <1>8 DEF Initialised
  <2> QED
    BY <2>1, <2>2, <2>3, <2>4, <2>5, <2>6 DEF Initialised, CanRun
<1>20. Sending'
  <2>1. ~ui'.fresh => ui'.filters = page'.filters
    BY <1>7, <1>11, <1>14
  <2>2. CASE ~newEffect
    <3>1. /\ ui.view = page.view /\ ui.scope = page.scope /\ ui.modal = page.modal /\ ui.config = page.config
          /\ ui.preset = page.preset /\ ~ui.fresh
      BY <2>2, DepsFacts DEF newEffect
    <3>2. ui.filters = page.filters
      BY <3>1, <1>1 DEF Sending
    <3>3. ui' = now /\ timers' = timers /\ queries' = queries /\ asked' = asked
      BY <2>2, <3>1, <1>12 DEF checked
    <3>4. ~pending /\ (CanRun' => CanRun)
      BY <2>2, <3>1, <1>8 DEF pending, CanRun
    <3>5. Barred => Barred'
      BY <3>1, <3>4, <1>6, <1>8, <1>11 DEF Barred
    <3>7. Sent => Sent'
      BY <3>1, <3>2, <3>3, <1>6, <1>8, <1>11 DEF Sent, Params, ToOption
    <3>8. Answering => Answering'
      BY <3>1, <3>3, <1>5, <1>6 DEF Answering, Displayed
    <3> QED
      BY <2>1, <2>2, <3>3, <3>5, <3>7, <3>8, <1>1, <1>3 DEF Sending
  <2>3. CASE newEffect /\ ~ticks
    <3>1. CASE "urlFiltersPending" \in init
      BY <3>1, <2>1, <1>8 DEF Sending, Barred
    <3>2. CASE first /\ ~Tab
      <4>1. ~page.config
        BY <3>2, <1>1 DEF first, Initialised
      <4>2. CASE ~CanRun'
        BY <4>2, <2>1 DEF Sending, Barred
      <4>3. CASE CanRun'
        <5>1. newConfig
          BY <4>1, <4>3, <1>1, <1>8 DEF Initialised, CanRun
        <5>2. CASE UrlFilters = None
          BY <5>1, <5>2, <3>2, <2>1, <1>7, <1>14 DEF Sending, Pending
        <5>3. CASE UrlFilters # None
          BY <5>1, <5>3, <3>2, <2>1, <1>8 DEF Sending, Barred, pending
        <5> QED
          BY <5>2, <5>3
      <4> QED
        BY <4>2, <4>3
    <3> QED
      BY <2>3, <3>1, <3>2
  <2>4. CASE ticks
    <3>1. CASE Asks(tick', checked, timers)
      <4>1. asked' = Params(page', page'.scope)
        BY <3>1 DEF Asks
      <4>2. Sent'
        BY <4>1, <3>1, <1>8, <1>16 DEF Sent, Params, ToOption
      <4>3. Answering'
        BY <3>1, <1>4, <1>16, PartsFacts DEF Answering
      <4> QED
        BY <2>1, <4>2, <4>3 DEF Sending
    <3>2. CASE Waits(tick', checked, timers)
      BY <3>2, <2>1 DEF Waits, Sending
    <3>3. CASE Skips(tick', checked, timers)
      BY <3>3, <2>1, <1>13 DEF Skips, Sending, Barred
    <3> QED
      BY <2>4, <3>1, <3>2, <3>3, <1>12
  <2> QED
    BY <2>2, <2>3, <2>4
<1>21. Queue'
  <2>1. CASE Asks(tick', checked, timers)
    BY <2>1, <1>1, <1>4, <1>16 DEF Queue
  <2>2. CASE ~Asks(tick', checked, timers)
    BY <2>2, <1>1, <1>5, <1>7, <1>14, <1>15 DEF Queue
  <2> QED
    BY <2>1, <2>2
<1> QED
  BY <1>17, <1>18, <1>19, <1>20, <1>21 DEF IInv

-----------------------------------------------------------------------------
(* What is left of the queries when the first is answered. *)
LEMMA FirstRemoved ==
  ASSUME NEW S, NEW s \in Seq(S), s # <<>>
  PROVE  /\ RemoveAt(s, 1) \in Seq(S) /\ Len(RemoveAt(s, 1)) = Len(s) - 1
         /\ \A j \in 1..(Len(s) - 1) : RemoveAt(s, 1)[j] = s[j + 1]
<1>1. Len(s) \in Nat /\ Len(s) >= 1
  OBVIOUS
<1>2. SubSeq(s, 1, 0) = <<>>
  OBVIOUS
<1> DEFINE t == SubSeq(s, 2, Len(s))
<1>3. t \in Seq(S) /\ Len(t) = Len(s) - 1 /\ \A j \in 1..(Len(s) - 1) : t[j] = s[j + 1]
  <2>1. \A i \in 2..Len(s) : s[i] \in S
    BY <1>1
  <2>2. /\ t \in Seq(S) /\ Len(t) = IF 2 <= Len(s) THEN Len(s) - 2 + 1 ELSE 0
        /\ \A i \in 1..(Len(s) - 2 + 1) : t[i] = s[2 + i - 1]
    BY <1>1, <2>1, SubSeqProperties
  <2>3. Len(s) - 2 + 1 = Len(s) - 1 /\ (2 <= Len(s) \/ Len(s) - 1 = 0)
    <3> DEFINE n == Len(s)
    <3>1. n \in Nat /\ n >= 1
      BY <1>1
    <3> HIDE DEF n
    <3>2. n - 2 + 1 = n - 1 /\ (2 <= n \/ n - 1 = 0)
      BY ONLY <3>1
    <3> QED
      BY <3>2 DEF n
  <2> HIDE DEF t
  <2>4. ASSUME NEW j \in 1..(Len(s) - 1) PROVE t[j] = s[j + 1]
    <3>1. j \in 1..(Len(s) - 2 + 1) /\ 2 + j - 1 = j + 1
      BY <1>1
    <3>2. t[j] = s[2 + j - 1]
      BY <2>2, <3>1
    <3> QED
      BY <3>1, <3>2
  <2> QED
    BY <1>1, <2>2, <2>3, <2>4
<1>4. RemoveAt(s, 1) = <<>> \o t
  BY <1>1, <1>2 DEF RemoveAt
<1> HIDE DEF t
<1>5. <<>> \o t = t
  BY <1>3, ConcatEmptySeq
<1> QED
  BY <1>3, <1>4, <1>5

LEMMA AnswerStep == Calm /\ IInv /\ Answer => IInv'
<1> SUFFICES ASSUME Calm, IInv, Answer PROVE IInv'
  OBVIOUS
<1>1. Types /\ Ticks /\ Initialised /\ Sending /\ Queue
  BY DEF IInv
<1>2. ~event /\ UNCHANGED <<page, event, tick, urlPending, timers, asked, changes>>
  BY DEF Answer
<1> DEFINE q == queries[1]
<1>3. queries # <<>> /\ \E part \in q.left :
        \/ PartSucceeds(1, part, q, q.left \ {part})
        \/ SideFails(1, part, q, q.left \ {part})
        \/ MainFails(1, part, q, q.left \ {part})
  <2>1. PICK i \in DOMAIN queries : \E part \in queries[i].left :
        /\ InOrder => i = 1
        /\ \/ PartSucceeds(i, part, queries[i], queries[i].left \ {part})
           \/ SideFails(i, part, queries[i], queries[i].left \ {part})
           \/ MainFails(i, part, queries[i], queries[i].left \ {part})
    BY DEF Answer
  <2>2. i = 1 /\ queries \in Seq(Query) /\ i \in 1..Len(queries)
    BY <2>1, <1>1 DEF Calm, Types
  <2>3. queries # <<>>
    BY <2>2
  <2> QED
    BY <2>1, <2>2, <2>3
<1>4. ui \in Ui /\ queries \in Seq(Query) /\ q \in Query
  BY <1>1, <1>3 DEF Types
<1>5. PICK part \in q.left : PartSucceeds(1, part, q, q.left \ {part})
  <2>1. PICK part \in q.left : \/ PartSucceeds(1, part, q, q.left \ {part})
                               \/ SideFails(1, part, q, q.left \ {part})
                               \/ MainFails(1, part, q, q.left \ {part})
    BY <1>3
  <2>2. part \in Parts /\ q.asked.view \in Views
    BY <1>4 DEF Query, Asking
  <2>3. ~SideFails(1, part, q, q.left \ {part})
    BY <2>2 DEF SideFails, Parts, Calm
  <2>4. ~MainFails(1, part, q, q.left \ {part})
    BY DEF MainFails, LacksLabels, Calm
  <2> QED
    BY <2>1, <2>3, <2>4
<1> DEFINE left  == q.left \ {part}
           shown == Received(q, part, left, ui.shown)
           loading == Unloaded(q, left)
<1>6. q.failed = FALSE /\ q.left \subseteq Parts /\ part \in Parts /\ q.asked \in Asking /\ q.asked.view \in Views
      /\ part \in Stores
  BY <1>4, PartsFacts DEF Query, Asking
<1>7. /\ ui' = [ui EXCEPT !.shown = shown, !.loading = loading]
      /\ queries' = IF left = {} THEN RemoveAt(queries, 1)
                    ELSE [queries EXCEPT ![1].left = left, ![1].failed = FALSE]
      /\ init' = init
  BY <1>5, <1>6 DEF PartSucceeds, Ended
<1> HIDE DEF left, shown, loading
<1>8. shown \in [Stores -> Asking \cup {Nothing}]
  <2>1. ui.shown \in [Stores -> Asking \cup {Nothing}]
    BY <1>4 DEF Ui
  <2>2. q.asked.view \in {"overview", "table", "topology"} /\ part \in {"main", "side"}
    BY <1>6, TrafficAssumption DEF TrafficAssumption, Parts
  <2>3. CASE q.asked.view = "overview"
    BY <2>1, <2>3, <1>6 DEF shown, Received
  <2>4. CASE q.asked.view = "table" /\ part = "main"
    BY <2>1, <2>4, <1>6 DEF shown, Received, Stores
  <2>5. CASE q.asked.view = "table" /\ part = "side"
    BY <2>1, <2>5, <1>6 DEF shown, Received, Stores
  <2>6. CASE q.asked.view = "topology"
    BY <2>1, <2>6, <1>6 DEF shown, Received, Stores
  <2> QED
    BY <2>2, <2>3, <2>4, <2>5, <2>6
<1>9. loading \in BOOLEAN /\ (left = {} => loading = FALSE)
  BY <1>4, <1>6 DEF loading, Unloaded, Ui
<1>10. /\ ui' \in Ui /\ SameInputs(ui', ui) /\ ui'.error = ui.error
       /\ ui'.shown = shown /\ ui'.loading = loading
  BY <1>4, <1>7, <1>8, <1>9 DEF Ui, SameInputs
<1>11. left \subseteq Parts /\ left \subseteq q.left
  BY <1>6 DEF left
<1>12. /\ queries' \in Seq(Query)
       /\ left = {} => /\ Len(queries') = Len(queries) - 1
                       /\ \A j \in 1..(Len(queries) - 1) : queries'[j] = queries[j + 1]
       /\ left # {} => /\ Len(queries') = Len(queries)
                       /\ queries'[1].left = left /\ queries'[1].asked = q.asked
                       /\ \A j \in 2..Len(queries) : queries'[j] = queries[j]
  <2>1. CASE left = {}
    BY <2>1, <1>3, <1>4, <1>7, FirstRemoved
  <2>2. CASE left # {}
    <3> DEFINE r == [q EXCEPT !.left = left, !.failed = FALSE]
    <3>1. r \in Query /\ r.left = left /\ r.asked = q.asked
      BY <2>2, <1>4, <1>11 DEF Query
    <3>2. queries' = [queries EXCEPT ![1] = r]
      BY <2>2, <1>7
    <3> HIDE DEF r
    <3> QED
      BY <2>2, <3>1, <3>2, <1>3, <1>4
  <2> QED
    BY <2>1, <2>2
<1>13. Tab' = Tab /\ CanRun' = CanRun /\ page' = page
  BY <1>2, <1>7 DEF Tab, CanRun
<1>14. Types'
  <2>1. asked' = Nothing \/ WellAsked(asked)'
    BY <1>1, <1>2, <1>13 DEF Types, WellAsked
  <2> QED
    BY <2>1, <1>1, <1>2, <1>7, <1>10, <1>12 DEF Types
<1>15. Ticks'
  BY <1>1, <1>2, <1>10, <1>13 DEF Ticks, TickDeps, SamePage, SameInputs
<1>16. Initialised'
  BY <1>1, <1>2, <1>7, <1>10, <1>13 DEF Initialised, SameInputs
<1>17. Len(queries) \in Nat /\ Len(queries) >= 1
  BY <1>3, <1>4
<1>18. Queue'
  <2>1. CASE left = {}
    BY <2>1, <1>1, <1>2, <1>9, <1>10, <1>12, <1>17 DEF Queue
  <2>2. CASE left # {}
    BY <2>2, <1>1, <1>2, <1>12, <1>17 DEF Queue
  <2> QED
    BY <2>1, <2>2
<1>19. Sending'
  <2>1. Pending' = Pending /\ Barred' = Barred /\ Sent' = Sent
    BY <1>2, <1>7, <1>10, <1>13 DEF Pending, Barred, Sent, Params, SameInputs, TickDeps, EffectDeps
  <2>2. ASSUME Sent, Answering PROVE Answering'
    <3>1. CASE Len(queries) >= 3 \/ (Len(queries) = 2 /\ left # {})
      BY <3>1, <1>12, <1>17 DEF Answering
    <3>2. CASE Len(queries) = 2 /\ left = {}
      BY <3>2, <1>1, <1>12, PartsFacts DEF Queue, Answering
    <3>3. CASE Len(queries) = 1
      <4>1. q.asked = asked
        BY <3>3, <1>1, <1>3 DEF Queue
      <4>2. ui.view = page.view /\ asked.view = page.view /\ ui'.view = ui.view
        <5>1. SamePage(ui)
          BY <1>1, <1>2 DEF Ticks
        <5>2. ToOption(asked, Params(page, page.scope)).view = page.view
          BY <2>2 DEF Sent, Params
        <5>3. asked \in Asking
          BY <1>6, <4>1
        <5>4. asked.view = page.view
          BY <5>2, <5>3 DEF ToOption, Asking
        <5> QED
          BY <5>1, <5>4, <1>10 DEF SamePage, SameInputs
      <4>3. CASE "main" \in left
        <5>1. left # {} /\ Len(queries') = 1 /\ "main" \in queries'[1].left
          BY <4>3, <3>3, <1>12
        <5> QED
          BY <5>1 DEF Answering
      <4>4. CASE "main" \notin left
        <5>1. part = "main" \/ Displayed = asked
          BY <4>4, <3>3, <2>2 DEF Answering, left
        <5>2. shown[IF ui.view = "table" THEN "flows" ELSE "main"] = asked
          <6>1. ui.shown \in [Stores -> Asking \cup {Nothing}]
            BY <1>4 DEF Ui
          <6>2. part = "main" \/ (part = "side" /\ SideQuery)
            BY <1>6 DEF Parts
          <6>3. CASE asked.view = "overview"
            BY <6>3, <4>1, <4>2, <4>4, PartsFacts DEF shown, Received, Stores
          <6>4. CASE asked.view = "table"
            BY <6>1, <6>2, <6>4, <4>1, <4>2, <5>1 DEF shown, Received, Stores, Displayed
          <6>5. CASE asked.view = "topology"
            BY <6>1, <6>2, <6>5, <4>1, <4>2, <5>1, <1>6 DEF shown, Received, Stores, Displayed, Calm
          <6> QED
            BY <6>3, <6>4, <6>5, <4>1, <1>6, TrafficAssumption DEF TrafficAssumption
        <5>3. Displayed' = asked
          BY <5>2, <4>2, <1>10 DEF Displayed
        <5> QED
          BY <5>3, <1>2 DEF Answering
      <4> QED
        BY <4>3, <4>4
    <3>4. Len(queries) >= 3 \/ Len(queries) = 2 \/ Len(queries) = 1
      <4> DEFINE n == Len(queries)
      <4>1. n \in Nat /\ n >= 1
        BY <1>17
      <4> HIDE DEF n
      <4>2. n >= 3 \/ n = 2 \/ n = 1
        BY ONLY <4>1
      <4> QED
        BY <4>2 DEF n
    <3> QED
      BY <3>1, <3>2, <3>3, <3>4
  <2> QED
    BY <2>1, <2>2, <1>1, <1>2, <1>10 DEF Sending, SameInputs
<1> QED
  BY <1>14, <1>15, <1>16, <1>18, <1>19 DEF IInv

-----------------------------------------------------------------------------
(* The invariant is inductive, so every state of a calm page satisfies it. *)
THEOREM Invariant == ASSUME Calm PROVE Spec => []IInv
<1>1. Init => IInv
  BY InitIInv
<1>2. IInv /\ [Next]_vars => IInv'
  <2> SUFFICES ASSUME IInv, [Next]_vars PROVE IInv'
    OBVIOUS
  <2>1. CASE Render
    BY <2>1, RenderStep
  <2>2. CASE Timer
    BY <2>2, TimerStep
  <2>3. CASE Poll
    <3>1. event' \in BOOLEAN
      BY <2>3 DEF Poll, IInv, Types
    <3> QED
      BY <2>3, <3>1, CallTickStep DEF Poll
  <2>4. CASE ExtensionsResolved
    BY <2>4, ExtensionsResolvedStep
  <2>5. CASE ConfigAnswer
    BY <2>5, ConfigAnswerStep
  <2>6. CASE UrlFiltersResolved
    BY <2>6, UrlFiltersResolvedStep
  <2>7. CASE EditFilters
    BY <2>7, EditFiltersStep
  <2>8. CASE EditInputs
    BY <2>8, EditInputsStep
  <2>9. CASE ToggleModal
    BY <2>9, ToggleModalStep
  <2>10. CASE SelectView
    BY <2>10, SelectViewStep
  <2>11. CASE Refresh
    BY <2>11, CallTickStep DEF Refresh
  <2>12. CASE Answer
    BY <2>12, AnswerStep
  <2>13. CASE UNCHANGED vars
    <3>1. Tab' = Tab /\ CanRun' = CanRun
      BY <2>13 DEF vars, Tab, CanRun
    <3>2. Types' /\ Ticks' /\ Initialised'
      BY <2>13, <3>1 DEF vars, IInv, Types, WellAsked, Ticks, TickDeps, SamePage, Initialised
    <3>3. Sending' /\ Queue'
      BY <2>13, <3>1 DEF vars, IInv, Sending, Pending, EffectDeps, TickDeps, Barred, Sent, Params, Answering, Displayed, Queue
    <3> QED
      BY <3>2, <3>3 DEF IInv
  <2> QED
    BY <2>1, <2>2, <2>3, <2>4, <2>5, <2>6, <2>7, <2>8, <2>9, <2>10, <2>11, <2>12, <2>13 DEF Next, User
<1> QED
  BY <1>1, <1>2, PTL DEF Spec

(* What the invariant says of a page that has nothing left to render. *)
LEMMA SettledFacts ==
  ASSUME IInv, Settled, CanFetch
  PROVE  Sent /\ Answering
<1>1. ~Pending /\ timers = {}
  BY DEF IInv, Types, Settled, Pending
<1>2. ~Barred
  BY DEF Barred, Settled, CanFetch, CanRun
<1> QED
  BY <1>1, <1>2 DEF IInv, Sending

(* No change of the filters, the preset, the range or the tab is lost: a   *)
(* page with nothing left to render has asked for what it shows.           *)
THEOREM NoChangeIsLost == ASSUME Calm PROVE Spec => []InputsFetched
<1>1. IInv => InputsFetched
  BY SettledFacts DEF InputsFetched, Sent, Fetched, UpToOption, ToOption, Wanted, Params, Settled
<1> QED
  BY <1>1, Invariant, PTL

(* The tab displays the answer to the last query, when all have come.      *)
THEOREM LastAnswerIsShown == ASSUME Calm PROVE Spec => []ShownIsCurrent
<1>1. IInv => ShownIsCurrent
  BY SettledFacts DEF ShownIsCurrent, Answering
<1> QED
  BY <1>1, Invariant, PTL

(* The spinner stops with the queries. *)
THEOREM SpinnerStops == ASSUME Calm PROVE Spec => []LoadingInv
<1>1. ASSUME IInv PROVE TypeOK
  <2> DEFINE Of(v, p, o, f, s) == Params([ui EXCEPT !.view = v, !.preset = p, !.option = o,
                                                   !.filters.on = f], s)
  <2>1. asked = Nothing \/ asked \in Askable
    <3>1. ASSUME WellAsked(asked) PROVE asked \in Askable
      <4>1. /\ asked.view \in Views /\ asked.preset \in Presets /\ asked.option \in Options
            /\ asked.on \in SUBSET Filters /\ asked.scope \in Scopes
            /\ asked = [view |-> asked.view, on |-> asked.on, scope |-> asked.scope,
                       option |-> asked.option, preset |-> asked.preset]
        BY <3>1 DEF WellAsked, Asking
      <4>2. Of(asked.view, asked.preset, asked.option, asked.on, asked.scope) = asked
        <5> DEFINE u == [ui EXCEPT !.view = asked.view, !.preset = asked.preset, !.option = asked.option,
                                   !.filters.on = asked.on]
        <5>1. /\ u.view = asked.view /\ u.preset = asked.preset /\ u.option = asked.option
              /\ u.filters.on = asked.on
          BY <1>1 DEF IInv, Types, Ui, FilterT
        <5> HIDE DEF u
        <5>2. Params(u, asked.scope) = asked
          BY <3>1, <4>1, <5>1 DEF Params, WellAsked
        <5> QED
          BY <5>2 DEF u
      <4>3. Askable = {Of(v, p, o, f, s) : v \in Views, p \in Presets, o \in Options,
                                           f \in SUBSET Filters, s \in Scopes}
        BY DEF Askable
      <4> HIDE DEF Of
      <4> QED
        BY <4>1, <4>2, <4>3
    <3>2. asked = Nothing \/ WellAsked(asked)
      BY <1>1 DEF IInv, Types
    <3> QED
      BY <3>1, <3>2
  <2>2. /\ ui \in Ui /\ page \in Ui /\ tick \in Tick /\ init \subseteq InitStates
    BY <1>1 DEF IInv, Types
  <2>3. \A i \in DOMAIN queries : queries[i].left \in (SUBSET Parts) \ {{}}
    <3>1. \A i \in DOMAIN queries : queries[i] \in Query
      BY <1>1 DEF IInv, Types
    <3> QED
      BY <3>1 DEF Query
  <2>4. /\ {ui.view, page.view, tick.view} \subseteq Views /\ {ui.scope, page.scope, tick.scope} \subseteq Scopes
        /\ {ui.preset, page.preset} \subseteq Presets /\ ui.filters \in [on : SUBSET Filters, off : SUBSET Filters]
        /\ {ui.error, page.error, tick.error} \subseteq {"none", "config", "noLoki", "query", "side"}
    BY <2>2 DEF Ui, Tick, Errors, FilterT
  <2>5. init \subseteq {"initDone", "configLoading", "configLoaded", "configLoadError",
                        "forcedFiltersLoaded", "urlFiltersPending"}
    BY <2>2 DEF InitStates
  <2> QED
    BY <2>1, <2>3, <2>4, <2>5 DEF TypeOK
<1>2. ASSUME IInv PROVE IdleNotLoading
  BY <1>2, SettledFacts DEF IdleNotLoading, IInv, Queue, Sent
<1>3. IInv => LoadingInv
  BY <1>1, <1>2 DEF LoadingInv
<1> QED
  BY <1>3, Invariant, PTL
=============================================================================
