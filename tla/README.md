# Verification of the NetObserv web console

TLA+ models of `src/pkg` (the Go back end) and `src/web/src` (the React page), checked by
TLC on small instances and, for the components marked "proofs" below, proved with TLAPS for
every value of the constants. Paths below are relative to `src/`. Definitions keep the
names of the source where TLA+ allows it; `PROJECT.json` maps each one to the lines it
translates. A definition marked *mutant* is a plausible bug: it is used by no
specification, and shows that the property listed with it would notice.

## 1. The system

The back end is a translator between the page and Loki, Prometheus and Kubernetes. Its
concurrency is one goroutine per upstream query of a request (`clients.go`,
`fetchParallel`) and the goroutine that `net/http` gives each request; the only state that
requests share is the configuration of the page (`frontend-config.go`). The page holds the
state: it is single-threaded, but timers, promises and the renders of React interleave with
the user.

| Component | State | Operations | Hard parts | Modules |
|---|---|---|---|---|
| **Topology handler** `pkg/handler/topology.go`, `clients.go`, `pkg/prometheus/inventory.go`, `pkg/model/filters` | one request: plan, running queries, answers and errors on channels, merged matrix | parse, expand, route to a metric or to Loki, run in parallel, merge, retry | partial failure; two routing decisions that must agree; double counting; retry with what is left of the first attempt | `TopologyRouting`, `FetchParallel`, `TopologyRequest`, proofs |
| **Flows and export** `flows.go`, `export.go`, `pkg/loki/streams_merger.go` | one request: running queries, index of the merger, statistics | distribute over a namespace, query under a limit, deduplicate, answer | order of answers; overlap of groups; each query cut at the limit | `FlowsRequest`, proofs |
| **Loki queries** `pkg/loki/flow_query.go`, `pkg/model/filters/logql.go`, `pkg/prometheus/query.go` | a query being built: matchers, filters on the text of a line, filters on parsed fields | add a match, build | a match is written in three places with three meanings of absence and negation; numbers compared digit by digit | `LokiQueries`, proofs |
| **Other requests** `pkg/handler/resources.go`, `loki.go`, `status.go`, `k8s.go`, `frontend-config.go` | per request: lookups left, what was found; shared: the configuration and its error | look up one label after the other, fall back, list, read the configuration | partial failure; a handler that goes on after an error; two shared variables without a lock | `ServerRequests`, proofs |
| **Autocomplete** `web/src/utils/autocomplete-cache.ts`, `filter-options.ts` | cache per key | ask, receive, clear | answers asked before a clear | `Autocomplete` (composed with `ServerRequests`), proofs |
| **Data fetching** `web/src/utils/netflow-fetching-hook.ts`, `poll-hook.ts`, tabs | `initState`, filters, view, range, data shown, error, closures of `tick` | render, effect, timer, poll, load of configuration and URL filters, answers | stale closures; late answers; effects skipped while a modal is open or the tab is replaced by an error | `TrafficFetch`, proofs |
| **Filters** `filters-chips.tsx`, `filter-search-input.tsx`, `filters-helper.ts`, `back-and-forth.ts`, `router.ts` | list of filters, match, disabled values, what the URL and the browser keep of them | add, move, either, remove, disable, swap, match, step into, reload | values changed in place and found by a part of their key; `&` against `\|`; overlap of two directions | `FilterQueries`, `FilterEditing`, proofs |
| **Views** `netflow-traffic.tsx`, `model/views.ts`, `netflow-capabilities-hook.ts`, `config-validation-hook.ts` | active view, draft, columns and panels, preferences, metric, effects pending | load, select a view, a tab or a metric, save a modal, drag, resets, discard | effects that set what they depend on; drafts reconciled with preferences; a metric kept in a reference | `TrafficViews`, proofs |
| **Health page** `components/health/`, `health-contexts-hook.ts` | answers displayed, fetches under way, error, tab | fetch, poll, answers, tabs; route, silence, score | answers out of order; one failure of six; rules found by two requests; rounding | `HealthScore`, `HealthPage`, proofs |
| **Health rules** `web/src/components/forms/healthRule/` | FlowCollector in the cluster, copies in wizard and manager, retries | watch, edit, save, reset with retries on conflict | lost updates between pages; overlapping resets; a stale `resourceVersion` | `HealthRules`, proofs |
| **Resource deletion** `forms/resource-watcher.tsx` | deleted uid, snapshot, attempts, timer | delete, poll until not found, watch | the watch misses the deletion; recreation; finalizers that never end | `ResourceDeletion`, proofs |

Calls go down only: the chips change the filters, the fetching hook sends them
(`FilterQueries` is what it sends), a handler plans queries, the builders write them
(`LokiQueries`), the handlers answer. `AllOrNothing` is what the page relies on in both
handlers of flows: one answer, for all of the queries or an error.

What makes each one correct, in a sentence: an answer of a handler is complete or an error,
and counts a flow once; a query selects what its matches mean, whoever answers it; what the
user chose is fetched and the last answer is displayed; the chips, the table and the graphs
are about the same flows, and still are after a reload; what was saved in a view is what it
shows; an alert that matters is never hidden; a write to the FlowCollector changes what the
user changed; what is reported deleted is gone.

## 2. Modules

**`TopologyRouting`** (pure). A group of filters is the set of its keys, whether one match
is `>=`, whether it is well formed, and the conversations it selects. `ExpandQueries` is
`expandQueries`, `Eligible` `getEligiblePromMetric` with `Inventory.Search`, `Backend` and
`BuildError` `buildTopologyQuery`. A `Conversation` is what the user counts; `Records` says
which flow records agents write of it (ingress, egress, both, or inner), which is what
`expandQueries` compensates for.

**`FetchParallel`**. `fetchParallel` of both handlers: the queries of absent clients are
left out (`Executable`), goroutines write to `resChan` and `errChan` in any order,
the wait group is `AllDone`, and the results are merged in the order of `resChan`.

**`TopologyRequest`**. One request: `Launch` (or `Refuse`) is `getTopologyFlows` up to the
start of the goroutines, `Answer` an upstream answer, `FetchFailed` and `MergeFailed` the
early returns, `Succeed` the answer, `Retry` the second attempt of `GetTopology`.

**`FlowsRequest`**. One request for flows or an export. Loki holds records of streams;
`IsAnswer` is any set of the most recent selected ones up to the limit (ties broken
arbitrarily). `Add` is the merger's, with its index of entries seen, its total and its
duplicates. A single query is the parallel case with one query. A group applied with
`|json` returns its entries with the labels of the parsed line (`Returned`).

**`AllOrNothing`**. The abstract promise of a handler: it asks queries, they end, it
replies once. `TopologyRequest` and `FlowsRequest` implement it by a refinement mapping
(`Promise`), checked by TLC and proved. Safety only: what is asked cannot be enumerated in
an `ENABLED`.

**`LokiQueries`**. `AddLabel`, `AddAddress`, `AddText` and `AddArray` are the branches of
`addFilter`, each with the filter that it writes; `Selects` is what Loki makes of them, and
`PromSelects` what Prometheus makes of the same matches as labels. A text is the set of
texts in which it is found; a key of a filter on the raw text of a line is every field whose
name ends with it (`Suffixed`), as the expression is not anchored. `MoreThanRegex` follows
`moreThanRegex` digit by digit.

**`ServerRequests`**, **`Autocomplete`**. A request is a record that says which lookup it
is at, what it has found and what it replied; each upstream answer, and each access to the
shared configuration, is a step of its own, so that the steps of two requests interleave.
One Go assignment to the configuration and its error is two stores in either order
(`ConfigStore`): there is no lock. What the cluster knows is abstracted to the moment at
which it was asked. `Autocomplete` extends it with the page: `Ask` begins a request, and
`Receive` fills the cache with its reply.

**`TrafficFetch`**. `ui` is the state that handlers and promises set, `page` what React
committed. `Render` commits it, makes a new `tick` if one of `TickDeps` changed (a closure
over that render) and runs the effect if one of `EffectDeps` did. Timers are a set of
waiting ticks; `queries` in flight keep the closure that sent them, in order. Options that
are not among the dependencies of the effect (limit, data source and others,
`netflow-fetching-hook.ts:406`) are not fetched until the next refresh, which
`web/cypress` `table_queryopts.cy.ts:34-35` relies on: `Fetched` leaves them aside. An
event of the user is rendered before anything else (React 18 flushes discrete events), and
the user acts on what is rendered (`ui = page`).

**`FilterQueries`** (pure). The text of a query is the sequence of its `|`-separated
groups, each a set of matches; `JoinAnd` is what happens when texts that contain `|` are
joined with `&`. `Halves`, `RecordsText` and `Metrics` are `back-and-forth.ts`; flows are
functions from the fields of their two ends and their own to values.

**`FilterEditing`**. The list of filters and every edit of it. A value is a pair of what it
says and the object that says it, because the chips compare by reference and a disabled
value is an object that is marked; `_.cloneDeep` keeps the sharing of objects, so their
identity is kept too. `Edit` includes the effect that makes an empty list match all.
`Reload` reads the filters back from the URL and what is disabled from the browser's
storage, keyed by the text of a filter.

**`TrafficViews`**. An action of the user sets state and the effects whose dependencies
changed (`pending`); `Effects` then runs them together on the state of that render, in the
order of the code, the last setter winning, which may set off effects again. Items are
columns and panels, of a feature or generic. A draft overrides a preset; preferences on
generic items hold in all views. Every load, the first one included, is through any link;
the browser stores the active view once it was set (`stored`), and until then the view of a
link is only that of its page. `last` and `own` are ghosts: what the user did last, and the
metric of the Default view as the user left it.

**`HealthScore`** (pure). The score of a resource and the points that each item loses, in
fractions; `Impacts` is `apportionToOneDecimal` (largest remainders).

**`HealthPage`**. `Worlds` is the history of the cluster: rules with their alerts, values of
recording rules, silences. A fetch asks six things and its answers are the moments at which
they were given, or `Failed` where the code has a fallback. `TabCopies` routes rules to
tabs; a rule in two answers has two copies.

**`HealthRules`**. `log` is the history of the FlowCollector; an update is accepted if its
copy has the last version, and one that changes nothing keeps the version. Two kinds of
writers of the console, the wizard and the manager's `updateFlowCollectorWithRetry`, and
others. Each click on the confirmation of a reset runs on its own: the button shows that it is
loading but is not disabled. Saving through the YAML editor is a save of the wizard. A save or
a reset may be answered by an error although it was stored (`SaveFails`, `ResetFails`).

**`ResourceDeletion`**. `log` is the life of the named resource: a uid is the place in it
where the resource was created. The watch delivers states in order and may skip some. The
poll counts failures as attempts. One `k8sDelete` is in flight at a time, and it deletes by
name. A load error of "not found" is a loaded watch; other load errors are left out.

## 3. Runs

Deadlock is checked in `topology` and in `views`, which never stop before a request is
answered and while there is a user; the other systems may stop (a request answered, a user
who does nothing, a bound reached).

| Run | Instance | Shows |
|---|---|---|
| `topology` | four inventories, with or without Loki, ten lists of one or two groups, every data source, 403/503/400 | whole answers, each conversation counted once, true data sources through the retry, `AllOrNothing`, an answer in the end |
| `flows` | three records of two streams, two groups that may overlap, limits 0, 2, 3, every answer and order | complete unless said to be limited, most recent first, each entry once, `AllOrNothing` |
| `queries` | a field of each type and two whose names end alike, two matches of up to two values, each filter on losses | exactly the flows that are meant are selected; Prometheus and Loki agree where one stands in for the other |
| `endpoints` | two requests at once of any kind, every set of data sources and of known labels, one change | no failed lookup is left out of an answer or of the cache; a refusal of Prometheus is answered by Loki; the configuration is served; every request ends |
| `traffic_overview` | two tabs whose queries succeed, URL filters, two presets, scopes and options, two changes, two queries in flight | no change is left unfetched, the spinner stops, the last answer is displayed |
| `traffic_polling` | page and tab of a resource, failures, answers in any order, auto-refresh | a change is fetched in the end whatever fails |
| `filters` | a field of the ends and one of the flow, two values; three values in two filters | table and graphs agree, both directions, swap mirrors, a new filter narrows, no value is lost, a reload displays the same |
| `views` | Default view and two presets that are available, one that is not, a feature with two columns, two saved modals, any number of changes of view, tab and metric, and loads | what was saved or linked is shown, the metric of the Default view comes back, views do not disturb each other, effects end |
| `health_page` | six rules, a recording rule, two nodes, two moments, two fetches, a failed request | one tab per alert, counted once, none hidden, no empty page that claims health, the page catches up, impacts add up |
| `health_rules` | two rules, the rest of the resource as the example has it or not, two overlapping clicks, the wizard, a write of others | resets keep what others wrote, are not dropped and end |
| `resource_deletion` | five states of the resource, two attempts | gone is gone and is not shown, no endless deletion, the stored resource is shown |

`queries_at_least` refutes a comment (`findings`): the expression that is to "match each
number greater than specified value" (`logql.go:329`) has gaps; a port of at least 170 does
not select 195. `SelectedAsMeant` says which numbers have none (`Covered`).

Several properties are conjunctions of named parts, each with its comment: the type
invariant of a module and the invariants that one mutation cannot separate are checked
under one name (`AnswersInv`, `CacheInv`, `FilterInv`, `LoadingInv`, `SourcesTold`,
`TabsInv`, `ViewsInv`), as are action properties on the same steps (`EditsDisplayed`,
`OthersKept`). `TypeOK`, `ExpandedOnlyForLoki` and `RetryOnlyWithLoki` of
`TopologyRequest`, `TypeOK` and `StatsAddUp` of `FlowsRequest`, `RulesTypeOK` of
`HealthRules` and `TypeOK` of `ResourceDeletion` are proved, and not listed as properties of
a run.

**Bounds.** `MaxChanges`, `MaxQueries`, `MaxVersion`, `MaxLog`, `MaxAdds`, `MaxFilters`,
`MaxEdits`, `MaxMoment`, `MaxFlights` and `MaxFailures` stop the environment, in the guards
of its actions; what is under way goes on. Two queries in flight are enough for one to
overtake the other (`MaxFlights` is one because the first load may add one to it), two
groups for an overlap, two attempts (5 and 20 in the code) for a first, a repeated and a
last one, a write of others for a conflict and the writes of two clicks and of the wizard
for another one after the retry, two rules for a reset that must leave the other one, a log
of five for a deletion, a recreation and a second deletion. Two filters with
three values reach a filter and its negation, a filter on either end next to one on an end,
and values shared by two filters; the query for the overlap then joins four. Two requests
are enough for every interleaving on the shared configuration, since each reads and writes
it once; two moments for a cache that is older than a clear. Two saved modals make a draft
and change it, or make one while another is open. In `queries` the numbers are one with
fewer digits, one before a gap and one in it. `Hasty` is FALSE in the runs: the user does
not act in the few milliseconds in which `tick` waits for a tab to be mounted. `InOrder` is
TRUE where the last answer is compared with the last question: the code neither cancels nor
orders queries, so an answer that overtakes is displayed (see the hazards). In `filters`,
the two values of a field are symmetric: no definition tells them apart.

**Fairness.** Upstream services answer or their client times out (weak fairness of
`Next` in the handlers, which have no other stimulus, and of each request in
`ServerRequests`); React renders and runs effects, timers fire, promises are settled and
the poll ticks (`TrafficFetch`, `TrafficViews`); the retry and the answer to each click
(`HealthRules`); deletion, poll and timers of the page, but neither the finalizers nor the
watch (`ResourceDeletion`: `SettlesOnStored` assumes that the watch catches up). The poll of
`HealthPage` is strongly fair: its timer ticks whatever is under way, and only the bound of
the model forbids a tick now and then. Nothing obliges a user to act.

## 4. Proofs

About 13,400 obligations, none left out. Each `*_proofs` module starts from the named
assumptions of its model, states an inductive invariant, shows that each action keeps it,
and derives the properties.

* `TopologyRequest_proofs` — the invariant relates the plan to the request, what is
  running, on the channels and merged to the plan, and the attempt to the data sources. It
  is needed because an answer is judged by the matrix alone: that nothing was left out
  (`WholeAnswer`) follows from the queries of the plan being either running or in one of
  the channels. `RoutingAgrees` shows that adding branch filters cannot change the choice of
  the backend, because a branch only adds labels that were needed already;
  `NoDoubleCount` that the branches partition what a group selects, for every inventory;
  `HonestThroughout` that the data sources told are those asked, and `RetryAfterRefusal`
  that a second attempt follows a refusal only.
* `LokiRequests_proofs` — two models. Of `FlowsRequest`, the merger's index counts exactly
  what it holds, and each merged query has an answer of Loki among the records
  (`InRecords`). `Complete` and `Recent` follow, the latter by a bijection between the cut
  of a query and the records displayed. Of `LokiQueries`, the three lists of filters are
  those of the matches, so that a query selects what each of its matches selects
  (`SelectedParts`); a lemma per type of field then says that what is written for a match
  means what was asked. `SelectedAsAsked` is `SelectedAsMeant` for every flow, any fields
  and texts, and numbers of up to `MaxDigits` digits: the expression of `>=` compares
  prefixes, so that a number it selects is larger at the first digit at which they differ,
  and a larger one that it misses has the next digit below (the gap that the finding is
  about). `RetryMeansTheSame` is `BackendsAgree`. From `FieldsAssumption` (a field has one
  type) and `AbsentAssumption`.
* `FilterEditing_proofs` — the list is a sequence of filters that each have a value, and what
  is disabled is a value of it (`IInv`): that a list without conditions selects all the flows
  depends on no filter being empty. What is displayed is then stated without texts, as a set
  of flows (`Shown`), and the two halves, the exclusion of the overlap, the mirror of a swap
  and the sums of the graphs are facts about sets (`FiltersHold`, `BothDisplayed`,
  `EditsShown`). An edit is described by what the list says before and after (`Says`), so that
  moving a value loses none (`ValuesNotLost`), and a reload reads back filters of other
  objects that say the same (`ReloadShowsTheSame`). For any fields, values, number of
  filters and of edits.
* `ResourceDeletion_proofs` — uids are stored once and in order, the uid that is deleted
  stays marked as long as the watch may show it, and what a `GET` did not find is not
  stored again.
* `Autocomplete_proofs` — for a request of each kind, the lookups that ended without an error
  and those left make up all that its kind needs (`AnswersInv`); no request writes the
  configuration after the start, though it is shared without a lock (`ConfigIsServed`);
  what fills the cache is the reply of a request made no earlier than the last clear, or one
  known to be late (`CacheInv`).
* `Health_proofs` — two models. Of `HealthRules`, every copy in a page is a version that was
  stored, or older, so that an accepted update differs from the last version by its own rule
  only. Of `HealthPage`, the answers displayed are all of one fetch, and those without a
  fallback are there, so that what is left of the properties is about the answers alone:
  each alert has one tab, the copies of a rule that are compared are one, and a tab lists an
  alert because its rule is found by label, or by group if nothing else finds it
  (`TabsInv`); a failure sets the error that only another fetch clears
  (`EmptyWhileFetching`). The points that the items lose add up to what the score lacks, to
  a tenth (`ScoresAddUp`): each row is rounded down by less than a tenth, so that what is left
  is at most one tenth for each, and the largest remainders take it; sums over sets are by
  induction on their subsets, the units of the scale, the weights and the values being any
  (`UnitAssumption`, `ValuesAssumption`, `RulesAssumption`). `NamesAssumption` and `WorldsAssumption` say that a name stands
  for a rule, and labels for an alert of it, as in Prometheus.
* `TrafficViews_proofs` — in any view that has no draft, and in a draft that is not about to
  be reconciled, a generic item is in exactly when the preferences say so (`Follows`): that is
  what a modal, which changes the draft and the preferences in one save, and the effect that
  reconciles them afterwards must agree on, so that what was saved is what is shown when the
  effect has run (`SaveKept`). Reconciled, a draft keeps its items in their order and gains
  those that are wanted and offered (`RebuiltFacts`); a draft that is dropped shows what the
  preset would. What can be offered never changes, however lists are saved, dragged, stored
  and restored (`Lists`). The metric of the Default view is the one displayed or the one in
  the reference, unless the effect that saves it is pending, and is one that a feature allows,
  unless the effect that checks it is pending or a link left it there (`MetricKept`); which effects
  can be pending depends on what was done last (`Phases`). A list is told by its set of items
  and by which precedes which: what inserting columns one after another makes of it
  (`AllInserted`) follows by induction on their number. `SavedAndLinked`, `MetricOfViews` and
  `Untouched` are for any columns, panels, features, presets and metrics, and for any number
  of saves. From `ViewsAssumption`: the configuration and the presets list an item once.
* `TrafficFetch_proofs` — a change of the inputs is either not rendered yet, or waits in a
  timer, or is barred (page not initialised, URL being read, modal open), or is what the last
  query asked (`Sending`); each render hands it from one to the next. A tick that waits is one
  of the page displayed (`Ticks`), the effect that was skipped for want of a configuration
  runs when it comes (`Initialised`), and the last query in flight is the last one asked
  (`Queue`). `NoChangeIsLost`, `LastAnswerIsShown` and `SpinnerStops` follow, for any filters,
  presets, ranges, URL, tabs, number of changes and of queries. They are about a calm page
  (`Calm`): queries succeed, in order, Loki is there, the user does not act during the few
  milliseconds of a `setTimeout`, and the topology has no second query. Outside of it a
  failed query may leave a change to the next refresh, so that `ChangeFetched` is what holds;
  it is a liveness property, and TLC checks it.
* `KeepsPromise` (two modules) — the refinement of `AllOrNothing`: initial states map to
  initial states, each action to a step of the promise or to none.

The proofs leave `MaxVersion`, `MaxLog`, `MaxEdits`, the labels, metrics, stores, requests, attempts, rules
and the history of the cluster arbitrary.

The library's theorems of induction take an operator, which the prover cannot instantiate. An
induction that a proof needs, over the natural numbers or the subsets of a finite set, is
stated of membership in a set (`Induction`, `SubsetInduction`) and follows from the
existence of a least element. What a definition computes for every input is provable in this way
when it is a recursive function or a fold over a finite set, and not when it is `SelectSeq`
or a fold over a sequence, whose definitions the prover cannot expand.

Every invariant and every action property of the passing runs is stated by a theorem.

**Only model-checked**: all liveness and `ENABLED`, which are out of the prover's reach;
`TrafficFetch` outside of `Calm`; that the effects of `TrafficViews` come to an end
(`Settles`).

## 5. What is left out

* Texts: LogQL, PromQL, URLs, messages, CSV; values are members of small sets.
* `topology`: a conversation selected by two groups, or with both ends in the namespace of
  a developer, is counted once per query by the code, though `filters.go:8` says "union";
  `CountedOnce` is about the others. A refusal by Prometheus is not retried when another
  error came first.
* `flows`: Loki is taken not to store exact duplicates, and not to change during a request.
  A request without a limit is always said to have reached it: the merger's limit is 0.
* `queries`: aggregations and syntax. "n/a" among the other values of a negated text or
  number always holds, and in an array always is found; the properties leave it out.
* `endpoints`: clients of data sources do not change while a request is served. The code
  answers names without the fallback to Loki that other labels have, and stops the
  connection when there is no Loki to ask; a refusal without Loki is said to be missing
  labels; a list of networks that fails is answered with an error whose body goes on with
  the names; a configuration that could not be read at the start may be read as absent by a
  request that comes between the two stores of another (a nil dereference). The cache is
  cleared of namespaces and names only, and an answer that was under way fills it again.
  The key of names by a forced namespace is abstracted.
* `filters`: resource, kind and regular-expression filters, quick and forced filters, and
  defaults. Metrics are counts; the code also subtracts the overlap of averages, minima,
  maxima and percentiles. Known of the code and left out of the properties: an export is not
  asked in two halves, a swap and a move find their filter by definition alone, and after a
  reload two filters of one key share their disabled values.
* `TrafficFetch`: warnings, statistics, the time of the last refresh, texts of errors; the
  missing labels of an error are abstracted to the fields that lack them; the topology's
  follow-up query for TLS versions (`netflow-topology.tsx:209-217`), whose answer sets the
  metrics of its own query once more.
* `views`: the sizes of columns. Known of the code and left out of
  the properties: a draft made while that of another view is open takes the other part and
  the metric of that one (`netflow-traffic.tsx:383`, `:404`); a link to a view without
  filters opens the Default view, because the reset of the filters selects it (`:476`,
  against the comment at `:168`), and a link does not set the metric of its view; a view that
  was only ever opened through a link is not stored (`:166`), so that the next load takes its
  metric for the one of the Default view (`:289`, against the comment at `:286-288`), where no
  feature may allow it; the
  metric of the TLS preset is one that no feature allows; "Restore default panels" in a view
  leaves a draft; the order of panels is kept in the Default view only; a column order
  that equals the preset's is lost with its draft.
* `health_page`: the page's own filters, links and counts. Known of the code and left out
  of the properties: a rule that two requests find is counted twice in a tab other than OVN,
  and in that of OVN once all rules are annotated; a late error stays although a later
  fetch succeeded; when the request for the groups of OVN fails, the user is sent back to
  the first tab for good; a critical alert whose threshold is the upper bound does not
  lower the score; the NetObserv tab asks only for silences that name NetObserv; alerts of
  node rules without a node are dropped.
* `HealthRules`: custom PrometheusRules; that a save of the wizard overwrites what others
  changed meanwhile is stated by no property (`templateForm.ts:174` in the hazards).
  `ResourceDeletion`: creation and edition.
* The server gives up an answer after a timeout of its own (`server.go:29`) that does not
  count the retry of a topology request: time is in no model.
* Components without a model are in `PROJECT.json`, each with the reason: rendering, forms
  from a schema, development mocks, start-up, tables of TLS versions, and generated or
  vendored code hold no logic of which a property could be stated beyond their lines. They
  are most of the repository's lines.

## 6. Plan

1. The safety invariants of `TrafficFetch` with failures and a topology.
2. A merger of matrices with its limit, in `TopologyRequest`; `FilterEditing` with quick and
   resource filters; `TrafficFetch` with the queries of `FilterQueries` as its inputs.
