----------------------------- MODULE HealthPage -----------------------------
(***************************************************************************)
(* The network health page: it asks six things at the same time, joins the *)
(* answers, and routes rules to the tab of NetObserv, where they are       *)
(* scored, or to a tab that lists them (network-health.tsx, health-fetcher *)
(* and health-contexts-fetcher, health-context, ovn-health-fetcher,        *)
(* health-helper).                                                         *)
(*                                                                         *)
(* What the cluster says changes: Worlds is its history.  An answer is the *)
(* moment in it at which it was given, and the data of the page are the    *)
(* answers it was made of.  Several fetches may be under way.              *)
(***************************************************************************)
EXTENDS HealthScore, SequencesExt

CONSTANTS Rules,      \* of alerts
          Recordings, \* recording rules
          Worlds,     \* the rules there are and their alerts, values of recording rules, silences
          MaxFlights, MaxFailures \* bound fetches under way, and failed requests

Moments == 1..Len(Worlds)
Failed == 0
Answer == Moments \cup {Failed}
None == -1 \* of a threshold that is not set
netobserv == "netobserv"
ovn == "ovn"

(* The label netobserv="true" is mandatory for the rules of the page, and  *)
(* the alerts of OVN that have no annotation yet carry none either.        *)
ASSUME RulesAssumption ==
  \A r \in Rules : /\ r.labelled /\ r.tab = "none" => ~r.ovnName
                   /\ r.threshold \in 0..Upper

(* A name stands for a rule, and labels for an alert of it.                *)
ASSUME NamesAssumption ==
  /\ \A r, s \in Rules : r.name = s.name => r = s
  /\ \A r \in Rules, c \in Recordings : r.name # c.name
ASSUME WorldsAssumption ==
  /\ Len(Worlds) \in Nat \ {0}
  /\ \A t \in Moments : \A name \in DOMAIN Worlds[t].alerts :
       \A a, b \in Worlds[t].alerts[name] : a.labels = b.labels => a = b
(* Answers are finite, and values and thresholds are numbers.              *)
ASSUME ValuesAssumption ==
  /\ IsFiniteSet(Rules) /\ IsFiniteSet(Recordings)
  /\ \A c \in Recordings : {c.critical, c.warning, c.info} \subseteq (0..Upper) \cup {None}
  /\ \A t \in Moments :
       /\ \A name \in DOMAIN Worlds[t].alerts :
            IsFiniteSet(Worlds[t].alerts[name]) /\ \A a \in Worlds[t].alerts[name] : a.value \in Int
       /\ \A c \in Recordings :
            IsFiniteSet(Worlds[t].values[c.name]) /\ \A v \in Worlds[t].values[c.name] : v.value \in Int
ASSUME BoundsAssumption == MaxFlights \in Nat /\ MaxFailures \in Nat

VARIABLES now,     \* the moment
          failures, \* requests that have failed
          flights, \* the fetches under way: since when, and whether with the annotations of the configuration
          page     \* the state of the page; data are the answers of the fetch displayed
pageVars == <<now, failures, flights, page>>

NoAnswers == [alerts |-> Failed, silences |-> Failed, values |-> Failed, contexts |-> Failed, group |-> Failed,
              allSilences |-> Failed, annotated |-> FALSE]

-----------------------------------------------------------------------------
(* The rules of a moment and their alerts.                                 *)
Exists(rule, moment) == moment # Failed /\ rule.name \in DOMAIN Worlds[moment].alerts
AlertsOf(rule, moment) == IF Exists(rule, moment) THEN Worlds[moment].alerts[rule.name] ELSE {}

-----------------------------------------------------------------------------
(* Silences.                                                               *)

LabelOf(labels, name) == IF name \in DOMAIN labels THEN labels[name] ELSE ""
Matches(matcher, labels) ==
  matcher.valid /\ ((LabelOf(labels, matcher.name) \in matcher.values) = matcher.equal)
isSilenced(silence, labels) == \A m \in silence.matchers : Matches(m, labels)

ActiveSilences(moment, filtered) ==
  IF moment = Failed THEN {} ELSE {s \in Worlds[moment].silences : s.active /\ (filtered => s.netobserv)}

AlertItems(rule, alerts, silences) ==
  {[rule |-> rule.name, kind |-> rule.kind, labels |-> a.labels, severity |-> rule.severity,
    value |-> a.value, threshold |-> rule.threshold,
    state |-> IF \E s \in silences : isSilenced(s, a.labels @@ rule.labels) THEN "silenced" ELSE a.state] :
     a \in alerts}

-----------------------------------------------------------------------------
(* The tab of NetObserv.                                                   *)

getRuleHealthContextId(rule) == IF rule.tab = "none" THEN netobserv ELSE rule.tab
isReadonlyAlertsContext(tab) == tab # netobserv

Reached(recording, value) ==
  IF recording.critical > 0 /\ value >= recording.critical
    THEN [severity |-> "critical", state |-> "recording", threshold |-> recording.critical]
  ELSE IF recording.warning # None /\ value >= recording.warning
    THEN [severity |-> "warning", state |-> "recording", threshold |-> recording.warning]
  ELSE IF recording.info # None /\ value >= recording.info
    THEN [severity |-> "info", state |-> "recording", threshold |-> recording.info]
  ELSE LET lowest == SelectSeq(<<recording.info, recording.warning, recording.critical>>, LAMBDA t : t > 0)
       IN [severity |-> "info", state |-> "inactive", threshold |-> IF lowest = <<>> THEN 0 ELSE Head(lowest)]

RecordingItems(recording, values) ==
  {LET reached == Reached(recording, v.value)
   IN [rule |-> recording.name, kind |-> recording.kind, labels |-> v.labels, value |-> v.value,
       severity |-> reached.severity, state |-> reached.state, threshold |-> reached.threshold] : v \in values}

(* The rules of the tab of NetObserv, and the metrics of recording rules,  *)
(* which are left out if they have no answer: one for all of them here.    *)
NetobservRules == {r \in Rules : r.labelled /\ ~isReadonlyAlertsContext(getRuleHealthContextId(r))}
NetobservItems(d) ==
  IF d.alerts = Failed THEN {}
  ELSE (UNION {AlertItems(r, AlertsOf(r, d.alerts), ActiveSilences(d.silences, TRUE)) : r \in NetobservRules})
         \cup (IF d.annotated /\ d.values # Failed
                 THEN UNION {RecordingItems(r, Worlds[d.values].values[r.name]) : r \in Recordings}
               ELSE {})

Node(item) == LabelOf(item.labels, "node")
Named(items) == {i \in items : i.kind = "Node" => Node(i) # ""}
ResourceOf(item) == IF item.kind = "Node" THEN Node(item) ELSE "global"
buildStats(items) == [r \in {ResourceOf(i) : i \in Named(items)} |-> {i \in Named(items) : ResourceOf(i) = r}]

-----------------------------------------------------------------------------
(* The other tabs.  A rule may be in two answers, that of the label and    *)
(* that of the groups of OVN: each has a copy of it.                       *)

Copies(d) ==
  {[rule |-> r, by |-> "label", at |-> d.contexts] : r \in {x \in Rules : x.labelled /\ Exists(x, d.contexts)}}
    \cup {[rule |-> r, by |-> "group", at |-> d.group] : r \in {x \in Rules : x.ovnGroup /\ Exists(x, d.group)}}

(* Mutant: the rules of OVN are found by name alone. *)
LegacyByName(d) == {c \in Copies(d) : c.rule.ovnName}
Legacy(d) == {c \in Copies(d) : c.rule.ovnName /\ c.rule.tab = "none"}

Unique(copies) == {c \in copies : c.by = "label" \/ ~\E o \in copies : o.rule = c.rule /\ o.by = "label"}

TabCopies(d, tab) ==
  LET annotated == {c \in Copies(d) : getRuleHealthContextId(c.rule) = tab}
  IN IF tab = ovn /\ Legacy(d) # {} THEN Unique(annotated \cup Legacy(d)) ELSE annotated
Available(d) ==
  {netobserv}
    \cup {tab \in {getRuleHealthContextId(r) : r \in Rules} \ {netobserv} : TabCopies(d, tab) # {}}
    \cup (IF \E c \in Copies(d) : c.rule.ovnGroup THEN {ovn} ELSE {})

(* The items of a tab, each with the copy that it is of.                   *)
TabItems(d, tab) ==
  UNION {{[item |-> i, by |-> c.by] :
            i \in AlertItems(c.rule, AlertsOf(c.rule, c.at), ActiveSilences(d.allSilences, FALSE))} :
         c \in TabCopies(d, tab)}

-----------------------------------------------------------------------------
(* The page.                                                               *)

Loading(p) == [p EXCEPT !.loading = TRUE, !.error = FALSE]

(* fetch: answers are not tied to the fetch they are of, and neither       *)
(* cancelled nor put in order.                                             *)
Fetch(p, annotated) ==
  /\ page' = Loading(p)
  /\ flights' = Append(flights, [since |-> now, annotated |-> annotated])
  /\ UNCHANGED <<now, failures>>

Init ==
  /\ now = 1 /\ failures = 0 /\ flights = <<>>
  /\ \E on \in BOOLEAN :
       page = [configLoaded |-> FALSE, annotated |-> FALSE, interval |-> on, loading |-> FALSE, error |-> FALSE,
               initialized |-> FALSE, data |-> NoAnswers, tab |-> netobserv]

(* The configuration has an error, or the annotations; the effect of the   *)
(* render that follows fetches.                                            *)
LoadConfig ==
  /\ ~page.configLoaded
  /\ \E ok \in BOOLEAN : Fetch([page EXCEPT !.configLoaded = TRUE, !.annotated = ok], ok)

Refresh == Len(flights) < MaxFlights /\ Fetch(page, page.annotated)

(* Mutant: the timer keeps the callback of the first render. *)
FirstCallback == FALSE
savedCallback == page.annotated
Poll == page.interval /\ Len(flights) < MaxFlights /\ Fetch(page, savedCallback)

SetInterval == page' = [page EXCEPT !.interval = ~page.interval] /\ UNCHANGED <<now, failures, flights>>

(* Tabs are rendered without an error only.                                *)
SelectTab ==
  /\ ~page.error
  /\ \E tab \in Available(page.data) : page' = [page EXCEPT !.tab = tab]
  /\ UNCHANGED <<now, failures, flights>>

TabEffect ==
  /\ page.tab # netobserv
  /\ page' = [page EXCEPT !.tab = netobserv]
  /\ page.tab \notin Available(page.data)
  /\ UNCHANGED <<now, failures, flights>>

(* The answers of a fetch: each was given at a moment since it was asked,  *)
(* and the silences, the groups of OVN and the values of a metric may have *)
(* failed instead.                                                         *)
FailedIn(d) == Cardinality({x \in {"silences", "values", "group", "allSilences"} : d[x] = Failed})
AnswersOf(f) ==
  LET required == f.since..now
      optional == {Failed} \cup required
  IN {d \in [alerts : required, contexts : required, silences : optional, values : optional, group : optional,
             allSilences : optional, annotated : {f.annotated}] : failures + FailedIn(d) <= MaxFailures}

Finished(p) == [p EXCEPT !.loading = FALSE, !.initialized = TRUE]

Answered(i) ==
  /\ flights' = RemoveAt(flights, i)
  /\ \E d \in AnswersOf(flights[i]) :
       /\ page' = Finished([page EXCEPT !.data = d])
       /\ failures' = failures + FailedIn(d)
  /\ UNCHANGED now

(* Mutant: the end of a fetch clears its error. *)
ErrorCleared(p) == [p EXCEPT !.error = FALSE]
WithError(p) == [p EXCEPT !.error = TRUE]
Failure(i) ==
  /\ failures < MaxFailures
  /\ flights' = RemoveAt(flights, i)
  /\ page' = Finished(WithError(page))
  /\ failures' = failures + 1
  /\ UNCHANGED now

WorldChanges == now < Len(Worlds) /\ now' = now + 1 /\ UNCHANGED <<failures, flights, page>>

Next ==
  \/ LoadConfig \/ Refresh \/ Poll \/ SetInterval \/ SelectTab \/ TabEffect \/ WorldChanges
  \/ \E i \in DOMAIN flights : Answered(i) \/ Failure(i)

(* Requests end, the configuration is loaded and the timer ticks.  The     *)
(* code does not bound the fetches under way, so the timer ticks again and *)
(* again even if the bound sometimes forbids it.                           *)
Spec ==
  /\ Init /\ [][Next]_pageVars
  /\ WF_pageVars(LoadConfig) /\ SF_pageVars(Poll)
  /\ WF_flights(flights # <<>> /\ flights' = Tail(flights))

-----------------------------------------------------------------------------
(* Properties                                                              *)

(* The state has its type; the data are all of the answers of a fetch, of  *)
(* which those without a fallback have not failed, or none.                *)
TypeOK ==
  /\ now \in Moments /\ failures \in 0..MaxFailures
  /\ flights \in Seq([since : Moments, annotated : BOOLEAN]) /\ Len(flights) <= MaxFlights + 1
  /\ page \in [configLoaded : BOOLEAN, annotated : BOOLEAN, interval : BOOLEAN, loading : BOOLEAN, error : BOOLEAN,
              initialized : BOOLEAN,
              data : [alerts : Answer, silences : Answer, values : Answer, contexts : Answer, group : Answer,
                      allSilences : Answer, annotated : BOOLEAN],
              tab : {netobserv, ovn} \cup {r.tab : r \in Rules}]
  /\ page.data # NoAnswers => {page.data.alerts, page.data.contexts} \subseteq Moments

(* What each tab shows of the answers displayed.                           *)
Shown ==
  [tab \in Available(page.data) |->
     IF tab = netobserv THEN NetobservItems(page.data) ELSE {c.item : c \in TabItems(page.data, tab)}]

(* The alerts of a rule are in one tab, that of its annotation, and those  *)
(* of OVN that have none in that of OVN: although two requests look for    *)
(* rules, by label and by group, and three filters choose among them       *)
(* (health-context.ts:16, health-contexts-fetcher.ts:82-96).               *)
OneTab ==
  LET shown == Shown
  IN \A r \in Rules :
       {tab \in DOMAIN shown : \E i \in shown[tab] : i.rule = r.name}
         \subseteq {IF r.tab = "none" /\ r.ovnName THEN ovn ELSE getRuleHealthContextId(r)}

(* No alert of a tab is counted twice because its rule is in two answers,  *)
(* as long as a rule of OVN without an annotation is there, so that those  *)
(* of the tab are compared (health-contexts-fetcher.ts:90).  Without one,  *)
(* and in other tabs, the code does count it twice.                        *)
CountedOnce ==
  Legacy(page.data) # {} =>
    LET items == TabItems(page.data, ovn)
    IN \A c, d \in items : c.item.rule = d.item.rule /\ c.item.labels = d.item.labels => c = d

(* An alert that fires and that no active silence matches, at all moments  *)
(* since the fetch displayed was asked, is shown as firing in its tab: it  *)
(* is lost neither between the requests nor by their failures, except that *)
(* of the groups of OVN for a rule that only this one finds, and neither   *)
(* by a silence that expired (health-fetcher.ts:16, :26).                  *)
Loud(rule, alert, moments) ==
  \A t \in moments :
    /\ alert \in AlertsOf(rule, t) /\ alert.state = "firing"
    /\ ~\E s \in Worlds[t].silences : s.active /\ isSilenced(s, alert.labels @@ rule.labels)
MomentsOf(d) == {d[x] : x \in DOMAIN d \ {"annotated"}} \ {Failed}
Found(rule) == rule.labelled \/ (rule.ovnGroup /\ rule.ovnName /\ rule.tab = "none" /\ page.data.group # Failed)
NeverHidden ==
  LET shown == Shown
      moments == MomentsOf(page.data)
  IN \A r \in {x \in Rules : Found(x)} :
       \A a \in UNION {AlertsOf(r, t) : t \in moments} :
         Loud(r, a, moments) =>
           \E tab \in DOMAIN shown : \E i \in shown[tab] : i.rule = r.name /\ i.labels = a.labels /\ i.state = "firing"

(* What the tabs show, of what was answered: each alert once, in its tab,  *)
(* and none that matters hidden.                                           *)
TabsInv == TypeOK /\ OneTab /\ CountedOnce /\ NeverHidden

(* A page that has never had an answer says so, by its error, and does not *)
(* claim that nothing is wrong; unless a fetch is under way, which clears  *)
(* the error of the one before (network-health.tsx:94, :132).              *)
EmptyWhileFetching ==
  page.configLoaded /\ page.initialized /\ ~page.error /\ page.data = NoAnswers => flights # <<>>

(* With auto-refresh, the page shows in the end what the cluster says,     *)
(* with the recording rules of the configuration and without an error,     *)
(* whatever order the answers came in and whatever failed before, once the *)
(* cluster stops changing and requests stop failing.                       *)
UpToDate ==
  /\ page.configLoaded /\ ~page.error
  /\ \A x \in DOMAIN NoAnswers \ {"annotated"} : page.data[x] = now
  /\ page.data.annotated = page.annotated
CatchesUp == <>[]page.interval => <>[]UpToDate

(* The impacts of the rules of a resource add up to the points that its    *)
(* score lacks, to the tenth that is displayed; so do those of a severity, *)
(* to theirs (rule-details.tsx:276-297, health-helper.ts:621).  Left out   *)
(* are resources with a threshold at the upper bound: it has no score.     *)
AddUp(items) ==
  \A severity \in Severities \cup {"all"} :
    LET total == SumFunction(Impacts(items, severity))
    IN /\ Rows(items, severity) # {} => total = Target(items, severity)
       /\ severity = "all" => total = Round(100 * Score(items).den - 10 * Score(items).num, Score(items).den)
ImpactsAddUp ==
  LET stats == buildStats(NetobservItems(page.data))
  IN \A r \in DOMAIN stats : (\A i \in Active(stats[r]) : HasRatio(i)) => AddUp(stats[r])

(* A resource with a critical or a warning rule that is active has a score *)
(* below 10, however many others there are, even one whose threshold is    *)
(* the upper bound, which has no score of its own (health-helper.ts:594).  *)
UnhealthyScores ==
  LET stats == buildStats(NetobservItems(page.data))
  IN \A r \in DOMAIN stats :
       (\E i \in Active(stats[r]) : i.severity \in {"critical", "warning"} /\ HasRatio(i)) =>
         Score(stats[r]).num < 10 * Score(stats[r]).den

(* The score of a resource and the points that the page tells for it.      *)
ScoresAddUp == ImpactsAddUp /\ UnhealthyScores
=============================================================================
