---------------------------- MODULE Health_proofs ----------------------------
(***************************************************************************)
(* Theorems about HealthPage, for any rules, any history of the cluster    *)
(* and any number of fetches and failures: the alerts of a rule are in one *)
(* tab, once, and those that matter are never hidden; a page without an    *)
(* answer does not claim that nothing is wrong; impacts add up to what the *)
(* score of a resource lacks.  And about HealthRules, at the end: a reset  *)
(* of a rule keeps what others wrote, and none is dropped silently.        *)
(*                                                                         *)
(* What the tabs show follows from the answers displayed, which are of one *)
(* fetch: alerts and rules are there whenever the page has an answer       *)
(* (TypeOK), and the other ones, if they failed, only ever leave out       *)
(* silences and the groups of OVN.                                         *)
(*                                                                         *)
(* Scores are facts about sums over finite sets, which are worked out by   *)
(* induction over the subsets: each row lacks less than a tenth when it    *)
(* has its whole tenths, so that what is left is at most one for each.     *)
(***************************************************************************)
EXTENDS HealthPage, HealthRules, FiniteSetTheorems, SequenceTheorems, WellFoundedInduction, TLAPS

Flight == [since : Moments, annotated : BOOLEAN]
Data == [alerts : Answer, silences : Answer, values : Answer, contexts : Answer, group : Answer,
         allSilences : Answer, annotated : BOOLEAN]
Tabs == {netobserv, ovn} \cup {r.tab : r \in Rules}
Page == [configLoaded : BOOLEAN, annotated : BOOLEAN, interval : BOOLEAN, loading : BOOLEAN, error : BOOLEAN,
         initialized : BOOLEAN, data : Data, tab : Tabs]

(* The fetch of the first render may be one above the bound; an answer is  *)
(* displayed whole.                                                        *)
IInv ==
  /\ TypeOK
  /\ ~page.configLoaded => Len(flights) <= MaxFlights
  /\ EmptyWhileFetching

-----------------------------------------------------------------------------
(* Types.                                                                  *)

LEMMA TypeFacts ==
  TypeOK <=> /\ now \in Moments /\ failures \in 0..MaxFailures
             /\ flights \in Seq(Flight) /\ Len(flights) <= MaxFlights + 1
             /\ page \in Page
             /\ page.data # NoAnswers => {page.data.alerts, page.data.contexts} \subseteq Moments
BY DEF TypeOK, Flight, Page, Data, Tabs

LEMMA Bounds == Moments \subseteq Nat \ {0} /\ 1 \in Moments /\ MaxFlights \in Nat /\ MaxFailures \in Nat
                /\ Failed \notin Moments
BY WorldsAssumption, BoundsAssumption DEF Moments, Failed

LEMMA NoAnswersFacts == NoAnswers \in Data /\ NoAnswers.alerts = Failed
BY DEF NoAnswers, Data, Answer

LEMMA AvailableFacts == \A d : Available(d) \subseteq Tabs
BY DEF Available, Tabs, getRuleHealthContextId

(* Another member of a sequence, or one less.                              *)
LEMMA OneMore ==
  ASSUME NEW S, NEW s \in Seq(S), NEW f \in S
  PROVE  Append(s, f) \in Seq(S) /\ Len(Append(s, f)) = Len(s) + 1 /\ Append(s, f) # <<>> /\ Len(s) \in Nat
<1>1. Append(s, f) \in Seq(S) /\ Len(Append(s, f)) = Len(s) + 1 /\ Len(s) \in Nat
  BY AppendProperties
<1>2. Len(<<>>) = 0
  OBVIOUS
<1> QED
  BY <1>1, <1>2

LEMMA OneLess ==
  ASSUME NEW S, NEW s \in Seq(S), NEW i \in DOMAIN s
  PROVE  /\ s[i] \in S /\ i \in 1..Len(s) /\ Len(s) \in Nat
         /\ RemoveAt(s, i) \in Seq(S) /\ Len(RemoveAt(s, i)) = Len(s) - 1
<1>1. i \in 1..Len(s) /\ s[i] \in S /\ Len(s) \in Nat
  OBVIOUS
<1>2. SubSeq(s, 1, i - 1) \in Seq(S) /\ Len(SubSeq(s, 1, i - 1)) = i - 1
  BY <1>1, SubSeqProperties
<1>3. SubSeq(s, i + 1, Len(s)) \in Seq(S) /\ Len(SubSeq(s, i + 1, Len(s))) = Len(s) - i
  BY <1>1, SubSeqProperties
<1>4. RemoveAt(s, i) \in Seq(S) /\ Len(RemoveAt(s, i)) = (i - 1) + (Len(s) - i)
  BY <1>2, <1>3, ConcatProperties DEF RemoveAt
<1> QED
  BY <1>1, <1>4

-----------------------------------------------------------------------------
(* The invariant is inductive.                                             *)

(* The invariant in terms of the names above. *)
LEMMA Parts ==
  IInv <=> /\ now \in Moments /\ failures \in 0..MaxFailures
           /\ flights \in Seq(Flight) /\ Len(flights) <= MaxFlights + 1
           /\ page \in Page
           /\ page.data # NoAnswers => {page.data.alerts, page.data.contexts} \subseteq Moments
           /\ ~page.configLoaded => Len(flights) <= MaxFlights
           /\ EmptyWhileFetching
BY TypeFacts DEF IInv

LEMMA PartsNext ==
  IInv' <=> /\ now' \in Moments /\ failures' \in 0..MaxFailures
            /\ flights' \in Seq(Flight) /\ Len(flights') <= MaxFlights + 1
            /\ page' \in Page
            /\ page'.data # NoAnswers => {page'.data.alerts, page'.data.contexts} \subseteq Moments
            /\ ~page'.configLoaded => Len(flights') <= MaxFlights
            /\ EmptyWhileFetching'
BY DEF IInv, TypeOK, Flight, Page, Data, Tabs

LEMMA InitIInv == Init => IInv
<1> SUFFICES ASSUME Init PROVE IInv
  OBVIOUS
<1>1. now \in Moments /\ failures \in 0..MaxFailures
  BY Bounds DEF Init
<1>2. flights \in Seq(Flight) /\ Len(flights) = 0
  BY DEF Init
<1>3. PICK on \in BOOLEAN :
        page = [configLoaded |-> FALSE, annotated |-> FALSE, interval |-> on, loading |-> FALSE, error |-> FALSE,
                initialized |-> FALSE, data |-> NoAnswers, tab |-> netobserv]
  BY DEF Init
<1>4. page \in Page
  BY <1>3, NoAnswersFacts DEF Page, Tabs
<1>5. page.data = NoAnswers /\ ~page.configLoaded
  BY <1>3
<1> QED
  BY <1>1, <1>2, <1>4, <1>5, Parts, Bounds DEF EmptyWhileFetching

(* A page that asks again. *)
LEMMA FetchStep ==
  ASSUME IInv, NEW p \in Page, NEW annotated \in BOOLEAN, Fetch(p, annotated), p.data = page.data,
         (p.configLoaded /\ Len(flights) <= MaxFlights) \/ Len(flights) < MaxFlights
  PROVE  IInv'
<1>1. /\ page' \in Page /\ page'.data = page.data /\ page'.configLoaded = p.configLoaded
  BY DEF Fetch, Loading, Page
<1>2. [since |-> now, annotated |-> annotated] \in Flight
  BY Parts DEF Flight
<1>3. flights' \in Seq(Flight) /\ Len(flights') = Len(flights) + 1 /\ flights' # <<>> /\ Len(flights) \in Nat
  BY <1>2, OneMore, Parts DEF Fetch
<1>4. now' = now /\ failures' = failures
  BY DEF Fetch
<1>5. Len(flights') <= MaxFlights + 1 /\ (~page'.configLoaded => Len(flights') <= MaxFlights)
  BY <1>1, <1>3, Bounds
<1>6. EmptyWhileFetching'
  BY <1>3 DEF EmptyWhileFetching
<1> QED
  BY <1>1, <1>3, <1>4, <1>5, <1>6, Parts, PartsNext

(* A page of which neither the answers nor the fetches change. *)
LEMMA PageStep ==
  ASSUME IInv, page' \in Page, page'.data = page.data, page'.configLoaded = page.configLoaded,
         page'.initialized = page.initialized, page'.error = page.error,
         now' \in Moments, UNCHANGED <<failures, flights>>
  PROVE  IInv'
<1>1. EmptyWhileFetching'
  BY Parts DEF EmptyWhileFetching
<1> QED
  BY <1>1, Parts, PartsNext

LEMMA AnsweredStep ==
  ASSUME IInv, NEW i \in DOMAIN flights, Answered(i)
  PROVE  IInv'
<1>1. /\ flights[i] \in Flight /\ Len(flights) \in Nat
      /\ flights' \in Seq(Flight) /\ Len(flights') = Len(flights) - 1
  BY OneLess, Parts DEF Answered
<1>2. PICK d \in AnswersOf(flights[i]) :
        page' = Finished([page EXCEPT !.data = d]) /\ failures' = failures + FailedIn(d)
  BY DEF Answered
<1> DEFINE required == flights[i].since..now
           optional == {Failed} \cup required
<1>3. now \in Moments /\ now' = now /\ required \subseteq Moments /\ flights[i].annotated \in BOOLEAN
  BY <1>1, Parts, Bounds, SMTT(30) DEF Answered, Flight, Moments
<1>4. /\ d \in [alerts : required, contexts : required, silences : optional, values : optional, group : optional,
                 allSilences : optional, annotated : {flights[i].annotated}]
      /\ failures + FailedIn(d) <= MaxFailures
  BY DEF AnswersOf
<1>5. d \in Data /\ {d.alerts, d.contexts} \subseteq Moments
  BY <1>3, <1>4 DEF Data, Answer
<1>6. d # NoAnswers
  BY <1>5, NoAnswersFacts, Bounds
<1>7. page' \in Page /\ page'.data = d /\ page'.configLoaded = page.configLoaded
  BY <1>2, <1>5, Parts DEF Finished, Page
<1>8. failures' \in 0..MaxFailures
  <2>1. FailedIn(d) \in Nat
    <3> DEFINE names == {"silences", "values", "group", "allSilences"}
    <3>1. IsFiniteSet(names)
      <4>1. IsFiniteSet({"silences"} \cup {"values"} \cup {"group"} \cup {"allSilences"})
        BY FS_Singleton, FS_Union
      <4> QED
        BY <4>1
    <3>2. IsFiniteSet({x \in names : d[x] = Failed})
      BY <3>1, FS_Subset
    <3> QED
      BY <3>2, FS_CardinalityType DEF FailedIn
  <2> QED
    BY <1>2, <1>4, <2>1, Parts, Bounds
<1>9. EmptyWhileFetching'
  BY <1>6, <1>7 DEF EmptyWhileFetching
<1>10. Len(flights') <= MaxFlights + 1 /\ (~page'.configLoaded => Len(flights') <= MaxFlights)
  BY <1>1, <1>7, Parts, Bounds
<1> QED
  BY <1>1, <1>3, <1>5, <1>7, <1>8, <1>9, <1>10, PartsNext

LEMMA FailureStep ==
  ASSUME IInv, NEW i \in DOMAIN flights, Failure(i)
  PROVE  IInv'
<1>1. /\ flights[i] \in Flight /\ Len(flights) \in Nat
      /\ flights' \in Seq(Flight) /\ Len(flights') = Len(flights) - 1
  BY OneLess, Parts DEF Failure
<1>2. /\ page' \in Page /\ page'.data = page.data /\ page'.configLoaded = page.configLoaded
      /\ page'.error
  BY Parts DEF Failure, Finished, WithError, Page
<1>3. failures' \in 0..MaxFailures /\ now' = now
  BY Parts, Bounds DEF Failure
<1>4. EmptyWhileFetching'
  BY <1>2 DEF EmptyWhileFetching
<1>5. Len(flights') <= MaxFlights + 1 /\ (~page'.configLoaded => Len(flights') <= MaxFlights)
  BY <1>1, <1>2, Parts, Bounds
<1> QED
  BY <1>1, <1>2, <1>3, <1>4, <1>5, Parts, PartsNext

LEMMA NextIInv == IInv /\ [Next]_pageVars => IInv'
<1> SUFFICES ASSUME IInv, [Next]_pageVars PROVE IInv'
  OBVIOUS
<1>1. CASE LoadConfig
  <2>1. PICK ok \in BOOLEAN : Fetch([page EXCEPT !.configLoaded = TRUE, !.annotated = ok], ok)
    BY <1>1 DEF LoadConfig
  <2> DEFINE p == [page EXCEPT !.configLoaded = TRUE, !.annotated = ok]
  <2>2. p \in Page /\ p.data = page.data /\ p.configLoaded
    BY Parts DEF Page
  <2>3. Len(flights) <= MaxFlights
    BY <1>1, Parts DEF LoadConfig
  <2> QED
    BY <2>1, <2>2, <2>3, FetchStep
<1>2. CASE Refresh \/ Poll
  <2>1. page \in Page /\ page.annotated \in BOOLEAN
    BY Parts DEF Page
  <2> QED
    BY <1>2, <2>1, FetchStep DEF Refresh, Poll, savedCallback
<1>3. CASE SetInterval
  <2>1. /\ page' \in Page /\ page'.data = page.data /\ page'.configLoaded = page.configLoaded
        /\ page'.initialized = page.initialized /\ page'.error = page.error
    BY <1>3, Parts DEF SetInterval, Page
  <2> QED
    BY <1>3, <2>1, PageStep, Parts DEF SetInterval
<1>4. CASE SelectTab
  <2>1. PICK tab \in Tabs : page' = [page EXCEPT !.tab = tab]
    BY <1>4, AvailableFacts DEF SelectTab
  <2>2. /\ page' \in Page /\ page'.data = page.data /\ page'.configLoaded = page.configLoaded
        /\ page'.initialized = page.initialized /\ page'.error = page.error
    BY <2>1, Parts DEF Page
  <2> QED
    BY <1>4, <2>2, PageStep, Parts DEF SelectTab
<1>5. CASE TabEffect
  <2>1. /\ page' \in Page /\ page'.data = page.data /\ page'.configLoaded = page.configLoaded
        /\ page'.initialized = page.initialized /\ page'.error = page.error
    BY <1>5, Parts DEF TabEffect, Page, Tabs
  <2> QED
    BY <1>5, <2>1, PageStep, Parts DEF TabEffect
<1>6. CASE WorldChanges
  <2>1. now' \in Moments
    BY <1>6, Parts, WorldsAssumption DEF WorldChanges, Moments
  <2> QED
    BY <1>6, <2>1, PageStep, Parts DEF WorldChanges
<1>7. CASE \E i \in DOMAIN flights : Answered(i) \/ Failure(i)
  BY <1>7, AnsweredStep, FailureStep
<1>8. CASE UNCHANGED pageVars
  BY <1>8, PageStep, Parts DEF pageVars
<1> QED
  BY <1>1, <1>2, <1>3, <1>4, <1>5, <1>6, <1>7, <1>8 DEF Next

(* A page without an answer that has loaded its configuration and is not   *)
(* fetching shows an error.                                                *)
THEOREM Invariant == Spec => []IInv
<1>1. Init => IInv
  BY InitIInv
<1>2. IInv /\ [Next]_pageVars => IInv'
  BY NextIInv
<1> QED
  BY <1>1, <1>2, PTL DEF Spec

(* A page without an answer says so.                                       *)
THEOREM SaysSo == Spec => []EmptyWhileFetching
<1>1. IInv => EmptyWhileFetching
  BY DEF IInv
<1> QED
  BY <1>1, Invariant, PTL

-----------------------------------------------------------------------------
(* What the tabs show.                                                     *)

(* The item of an alert. *)
Item(rule, a, silences) ==
  [rule |-> rule.name, kind |-> rule.kind, labels |-> a.labels, severity |-> rule.severity,
   value |-> a.value, threshold |-> rule.threshold,
   state |-> IF \E s \in silences : isSilenced(s, a.labels @@ rule.labels) THEN "silenced" ELSE a.state]

LEMMA ItemIn ==
  ASSUME NEW rule, NEW alerts, NEW silences, NEW a \in alerts
  PROVE  Item(rule, a, silences) \in AlertItems(rule, alerts, silences)
BY DEF AlertItems, Item

LEMMA ItemOf ==
  ASSUME NEW rule, NEW alerts, NEW silences, NEW i \in AlertItems(rule, alerts, silences)
  PROVE  \E a \in alerts : i = Item(rule, a, silences)
BY DEF AlertItems, Item

LEMMA ItemFields ==
  ASSUME NEW rule, NEW a, NEW silences
  PROVE  /\ Item(rule, a, silences).rule = rule.name
         /\ Item(rule, a, silences).labels = a.labels
         /\ (~\E s \in silences : isSilenced(s, a.labels @@ rule.labels)) => Item(rule, a, silences).state = a.state
BY DEF Item

(* The items of recording rules are of no rule of alerts. *)
LEMMA RecordingFacts ==
  ASSUME NEW recording \in Recordings, NEW values, NEW i \in RecordingItems(recording, values)
  PROVE  \A r \in Rules : i.rule # r.name
<1>1. i.rule = recording.name
  BY DEF RecordingItems
<1> QED
  BY <1>1, NamesAssumption

(* The copies of a rule.                                                   *)
LEMMA CopyFacts ==
  ASSUME NEW d, NEW c \in Copies(d)
  PROVE  /\ c.rule \in Rules /\ Exists(c.rule, c.at)
         /\ \/ c.by = "label" /\ c.at = d.contexts /\ c.rule.labelled
            \/ c.by = "group" /\ c.at = d.group /\ c.rule.ovnGroup
         /\ c = [rule |-> c.rule, by |-> c.by, at |-> c.at]
BY DEF Copies

LEMMA TabFacts ==
  ASSUME NEW d, NEW tab
  PROVE  /\ TabCopies(d, tab) \subseteq Copies(d)
         /\ \A c \in TabCopies(d, tab) :
              getRuleHealthContextId(c.rule) = tab \/ (tab = ovn /\ c.rule.ovnName /\ c.rule.tab = "none")
         /\ \A c \in Copies(d) : getRuleHealthContextId(c.rule) = tab /\ c.by = "label" => c \in TabCopies(d, tab)
BY DEF TabCopies, Legacy, Unique

LEMMA ItemByOf ==
  ASSUME NEW rule, NEW by, NEW alerts, NEW silences,
         NEW x \in {[item |-> i, by |-> by] : i \in AlertItems(rule, alerts, silences)}
  PROVE  \E a \in alerts : x = [item |-> Item(rule, a, silences), by |-> by]
<1>1. PICK i \in AlertItems(rule, alerts, silences) : x = [item |-> i, by |-> by]
  OBVIOUS
<1>2. PICK a \in alerts : i = Item(rule, a, silences)
  BY ItemOf
<1> QED
  BY <1>1, <1>2

(* An item of a tab that lists alerts is of one of its copies. *)
LEMMA TabItemOf ==
  ASSUME NEW d, NEW tab
  PROVE  /\ \A x \in TabItems(d, tab) : \E c \in TabCopies(d, tab) : \E a \in AlertsOf(c.rule, c.at) :
              x = [item |-> Item(c.rule, a, ActiveSilences(d.allSilences, FALSE)), by |-> c.by]
         /\ \A c \in TabCopies(d, tab) : \A a \in AlertsOf(c.rule, c.at) :
              [item |-> Item(c.rule, a, ActiveSilences(d.allSilences, FALSE)), by |-> c.by] \in TabItems(d, tab)
<1> DEFINE silences == ActiveSilences(d.allSilences, FALSE)
           Of(c) == {[item |-> i, by |-> c.by] : i \in AlertItems(c.rule, AlertsOf(c.rule, c.at), silences)}
<1>1. TabItems(d, tab) = UNION {Of(c) : c \in TabCopies(d, tab)}
  BY DEF TabItems
<1>2. \A x \in TabItems(d, tab) : \E c \in TabCopies(d, tab) : x \in Of(c)
  BY <1>1
<1>3. \A c \in TabCopies(d, tab) : \A x \in Of(c) : x \in TabItems(d, tab)
  BY <1>1
<1>4. ASSUME NEW c, NEW x \in Of(c)
      PROVE  \E a \in AlertsOf(c.rule, c.at) : x = [item |-> Item(c.rule, a, silences), by |-> c.by]
  <2> DEFINE rule == c.rule
             by == c.by
             alerts == AlertsOf(rule, c.at)
  <2>1. x \in {[item |-> i, by |-> by] : i \in AlertItems(rule, alerts, silences)}
    OBVIOUS
  <2> HIDE DEF Of, silences, rule, by, alerts
  <2>2. \E a \in alerts : x = [item |-> Item(rule, a, silences), by |-> by]
    BY <2>1, ItemByOf
  <2> QED
    BY <2>2 DEF alerts, rule, by
<1>5. \A c : \A a \in AlertsOf(c.rule, c.at) : [item |-> Item(c.rule, a, silences), by |-> c.by] \in Of(c)
  BY ItemIn
<1> HIDE DEF Of
<1> QED
  BY <1>2, <1>3, <1>4, <1>5

(* An item of a rule in the tab of NetObserv is of a rule of that tab. *)
LEMMA NetobservFacts ==
  ASSUME NEW d
  PROVE  /\ \A i \in NetobservItems(d), r \in Rules : i.rule = r.name => r \in NetobservRules
         /\ d.alerts # Failed =>
              \A r \in NetobservRules : \A a \in AlertsOf(r, d.alerts) :
                Item(r, a, ActiveSilences(d.silences, TRUE)) \in NetobservItems(d)
<1> DEFINE Of(r) == AlertItems(r, AlertsOf(r, d.alerts), ActiveSilences(d.silences, TRUE))
           Recorded(c) == RecordingItems(c, Worlds[d.values].values[c.name])
<1> DEFINE Alerts == UNION {Of(r) : r \in NetobservRules}
           Values == UNION {Recorded(c) : c \in Recordings}
<1>1. NetobservItems(d) \subseteq Alerts \cup Values
  <2>1. NetobservItems(d) = IF d.alerts = Failed THEN {}
                            ELSE Alerts \cup (IF d.annotated /\ d.values # Failed THEN Values ELSE {})
    BY DEF NetobservItems
  <2> HIDE DEF Alerts, Values
  <2> QED
    BY <2>1
<1>2. d.alerts # Failed => \A r \in NetobservRules : Of(r) \subseteq NetobservItems(d)
  BY DEF NetobservItems
<1>3. ASSUME NEW r, NEW i \in Of(r)
      PROVE  i.rule = r.name
  <2> DEFINE alerts == AlertsOf(r, d.alerts)
             silences == ActiveSilences(d.silences, TRUE)
  <2>1. i \in AlertItems(r, alerts, silences)
    OBVIOUS
  <2> HIDE DEF Of, alerts, silences
  <2>2. PICK a \in alerts : i = Item(r, a, silences)
    BY <2>1, ItemOf
  <2> QED
    BY <2>2, ItemFields
<1>4. \A c \in Recordings : \A i \in Recorded(c) : \A r \in Rules : i.rule # r.name
  BY RecordingFacts
<1>5. \A r : \A a \in AlertsOf(r, d.alerts) : Item(r, a, ActiveSilences(d.silences, TRUE)) \in Of(r)
  BY ItemIn
<1>6. NetobservRules \subseteq Rules
  BY DEF NetobservRules
<1> HIDE DEF Of, Recorded
<1>7. ASSUME NEW i \in NetobservItems(d), NEW r \in Rules, i.rule = r.name
      PROVE  r \in NetobservRules
  <2>1. (\E s \in NetobservRules : i \in Of(s)) \/ (\E c \in Recordings : i \in Recorded(c))
    <3>1. i \in Alerts => \E s \in NetobservRules : i \in Of(s)
      OBVIOUS
    <3>2. i \in Values => \E c \in Recordings : i \in Recorded(c)
      OBVIOUS
    <3> HIDE DEF Alerts, Values
    <3> QED
      BY <1>1, <3>1, <3>2
  <2>2. PICK s \in NetobservRules : i \in Of(s)
    BY <2>1, <1>4, <1>7
  <2>3. s.name = r.name /\ s \in Rules
    BY <2>2, <1>3, <1>6, <1>7
  <2> QED
    BY <2>3, NamesAssumption
<1> QED
  BY <1>2, <1>5, <1>7

LEMMA OneTabHolds == OneTab
<1> DEFINE Home(r) == IF r.tab = "none" /\ r.ovnName THEN ovn ELSE getRuleHealthContextId(r)
<1> SUFFICES ASSUME NEW r \in Rules, NEW tab \in Available(page.data), NEW i \in Shown[tab], i.rule = r.name
             PROVE  tab = Home(r)
  BY DEF OneTab, Shown
<1>1. CASE tab = netobserv
  <2>1. r \in NetobservRules
    BY <1>1, NetobservFacts DEF Shown
  <2> QED
    BY <1>1, <2>1, RulesAssumption DEF NetobservRules, isReadonlyAlertsContext, getRuleHealthContextId
<1>2. CASE tab # netobserv
  <2>1. PICK x \in TabItems(page.data, tab) : x.item = i
    BY <1>2 DEF Shown
  <2> DEFINE silences == ActiveSilences(page.data.allSilences, FALSE)
  <2>2. PICK c \in TabCopies(page.data, tab) : \E a \in AlertsOf(c.rule, c.at) :
          x = [item |-> Item(c.rule, a, silences), by |-> c.by]
    BY TabItemOf, ZenonT(60)
  <2> HIDE DEF silences
  <2>3. c.rule.name = r.name /\ c.rule \in Rules
    <3>1. PICK a \in AlertsOf(c.rule, c.at) : x = [item |-> Item(c.rule, a, silences), by |-> c.by]
      BY <2>2
    <3>2. x.item = Item(c.rule, a, silences)
      BY <3>1
    <3>3. i.rule = c.rule.name
      BY <2>1, <3>2, ItemFields
    <3> QED
      BY <3>3, TabFacts, CopyFacts
  <2>4. c.rule = r
    BY <2>3, NamesAssumption
  <2>5. getRuleHealthContextId(r) = tab \/ (tab = ovn /\ r.ovnName /\ r.tab = "none")
    BY <2>4, TabFacts
  <2> QED
    BY <1>2, <2>5 DEF getRuleHealthContextId
<1> QED
  BY <1>1, <1>2

(* Two copies of a rule that are compared are one. *)
LEMMA UniqueFacts ==
  ASSUME NEW d, NEW k \in TabCopies(d, ovn), NEW l \in TabCopies(d, ovn), Legacy(d) # {}, k.rule = l.rule
  PROVE  k = l
<1>1. PICK copies : TabCopies(d, ovn) = Unique(copies)
  BY DEF TabCopies
<1>2. k.by = "label" <=> l.by = "label"
  BY <1>1 DEF Unique
<1>3. k \in Copies(d) /\ l \in Copies(d)
  BY TabFacts
<1>4. k.by = l.by /\ k.at = l.at
  BY <1>2, <1>3, CopyFacts
<1> QED
  BY <1>3, <1>4, CopyFacts

(* Labels are of one alert of a rule. *)
LEMMA OneAlert ==
  ASSUME TypeOK, NEW c \in Copies(page.data),
         NEW a \in AlertsOf(c.rule, c.at), NEW b \in AlertsOf(c.rule, c.at), a.labels = b.labels
  PROVE  a = b
<1>1. page.data \in Data
  BY TypeFacts DEF Page
<1>2. c.at \in Answer /\ Exists(c.rule, c.at)
  BY <1>1, CopyFacts DEF Data
<1>3. c.at \in Moments /\ c.rule.name \in DOMAIN Worlds[c.at].alerts
  BY <1>2 DEF Exists, Answer
<1>4. AlertsOf(c.rule, c.at) = Worlds[c.at].alerts[c.rule.name]
  BY <1>2 DEF AlertsOf
<1> QED
  BY <1>3, <1>4, WorldsAssumption

LEMMA CountedOnceHolds == TypeOK => CountedOnce
<1> DEFINE silences == ActiveSilences(page.data.allSilences, FALSE)
           Entry(c, a) == [item |-> Item(c.rule, a, silences), by |-> c.by]
<1> SUFFICES ASSUME TypeOK, Legacy(page.data) # {},
                    NEW x \in TabItems(page.data, ovn), NEW y \in TabItems(page.data, ovn),
                    x.item.rule = y.item.rule, x.item.labels = y.item.labels
             PROVE  x = y
  BY DEF CountedOnce
<1>1. PICK k \in TabCopies(page.data, ovn) : \E a \in AlertsOf(k.rule, k.at) : x = Entry(k, a)
  BY TabItemOf
<1>2. PICK a \in AlertsOf(k.rule, k.at) : x = Entry(k, a)
  BY <1>1
<1>3. PICK l \in TabCopies(page.data, ovn) : \E b \in AlertsOf(l.rule, l.at) : y = Entry(l, b)
  BY TabItemOf
<1>4. PICK b \in AlertsOf(l.rule, l.at) : y = Entry(l, b)
  BY <1>3
<1>5. x.item = Item(k.rule, a, silences) /\ y.item = Item(l.rule, b, silences)
  BY <1>2, <1>4
<1>6. k.rule.name = l.rule.name /\ a.labels = b.labels
  <2> HIDE DEF silences
  <2> QED
    BY <1>5, ItemFields
<1>7. k \in Copies(page.data) /\ k.rule \in Rules /\ l.rule \in Rules
  BY TabFacts, CopyFacts
<1>8. k.rule = l.rule
  BY <1>6, <1>7, NamesAssumption
<1>9. k = l
  BY <1>8, UniqueFacts
<1>10. a = b
  BY <1>6, <1>7, <1>9, OneAlert
<1> QED
  BY <1>2, <1>4, <1>9, <1>10

-----------------------------------------------------------------------------
(* What matters is shown.                                                  *)

(* An alert that no silence matches is listed as firing. *)
LEMMA NotSilenced ==
  ASSUME NEW r, NEW a, NEW moments, Loud(r, a, moments), NEW t \in moments \cup {Failed}, NEW filtered \in BOOLEAN,
         moments # {}
  PROVE  Item(r, a, ActiveSilences(t, filtered)).state = "firing"
<1>1. a.state = "firing"
  BY DEF Loud
<1>2. ~\E s \in ActiveSilences(t, filtered) : isSilenced(s, a.labels @@ r.labels)
  BY DEF Loud, ActiveSilences
<1> QED
  BY <1>1, <1>2, ItemFields

LEMMA MomentsFacts ==
  ASSUME TypeOK, MomentsOf(page.data) # {}
  PROVE  /\ page.data \in Data
         /\ {page.data.alerts, page.data.contexts} \subseteq MomentsOf(page.data)
         /\ {page.data.silences, page.data.group, page.data.allSilences} \subseteq MomentsOf(page.data) \cup {Failed}
<1>1. page.data \in Data
  BY TypeFacts DEF Page
<1>2. page.data # NoAnswers
  BY DEF MomentsOf, NoAnswers
<1>3. {page.data.alerts, page.data.contexts} \subseteq Moments
  BY <1>2, TypeFacts
<1>4. DOMAIN page.data = {"alerts", "silences", "values", "contexts", "group", "allSilences", "annotated"}
  BY <1>1 DEF Data
<1>5. \A name \in {"alerts", "contexts", "silences", "group", "allSilences"} :
        page.data[name] \in MomentsOf(page.data) \cup {Failed}
  BY <1>4 DEF MomentsOf
<1> QED
  BY <1>1, <1>3, <1>5, Bounds

LEMMA NeverHiddenHolds == TypeOK => NeverHidden
<1> DEFINE d == page.data
           moments == MomentsOf(d)
           silences == ActiveSilences(d.allSilences, FALSE)
           Goal(r, a) == \E tab \in DOMAIN Shown :
             \E i \in Shown[tab] : i.rule = r.name /\ i.labels = a.labels /\ i.state = "firing"
<1> SUFFICES ASSUME TypeOK, NEW r \in Rules, Found(r), NEW t \in moments, NEW a \in AlertsOf(r, t),
                    Loud(r, a, moments)
             PROVE  Goal(r, a)
  BY DEF NeverHidden
<1>1. /\ d \in Data /\ {d.alerts, d.contexts} \subseteq moments
      /\ {d.silences, d.group, d.allSilences} \subseteq moments \cup {Failed}
  BY MomentsFacts
<1>2. \A m \in moments : a \in AlertsOf(r, m) /\ Exists(r, m) /\ m # Failed
  BY DEF Loud, AlertsOf, MomentsOf
<1>3. DOMAIN Shown = Available(d) /\ netobserv \in DOMAIN Shown
  BY DEF Shown, Available
(* A rule of a tab that lists alerts, by a copy of it there. *)
<1>4. ASSUME NEW tab \in Available(d) \ {netobserv}, NEW c \in TabCopies(d, tab), c.rule = r, c.at \in moments
      PROVE  Goal(r, a)
  <2>1. [item |-> Item(r, a, silences), by |-> c.by] \in TabItems(d, tab)
    BY <1>2, <1>4, TabItemOf
  <2>2. Item(r, a, silences) \in Shown[tab]
    <3>1. Shown[tab] = {x.item : x \in TabItems(d, tab)}
      BY <1>4 DEF Shown
    <3> DEFINE entry == [item |-> Item(r, a, silences), by |-> c.by]
    <3>2. entry.item = Item(r, a, silences)
      OBVIOUS
    <3> HIDE DEF entry
    <3> QED
      BY <2>1, <3>1, <3>2 DEF entry
  <2>3. Item(r, a, silences).state = "firing"
    BY <1>1, NotSilenced, ZenonT(60)
  <2> HIDE DEF silences
  <2>4. Item(r, a, silences).rule = r.name /\ Item(r, a, silences).labels = a.labels
    BY ItemFields
  <2> QED
    BY <1>3, <2>2, <2>3, <2>4
<1>5. CASE r.labelled /\ getRuleHealthContextId(r) = netobserv
  <2> DEFINE own == ActiveSilences(d.silences, TRUE)
  <2>1. r \in NetobservRules /\ a \in AlertsOf(r, d.alerts) /\ d.alerts # Failed
    BY <1>1, <1>2, <1>5 DEF NetobservRules, isReadonlyAlertsContext
  <2>2. Item(r, a, own) \in NetobservItems(d)
    BY <2>1, NetobservFacts
  <2>3. Item(r, a, own) \in Shown[netobserv]
    BY <1>3, <2>2 DEF Shown
  <2>4. Item(r, a, own).state = "firing"
    BY <1>1, NotSilenced, ZenonT(60)
  <2> HIDE DEF own
  <2>5. Item(r, a, own).rule = r.name /\ Item(r, a, own).labels = a.labels
    BY ItemFields
  <2> QED
    BY <1>3, <2>3, <2>4, <2>5
<1>6. CASE r.labelled /\ getRuleHealthContextId(r) # netobserv
  <2> DEFINE tab == getRuleHealthContextId(r)
             c == [rule |-> r, by |-> "label", at |-> d.contexts]
  <2>1. c \in Copies(d)
    BY <1>1, <1>2, <1>6 DEF Copies
  <2>2. c \in TabCopies(d, tab)
    BY <2>1, TabFacts
  <2>3. tab \in Available(d) \ {netobserv}
    BY <2>2, <1>6 DEF Available
  <2> QED
    BY <1>1, <1>4, <2>2, <2>3
<1>7. CASE ~r.labelled
  <2> DEFINE c == [rule |-> r, by |-> "group", at |-> d.group]
  <2>1. r.ovnGroup /\ r.ovnName /\ r.tab = "none" /\ d.group # Failed
    BY <1>7 DEF Found
  <2>2. d.group \in moments /\ Exists(r, d.group)
    BY <1>1, <1>2, <2>1
  <2>3. c \in Copies(d)
    BY <2>1, <2>2 DEF Copies
  <2>4. c \in Legacy(d)
    BY <2>1, <2>3 DEF Legacy
  <2>5. ~\E o \in Copies(d) : o.rule = c.rule /\ o.by = "label"
    BY <1>7, CopyFacts
  <2>6. c \in TabCopies(d, ovn)
    BY <2>4, <2>5 DEF TabCopies, Unique, Legacy
  <2>7. ovn \in Available(d) \ {netobserv}
    BY <2>1, <2>3 DEF Available, ovn, netobserv
  <2> QED
    BY <1>4, <2>2, <2>6, <2>7
<1> QED
  BY <1>5, <1>6, <1>7

(* The alerts of a rule are shown in its tab, once, and those that matter  *)
(* are never hidden.                                                       *)
THEOREM TabsTell == Spec => []TabsInv
<1>1. IInv => TabsInv
  BY OneTabHolds, CountedOnceHolds, NeverHiddenHolds DEF IInv, TabsInv
<1> QED
  BY <1>1, Invariant, PTL

-----------------------------------------------------------------------------
(* Sums.                                                                   *)

(* Induction over the subsets of a finite set, of membership in a set.     *)
LEMMA SubsetInduction ==
  ASSUME NEW S, IsFiniteSet(S), NEW P,
         \A T \in SUBSET S : (\A U \in SUBSET T : U # T => U \in P) => T \in P
  PROVE  \A T \in SUBSET S : T \in P
<1> DEFINE Bad == {T \in SUBSET S : T \notin P}
<1> SUFFICES ASSUME Bad # {} PROVE FALSE
  OBVIOUS
<1>1. Bad \subseteq FiniteSubsetsOf(S)
  BY FS_FiniteSubsetsOfFinite
<1>2. IsWellFoundedOn(StrictSubsetOrdering(S), FiniteSubsetsOf(S))
  BY FS_StrictSubsetOrderingWellFounded
<1>3. PICK T \in Bad : \A U \in Bad : ~ (<<U, T>> \in StrictSubsetOrdering(S))
  <2> HIDE DEF Bad
  <2> QED
    BY <1>1, <1>2, WFMin
<1>4. ASSUME NEW U \in SUBSET T, U # T
      PROVE  U \in P
  <2>1. U \in SUBSET S
    OBVIOUS
  <2>2. <<U, T>> \in StrictSubsetOrdering(S)
    BY <1>4, <2>1 DEF StrictSubsetOrdering
  <2> QED
    BY <1>3, <2>1, <2>2
<1> QED
  BY <1>3, <1>4

(* Induction over the natural numbers, of membership in a set.             *)
LEMMA Induction ==
  ASSUME NEW S, 0 \in S, \A n \in Nat : n \in S => n + 1 \in S
  PROVE  \A n \in Nat : n \in S
<1> DEFINE T == {n \in Nat : n \notin S}
           R == {ss \in Nat \X Nat : ss[1] < ss[2]}
<1> SUFFICES ASSUME T # {} PROVE FALSE
  OBVIOUS
<1>1. IsWellFoundedOn(R, Nat)
  BY NatLessThanWellFounded DEF OpToRel
<1>2. \A x, y \in Nat : x < y => <<x, y>> \in R
  OBVIOUS
<1>3. PICK x \in T : \A y \in T : ~ (<<y, x>> \in R)
  <2> HIDE DEF R
  <2> QED
    BY <1>1, WFMin
<1> HIDE DEF R
<1>4. x # 0 /\ x \in Nat
  OBVIOUS
<1>5. x - 1 \in Nat /\ x - 1 + 1 = x /\ x - 1 < x
  BY <1>4
<1>6. x - 1 \notin T
  BY <1>2, <1>3, <1>4, <1>5
<1> QED
  BY <1>4, <1>5, <1>6

(* A sum takes one member, then those left.                                *)
One(s) == CHOOSE x \in s : TRUE
Takes(f, s, g) == g[s] = IF s = {} THEN 0 ELSE f[One(s)] + g[s \ {One(s)}]
Adds(f, S, g) == g = [s \in SUBSET S |-> IF s = {} THEN 0 ELSE f[One(s)] + g[s \ {One(s)}]]

(* The member of a set that is taken first. *)
LEMMA OneIn == \A s : s # {} => One(s) \in s
BY DEF One

(* A function tells the sum over every subset. *)
LEMMA SumExists ==
  ASSUME NEW S, IsFiniteSet(S), NEW f, \A x \in S : f[x] \in Int
  PROVE  \E g \in [SUBSET S -> Int] : Adds(f, S, g)
<1> DEFINE Good(n) == \E g \in [SUBSET S -> Int] : \A s \in SUBSET S : Cardinality(s) <= n => Takes(f, s, g)
           N == {n \in Nat : Good(n)}
<1>1. \A s \in SUBSET S : IsFiniteSet(s) /\ Cardinality(s) \in Nat
  BY FS_Subset, FS_CardinalityType
<1>2. \A s \in SUBSET S : s # {} => /\ s \ {One(s)} \in SUBSET S /\ f[One(s)] \in Int
                                    /\ Cardinality(s \ {One(s)}) = Cardinality(s) - 1
  BY <1>1, OneIn, FS_RemoveElement
<1>3. \A s \in SUBSET S : Cardinality(s) = 0 <=> s = {}
  BY <1>1, FS_EmptySet
<1>4. Good(0)
  <2> DEFINE g == [s \in SUBSET S |-> 0]
  <2>1. g \in [SUBSET S -> Int]
    OBVIOUS
  <2>2. \A s \in SUBSET S : Cardinality(s) <= 0 => Takes(f, s, g)
    BY <1>1, <1>3 DEF Takes
  <2> QED
    BY <2>1, <2>2
<1>5. ASSUME NEW n \in Nat, Good(n)
      PROVE  Good(n + 1)
  <2>1. PICK g \in [SUBSET S -> Int] : \A s \in SUBSET S : Cardinality(s) <= n => Takes(f, s, g)
    BY <1>5
  <2> DEFINE h == [s \in SUBSET S |-> IF Cardinality(s) <= n THEN g[s] ELSE f[One(s)] + g[s \ {One(s)}]]
  <2>2. \A s \in SUBSET S : ~(Cardinality(s) <= n) => s # {}
    BY <1>1, <1>3
  <2>3. h \in [SUBSET S -> Int]
    BY <1>2, <2>2
  <2>4. ASSUME NEW s \in SUBSET S, Cardinality(s) <= n + 1
        PROVE  Takes(f, s, h)
    <3>1. CASE s = {}
      <4>1. h[s] = g[s] /\ g[s] = 0
        BY <1>3, <2>1, <3>1 DEF Takes
      <4> QED
        BY <3>1, <4>1 DEF Takes
    <3>2. CASE s # {}
      <4> DEFINE less == s \ {One(s)}
      <4>1. less \in SUBSET S /\ Cardinality(less) <= n
        BY <1>1, <1>2, <2>4, <3>2
      <4>2. h[less] = g[less]
        BY <4>1
      <4>3. h[s] = f[One(s)] + g[less]
        BY <2>1, <3>2 DEF Takes
      <4> HIDE DEF h
      <4> QED
        BY <3>2, <4>2, <4>3 DEF Takes
    <3> QED
      BY <3>1, <3>2
  <2> QED
    BY <2>3, <2>4
<1>6. \A n \in Nat : n \in N
  <2>1. 0 \in N /\ \A n \in Nat : n \in N => n + 1 \in N
    <3> HIDE DEF Good
    <3> QED
      BY <1>4, <1>5
  <2> HIDE DEF N
  <2> QED
    BY <2>1, Induction
<1>7. Good(Cardinality(S))
  BY <1>1, <1>6
<1>8. PICK g \in [SUBSET S -> Int] : \A s \in SUBSET S : Cardinality(s) <= Cardinality(S) => Takes(f, s, g)
  BY <1>7
<1>9. \A s \in SUBSET S : Takes(f, s, g)
  BY <1>8, FS_Subset
<1>10. Adds(f, S, g)
  BY <1>9 DEF Adds, Takes
<1> QED
  BY <1>10

(* The sum is the one that this function tells. *)
LEMMA SumAdds ==
  ASSUME NEW S, IsFiniteSet(S), NEW f, \A x \in S : f[x] \in Int
  PROVE  \E g : Adds(f, S, g) /\ SumFunctionOnSet(f, S) = g[S]
<1> DEFINE g == CHOOSE g : Adds(f, S, g)
<1>1. Adds(f, S, g)
  <2>1. \E h : Adds(f, S, h)
    BY SumExists
  <2> QED
    BY <2>1
<1>2. SumFunctionOnSet(f, S) = g[S]
  BY DEF SumFunctionOnSet, FoldFunctionOnSet, MapThenFoldSet, Adds, One
<1> QED
  BY <1>1, <1>2

(* Two ways to add agree on what both add. *)
LEMMA SumUnique ==
  ASSUME NEW S, IsFiniteSet(S), NEW T \in SUBSET S, NEW f, NEW g, NEW h, Adds(f, S, g), Adds(f, T, h)
  PROVE  \A U \in SUBSET T : g[U] = h[U]
<1> DEFINE P == {U \in SUBSET T : g[U] = h[U]}
<1>1. IsFiniteSet(T)
  BY FS_Subset
<1>2. ASSUME NEW U \in SUBSET T, \A V \in SUBSET U : V # U => V \in P
      PROVE  U \in P
  <2>1. g[U] = IF U = {} THEN 0 ELSE f[One(U)] + g[U \ {One(U)}]
    BY DEF Adds
  <2>2. h[U] = IF U = {} THEN 0 ELSE f[One(U)] + h[U \ {One(U)}]
    BY DEF Adds
  <2>3. U # {} => g[U \ {One(U)}] = h[U \ {One(U)}]
    BY <1>2, OneIn
  <2> QED
    BY <2>1, <2>2, <2>3
<1>3. \A U \in SUBSET T : U \in P
  <2> HIDE DEF P
  <2> QED
    BY <1>1, <1>2, SubsetInduction
<1> QED
  BY <1>3

(* A sum is that of one member and of the others. *)
LEMMA SumOne ==
  ASSUME NEW S, IsFiniteSet(S), NEW f, \A x \in S : f[x] \in Int
  PROVE  \A T \in SUBSET S :
           /\ SumFunctionOnSet(f, T) \in Int
           /\ T = {} => SumFunctionOnSet(f, T) = 0
           /\ T # {} => SumFunctionOnSet(f, T) = f[One(T)] + SumFunctionOnSet(f, T \ {One(T)})
<1>1. PICK g \in [SUBSET S -> Int] : Adds(f, S, g)
  BY SumExists
<1>2. ASSUME NEW T \in SUBSET S
      PROVE  SumFunctionOnSet(f, T) = g[T]
  <2>1. IsFiniteSet(T)
    BY FS_Subset
  <2>2. PICK h : Adds(f, T, h) /\ SumFunctionOnSet(f, T) = h[T]
    BY <2>1, SumAdds
  <2> QED
    BY <1>1, <2>2, SumUnique
<1>3. \A T \in SUBSET S : g[T] = IF T = {} THEN 0 ELSE f[One(T)] + g[T \ {One(T)}]
  BY <1>1 DEF Adds
<1> QED
  BY <1>2, <1>3

(* The same, of a function to the integers. *)
LEMMA SumOf ==
  ASSUME NEW S, IsFiniteSet(S), NEW f \in [S -> Int]
  PROVE  \A T \in SUBSET S :
           /\ SumFunctionOnSet(f, T) \in Int
           /\ T = {} => SumFunctionOnSet(f, T) = 0
           /\ T # {} => SumFunctionOnSet(f, T) = f[One(T)] + SumFunctionOnSet(f, T \ {One(T)})
<1>1. \A x \in S : f[x] \in Int
  OBVIOUS
<1> QED
  BY <1>1, SumOne

(* A sum over all of a domain. *)
LEMMA SumInt ==
  ASSUME NEW S, IsFiniteSet(S), NEW f \in [S -> Int]
  PROVE  SumFunction(f) \in Int /\ (S = {} => SumFunction(f) = 0)
<1>1. DOMAIN f = S /\ S \in SUBSET S
  OBVIOUS
<1>2. SumFunctionOnSet(f, S) \in Int /\ (S = {} => SumFunctionOnSet(f, S) = 0)
  BY <1>1, SumOf
<1> QED
  BY <1>1, <1>2 DEF SumFunction

(* Any member may be taken first. *)
LEMMA SumAny ==
  ASSUME NEW S, IsFiniteSet(S), NEW f, \A x \in S : f[x] \in Int
  PROVE  \A T \in SUBSET S : \A y \in T :
           SumFunctionOnSet(f, T) = f[y] + SumFunctionOnSet(f, T \ {y})
<1> DEFINE Sum(T) == SumFunctionOnSet(f, T)
           P == {T \in SUBSET S : \A y \in T : Sum(T) = f[y] + Sum(T \ {y})}
<1>1. \A T \in SUBSET S : Sum(T) \in Int /\ (T # {} => Sum(T) = f[One(T)] + Sum(T \ {One(T)}))
  BY SumOne
<1> HIDE DEF Sum
<1>2. ASSUME NEW T \in SUBSET S, \A U \in SUBSET T : U # T => U \in P
      PROVE  T \in P
  <2> SUFFICES ASSUME NEW y \in T, y # One(T) PROVE Sum(T) = f[y] + Sum(T \ {y})
    BY <1>1
  <2> DEFINE x == One(T)
  <2>1. x \in T
    BY OneIn
  <2> HIDE DEF x
  <2>2. T \ {x} \in P /\ T \ {y} \in P
    BY <1>2, <2>1
  <2>3. y \in T \ {x} /\ x \in T \ {y}
    BY <2>1 DEF x
  <2>4. Sum(T \ {x}) = f[y] + Sum((T \ {x}) \ {y}) /\ Sum(T \ {y}) = f[x] + Sum((T \ {y}) \ {x})
    BY <2>2, <2>3
  <2>5. (T \ {x}) \ {y} = (T \ {y}) \ {x}
    OBVIOUS
  <2>6. Sum(T) = f[x] + Sum(T \ {x})
    BY <1>1 DEF x
  <2>7. f[x] \in Int /\ f[y] \in Int /\ Sum((T \ {y}) \ {x}) \in Int
    BY <1>1, <2>1
  <2>8. Sum(T) = f[x] + (f[y] + Sum((T \ {y}) \ {x}))
    BY <2>4, <2>5, <2>6
  <2>9. Sum(T) = f[y] + (f[x] + Sum((T \ {y}) \ {x}))
    BY <2>7, <2>8
  <2> QED
    BY <2>4, <2>9
<1>3. \A T \in SUBSET S : T \in P
  <2> HIDE DEF P
  <2> QED
    BY <1>2, SubsetInduction
<1> QED
  BY <1>3 DEF Sum

(* A sum of sums, and of multiples.                                        *)
Linear(S, a, f, b, g, h) == \A x \in S : h[x] = a * f[x] + b * g[x]

LEMMA SumLinear ==
  ASSUME NEW S, IsFiniteSet(S), NEW f \in [S -> Int], NEW g \in [S -> Int], NEW h \in [S -> Int],
         NEW a \in Int, NEW b \in Int, Linear(S, a, f, b, g, h)
  PROVE  SumFunction(h) = a * SumFunction(f) + b * SumFunction(g)
<1> DEFINE F(T) == SumFunctionOnSet(f, T)
           G(T) == SumFunctionOnSet(g, T)
           H(T) == SumFunctionOnSet(h, T)
           P == {T \in SUBSET S : H(T) = a * F(T) + b * G(T)}
<1>1. \A T \in SUBSET S : /\ F(T) \in Int /\ G(T) \in Int /\ H(T) \in Int
                          /\ T = {} => F(T) = 0 /\ G(T) = 0 /\ H(T) = 0
                          /\ T # {} => /\ F(T) = f[One(T)] + F(T \ {One(T)})
                                       /\ G(T) = g[One(T)] + G(T \ {One(T)})
                                       /\ H(T) = h[One(T)] + H(T \ {One(T)})
  <2>2. \A T \in SUBSET S : /\ F(T) \in Int
                            /\ T = {} => F(T) = 0
                            /\ T # {} => F(T) = f[One(T)] + F(T \ {One(T)})
    BY SumOf, Zenon
  <2>3. \A T \in SUBSET S : /\ G(T) \in Int
                            /\ T = {} => G(T) = 0
                            /\ T # {} => G(T) = g[One(T)] + G(T \ {One(T)})
    BY SumOf, Zenon
  <2>4. \A T \in SUBSET S : /\ H(T) \in Int
                            /\ T = {} => H(T) = 0
                            /\ T # {} => H(T) = h[One(T)] + H(T \ {One(T)})
    BY SumOf, Zenon
  <2> HIDE DEF F, G, H
  <2> QED
    BY <2>2, <2>3, <2>4
<1> HIDE DEF F, G, H
<1>2. ASSUME NEW T \in SUBSET S, \A U \in SUBSET T : U # T => U \in P
      PROVE  T \in P
  <2>1. CASE T = {}
    <3>1. F(T) = 0 /\ G(T) = 0 /\ H(T) = 0
      BY <1>1, <2>1
    <3> QED
      BY <3>1
  <2>2. CASE T # {}
    <3> DEFINE less == T \ {One(T)}
    <3>1. One(T) \in S /\ less \in SUBSET T /\ less # T
      BY <2>2, OneIn
    <3>2. H(less) = a * F(less) + b * G(less)
      BY <1>2, <3>1
    <3>3. h[One(T)] = a * f[One(T)] + b * g[One(T)]
      BY <3>1 DEF Linear
    <3>4. /\ F(less) \in Int /\ G(less) \in Int /\ f[One(T)] \in Int /\ g[One(T)] \in Int
      BY <1>1, <3>1
    <3>5. ASSUME NEW u \in Int, NEW v \in Int, NEW m \in Int, NEW n \in Int
          PROVE  (a * u + b * v) + (a * m + b * n) = a * (u + m) + b * (v + n)
      OBVIOUS
    <3>6. F(T) = f[One(T)] + F(less) /\ G(T) = g[One(T)] + G(less) /\ H(T) = h[One(T)] + H(less)
      BY <1>1, <2>2
    <3> HIDE DEF less
    <3> QED
      BY <3>2, <3>3, <3>4, <3>5, <3>6
  <2> QED
    BY <2>1, <2>2
<1>3. \A T \in SUBSET S : T \in P
  <2> HIDE DEF P
  <2> QED
    BY <1>2, SubsetInduction
<1>4. H(S) = a * F(S) + b * G(S)
  BY <1>3
<1> QED
  BY <1>4 DEF F, G, H, SumFunction

(* A sum of larger terms is larger, more so if one of them is.             *)
LEMMA SumLess ==
  ASSUME NEW S, IsFiniteSet(S), NEW f \in [S -> Int], NEW g \in [S -> Int], \A x \in S : f[x] <= g[x]
  PROVE  /\ SumFunction(f) <= SumFunction(g)
         /\ (\E x \in S : f[x] < g[x]) => SumFunction(f) < SumFunction(g)
<1> DEFINE F(T) == SumFunctionOnSet(f, T)
           G(T) == SumFunctionOnSet(g, T)
           P == {T \in SUBSET S : F(T) <= G(T)}
<1>1. \A T \in SUBSET S : /\ F(T) \in Int /\ G(T) \in Int
                          /\ T = {} => F(T) = 0 /\ G(T) = 0
                          /\ T # {} => /\ F(T) = f[One(T)] + F(T \ {One(T)})
                                       /\ G(T) = g[One(T)] + G(T \ {One(T)})
  <2>2. \A T \in SUBSET S : /\ F(T) \in Int
                            /\ T = {} => F(T) = 0
                            /\ T # {} => F(T) = f[One(T)] + F(T \ {One(T)})
    BY SumOf, Zenon
  <2>3. \A T \in SUBSET S : /\ G(T) \in Int
                            /\ T = {} => G(T) = 0
                            /\ T # {} => G(T) = g[One(T)] + G(T \ {One(T)})
    BY SumOf, Zenon
  <2> HIDE DEF F, G
  <2> QED
    BY <2>2, <2>3
<1>2. \A x \in S : F(S) = f[x] + F(S \ {x}) /\ G(S) = g[x] + G(S \ {x})
  BY SumAny
<1> HIDE DEF F, G
<1>3. ASSUME NEW T \in SUBSET S, \A U \in SUBSET T : U # T => U \in P
      PROVE  T \in P
  <2>1. CASE T = {}
    <3>1. F(T) = 0 /\ G(T) = 0
      BY <1>1, <2>1
    <3> QED
      BY <3>1
  <2>2. CASE T # {}
    <3> DEFINE less == T \ {One(T)}
    <3>1. One(T) \in S /\ less \in SUBSET T /\ less # T
      BY <2>2, OneIn
    <3>2. F(less) <= G(less) /\ F(less) \in Int /\ G(less) \in Int
      BY <1>1, <1>3, <3>1
    <3>3. F(T) = f[One(T)] + F(less) /\ G(T) = g[One(T)] + G(less)
      BY <1>1, <2>2
    <3>4. f[One(T)] <= g[One(T)] /\ f[One(T)] \in Int /\ g[One(T)] \in Int
      BY <3>1
    <3> HIDE DEF less
    <3> QED
      BY <3>2, <3>3, <3>4
  <2> QED
    BY <2>1, <2>2
<1>4. \A T \in SUBSET S : F(T) <= G(T)
  <2>1. \A T \in SUBSET S : T \in P
    <3> HIDE DEF P
    <3> QED
      BY <1>3, SubsetInduction
  <2> QED
    BY <2>1
<1>5. ASSUME NEW x \in S, f[x] < g[x]
      PROVE  F(S) < G(S)
  <2>1. F(S \ {x}) <= G(S \ {x}) /\ F(S \ {x}) \in Int /\ G(S \ {x}) \in Int
    BY <1>1, <1>4
  <2> QED
    BY <1>2, <1>5, <2>1
<1> QED
  BY <1>4, <1>5 DEF F, G, SumFunction

(* Ones add up to the number of those that have one.                       *)
LEMMA SumOnes ==
  ASSUME NEW S, IsFiniteSet(S), NEW M \in SUBSET S
  PROVE  SumFunction([x \in S |-> IF x \in M THEN 1 ELSE 0]) = Cardinality(M)
<1> DEFINE f == [x \in S |-> IF x \in M THEN 1 ELSE 0]
           F(T) == SumFunctionOnSet(f, T)
           P == {T \in SUBSET S : F(T) = Cardinality(M \cap T)}
<1>1. \A T \in SUBSET S : /\ F(T) \in Int
                          /\ T = {} => F(T) = 0
                          /\ T # {} => F(T) = f[One(T)] + F(T \ {One(T)})
  <2>1. \A x \in S : f[x] \in Int
    OBVIOUS
  <2> HIDE DEF f
  <2> HIDE DEF f
  <2> QED
    BY <2>1, SumOne
<1>2. \A x \in S : f[x] = IF x \in M THEN 1 ELSE 0
  OBVIOUS
<1>3. DOMAIN f = S
  OBVIOUS
<1> HIDE DEF F, f
<1>4. ASSUME NEW T \in SUBSET S, \A U \in SUBSET T : U # T => U \in P
      PROVE  T \in P
  <2>1. CASE T = {}
    <3>1. M \cap T = {}
      BY <2>1
    <3> QED
      BY <1>1, <2>1, <3>1, FS_EmptySet
  <2>2. CASE T # {}
    <3> DEFINE less == T \ {One(T)}
               rest == M \cap T
    <3>1. One(T) \in S /\ less \in SUBSET T /\ less # T /\ One(T) \in T
      BY <2>2, OneIn
    <3>2. F(less) = Cardinality(M \cap less)
      BY <1>4, <3>1
    <3>3. F(T) = f[One(T)] + F(less)
      BY <1>1, <2>2
    <3>4. M \cap less = rest \ {One(T)}
      OBVIOUS
    <3>5. IsFiniteSet(rest) /\ Cardinality(rest) \in Nat
      BY FS_Subset, FS_CardinalityType
    <3>6. Cardinality(rest \ {One(T)}) = IF One(T) \in rest THEN Cardinality(rest) - 1 ELSE Cardinality(rest)
      BY <3>5, FS_RemoveElement
    <3>7. One(T) \in rest <=> One(T) \in M
      BY <3>1
    <3> HIDE DEF less, rest
    <3>8. f[One(T)] = IF One(T) \in rest THEN 1 ELSE 0
      BY <1>2, <3>1, <3>7
    <3>9. F(less) = IF One(T) \in rest THEN Cardinality(rest) - 1 ELSE Cardinality(rest)
      BY <3>2, <3>4, <3>6
    <3>10. F(T) = Cardinality(rest)
      BY <3>3, <3>5, <3>8, <3>9
    <3> QED
      BY <3>10 DEF rest
  <2> QED
    BY <2>1, <2>2
<1>5. \A T \in SUBSET S : T \in P
  <2> HIDE DEF P
  <2> QED
    BY <1>4, SubsetInduction
<1>6. M \cap S = M
  OBVIOUS
<1>7. F(S) = Cardinality(M)
  BY <1>5, <1>6
<1> QED
  BY <1>3, <1>7 DEF F, f, SumFunction

-----------------------------------------------------------------------------
(* The score of a resource.                                                *)

(* A finite set has a member whose value is the largest. *)
LEMMA Maximum ==
  ASSUME NEW S, IsFiniteSet(S), NEW f \in [S -> Int]
  PROVE  \A T \in SUBSET S : T # {} => \E x \in T : \A y \in T : f[y] <= f[x]
<1> DEFINE P == {T \in SUBSET S : T # {} => \E x \in T : \A y \in T : f[y] <= f[x]}
<1>1. ASSUME NEW T \in SUBSET S, \A U \in SUBSET T : U # T => U \in P
      PROVE  T \in P
  <2> SUFFICES ASSUME T # {} PROVE \E x \in T : \A y \in T : f[y] <= f[x]
    OBVIOUS
  <2>1. PICK z \in T : TRUE
    OBVIOUS
  <2>2. T \ {z} \in P
    BY <1>1
  <2>3. CASE T \ {z} = {}
    <3>1. \A y \in T : y = z
      BY <2>3
    <3>2. f[z] \in Int
      BY <2>1
    <3> QED
      BY <2>1, <3>1, <3>2
  <2>4. CASE T \ {z} # {}
    <3>1. PICK x \in T \ {z} : \A y \in T \ {z} : f[y] <= f[x]
      BY <2>2, <2>4
    <3>2. \A y \in T : f[y] \in Int
      OBVIOUS
    <3>3. CASE f[z] <= f[x]
      BY <3>1, <3>3
    <3>4. CASE ~(f[z] <= f[x])
      <4>1. \A y \in T : f[y] <= f[z]
        BY <2>1, <3>1, <3>2, <3>4
      <4> QED
        BY <2>1, <4>1
    <3> QED
      BY <3>3, <3>4
  <2> QED
    BY <2>3, <2>4
<1>2. \A T \in SUBSET S : T \in P
  <2> HIDE DEF P
  <2> QED
    BY <1>1, SubsetInduction
<1> QED
  BY <1>2

(* There are members as many as one wants whose values are the largest.    *)
LargestOf(f, S, k, most) == Cardinality(most) = k /\ \A i \in most, j \in S \ most : f[i] >= f[j]

(* There are such members, up to the size of the set. *)
LEMMA LargestExists ==
  ASSUME NEW S, IsFiniteSet(S), NEW f \in [S -> Int]
  PROVE  \A k \in Nat : k <= Cardinality(S) => \E most \in SUBSET S : LargestOf(f, S, k, most)
<1> DEFINE N == {k \in Nat : k <= Cardinality(S) => \E most \in SUBSET S : LargestOf(f, S, k, most)}
<1>1. 0 \in N
  <2>1. LargestOf(f, S, 0, {})
    BY FS_EmptySet DEF LargestOf
  <2> QED
    BY <2>1
<1>2. ASSUME NEW k \in Nat, k \in N
      PROVE  k + 1 \in N
  <2> SUFFICES ASSUME k + 1 <= Cardinality(S) PROVE \E most \in SUBSET S : LargestOf(f, S, k + 1, most)
    OBVIOUS
  <2>1. Cardinality(S) \in Nat
    BY FS_CardinalityType
  <2>2. PICK most \in SUBSET S : LargestOf(f, S, k, most)
    BY <1>2, <2>1
  <2>3. IsFiniteSet(most) /\ Cardinality(most) = k /\ \A i \in most, j \in S \ most : f[i] >= f[j]
    BY <2>2, FS_Subset DEF LargestOf
  <2>4. S \ most # {}
    BY <2>1, <2>3
  <2>5. PICK x \in S \ most : \A y \in S \ most : f[y] <= f[x]
    <3>1. S \ most \in SUBSET S
      OBVIOUS
    <3> QED
      BY <2>4, <3>1, Maximum
  <2>6. Cardinality(most \cup {x}) = k + 1
    BY <2>3, <2>5, FS_AddElement
  <2>7. \A i \in S : f[i] \in Int
    OBVIOUS
  <2>8. \A i \in most \cup {x}, j \in S \ (most \cup {x}) : f[i] >= f[j]
    BY <2>3, <2>5, <2>7
  <2>9. LargestOf(f, S, k + 1, most \cup {x})
    BY <2>6, <2>8 DEF LargestOf
  <2> QED
    BY <2>5, <2>9
<1>3. \A k \in Nat : k \in N
  <2> HIDE DEF N
  <2> QED
    BY <1>1, <1>2, Induction
<1> QED
  BY <1>3

(* Division.                                                               *)
LEMMA Division ==
  ASSUME NEW n \in Int, NEW d \in Nat \ {0}
  PROVE  n \div d \in Int /\ d * (n \div d) \in Int /\ d * (n \div d) <= n /\ n < d * (n \div d) + d
<1>1. d * (n \div d) <= n
  OBVIOUS
<1>2. n < d * (n \div d) + d
  OBVIOUS
<1> QED
  BY <1>1, <1>2

(* What a quotient is compared with. *)
LEMMA Quotient ==
  ASSUME NEW n \in Int, NEW d \in Nat \ {0}, NEW q \in Int
  PROVE  /\ n < q * d + d => n \div d <= q
         /\ q * d <= n => q <= n \div d
<1> DEFINE p == n \div d
<1>1. p \in Int /\ d * p <= n /\ n < d * p + d
  BY Division
<1> HIDE DEF p
<1>2. ASSUME NEW a \in Int, NEW b \in Int, a + 1 <= b
      PROVE  d * a + d <= d * b
  <2>1. b - a - 1 \in Nat
    BY <1>2
  <2>2. d * (b - a - 1) \in Nat
    BY <2>1
  <2>3. d * (b - a - 1) = d * b - d * a - d
    OBVIOUS
  <2>4. d * a \in Int /\ d * b \in Int
    OBVIOUS
  <2> QED
    BY <2>2, <2>3, <2>4
<1>3. q * d = d * q /\ d * q \in Int /\ d * p \in Int
  BY <1>1
<1>4. ASSUME n < q * d + d, ~(p <= q)
      PROVE  FALSE
  <2>1. q + 1 <= p
    BY <1>1, <1>4
  <2>2. d * q + d <= d * p
    BY <1>1, <1>2, <2>1
  <2> QED
    BY <1>1, <1>3, <1>4, <2>2
<1>5. ASSUME q * d <= n, ~(q <= p)
      PROVE  FALSE
  <2>1. p + 1 <= q
    BY <1>1, <1>5
  <2>2. d * p + d <= d * q
    BY <1>1, <1>2, <2>1
  <2> QED
    BY <1>1, <1>3, <1>5, <2>2
<1> QED
  BY <1>4, <1>5 DEF p


(* The values of a row are numbers.                                        *)
Typed(i) == i.value \in Int /\ i.threshold \in 0..Upper

(* Ranges are within 0..10, and short of 10 for what matters. *)
LEMMA SeverityFacts ==
  ASSUME NEW severity
  PROVE  LET range == SeverityRange(severity)
         IN  /\ range.min \in Nat /\ range.max \in Nat /\ range.min <= range.max /\ range.max <= 10
             /\ severity \in {"critical", "warning"} => range.max <= 8
BY DEF SeverityRange

(* What is active has a weight. *)
LEMMA WeightFacts ==
  ASSUME NEW i
  PROVE  Weight(i) \in Nat /\ (i.state \in ActiveStates => Weight(i) >= 1)
<1>1. SeverityWeight(i.severity) \in {1, 2, 4}
  BY DEF SeverityWeight
<1>2. StateWeight(i.state) \in {0, 1, 3, 10} /\ (i.state \in ActiveStates => StateWeight(i.state) # 0)
  BY DEF StateWeight, ActiveStates
<1> QED
  BY <1>1, <1>2 DEF Weight

(* The raw score of a row is at most the upper end of its range.           *)
LEMMA RawFacts ==
  ASSUME NEW i, Typed(i), HasRatio(i)
  PROVE  RawScore(i) \in Int /\ RawScore(i) <= SeverityRange(i.severity).max * Unit
<1> DEFINE value == IF i.value < i.threshold THEN i.threshold ELSE IF i.value > Upper THEN Upper ELSE i.value
           D == Upper - i.threshold
           V == Upper - value
           min == SeverityRange(i.severity).min
           max == SeverityRange(i.severity).max
           R == (max - min) * Unit
           q == (R * V) \div D
<1>1. Upper \in Nat /\ Unit \in Nat /\ i.threshold \in Nat /\ i.threshold <= Upper /\ i.value \in Int
  BY UnitAssumption DEF Typed
<1>2. D \in Nat \ {0}
  BY <1>1 DEF HasRatio
<1>3. V \in Int /\ V <= D
  BY <1>1
<1>4. min \in Nat /\ max \in Nat /\ min <= max
  BY SeverityFacts
<1>5. R \in Nat
  <2> HIDE DEF min, max
  <2>1. max - min \in Nat
    BY <1>4
  <2> QED
    BY <1>1, <2>1
<1>6. RawScore(i) = min * Unit + q
  BY DEF RawScore
<1> HIDE DEF value, D, V, R
<1>7. R * V <= R * D
  <2>1. D - V \in Nat
    BY <1>2, <1>3
  <2>2. R * (D - V) \in Nat
    BY <1>5, <2>1
  <2>3. R * (D - V) = R * D - R * V
    BY <1>2, <1>3, <1>5
  <2>4. R * D \in Int /\ R * V \in Int
    BY <1>2, <1>3, <1>5
  <2> QED
    BY <2>2, <2>3, <2>4
<1>8. q \in Int /\ q <= R
  <2>1. R * V \in Int /\ R * D \in Int
    BY <1>2, <1>3, <1>5
  <2>2. R * V < R * D + D
    BY <1>2, <1>7, <2>1
  <2> QED
    BY <1>2, <1>5, <2>1, <2>2, Quotient, Division
<1> HIDE DEF q, min, max
<1>9. min * Unit \in Int /\ R = max * Unit - min * Unit /\ max * Unit \in Int
  BY <1>1, <1>4 DEF R
<1> QED
  BY <1>6, <1>8, <1>9 DEF max

(* So have rows together. *)
LEMMA TotalFacts ==
  ASSUME NEW A, IsFiniteSet(A), \A i \in A : i.state \in ActiveStates
  PROVE  TotalWeight(A) \in Nat /\ (A # {} => TotalWeight(A) >= 1)
<1> DEFINE ones == [i \in A |-> IF i \in A THEN 1 ELSE 0]
           weights == [i \in A |-> Weight(i)]
<1>1. SumFunction(ones) = Cardinality(A)
  BY SumOnes
<1>2. ones \in [A -> Int] /\ weights \in [A -> Int] /\ \A i \in A : ones[i] <= weights[i]
  BY WeightFacts
<1>3. TotalWeight(A) = SumFunction(weights)
  BY DEF TotalWeight
<1>4. SumFunctionOnSet(weights, A) \in Int /\ DOMAIN weights = A
  BY <1>2, SumOf
<1> HIDE DEF ones, weights
<1>5. SumFunction(weights) \in Int
  BY <1>4 DEF SumFunction
<1>6. Cardinality(A) \in Nat /\ (A # {} => Cardinality(A) >= 1)
  BY FS_EmptySet, FS_CardinalityType
<1>7. SumFunction(ones) <= SumFunction(weights)
  BY <1>2, SumLess
<1> QED
  BY <1>1, <1>3, <1>5, <1>6, <1>7

(* The rows of a resource, all of which have a score. *)
Scored(items) == IsFiniteSet(items) /\ \A i \in Active(items) : Typed(i) /\ HasRatio(i)

(* Rows are finitely many, and their tenth is not null. *)
LEMMA RowFacts ==
  ASSUME NEW items, Scored(items)
  PROVE  /\ IsFiniteSet(Active(items)) /\ \A i \in Active(items) : i.state \in ActiveStates
         /\ Active(items) # {} => Tenth(items) \in Nat \ {0}
         /\ \A severity : IsFiniteSet(Rows(items, severity)) /\ Rows(items, severity) \subseteq Active(items)
         /\ Rows(items, "all") = Active(items)
         /\ \A i \in Active(items) : PointsLost(items, i) \in Int
<1>1. IsFiniteSet(Active(items)) /\ \A i \in Active(items) : i.state \in ActiveStates
  BY FS_Subset DEF Active, Scored
<1>2. Active(items) # {} => Tenth(items) \in Nat \ {0}
  <2>1. TotalWeight(Active(items)) \in Nat /\ (Active(items) # {} => TotalWeight(Active(items)) >= 1)
    BY <1>1, TotalFacts
  <2>2. \A w \in Nat : w >= 1 => Unit * w \in Nat \ {0}
    BY UnitAssumption
  <2> QED
    BY <2>1, <2>2 DEF Tenth
<1>3. \A severity : Rows(items, severity) \subseteq Active(items)
  BY DEF Rows
<1>4. \A severity : IsFiniteSet(Rows(items, severity))
  BY <1>1, <1>3, FS_Subset
<1>5. Rows(items, "all") = Active(items)
  BY DEF Rows
<1>6. ASSUME NEW i \in Active(items)
      PROVE  PointsLost(items, i) \in Int
  <2>1. RawScore(i) \in Int /\ Weight(i) \in Int /\ Unit \in Int
    BY RawFacts, WeightFacts, UnitAssumption DEF Scored
  <2> QED
    BY <2>1 DEF PointsLost
<1> QED
  BY <1>1, <1>2, <1>3, <1>4, <1>5, <1>6

(* The whole tenths of all rows are not more than their total, and less    *)
(* than a tenth each is missing.                                           *)
LEMMA RemainderFacts ==
  ASSUME NEW items, Scored(items), NEW severity, Rows(items, severity) # {}
  PROVE  /\ Floored(items, severity) \in [Rows(items, severity) -> Int]
         /\ SumFunction(Floored(items, severity)) \in Int
         /\ Remainder(items, severity) \in Nat
         /\ Remainder(items, severity) <= Cardinality(Rows(items, severity))
         /\ Target(items, severity) = SumFunction(Floored(items, severity)) + Remainder(items, severity)
<1> DEFINE rows == Rows(items, severity)
           T == Tenth(items)
           points == Points(items, severity)
           floored == Floored(items, severity)
           rest == [i \in rows |-> points[i] - T * floored[i]]
           ones == [i \in rows |-> IF i \in rows THEN 1 ELSE 0]
           none == [i \in rows |-> 0]
           most == [i \in rows |-> T - 1]
           P == SumFunction(points)
           F == SumFunction(floored)
           R == SumFunction(rest)
           c == Cardinality(rows)
<1>1. IsFiniteSet(rows) /\ c \in Nat /\ T \in Nat \ {0} /\ \A i \in rows : PointsLost(items, i) \in Int
  BY RowFacts, FS_CardinalityType
<1>2. points \in [rows -> Int] /\ \A i \in rows : points[i] = PointsLost(items, i)
  BY <1>1 DEF Points
<1>3. floored \in [rows -> Int] /\ \A i \in rows : floored[i] = PointsLost(items, i) \div T
  <2>1. \A i \in rows : PointsLost(items, i) \div T \in Int
    BY <1>1, Division
  <2>2. floored = [i \in rows |-> PointsLost(items, i) \div T]
    BY DEF Floored
  <2> HIDE DEF rows, T, floored
  <2> QED
    BY <2>1, <2>2
<1> HIDE DEF rows, T, points, floored, c
<1>4. \A i \in rows : /\ T * floored[i] \in Int /\ T * floored[i] <= points[i]
                      /\ points[i] <= T * floored[i] + (T - 1)
  <2> SUFFICES ASSUME NEW i \in rows
               PROVE  /\ T * floored[i] \in Int /\ T * floored[i] <= points[i]
                      /\ points[i] <= T * floored[i] + (T - 1)
    OBVIOUS
  <2>1. points[i] \in Int /\ floored[i] = points[i] \div T /\ points[i] = PointsLost(items, i)
    BY <1>1, <1>2, <1>3
  <2>2. T * floored[i] \in Int /\ T * floored[i] <= points[i] /\ points[i] < T * floored[i] + T
    BY <1>1, <2>1, Division
  <2> QED
    BY <1>1, <2>1, <2>2
<1>5. rest \in [rows -> Int] /\ \A i \in rows : rest[i] >= 0 /\ rest[i] <= T - 1
  BY <1>1, <1>2, <1>4
<1>6. Linear(rows, T, floored, 1, rest, points)
  BY <1>2, <1>4 DEF Linear
<1>7. ones \in [rows -> Int] /\ none \in [rows -> Int] /\ most \in [rows -> Int]
  BY <1>1
<1>8. /\ Linear(rows, 0, ones, 0, ones, none) /\ Linear(rows, T - 1, ones, 0, ones, most)
      /\ \A i \in rows : none[i] <= rest[i] /\ rest[i] <= most[i]
  <2>1. \A i \in rows : ones[i] = 1 /\ none[i] = 0 /\ most[i] = T - 1
    OBVIOUS
  <2> HIDE DEF ones, none, most, rest
  <2> QED
    BY <1>1, <1>5, <2>1 DEF Linear
<1>9. SumFunction(ones) = c
  BY <1>1, SumOnes DEF c
<1> HIDE DEF rest, ones, none, most
<1>10. T \in Int /\ T - 1 \in Int /\ 0 \in Int /\ 1 \in Int
  BY <1>1
<1>11. P = T * F + 1 * R
  BY <1>1, <1>2, <1>3, <1>5, <1>6, <1>10, SumLinear
<1>12. SumFunction(none) = 0 * SumFunction(ones) + 0 * SumFunction(ones)
  BY <1>1, <1>7, <1>8, <1>10, SumLinear
<1>13. SumFunction(most) = (T - 1) * SumFunction(ones) + 0 * SumFunction(ones)
  BY <1>1, <1>7, <1>8, <1>10, SumLinear
<1>14. SumFunction(none) <= R /\ R <= SumFunction(most)
  BY <1>1, <1>5, <1>7, <1>8, SumLess
<1>15. P \in Int /\ F \in Int /\ R \in Int
  BY <1>1, <1>2, <1>3, <1>5, SumInt
<1>16. Target(items, severity) = (2 * P + T) \div (2 * T)
  BY DEF Target, Round, points, T
<1>17. Remainder(items, severity) = Target(items, severity) - F
  BY DEF Remainder, floored
<1> HIDE DEF P, F, R
<1>18. 0 <= R /\ R <= (T - 1) * c
  <2>1. (T - 1) * c \in Int
    BY <1>1
  <2> QED
    BY <1>1, <1>9, <1>12, <1>13, <1>14, <1>15, <2>1
<1>19. F <= Target(items, severity) /\ Target(items, severity) <= F + c /\ Target(items, severity) \in Int
  <2>1. 2 * P + T \in Int /\ 2 * T \in Nat \ {0} /\ F + c \in Int
    BY <1>1, <1>15
  <2>2. T * F \in Int /\ T * c \in Int /\ (T - 1) * c = T * c - c
    BY <1>1, <1>15
  <2>3. F * (2 * T) = 2 * (T * F) /\ (F + c) * (2 * T) = 2 * (T * F) + 2 * (T * c)
    BY <1>1, <1>15
  <2>4. F * (2 * T) <= 2 * P + T
    BY <1>1, <1>11, <1>15, <1>18, <2>2, <2>3
  <2>5. 2 * P + T < (F + c) * (2 * T) + 2 * T
    BY <1>1, <1>11, <1>15, <1>18, <2>2, <2>3
  <2>6. (2 * P + T) \div (2 * T) <= F + c
    BY <2>1, <2>5, Quotient
  <2>7. F <= (2 * P + T) \div (2 * T)
    BY <1>15, <2>1, <2>4, Quotient
  <2>8. (2 * P + T) \div (2 * T) \in Int
    BY <2>1, Division
  <2> QED
    BY <1>16, <2>6, <2>7, <2>8
<1> QED
  BY <1>1, <1>3, <1>15, <1>17, <1>19 DEF F, c, rows, floored

(* The impacts of the rows add up to their rounded total.                  *)
LEMMA ImpactsMatch ==
  ASSUME NEW items, Scored(items), NEW severity, Rows(items, severity) # {}
  PROVE  SumFunction(Impacts(items, severity)) = Target(items, severity)
<1> DEFINE rows == Rows(items, severity)
           fraction == [i \in rows |-> PointsLost(items, i) % Tenth(items)]
           floored == Floored(items, severity)
           k == Remainder(items, severity)
           most == Largest(items, severity)
           more == [i \in rows |-> IF i \in most THEN 1 ELSE 0]
           impacts == Impacts(items, severity)
<1>1. IsFiniteSet(rows) /\ Tenth(items) \in Nat \ {0} /\ \A i \in rows : PointsLost(items, i) \in Int
  BY RowFacts
<1>2. /\ floored \in [rows -> Int] /\ SumFunction(floored) \in Int
      /\ k \in Nat /\ k <= Cardinality(rows) /\ Target(items, severity) = SumFunction(floored) + k
  BY RemainderFacts
<1>3. fraction \in [rows -> Int]
  <2> SUFFICES ASSUME NEW i \in rows PROVE PointsLost(items, i) % Tenth(items) \in Int
    OBVIOUS
  <2> HIDE DEF rows
  <2>1. PointsLost(items, i) \in Int
    BY <1>1
  <2> QED
    BY <1>1, <2>1
<1>4. most = CHOOSE m \in SUBSET rows : LargestOf(fraction, rows, k, m)
  BY DEF Largest, LargestOf
<1> HIDE DEF rows, fraction, floored, k, most
<1>5. \E m \in SUBSET rows : LargestOf(fraction, rows, k, m)
  BY <1>1, <1>2, <1>3, LargestExists
<1>6. most \in SUBSET rows /\ Cardinality(most) = k
  <2>1. most \in SUBSET rows /\ LargestOf(fraction, rows, k, most)
    BY <1>4, <1>5
  <2> QED
    BY <2>1 DEF LargestOf
<1>7. SumFunction(more) = k
  BY <1>1, <1>6, SumOnes
<1>8. more \in [rows -> Int] /\ \A i \in rows : more[i] = IF i \in most THEN 1 ELSE 0
  OBVIOUS
<1>9. impacts = [i \in rows |-> floored[i] + (IF i \in most THEN 1 ELSE 0)]
  <2>1. impacts = [i \in DOMAIN floored |-> floored[i] + (IF i \in most THEN 1 ELSE 0)]
    BY DEF Impacts, floored, most
  <2> QED
    BY <1>2, <2>1
<1> HIDE DEF more, impacts
<1>10. impacts \in [rows -> Int] /\ Linear(rows, 1, floored, 1, more, impacts)
  BY <1>2, <1>8, <1>9 DEF Linear
<1>11. 1 \in Int
  OBVIOUS
<1>12. SumFunction(impacts) = 1 * SumFunction(floored) + 1 * SumFunction(more)
  BY <1>1, <1>2, <1>8, <1>10, <1>11, SumLinear
<1> QED
  BY <1>2, <1>7, <1>12 DEF impacts

(* The points that all rows lose, and the score.                           *)
LEMMA ScoreFacts ==
  ASSUME NEW items, Scored(items), Active(items) # {}
  PROVE  /\ Score(items).den = Tenth(items)
         /\ SumFunction(Points(items, "all")) = 100 * Score(items).den - 10 * Score(items).num
<1> DEFINE A == Active(items)
           weights == [i \in A |-> Weight(i)]
           raws == [i \in A |-> RawScore(i) * Weight(i)]
           points == Points(items, "all")
           W == SumFunction(weights)
           N == SumFunction(raws)
<1>1. IsFiniteSet(A) /\ (\A i \in A : i.state \in ActiveStates) /\ Rows(items, "all") = A
  BY RowFacts
<1>2. {i \in A : HasRatio(i)} = A
  BY DEF Scored
<1>3. W = TotalWeight(A) /\ W \in Nat /\ W >= 1
  BY <1>1, TotalFacts DEF TotalWeight
<1>4. \A i \in A : RawScore(i) \in Int /\ Weight(i) \in Int /\ RawScore(i) * Weight(i) \in Int
  <2> SUFFICES ASSUME NEW i \in A PROVE RawScore(i) \in Int /\ Weight(i) \in Int /\ RawScore(i) * Weight(i) \in Int
    OBVIOUS
  <2>1. RawScore(i) \in Int /\ Weight(i) \in Int
    BY RawFacts, WeightFacts DEF Scored
  <2> QED
    BY <2>1
<1>5. points = [i \in A |-> 10 * (10 * Unit - RawScore(i)) * Weight(i)]
  BY <1>1 DEF Points, PointsLost
<1>6. Score(items) = [num |-> N, den |-> Unit * W]
  BY <1>2, <1>3 DEF Score, Average, TotalWeight
<1> HIDE DEF A, points
<1>7. weights \in [A -> Int] /\ raws \in [A -> Int]
  BY <1>4
<1>8. points \in [A -> Int] /\ Linear(A, 100 * Unit, weights, -10, raws, points)
  <2> SUFFICES ASSUME NEW i \in A
               PROVE  10 * (10 * Unit - RawScore(i)) * Weight(i) \in Int
                      /\ 10 * (10 * Unit - RawScore(i)) * Weight(i)
                           = 100 * Unit * Weight(i) + (-10) * (RawScore(i) * Weight(i))
    BY <1>5 DEF Linear
  <2>1. RawScore(i) \in Int /\ Weight(i) \in Int /\ Unit \in Int
    BY <1>4, UnitAssumption
  <2> QED
    BY <2>1
<1> HIDE DEF weights, raws
<1>9. 100 * Unit \in Int /\ -10 \in Int /\ Unit \in Int
  BY UnitAssumption
<1>10. SumFunction(points) = (100 * Unit) * W + (-10) * N
  BY <1>1, <1>7, <1>8, <1>9, SumLinear
<1>11. N \in Int
  BY <1>1, <1>7, SumInt
<1> HIDE DEF W, N
<1>12. Score(items).num = N /\ Score(items).den = Unit * W
  BY <1>6
<1>13. (100 * Unit) * W + (-10) * N = 100 * (Unit * W) - 10 * N
  BY <1>3, <1>9, <1>11
<1> QED
  BY <1>3, <1>10, <1>12, <1>13 DEF Tenth, A, points

(* Impacts add up, of all rows or those of a severity. *)
LEMMA AddUpHolds ==
  ASSUME NEW items, Scored(items), NEW severity
  PROVE  LET total == SumFunction(Impacts(items, severity))
         IN  /\ Rows(items, severity) # {} => total = Target(items, severity)
             /\ severity = "all" => total = Round(100 * Score(items).den - 10 * Score(items).num, Score(items).den)
<1>1. Rows(items, severity) # {} => SumFunction(Impacts(items, severity)) = Target(items, severity)
  BY ImpactsMatch
<1>2. ASSUME severity = "all"
      PROVE  SumFunction(Impacts(items, severity))
               = Round(100 * Score(items).den - 10 * Score(items).num, Score(items).den)
  <2>1. Rows(items, severity) = Active(items)
    BY <1>2, RowFacts
  <2>2. CASE Active(items) # {}
    <3>1. /\ Score(items).den = Tenth(items)
          /\ SumFunction(Points(items, severity)) = 100 * Score(items).den - 10 * Score(items).num
      BY <1>2, <2>2, ScoreFacts
    <3>2. Target(items, severity) = Round(100 * Score(items).den - 10 * Score(items).num, Score(items).den)
      BY <3>1 DEF Target
    <3> QED
      BY <1>1, <2>1, <2>2, <3>2
  <2>3. CASE Active(items) = {}
    <3> DEFINE impacts == Impacts(items, severity)
    <3>1. impacts \in [{} -> Int]
      <4>1. DOMAIN impacts = {}
        BY <2>1, <2>3 DEF Impacts, Floored
      <4>2. impacts = [i \in DOMAIN impacts |-> impacts[i]]
        BY DEF Impacts
      <4> HIDE DEF impacts
      <4> QED
        BY <4>1, <4>2
    <3>2. SumFunction(impacts) = 0
      <4> HIDE DEF impacts
      <4> QED
        BY <3>1, SumInt, FS_EmptySet
    <3> DEFINE none == [i \in {} |-> Weight(i)]
    <3>3. TotalWeight({}) = 0
      <4>1. none \in [{} -> Int]
        OBVIOUS
      <4>2. TotalWeight({}) = SumFunction(none)
        BY DEF TotalWeight
      <4> HIDE DEF none
      <4> QED
        BY <4>1, <4>2, SumInt, FS_EmptySet
    <3>4. {i \in Active(items) : HasRatio(i)} = {}
      BY <2>3
    <3>5. Score(items) = [num |-> 10, den |-> 1]
      BY <3>3, <3>4 DEF Score, Average, Perfect
    <3>6. Round(100 * Score(items).den - 10 * Score(items).num, Score(items).den) = 0
      BY <3>5 DEF Round
    <3> QED
      BY <3>2, <3>6
  <2> QED
    BY <2>2, <2>3
<1> QED
  BY <1>1, <1>2

(* One active row that matters and has a score takes points.               *)
LEMMA Unhealthy ==
  ASSUME NEW items, IsFiniteSet(items), \A j \in Active(items) : Typed(j),
         NEW i \in Active(items), i.severity \in {"critical", "warning"}, HasRatio(i)
  PROVE  Score(items).num < 10 * Score(items).den
<1> DEFINE A == {j \in Active(items) : HasRatio(j)}
           weights == [j \in A |-> Weight(j)]
           raws == [j \in A |-> RawScore(j) * Weight(j)]
           top == [j \in A |-> (10 * Unit) * Weight(j)]
           W == SumFunction(weights)
           N == SumFunction(raws)
<1>1. IsFiniteSet(A) /\ (\A j \in A : j.state \in ActiveStates /\ Typed(j) /\ HasRatio(j)) /\ i \in A
  BY FS_Subset DEF Active
<1>2. W = TotalWeight(A) /\ W \in Nat /\ W >= 1
  BY <1>1, TotalFacts DEF TotalWeight
<1>3. Score(items) = [num |-> N, den |-> Unit * W]
  BY <1>2 DEF Score, Average, TotalWeight
<1>4. Unit \in Nat \ {0} /\ 10 * Unit \in Int /\ 8 * Unit < 10 * Unit
  BY UnitAssumption
<1>5. ASSUME NEW j \in A
      PROVE  /\ RawScore(j) \in Int /\ Weight(j) \in Nat /\ Weight(j) >= 1 /\ RawScore(j) <= 10 * Unit
             /\ j.severity \in {"critical", "warning"} => RawScore(j) <= 8 * Unit
  <2>1. RawScore(j) \in Int /\ RawScore(j) <= SeverityRange(j.severity).max * Unit
    BY <1>1, RawFacts
  <2>2. Weight(j) \in Nat /\ Weight(j) >= 1
    BY <1>1, WeightFacts
  <2> DEFINE max == SeverityRange(j.severity).max
  <2>3. max \in 0..10 /\ (j.severity \in {"critical", "warning"} => max \in 0..8)
    BY SeverityFacts
  <2> HIDE DEF max
  <2>4. \A m \in 0..10 : m * Unit <= 10 * Unit /\ (m \in 0..8 => m * Unit <= 8 * Unit)
    BY <1>4
  <2>5. max * Unit \in Int /\ 8 * Unit \in Int
    BY <1>4, <2>3
  <2> QED
    BY <1>4, <2>1, <2>2, <2>3, <2>4, <2>5 DEF max
<1>6. \A r, s \in Int : \A w \in Nat : r <= s => r * w <= s * w
  <2> SUFFICES ASSUME NEW r \in Int, NEW s \in Int, NEW w \in Nat, r <= s PROVE r * w <= s * w
    OBVIOUS
  <2>1. s - r \in Nat
    OBVIOUS
  <2>2. (s - r) * w \in Nat
    BY <2>1
  <2>3. (s - r) * w = s * w - r * w
    OBVIOUS
  <2>4. s * w \in Int /\ r * w \in Int
    OBVIOUS
  <2> QED
    BY <2>2, <2>3, <2>4
<1> HIDE DEF A
<1>7. weights \in [A -> Int] /\ raws \in [A -> Int] /\ top \in [A -> Int]
  <2>1. \A j \in A : Weight(j) \in Int /\ RawScore(j) * Weight(j) \in Int /\ (10 * Unit) * Weight(j) \in Int
    BY <1>4, <1>5
  <2> QED
    BY <2>1
<1>8. \A j \in A : raws[j] <= top[j]
  BY <1>4, <1>5, <1>6
<1>9. raws[i] < top[i]
  <2>1. RawScore(i) * Weight(i) <= (8 * Unit) * Weight(i)
    BY <1>1, <1>4, <1>5, <1>6
  <2>2. (8 * Unit) * Weight(i) < (10 * Unit) * Weight(i)
    <3>1. Weight(i) \in Nat \ {0}
      BY <1>1, <1>5
    <3>2. Unit * Weight(i) \in Nat \ {0}
      BY <1>4, <3>1
    <3>3. (8 * Unit) * Weight(i) = 8 * (Unit * Weight(i)) /\ (10 * Unit) * Weight(i) = 10 * (Unit * Weight(i))
      BY <1>4, <3>1
    <3> QED
      BY <3>2, <3>3
  <2>3. RawScore(i) * Weight(i) \in Int /\ (8 * Unit) * Weight(i) \in Int /\ (10 * Unit) * Weight(i) \in Int
    BY <1>1, <1>4, <1>5
  <2>4. raws[i] = RawScore(i) * Weight(i) /\ top[i] = (10 * Unit) * Weight(i)
    BY <1>1
  <2> HIDE DEF raws, top
  <2> QED
    BY <2>1, <2>2, <2>3, <2>4
<1>10. Linear(A, 10 * Unit, weights, 0, weights, top)
  <2> SUFFICES ASSUME NEW j \in A PROVE (10 * Unit) * Weight(j) = (10 * Unit) * Weight(j) + 0 * Weight(j)
    BY DEF Linear
  <2>1. (10 * Unit) * Weight(j) \in Int /\ Weight(j) \in Int
    BY <1>4, <1>5
  <2> QED
    BY <2>1
<1> HIDE DEF weights, raws, top
<1>11. N < SumFunction(top)
  BY <1>1, <1>7, <1>8, <1>9, SumLess
<1>12. 0 \in Int
  OBVIOUS
<1>13. SumFunction(top) = (10 * Unit) * W + 0 * W
  BY <1>1, <1>4, <1>7, <1>10, <1>12, SumLinear
<1>14. N \in Int
  BY <1>1, <1>7, SumInt
<1> HIDE DEF N, W
<1>15. (10 * Unit) * W + 0 * W = 10 * (Unit * W)
  BY <1>2, <1>4
<1>16. Score(items).num = N /\ Score(items).den = Unit * W
  BY <1>3
<1> QED
  BY <1>11, <1>13, <1>15, <1>16

-----------------------------------------------------------------------------
(* The items of the tab of NetObserv are finitely many, and those that are *)
(* active have numbers.                                                    *)

(* The image of a finite set is finite. *)
LEMMA ImageFinite ==
  ASSUME NEW S, IsFiniteSet(S), NEW f, DOMAIN f = S
  PROVE  IsFiniteSet({f[x] : x \in S})
<1> DEFINE T == {f[x] : x \in S}
           g == [x \in S |-> f[x]]
<1>1. g \in Surjection(S, T)
  BY DEF Surjection
<1> QED
  BY <1>1, FS_Surjection

(* The items of the alerts of a rule. *)
LEMMA AlertItemsFacts ==
  ASSUME NEW r \in Rules, NEW alerts, IsFiniteSet(alerts), \A a \in alerts : a.value \in Int, NEW silences
  PROVE  IsFiniteSet(AlertItems(r, alerts, silences)) /\ \A i \in AlertItems(r, alerts, silences) : Typed(i)
<1> DEFINE f == [a \in alerts |-> Item(r, a, silences)]
<1>1. AlertItems(r, alerts, silences) = {f[a] : a \in alerts}
  <2>1. AlertItems(r, alerts, silences) = {Item(r, a, silences) : a \in alerts}
    BY DEF AlertItems, Item
  <2> QED
    BY <2>1
<1>2. \A a \in alerts : Item(r, a, silences).value = a.value /\ Item(r, a, silences).threshold = r.threshold
  BY DEF Item
<1>3. \A a \in alerts : Typed(f[a])
  BY <1>2, RulesAssumption DEF Typed
<1>4. IsFiniteSet({f[a] : a \in alerts})
  <2>1. DOMAIN f = alerts
    OBVIOUS
  <2> HIDE DEF f
  <2> QED
    BY <2>1, ImageFinite
<1> HIDE DEF f
<1> QED
  BY <1>1, <1>3, <1>4

(* The item of a value of a recording rule. *)
RecordingItem(recording, v) ==
  LET reached == Reached(recording, v.value)
  IN [rule |-> recording.name, kind |-> recording.kind, labels |-> v.labels, value |-> v.value,
      severity |-> reached.severity, state |-> reached.state, threshold |-> reached.threshold]

(* A threshold that was reached is one of the recording's. *)
LEMMA ReachedFacts ==
  ASSUME NEW recording \in Recordings, NEW value \in Int
  PROVE  Reached(recording, value).state # "inactive" => Reached(recording, value).threshold \in 0..Upper
<1> DEFINE c == recording.critical
           w == recording.warning
           i == recording.info
<1>1. c \in (0..Upper) \cup {None} /\ w \in (0..Upper) \cup {None} /\ i \in (0..Upper) \cup {None}
  BY ValuesAssumption
<1>2. None \notin 0..Upper /\ ~(None > 0)
  BY DEF None
<1>3. \/ Reached(recording, value).threshold = c /\ c > 0
      \/ Reached(recording, value).threshold = w /\ w # None
      \/ Reached(recording, value).threshold = i /\ i # None
      \/ Reached(recording, value).state = "inactive"
  BY DEF Reached
<1> HIDE DEF c, w, i
<1> QED
  BY <1>1, <1>2, <1>3

(* The items of the values of a recording. *)
LEMMA RecordingItemsFacts ==
  ASSUME NEW c \in Recordings, NEW values, IsFiniteSet(values), \A v \in values : v.value \in Int
  PROVE  /\ IsFiniteSet(RecordingItems(c, values))
         /\ \A i \in RecordingItems(c, values) : i.state \in ActiveStates => Typed(i)
<1> DEFINE f == [v \in values |-> RecordingItem(c, v)]
<1>1. RecordingItems(c, values) = {f[v] : v \in values}
  <2>1. RecordingItems(c, values) = {RecordingItem(c, v) : v \in values}
    BY DEF RecordingItems, RecordingItem
  <2> QED
    BY <2>1
<1>2. ASSUME NEW v \in values, RecordingItem(c, v).state \in ActiveStates
      PROVE  Typed(RecordingItem(c, v))
  <2>1. /\ RecordingItem(c, v).value = v.value
        /\ RecordingItem(c, v).threshold = Reached(c, v.value).threshold
        /\ RecordingItem(c, v).state = Reached(c, v.value).state
    BY DEF RecordingItem
  <2>2. RecordingItem(c, v).state # "inactive"
    BY <1>2 DEF ActiveStates
  <2> QED
    BY <2>1, <2>2, ReachedFacts DEF Typed
<1>3. IsFiniteSet({f[v] : v \in values})
  <2>1. DOMAIN f = values
    OBVIOUS
  <2> HIDE DEF f
  <2> QED
    BY <2>1, ImageFinite
<1>4. \A v \in values : f[v] = RecordingItem(c, v)
  OBVIOUS
<1> HIDE DEF f
<1> QED
  BY <1>1, <1>2, <1>3, <1>4

(* What Prometheus answers is finite. *)
LEMMA AlertsFinite ==
  ASSUME NEW t \in Answer
  PROVE  \A r : IsFiniteSet(AlertsOf(r, t)) /\ \A a \in AlertsOf(r, t) : a.value \in Int
BY ValuesAssumption, FS_EmptySet DEF AlertsOf, Exists, Answer

(* A union of finitely many finite sets. *)
LEMMA UnionFinite ==
  ASSUME NEW S, IsFiniteSet(S), NEW f, DOMAIN f = S, \A x \in S : IsFiniteSet(f[x])
  PROVE  IsFiniteSet(UNION {f[x] : x \in S})
<1>1. IsFiniteSet({f[x] : x \in S})
  BY ImageFinite
<1>2. \A T \in {f[x] : x \in S} : IsFiniteSet(T)
  OBVIOUS
<1> QED
  BY <1>1, <1>2, FS_UNION

(* All items of the tab. *)
LEMMA ItemsFacts ==
  ASSUME NEW d \in Data
  PROVE  IsFiniteSet(NetobservItems(d)) /\ \A i \in Active(NetobservItems(d)) : Typed(i)
<1> DEFINE silences == ActiveSilences(d.silences, TRUE)
           Of == [r \in NetobservRules |-> AlertItems(r, AlertsOf(r, d.alerts), silences)]
           Recorded == [c \in Recordings |-> RecordingItems(c, Worlds[d.values].values[c.name])]
           Alerts == UNION {Of[r] : r \in NetobservRules}
           Values == UNION {Recorded[c] : c \in Recordings}
<1>1. NetobservItems(d) = IF d.alerts = Failed THEN {}
                          ELSE Alerts \cup (IF d.annotated /\ d.values # Failed THEN Values ELSE {})
  <2>1. Alerts = UNION {AlertItems(r, AlertsOf(r, d.alerts), silences) : r \in NetobservRules}
    OBVIOUS
  <2>2. Values = UNION {RecordingItems(c, Worlds[d.values].values[c.name]) : c \in Recordings}
    OBVIOUS
  <2> HIDE DEF Alerts, Values
  <2> QED
    BY <2>1, <2>2 DEF NetobservItems
<1>2. d.alerts \in Answer /\ d.values \in Answer
  BY DEF Data
<1>3. IsFiniteSet(NetobservRules) /\ NetobservRules \subseteq Rules
  BY ValuesAssumption, FS_Subset DEF NetobservRules
<1>4. \A r \in NetobservRules : IsFiniteSet(Of[r]) /\ \A i \in Of[r] : Typed(i)
  <2> SUFFICES ASSUME NEW r \in NetobservRules
               PROVE  /\ IsFiniteSet(AlertItems(r, AlertsOf(r, d.alerts), silences))
                      /\ \A i \in AlertItems(r, AlertsOf(r, d.alerts), silences) : Typed(i)
    OBVIOUS
  <2> HIDE DEF silences
  <2> QED
    BY <1>2, <1>3, AlertsFinite, AlertItemsFacts
<1>5. ASSUME d.values # Failed
      PROVE  \A c \in Recordings :
               IsFiniteSet(Recorded[c]) /\ \A i \in Recorded[c] : i.state \in ActiveStates => Typed(i)
  <2> SUFFICES ASSUME NEW c \in Recordings
               PROVE  LET items == RecordingItems(c, Worlds[d.values].values[c.name])
                      IN  IsFiniteSet(items) /\ \A i \in items : i.state \in ActiveStates => Typed(i)
    OBVIOUS
  <2> DEFINE values == Worlds[d.values].values[c.name]
  <2>1. d.values \in Moments
    BY <1>2, <1>5 DEF Answer
  <2>2. IsFiniteSet(values) /\ \A v \in values : v.value \in Int
    BY <2>1, ValuesAssumption
  <2> HIDE DEF values
  <2>3. /\ IsFiniteSet(RecordingItems(c, values))
        /\ \A i \in RecordingItems(c, values) : i.state \in ActiveStates => Typed(i)
    BY <2>2, RecordingItemsFacts
  <2> QED
    BY <2>3 DEF values
<1>6. DOMAIN Of = NetobservRules /\ DOMAIN Recorded = Recordings
  OBVIOUS
<1> HIDE DEF Of, Recorded
<1>7. IsFiniteSet(Alerts) /\ (d.values # Failed => IsFiniteSet(Values))
  <2>1. IsFiniteSet(Alerts)
    BY <1>3, <1>4, <1>6, UnionFinite
  <2>2. IsFiniteSet(Recordings)
    BY ValuesAssumption
  <2>3. d.values # Failed => IsFiniteSet(Values)
    BY <1>5, <1>6, <2>2, UnionFinite
  <2> QED
    BY <2>1, <2>3
<1>8. \A i \in Alerts : Typed(i)
  BY <1>4
<1>9. d.values # Failed => \A i \in Values : i.state \in ActiveStates => Typed(i)
  BY <1>5
<1> HIDE DEF Alerts, Values
<1>10. IsFiniteSet(NetobservItems(d))
  <2>1. \/ NetobservItems(d) = {} \/ NetobservItems(d) = Alerts
        \/ NetobservItems(d) = Alerts \cup Values /\ d.values # Failed
    BY <1>1
  <2>2. d.values # Failed => IsFiniteSet(Alerts \cup Values)
    BY <1>7, FS_Union
  <2> QED
    BY <1>7, <2>1, <2>2, FS_EmptySet
<1>11. \A i \in NetobservItems(d) : i.state \in ActiveStates => Typed(i)
  BY <1>1, <1>8, <1>9
<1> QED
  BY <1>10, <1>11 DEF Active

(* The items of a resource are among them. *)
LEMMA StatsFacts ==
  ASSUME NEW items, IsFiniteSet(items), \A i \in Active(items) : Typed(i), NEW r \in DOMAIN buildStats(items)
  PROVE  IsFiniteSet(buildStats(items)[r]) /\ \A i \in Active(buildStats(items)[r]) : Typed(i)
<1>1. buildStats(items)[r] \subseteq items
  BY DEF buildStats, Named
<1>2. IsFiniteSet(buildStats(items)[r])
  BY <1>1, FS_Subset
<1>3. Active(buildStats(items)[r]) \subseteq Active(items)
  BY <1>1 DEF Active
<1> QED
  BY <1>2, <1>3

(* The scores displayed add up, whatever the answers. *)
LEMMA ScoresHold == TypeOK => ScoresAddUp
<1> DEFINE stats == buildStats(NetobservItems(page.data))
<1> SUFFICES ASSUME TypeOK, NEW r \in DOMAIN stats
             PROVE  /\ (\A i \in Active(stats[r]) : HasRatio(i)) => AddUp(stats[r])
                    /\ (\E i \in Active(stats[r]) : i.severity \in {"critical", "warning"} /\ HasRatio(i)) =>
                         Score(stats[r]).num < 10 * Score(stats[r]).den
  BY DEF ScoresAddUp, ImpactsAddUp, UnhealthyScores
<1>1. page.data \in Data
  BY TypeFacts DEF Page
<1>2. IsFiniteSet(stats[r]) /\ \A i \in Active(stats[r]) : Typed(i)
  BY <1>1, ItemsFacts, StatsFacts
<1> HIDE DEF stats
<1>3. ASSUME \A i \in Active(stats[r]) : HasRatio(i)
      PROVE  AddUp(stats[r])
  <2>1. Scored(stats[r])
    BY <1>2, <1>3 DEF Scored
  <2> QED
    BY <2>1, AddUpHolds DEF AddUp
<1>4. ASSUME NEW i \in Active(stats[r]), i.severity \in {"critical", "warning"}, HasRatio(i)
      PROVE  Score(stats[r]).num < 10 * Score(stats[r]).den
  BY <1>2, <1>4, Unhealthy
<1> QED
  BY <1>3, <1>4

(* The impacts of the rules of a resource add up to the points that its    *)
(* score lacks, to the tenth displayed, and one active rule that matters   *)
(* lowers the score, however many others there are.                        *)
THEOREM ScoresTell == Spec => []ScoresAddUp
<1>1. IInv => ScoresAddUp
  BY ScoresHold DEF IInv
<1> QED
  BY <1>1, Invariant, PTL

-----------------------------------------------------------------------------
(***************************************************************************)
(* HealthRules, for any number of templates, variants, other writers and   *)
(* overlapping clicks.                                                     *)
(***************************************************************************)

(* What a reset is about to send is a version of the resource, metadata    *)
(* and data together: if it is the last version, it is the stored one.     *)
CopyIsVersion(c) ==
  resets[c].pc # "idle" =>
    /\ resets[c].template \in Templates
    /\ resets[c].copy.version \in 0..Len(log)
    /\ resets[c].copy = Copy(resets[c].copy.version)

CopiesAreVersions == \A c \in Clicks : CopyIsVersion(c)

RulesInv == RulesTypeOK /\ CopiesAreVersions

-----------------------------------------------------------------------------
LEMMA ExampleType == Example \in FlowCollectors
  BY DEF Example, FlowCollectors

LEMMA WithRuleType ==
  ASSUME NEW fc \in FlowCollectors, NEW t \in Templates, NEW v \in Variants \cup {Default}
  PROVE  WithRule(fc, t, v) \in FlowCollectors
  BY DEF WithRule, FlowCollectors

LEMMA CopyType ==
  ASSUME log \in Seq(FlowCollectors), NEW v \in 0..Len(log)
  PROVE  /\ Copy(v) \in FlowCollectorCopies
         /\ Copy(v).version = v
         /\ v # 0 => Copy(v).fc = log[v]
  BY ExampleType DEF Copy, FlowCollectorCopies

(* Storing appends at most: the versions that are known stay what they are. *)
Grows ==
  /\ log' \in Seq(FlowCollectors) /\ log' # <<>>
  /\ Len(log') >= Len(log)
  /\ \A v \in 1..Len(log) : log'[v] = log[v]

LEMMA StoreAppends ==
  ASSUME log \in Seq(FlowCollectors), log # <<>>, NEW fc \in FlowCollectors, Store(fc)
  PROVE  Grows /\ Stored' = fc
<1>1. CASE fc = Stored
  BY <1>1 DEF Store, Stored, Grows
<1>2. CASE fc # Stored
  <2>1. log' = Append(log, fc)
    BY <1>2 DEF Store
  <2>2. Len(log') = Len(log) + 1 /\ log'[Len(log) + 1] = fc
    BY <2>1
  <2> QED BY <2>1, <2>2 DEF Stored, Grows
<1> QED BY <1>1, <1>2

LEMMA LastType ==
  ASSUME log \in Seq(FlowCollectors), log # <<>>
  PROVE  Stored \in FlowCollectors /\ Len(log) \in Nat \ {0}
  BY DEF Stored

(* The update that the last version makes possible changes one rule.       *)
LEMMA AcceptedReset ==
  ASSUME RulesInv, NEW c \in Clicks, resets[c].pc = "update",
         resets[c].copy.version = Len(log),
         Store(Reset(resets[c].copy.fc, resets[c].template))
  PROVE  /\ resets[c].template \in Templates
         /\ Reset(resets[c].copy.fc, resets[c].template) \in FlowCollectors
         /\ OnlyRule(resets[c].template, Default)
<1> DEFINE t == resets[c].template
<1>1. log \in Seq(FlowCollectors) /\ log # <<>> /\ t \in Templates
  BY DEF RulesInv, RulesTypeOK, CopiesAreVersions, CopyIsVersion
<1>2. resets[c].copy.fc = Stored
  <2>1. resets[c].copy = Copy(Len(log)) /\ Len(log) \in 0..Len(log) /\ Len(log) # 0
    BY <1>1 DEF RulesInv, CopiesAreVersions, CopyIsVersion
  <2> QED BY <2>1, <1>1, CopyType DEF Stored
<1>3. Reset(resets[c].copy.fc, t) = WithRule(Stored, t, Default)
  BY <1>2 DEF Reset
<1>4. WithRule(Stored, t, Default) \in FlowCollectors
  BY <1>1, LastType, WithRuleType
<1>5. Stored' = WithRule(Stored, t, Default)
  BY <1>1, <1>3, <1>4, StoreAppends
<1> QED BY <1>1, <1>3, <1>4, <1>5 DEF OnlyRule

-----------------------------------------------------------------------------
LEMMA InitInv == RulesInit => RulesInv
<1> SUFFICES ASSUME RulesInit PROVE RulesInv
  OBVIOUS
<1>1. log \in Seq(FlowCollectors) /\ log # <<>>
  BY DEF RulesInit, FlowCollectors
<1>2. Closed.copy \in FlowCollectorCopies /\ NoRequest.copy \in FlowCollectorCopies /\ Idle.copy \in FlowCollectorCopies
  BY ExampleType DEF Closed, NoRequest, Idle, FlowCollectorCopies
<1>3. RulesTypeOK
  BY <1>1, <1>2, TemplatesAssumption DEF RulesInit, RulesTypeOK, Idle, Closed, NoRequest, NoQuestion
<1>4. CopiesAreVersions
  BY DEF RulesInit, CopiesAreVersions, CopyIsVersion, Idle
<1> QED BY <1>3, <1>4 DEF RulesInv

-----------------------------------------------------------------------------
(* What a step leaves as it is stays sound when the log grows.             *)
LEMMA CopyStays ==
  ASSUME RulesInv, Grows, NEW c \in Clicks, resets'[c] = resets[c]
  PROVE  CopyIsVersion(c)'
<1>1. log \in Seq(FlowCollectors) /\ CopyIsVersion(c)
  BY DEF RulesInv, RulesTypeOK, CopiesAreVersions
<1>2. ASSUME NEW v \in 0..Len(log)
      PROVE  v \in 0..Len(log') /\ Copy(v)' = Copy(v)
  BY <1>1, <1>2 DEF Grows, Copy
<1> QED BY <1>1, <1>2 DEF CopyIsVersion

LEMMA SeenStays ==
  ASSUME RulesInv, Grows
  PROVE  seen \in [{"manager", "wizard"} -> 0..Len(log')]
BY DEF RulesInv, RulesTypeOK, Grows

LEMMA LogStays ==
  ASSUME RulesInv, log' = log
  PROVE  Grows
BY DEF RulesInv, RulesTypeOK, Grows

Resets == [pc : {"idle", "update", "wait"}, template : Templates \cup {NoTemplate},
           copy : FlowCollectorCopies, attempt : 0..(Attempts - 1), failed : BOOLEAN]
Managers == [pending : Templates \cup {NoTemplate}, busy : BOOLEAN]
Wizards == [open : BOOLEAN, copy : FlowCollectorCopies,
            request : [template : Templates \cup {NoTemplate}, create : BOOLEAN, copy : FlowCollectorCopies]]

LEMMA IdleType == /\ Idle \in Resets /\ [Idle EXCEPT !.failed = TRUE] \in Resets
                  /\ [Idle EXCEPT !.failed = FALSE] = Idle
                  /\ Closed \in Wizards /\ NoRequest = Closed.request
<1>1. 0 \in 0..(Attempts - 1)
  BY TemplatesAssumption
<1>2. [version |-> 0, fc |-> Example] \in FlowCollectorCopies
  BY ExampleType DEF FlowCollectorCopies
<1>3. Closed \in Wizards /\ NoRequest = Closed.request
  BY <1>2 DEF Closed, NoRequest, Wizards
<1>4. Idle \in Resets
  BY <1>1, <1>2 DEF Idle, Resets
<1>5. [Idle EXCEPT !.failed = TRUE] \in Resets /\ [Idle EXCEPT !.failed = FALSE] = Idle
  BY <1>4 DEF Idle, Resets
<1> QED BY <1>3, <1>4, <1>5

(* The rest of a step that changes the reset of one click.                 *)
LEMMA ResetStep ==
  ASSUME RulesInv, Grows, NEW c \in Clicks, NEW r \in Resets,
         resets' = [resets EXCEPT ![c] = r],
         UNCHANGED <<seen, wizard>>, manager' \in Managers,
         CopyIsVersion(c)'
  PROVE  RulesInv'
<1>1. resets \in [Clicks -> Resets]
  BY DEF RulesInv, RulesTypeOK, Resets
<1>2. RulesTypeOK'
  <2>1. seen' \in [{"manager", "wizard"} -> 0..Len(log')]
    BY SeenStays
  <2>2. resets' \in [Clicks -> Resets]
    BY <1>1
  <2>3. wizard' \in Wizards
    BY DEF RulesInv, RulesTypeOK, Wizards
  <2> QED BY <2>1, <2>2, <2>3 DEF RulesTypeOK, Grows, Resets, Managers, Wizards
<1>3. ASSUME NEW d \in Clicks
      PROVE  CopyIsVersion(d)'
  <2>1. CASE d = c
    BY <2>1
  <2>2. CASE d # c
    BY <2>2, <1>1, CopyStays
  <2> QED BY <2>1, <2>2
<1> QED BY <1>2, <1>3 DEF RulesInv, CopiesAreVersions

(* The rest of a step that leaves the resets alone.                        *)
LEMMA OtherStep ==
  ASSUME RulesInv, Grows, UNCHANGED resets,
         seen' \in [{"manager", "wizard"} -> 0..Len(log')],
         manager' \in Managers, wizard' \in Wizards
  PROVE  RulesInv'
<1>1. RulesTypeOK'
  BY DEF RulesInv, RulesTypeOK, Grows, Managers, Wizards
<1>2. CopiesAreVersions'
  BY CopyStays DEF CopiesAreVersions
<1> QED BY <1>1, <1>2 DEF RulesInv

-----------------------------------------------------------------------------
LEMMA WatchInv == ASSUME RulesInv, Watch PROVE RulesInv'
<1>1. Grows /\ UNCHANGED <<log, manager, resets>>
  BY LogStays DEF Watch
<1>2. manager' \in Managers
  BY <1>1 DEF RulesInv, RulesTypeOK, Managers
<1>3. seen' \in [{"manager", "wizard"} -> 0..Len(log')]
  BY <1>1 DEF RulesInv, RulesTypeOK, Watch
<1>4. wizard' \in Wizards
  <2>1. wizard \in Wizards
    BY DEF RulesInv, RulesTypeOK, Wizards
  <2>2. CASE wizard' = wizard
    BY <2>1, <2>2
  <2>3. CASE wizard' # wizard
    <3>1. PICK v \in (seen.wizard + 1)..Len(log) :
            wizard' = [wizard EXCEPT !.copy = [@ EXCEPT !.version = v]]
      BY <2>3 DEF Watch, Synced
    <3>2. v \in Nat
      BY DEF RulesInv, RulesTypeOK
    <3>3. [wizard.copy EXCEPT !.version = v] \in FlowCollectorCopies
      BY <2>1, <3>2 DEF Wizards, FlowCollectorCopies
    <3> QED BY <2>1, <3>1, <3>3 DEF Wizards
  <2> QED BY <2>2, <2>3
<1> QED BY <1>1, <1>2, <1>3, <1>4, OtherStep

LEMMA OtherWritesInv == ASSUME RulesInv, OtherWrites PROVE RulesInv'
<1>1. log \in Seq(FlowCollectors) /\ log # <<>>
  BY DEF RulesInv, RulesTypeOK
<1>2. PICK fc \in FlowCollectors : Store(fc)
  <2>1. CASE \E r \in Rests : Store([Stored EXCEPT !.rest = r])
    BY <2>1, <1>1, LastType DEF FlowCollectors
  <2>2. CASE \E t \in Templates, v \in Variants : Store(WithRule(Stored, t, v))
    BY <2>2, <1>1, LastType, WithRuleType
  <2> QED BY <2>1, <2>2 DEF OtherWrites
<1>3. Grows
  BY <1>1, <1>2, StoreAppends
<1>4. manager' \in Managers /\ wizard' \in Wizards
  BY DEF RulesInv, RulesTypeOK, OtherWrites, Managers, Wizards
<1> QED BY <1>3, <1>4, SeenStays, OtherStep DEF OtherWrites

LEMMA ChoiceInv == ASSUME RulesInv, ChooseReset \/ CancelReset PROVE RulesInv'
<1>1. UNCHANGED <<log, seen, resets, wizard>> /\ manager' \in Managers
  <2>1. manager \in Managers
    BY DEF RulesInv, RulesTypeOK, Managers
  <2>2. CASE ChooseReset
    BY <2>1, <2>2 DEF ChooseReset, Managers
  <2>3. CASE CancelReset
    BY <2>3 DEF CancelReset, NoQuestion, Managers
  <2> QED BY <2>2, <2>3
<1>2. Grows /\ wizard' \in Wizards
  BY <1>1, LogStays DEF RulesInv, RulesTypeOK, Wizards
<1> QED BY <1>1, <1>2, SeenStays, OtherStep

LEMMA ConfirmInv == ASSUME RulesInv, NEW c \in Clicks, ConfirmReset(c) PROVE RulesInv'
<1> DEFINE r == [pc |-> "update", template |-> manager.pending, attempt |-> 0,
                 copy |-> Copy(seen.manager), failed |-> FALSE]
<1>1. /\ UNCHANGED <<log, seen, wizard>> /\ resets' = [resets EXCEPT ![c] = r]
      /\ manager' = [manager EXCEPT !.busy = TRUE]
  BY DEF ConfirmReset
<1>2. Grows /\ manager.pending \in Templates /\ manager \in Managers /\ seen.manager \in 0..Len(log) /\ resets \in [Clicks -> Resets]
  BY <1>1, LogStays DEF RulesInv, RulesTypeOK, ConfirmReset, Managers, Resets
<1>3. Copy(seen.manager) \in FlowCollectorCopies /\ Copy(seen.manager).version = seen.manager
  BY <1>2, CopyType DEF RulesInv, RulesTypeOK
<1>4. 0 \in 0..(Attempts - 1)
  BY TemplatesAssumption
<1>5. r \in Resets
  BY <1>2, <1>3, <1>4 DEF Resets
<1>6. resets'[c] = r /\ Copy(seen.manager)' = Copy(seen.manager)
  BY <1>1, <1>2 DEF Copy
<1>7. CopyIsVersion(c)'
  <2>1. /\ resets'[c].template \in Templates
        /\ resets'[c].copy.version = seen.manager
        /\ resets'[c].copy = Copy(seen.manager)
    BY <1>2, <1>3, <1>6
  <2>2. Len(log') = Len(log) /\ \A v : Copy(v)' = Copy(v)
    BY <1>1 DEF Copy
  <2> QED BY <2>1, <2>2, <1>2 DEF CopyIsVersion
<1>8. manager' \in Managers
  BY <1>1, <1>2 DEF Managers
<1> HIDE DEF r
<1> QED BY <1>1, <1>2, <1>5, <1>7, <1>8, ResetStep

(* The end of a reset.                                                     *)
LEMMA EndedInv ==
  ASSUME RulesInv, Grows, NEW c \in Clicks, NEW f \in BOOLEAN, resets' = Ended(c, f),
         UNCHANGED <<seen, wizard>>, manager' \in Managers
  PROVE  RulesInv' /\ (f = FALSE => resets'[c] = Idle) /\ (f = TRUE => resets'[c] # Idle)
<1> DEFINE r == [Idle EXCEPT !.failed = f]
<1>1. r \in Resets /\ r.pc = "idle" /\ r.failed = f /\ (f = FALSE => r = Idle)
  BY IdleType DEF Idle
<1>2. resets' = [resets EXCEPT ![c] = r] /\ resets'[c] = r
  BY DEF Ended, RulesInv, RulesTypeOK
<1>3. CopyIsVersion(c)'
  BY <1>1, <1>2 DEF CopyIsVersion
<1>4. Idle.failed = FALSE
  BY DEF Idle
<1> HIDE DEF r
<1> QED BY <1>1, <1>2, <1>3, <1>4, ResetStep

(* A reset that goes on with its next request.                             *)
LEMMA ManagerStays == ASSUME RulesInv, UNCHANGED manager PROVE manager' \in Managers
BY DEF RulesInv, RulesTypeOK, Managers

LEMMA AcceptedInv ==
  ASSUME RulesInv, NEW c \in Clicks, UpdateAccepted(c)
  PROVE  RulesInv' /\ OnlyRule(resets[c].template, Default)
<1>1. Grows /\ OnlyRule(resets[c].template, Default)
  BY AcceptedReset, StoreAppends DEF UpdateAccepted, RulesInv, RulesTypeOK
<1>2. manager' \in Managers
  BY DEF UpdateAccepted, NoQuestion, Managers
<1> QED BY <1>1, <1>2, EndedInv DEF UpdateAccepted

LEMMA RefusedInv ==
  ASSUME RulesInv, NEW c \in Clicks, UpdateRefused(c)
  PROVE  RulesInv' /\ resets'[c] # Idle
<1>1. Grows /\ UNCHANGED <<seen, wizard>> /\ resets \in [Clicks -> Resets]
  BY LogStays DEF UpdateRefused, RulesInv, RulesTypeOK, Resets
<1>4. manager' \in Managers
  BY DEF UpdateRefused, RulesInv, RulesTypeOK, Managers
<1>2. CASE LastAttempt(c)
  BY <1>1, <1>2, <1>4, EndedInv DEF UpdateRefused, GiveUp
<1>3. CASE ~LastAttempt(c)
  <2> DEFINE r == [resets[c] EXCEPT !.pc = "wait", !.attempt = @ + 1]
  <2>1. r \in Resets
    <3>1. resets[c].attempt + 1 \in 0..(Attempts - 1)
      BY <1>1, <1>3, TemplatesAssumption DEF LastAttempt, Resets
    <3> QED BY <1>1, <3>1 DEF Resets
  <2>2. resets' = [resets EXCEPT ![c] = r] /\ resets'[c] = r
    BY <1>1, <1>3 DEF UpdateRefused
  <2>3. CopyIsVersion(c)'
    <3>1. CopyIsVersion(c) /\ resets[c].pc # "idle" /\ log' = log
      BY DEF UpdateRefused, RulesInv, CopiesAreVersions
    <3>2. r.copy = resets[c].copy /\ r.template = resets[c].template
      BY <1>1 DEF Resets
    <3> QED BY <2>2, <3>1, <3>2 DEF CopyIsVersion, Copy
  <2>4. r.pc = "wait" /\ Idle.pc = "idle"
    BY <1>1 DEF Idle, Resets
  <2> HIDE DEF r
  <2> QED BY <1>1, <1>4, <2>1, <2>2, <2>3, <2>4, ResetStep
<1> QED BY <1>2, <1>3

LEMMA RetryInv == ASSUME RulesInv, NEW c \in Clicks, Retry(c) PROVE RulesInv'
<1> DEFINE r == [resets[c] EXCEPT !.pc = "update", !.copy = Refetch(c)]
<1>1. Grows /\ UNCHANGED <<log, seen, manager, wizard>> /\ resets \in [Clicks -> Resets]
  BY LogStays DEF Retry, RulesInv, RulesTypeOK, Resets
<1>2. Len(log) \in Nat /\ Refetch(c) = Copy(Len(log)) /\ Refetch(c) \in FlowCollectorCopies /\ Refetch(c).version = Len(log)
  BY CopyType DEF RulesInv, RulesTypeOK, Refetch
<1>3. r \in Resets
  BY <1>1, <1>2 DEF Resets
<1>4. resets' = [resets EXCEPT ![c] = r] /\ resets'[c] = r
  BY <1>1 DEF Retry
<1>5. CopyIsVersion(c)'
  <2>1. CopyIsVersion(c) /\ resets[c].pc # "idle"
    BY DEF Retry, RulesInv, CopiesAreVersions
  <2>2. r.copy = Copy(Len(log)) /\ r.copy.version = Len(log) /\ r.template = resets[c].template
    BY <1>1, <1>2 DEF Resets
  <2> HIDE DEF r
  <2> QED BY <1>1, <1>2, <1>4, <2>1, <2>2 DEF CopyIsVersion, Copy
<1> HIDE DEF r
<1> QED BY <1>1, <1>3, <1>4, <1>5, ResetStep, ManagerStays

LEMMA FailsInv ==
  ASSUME RulesInv, NEW c \in Clicks, ResetFails(c)
  PROVE  /\ RulesInv' /\ resets'[c] # Idle
         /\ log' = log \/ OnlyRule(resets[c].template, Default)
<1>1. Grows /\ (log' = log \/ OnlyRule(resets[c].template, Default))
  BY AcceptedReset, StoreAppends, LogStays DEF ResetFails, RulesInv, RulesTypeOK
<1>2. manager' \in Managers
  BY DEF ResetFails, RulesInv, RulesTypeOK, Managers
<1> QED BY <1>1, <1>2, EndedInv DEF ResetFails, GiveUp

-----------------------------------------------------------------------------
(* The wizard: its writes are of a FlowCollector, not always of the last.  *)
LEMMA WizardInv ==
  ASSUME RulesInv, OpenWizard \/ LeaveWizard \/ Save \/ SaveAccepted \/ SaveFails
  PROVE  RulesInv'
<1>1. UNCHANGED <<seen, manager, resets>> /\ wizard \in Wizards
  BY DEF OpenWizard, LeaveWizard, Save, SaveAccepted, SaveFails, RulesInv, RulesTypeOK, Wizards
<1>2. Grows
  <2>1. wizard.request.copy.fc \in FlowCollectors
    BY <1>1 DEF Wizards, FlowCollectorCopies
  <2>2. CASE Store(wizard.request.copy.fc)
    BY <2>1, <2>2, StoreAppends DEF RulesInv, RulesTypeOK
  <2>3. CASE ~Store(wizard.request.copy.fc)
    BY <2>3, LogStays DEF OpenWizard, LeaveWizard, Save, SaveAccepted, SaveFails
  <2> QED BY <2>2, <2>3
<1>3. wizard' \in Wizards
  <2>1. CASE OpenWizard
    <3>1. Copy(seen.wizard) \in FlowCollectorCopies
      BY CopyType DEF RulesInv, RulesTypeOK
    <3> QED BY <2>1, <3>1, IdleType DEF OpenWizard, Wizards
  <2>2. CASE LeaveWizard \/ SaveAccepted
    BY <2>2, IdleType DEF LeaveWizard, SaveAccepted
  <2>3. CASE Save
    <3>1. PICK t \in Templates, v \in Variants \cup {Default} :
            wizard' = [wizard EXCEPT !.copy = [wizard.copy EXCEPT !.fc = WithRule(@, t, v)],
                         !.request = [template |-> t, create |-> seen.wizard = 0,
                                      copy |-> [wizard.copy EXCEPT !.fc = WithRule(@, t, v)]]]
      BY <2>3 DEF Save
    <3>2. [wizard.copy EXCEPT !.fc = WithRule(@, t, v)] \in FlowCollectorCopies
      BY <1>1, WithRuleType DEF Wizards, FlowCollectorCopies
    <3> QED BY <1>1, <3>1, <3>2 DEF Wizards
  <2>4. CASE SaveFails
    BY <2>4, <1>1, IdleType DEF SaveFails, Wizards, Closed
  <2> QED BY <2>1, <2>2, <2>3, <2>4
<1> QED BY <1>1, <1>2, <1>3, SeenStays, ManagerStays, OtherStep

LEMMA StutterInv == ASSUME RulesInv, UNCHANGED rulesVars PROVE RulesInv'
<1>1. Grows /\ wizard' \in Wizards
  BY LogStays DEF rulesVars, RulesInv, RulesTypeOK, Wizards
<1> QED BY <1>1, SeenStays, ManagerStays, OtherStep DEF rulesVars

LEMMA NextInv == RulesInv /\ [RulesNext]_rulesVars => RulesInv'
<1> SUFFICES ASSUME RulesInv, [RulesNext]_rulesVars PROVE RulesInv'
  OBVIOUS
<1>1. ASSUME NEW c \in Clicks, ConfirmReset(c) \/ Retry(c) \/ UpdateAnswered(c) PROVE RulesInv'
  BY <1>1, ConfirmInv, RetryInv, AcceptedInv, RefusedInv, FailsInv DEF UpdateAnswered
<1> QED BY <1>1, WatchInv, OtherWritesInv, ChoiceInv, WizardInv, StutterInv DEF RulesNext

(* The state of the two pages and of the resource keeps its type, and what *)
(* the resets are about to send are versions of the resource.              *)
THEOREM RulesInvariant == RulesSpec => []RulesInv
BY InitInv, NextInv, PTL DEF RulesSpec

THEOREM TypeCorrect == RulesSpec => []RulesTypeOK
BY RulesInvariant, PTL DEF RulesInv

(* Whatever is written concurrently and however often it is attempted, a   *)
(* reset (updateFlowCollectorWithRetry) changes only its rule.             *)
THEOREM ResetChangesOneRule == RulesSpec => ResetKeepsOthers
<1>1. RulesInv /\ [RulesNext]_rulesVars =>
        [\A c \in Clicks : UpdateAccepted(c) \/ ResetFails(c) =>
           log' = log \/ OnlyRule(resets[c].template, Default)]_rulesVars
  BY AcceptedInv, FailsInv
<1> QED BY <1>1, RulesInvariant, PTL DEF RulesSpec, ResetKeepsOthers

(* A step that changes the reset of a click is a step of that click.       *)
LEMMA OwnStep ==
  ASSUME RulesInv, [RulesNext]_rulesVars, NEW c \in Clicks, resets[c].pc # "idle", resets'[c].pc = "idle"
  PROVE  UpdateAccepted(c) \/ UpdateRefused(c) \/ ResetFails(c)
<1>1. resets'[c] # resets[c] /\ resets \in [Clicks -> Resets]
  BY DEF RulesInv, RulesTypeOK, Resets
<1>2. PICK d \in Clicks : ConfirmReset(d) \/ Retry(d) \/ UpdateAnswered(d)
  BY <1>1 DEF RulesNext, rulesVars, Watch, OtherWrites, ChooseReset, CancelReset, OpenWizard, LeaveWizard,
              Save, SaveAccepted, SaveFails
<1>3. d = c
  <2>1. \E r : resets' = [resets EXCEPT ![d] = r]
    <3>1. CASE UpdateRefused(d)
      BY <3>1, <1>1 DEF UpdateRefused, GiveUp, Ended
    <3>2. CASE ~UpdateRefused(d)
      BY <3>2, <1>2 DEF ConfirmReset, Retry, UpdateAnswered, UpdateAccepted, ResetFails, GiveUp, Ended
    <3> QED BY <3>1, <3>2
  <2> QED BY <2>1, <1>1
<1>4. ~ConfirmReset(c) /\ ~Retry(c)
  <2>1. ~ConfirmReset(c)
    BY DEF ConfirmReset
  <2>2. Retry(c) => resets'[c].pc = "update"
    BY <1>1 DEF Retry, Resets
  <2> QED BY <1>1, <2>1, <2>2
<1> QED BY <1>2, <1>3, <1>4 DEF UpdateAnswered

(* No reset is dropped silently: one that ends without an error has        *)
(* removed its override (comment of updateFlowCollectorWithRetry).         *)
THEOREM ResetNotDropped == RulesSpec => ResetIsDone
<1>1. ASSUME RulesInv, [RulesNext]_rulesVars, NEW c \in Clicks, resets[c].pc # "idle", resets'[c] = Idle
      PROVE  Stored'.rules[resets[c].template] = Default
  <2>1. UpdateAccepted(c)
    <3>1. resets'[c].pc = "idle"
      BY <1>1 DEF Idle
    <3> QED BY <1>1, <3>1, OwnStep, RefusedInv, FailsInv
  <2>2. OnlyRule(resets[c].template, Default) /\ resets[c].template \in Templates
    BY <1>1, <2>1, AcceptedInv DEF RulesInv, CopiesAreVersions, CopyIsVersion
  <2>3. Stored \in FlowCollectors
    BY <1>1, LastType DEF RulesInv, RulesTypeOK
  <2> QED BY <2>2, <2>3 DEF OnlyRule, WithRule, FlowCollectors
<1>2. RulesInv /\ [RulesNext]_rulesVars =>
        [\A c \in Clicks : resets[c].pc # "idle" /\ resets'[c] = Idle =>
           Stored'.rules[resets[c].template] = Default]_rulesVars
  BY <1>1
<1> QED BY <1>2, RulesInvariant, PTL DEF RulesSpec, ResetIsDone

(* The copy of the wizard has the version of its watch (effect of          *)
(* syncFlowCollectorMeta in wizard.tsx).                                   *)
THEOREM WizardTracksVersion == RulesSpec => []VersionTracked
<1>1. RulesInit => VersionTracked
  BY DEF RulesInit, VersionTracked, Closed
<1>2. RulesInv /\ VersionTracked /\ [RulesNext]_rulesVars => VersionTracked'
  <2> SUFFICES ASSUME RulesInv, VersionTracked, [RulesNext]_rulesVars, wizard.open' PROVE wizard.copy.version' = seen.wizard'
    BY DEF VersionTracked
  <2>1. wizard \in Wizards /\ seen \in [{"manager", "wizard"} -> 0..Len(log)] /\ log \in Seq(FlowCollectors)
    BY DEF RulesInv, RulesTypeOK, Wizards
  <2>2. CASE Watch
    <3>1. CASE seen'.wizard = seen.wizard /\ wizard' = wizard
      BY <3>1 DEF VersionTracked
    <3>2. CASE ~(seen'.wizard = seen.wizard /\ wizard' = wizard)
      <4>1. PICK v \in (seen.wizard + 1)..Len(log) :
              /\ seen' = [seen EXCEPT !.wizard = v]
              /\ wizard' = IF wizard.open THEN [wizard EXCEPT !.copy = Synced(@, v)] ELSE wizard
        BY <3>2, <2>1, <2>2 DEF Watch
      <4>2. wizard'.open = wizard.open
        BY <4>1, <2>1 DEF Wizards
      <4> QED BY <4>1, <4>2, <2>1 DEF Synced, Wizards, FlowCollectorCopies
    <3> QED BY <3>1, <3>2
  <2>3. CASE OpenWizard
    BY <2>1, <2>3 DEF OpenWizard, Closed, Copy
  <2>4. CASE LeaveWizard \/ SaveAccepted
    BY <2>4 DEF LeaveWizard, SaveAccepted, Closed
  <2>5. CASE Save
    <3>1. wizard'.copy.version = wizard.copy.version /\ seen' = seen
      BY <2>1, <2>5 DEF Save, Wizards, FlowCollectorCopies
    <3>2. wizard.open
      BY <2>5 DEF Save
    <3> QED BY <3>1, <3>2 DEF VersionTracked
  <2>6. CASE SaveFails
    BY <2>1, <2>6 DEF SaveFails, VersionTracked, Wizards
  <2>7. CASE UNCHANGED <<seen, wizard>>
    BY <2>7 DEF VersionTracked
  <2>8. ASSUME NEW c \in Clicks, ConfirmReset(c) \/ Retry(c) \/ UpdateAnswered(c)
        PROVE  UNCHANGED <<seen, wizard>>
    BY <2>8 DEF ConfirmReset, Retry, UpdateAnswered, UpdateAccepted, UpdateRefused, ResetFails
  <2>9. OtherWrites \/ ChooseReset \/ CancelReset \/ UNCHANGED rulesVars => UNCHANGED <<seen, wizard>>
    BY DEF OtherWrites, ChooseReset, CancelReset, rulesVars
  <2> QED BY <2>2, <2>3, <2>4, <2>5, <2>6, <2>7, <2>8, <2>9 DEF RulesNext
<1> QED BY <1>1, <1>2, RulesInvariant, PTL DEF RulesSpec
=============================================================================
