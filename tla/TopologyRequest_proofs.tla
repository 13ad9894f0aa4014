----------------------- MODULE TopologyRequest_proofs -----------------------
(***************************************************************************)
(* Proofs about TopologyRequest for every configuration, inventory and     *)
(* request.                                                                *)
(***************************************************************************)
EXTENDS TopologyRequest, SequenceTheorems, FiniteSetTheorems, TLAPS

-----------------------------------------------------------------------------
(* Lemmas about the routing operators. *)

(* A query whose filters and aggregation need more labels is not found     *)
(* where one that needs fewer is not, as long as both ask for the same     *)
(* field.                                                                  *)
LEMMA SearchAntitone ==
  ASSUME NEW metrics, NEW small, NEW large, NEW field,
         small \subseteq large,
         large \cap DropLabels = small \cap DropLabels,
         Search(metrics, large, field).found # {}
  PROVE  Search(metrics, small, field).found # {}
<1>1. ActualField(small, field) = ActualField(large, field)
  BY DEF ActualField
<1>2. ASSUME NEW dir
      PROVE  FoundIn(metrics, large, field, dir) \subseteq FoundIn(metrics, small, field, dir)
  BY <1>1 DEF FoundIn, Matching, CheckMatch
<1>3. \E dir \in {"Any", "Ingress", "Egress"} : FoundIn(metrics, large, field, dir) # {}
  BY DEF Search
<1>4. \E dir \in {"Any", "Ingress", "Egress"} : FoundIn(metrics, small, field, dir) # {}
  BY <1>2, <1>3
<1> QED
  BY <1>4 DEF Search

(* Taking a branch never makes a query eligible for Prometheus. *)
LEMMA BranchStaysOnLoki ==
  ASSUME NEW c, NEW in, NEW ds, NEW q, NEW b,
         b.group = q.group,
         Keys(in, q) \subseteq Keys(in, b),
         Keys(in, b) \ Keys(in, q) \subseteq {FlowDirection, DstType, SrcNamespace, DstNamespace},
         ForProm(c, in, ds, b)
  PROVE  ForProm(c, in, ds, q)
<1>1. LabelsNeeded(in, q) \subseteq LabelsNeeded(in, b)
  BY DEF LabelsNeeded, FiltersToLabels
<1>2. LabelsNeeded(in, b) \cap DropLabels = LabelsNeeded(in, q) \cap DropLabels
  BY DEF LabelsNeeded, FiltersToLabels, DropLabels, FlowDirection, DstType, SrcNamespace, DstNamespace
<1>3. Eligible(c, in, q).found # {}
  BY <1>1, <1>2, SearchAntitone DEF ForProm, Eligible
<1> QED
  BY <1>3 DEF ForProm, PromSupports

-----------------------------------------------------------------------------
(* Lemmas about the expansion of the filter groups. *)

(* Before any expansion there is one query per group. *)
LEMMA UnexpandedShape ==
  ASSUME NEW in, NEW u \in Unexpanded(in)
  PROVE  /\ u.group \in DOMAIN in.groups
         /\ u = [group |-> u.group, reporter |-> "both", side |-> "any"]
BY DEF Unexpanded

(* A query of the expansion took at most one branch of each kind, and none *)
(* where it was for Prometheus.                                            *)
TookReporter(c, in, ds, u, b) ==
  \/ b = u /\ (ForProm(c, in, ds, u) \/ FlowDirection \in Keys(in, u))
  \/ ~ForProm(c, in, ds, u) /\ b \in ByReporter(u)

TookSide(c, in, ds, b, g) ==
  \/ g = b /\ (in.dev => ForProm(c, in, ds, b))
  \/ in.dev /\ ~ForProm(c, in, ds, b) /\ g \in BySide(b)

LEMMA ExpandedShape ==
  ASSUME NEW c, NEW in, NEW ds, NEW g \in ExpandQueries(c, in, ds)
  PROVE  \E u \in Unexpanded(in) : \E b :
           TookReporter(c, in, ds, u, b) /\ TookSide(c, in, ds, b, g)
BY Zenon DEF ExpandQueries, Distribute, TookReporter, TookSide

(* The queries of a request are well-typed and belong to its groups. *)
LEMMA FilterGroupsShape ==
  ASSUME NEW c, NEW in, NEW ds, NEW g \in FilterGroups(c, in, ds)
  PROVE  /\ g.group \in DOMAIN in.groups
         /\ g.reporter \in Reporters \cup {"both"}
         /\ g.side \in Sides \cup {"any"}
<1>1. CASE ShouldMergeReporters(in.field)
  <2>0. PICK u \in Unexpanded(in) :
          \E b : TookReporter(c, in, ds, u, b) /\ TookSide(c, in, ds, b, g)
    BY <1>1, ExpandedShape DEF FilterGroups
  <2>1. PICK b : TookReporter(c, in, ds, u, b) /\ TookSide(c, in, ds, b, g)
    BY <2>0
  <2> USE DEF TookReporter, TookSide
  <2>2. /\ u.group \in DOMAIN in.groups
        /\ u = [group |-> u.group, reporter |-> "both", side |-> "any"]
    BY UnexpandedShape
  <2>3. /\ b.group = u.group /\ b.reporter \in Reporters \cup {"both"} /\ b.side = "any"
        /\ b = [group |-> b.group, reporter |-> b.reporter, side |-> b.side]
    BY <2>1, <2>2 DEF ByReporter
  <2> QED
    BY <2>1, <2>2, <2>3 DEF BySide
<1>2. CASE ~ShouldMergeReporters(in.field)
  BY <1>2, UnexpandedShape DEF FilterGroups
<1> QED
  BY <1>1, <1>2

(* No group of the request is left without a query. *)
LEMMA EveryGroupPlanned ==
  ASSUME NEW c, NEW in, NEW ds, NEW i \in DOMAIN in.groups
  PROVE  \E g \in FilterGroups(c, in, ds) : g.group = i
<1> DEFINE u == [group |-> i, reporter |-> "both", side |-> "any"]
           r == [group |-> i, reporter |-> "egress", side |-> "any"]
           byReporter == Distribute(Unexpanded(in), ByReporter,
                           LAMBDA q : ForProm(c, in, ds, q) \/ FlowDirection \in Keys(in, q))
           bySide == Distribute(byReporter, BySide, LAMBDA q : ForProm(c, in, ds, q))
<1>1. u \in Unexpanded(in)
  BY DEF Unexpanded
<1>2. r \in ByReporter(u)
  BY DEF ByReporter, Reporters
<1>3. PICK b \in byReporter : b.group = i /\ b = [group |-> i, reporter |-> b.reporter, side |-> "any"]
  <2>1. u \in byReporter \/ r \in byReporter
    BY <1>1, <1>2 DEF Distribute
  <2> HIDE DEF byReporter
  <2> QED
    BY <2>1
<1>4. \E g \in bySide : g.group = i
  <2>1. [b EXCEPT !.side = "src"] \in BySide(b)
    BY DEF BySide, Sides
  <2>2. b \in bySide \/ [b EXCEPT !.side = "src"] \in bySide
    BY <1>3, <2>1 DEF Distribute
  <2>3. [b EXCEPT !.side = "src"].group = i
    BY <1>3
  <2> QED
    BY <1>3, <2>2, <2>3
<1> QED
  BY <1>1, <1>3, <1>4 DEF FilterGroups, ExpandQueries

(* The backend chosen for a query agrees with the way it was expanded.  *)
LEMMA RoutedAsExpanded ==
  ASSUME NEW c, NEW in, NEW ds, NEW g \in FilterGroups(c, in, ds)
  PROVE  /\ ForProm(c, in, ds, g) => g.reporter = "both" /\ g.side = "any"
         /\ ShouldMergeReporters(in.field) /\ ~ForProm(c, in, ds, g) =>
              /\ in.dev => g.side # "any"
              /\ FlowDirection \notin in.groups[g.group].keys => g.reporter # "both"
<1>1. CASE ShouldMergeReporters(in.field)
  <2>0. PICK u \in Unexpanded(in) :
          \E b : TookReporter(c, in, ds, u, b) /\ TookSide(c, in, ds, b, g)
    BY <1>1, ExpandedShape DEF FilterGroups
  <2>1. PICK b : TookReporter(c, in, ds, u, b) /\ TookSide(c, in, ds, b, g)
    BY <2>0
  <2> USE DEF TookReporter, TookSide
  <2>2. u = [group |-> u.group, reporter |-> "both", side |-> "any"]
    BY UnexpandedShape
  <2>3. Keys(in, u) = in.groups[u.group].keys
    BY <2>2 DEF Keys, ReporterKeys, SideKeys
  <2>4. b \in ByReporter(u) =>
          /\ b # u /\ b.group = u.group /\ b.reporter \in Reporters /\ b.side = "any"
          /\ b = [group |-> b.group, reporter |-> b.reporter, side |-> "any"]
          /\ Keys(in, u) \subseteq Keys(in, b)
          /\ Keys(in, b) \ Keys(in, u) \subseteq {FlowDirection, DstType}
    <3> SUFFICES ASSUME NEW r \in Reporters,
                        b = [group |-> u.group, reporter |-> r, side |-> "any"]
                 PROVE  /\ b # u /\ b.group = u.group /\ b.reporter \in Reporters /\ b.side = "any"
                        /\ b = [group |-> b.group, reporter |-> b.reporter, side |-> "any"]
                        /\ Keys(in, u) \subseteq Keys(in, b)
                        /\ Keys(in, b) \ Keys(in, u) \subseteq {FlowDirection, DstType}
      BY <2>2 DEF ByReporter
    <3> QED
      BY <2>2 DEF Keys, ReporterKeys, SideKeys, Reporters
  <2>5. b \in ByReporter(u) => ~ForProm(c, in, ds, b)
    <3> SUFFICES ASSUME b \in ByReporter(u) PROVE ~ForProm(c, in, ds, b)
      OBVIOUS
    <3>1. ~ForProm(c, in, ds, u)
      BY <2>1, <2>4, Zenon
    <3> QED
      BY <2>4, <3>1, BranchStaysOnLoki
  <2>6. g \in BySide(b) =>
          /\ g # b /\ g.group = b.group /\ g.reporter = b.reporter /\ g.side \in Sides
          /\ Keys(in, b) \subseteq Keys(in, g)
          /\ Keys(in, g) \ Keys(in, b) \subseteq {SrcNamespace, DstNamespace}
    <3>1. b = u \/ b \in ByReporter(u)
      BY <2>1, Zenon
    <3>2. b = [group |-> b.group, reporter |-> b.reporter, side |-> "any"]
      BY <2>2, <2>4, <3>1
    <3> SUFFICES ASSUME NEW s \in Sides,
                        g = [group |-> b.group, reporter |-> b.reporter, side |-> s]
                 PROVE  /\ g # b /\ g.group = b.group /\ g.reporter = b.reporter /\ g.side \in Sides
                        /\ Keys(in, b) \subseteq Keys(in, g)
                        /\ Keys(in, g) \ Keys(in, b) \subseteq {SrcNamespace, DstNamespace}
      BY <3>2 DEF BySide
    <3> QED
      BY <3>2 DEF Keys, ReporterKeys, SideKeys, Sides
  <2>7. g \in BySide(b) => ~ForProm(c, in, ds, g)
    <3> SUFFICES ASSUME g \in BySide(b) PROVE ~ForProm(c, in, ds, g)
      OBVIOUS
    <3>1. ~ForProm(c, in, ds, b)
      BY <2>1, <2>6, Zenon
    <3> QED
      BY <2>6, <3>1, BranchStaysOnLoki
  <2>8. ForProm(c, in, ds, g) => g = u
    BY <2>1, <2>5, <2>7, Zenon
  <2>9. ASSUME ~ForProm(c, in, ds, g), in.dev
        PROVE  g.side # "any"
    <3>1. g \in BySide(b)
      BY <2>1, <2>9, Zenon
    <3> QED
      BY <2>6, <3>1 DEF Sides
  <2>10. ASSUME ~ForProm(c, in, ds, g), FlowDirection \notin in.groups[g.group].keys
         PROVE  g.reporter # "both"
    <3>1. g.group = u.group /\ (b \in ByReporter(u) => g.reporter = b.reporter)
      BY <2>1, <2>4, <2>6
    <3>2. b = u => ~ForProm(c, in, ds, u)
      BY <2>1, <2>10, Zenon
    <3>3. b \in ByReporter(u)
      BY <2>1, <2>3, <2>10, <3>1, <3>2, Zenon
    <3> QED
      BY <2>4, <3>1, <3>3 DEF Reporters
  <2> QED
    BY <2>2, <2>8, <2>9, <2>10
<1>2. CASE ~ShouldMergeReporters(in.field)
  BY <1>2, UnexpandedShape DEF FilterGroups
<1> QED
  BY <1>1, <1>2

(* A query is only built for a backend that has a client, which is the     *)
(* backend of the data source when there is one.                           *)
LEMMA BuildableHasClient ==
  ASSUME NEW c, NEW in, NEW ds \in DataSources, NEW q, BuildError(c, in, ds, q) = "none"
  PROVE  /\ Backend(c, in, ds, q) \in Backends
         /\ IF Backend(c, in, ds, q) = "loki" THEN c.loki ELSE c.prom
         /\ ds # "auto" => Backend(c, in, ds, q) = ds
<1>1. ForProm(c, in, ds, q) \/ LokiAllowed(c, ds)
  BY DEF BuildError
<1>2. ForProm(c, in, ds, q) => c.prom /\ ds \in {"auto", "prom"}
  BY DEF ForProm, PromAsked
<1> QED
  BY <1>1, <1>2 DEF LokiAllowed, Backend, Backends, DataSources

-----------------------------------------------------------------------------
(* The inductive invariant. *)

(* A plan covers the request, was made for the current attempt, and every  *)
(* query of it has a client: fetchParallel drops none.                     *)
PlanCovers ==
  /\ phase = "plan" => sources = {}
  /\ plan # {} =>
       /\ phase # "plan"
       /\ plan = {Built(q) : q \in FilterGroups(cfg, req.in, source)}
       /\ sources = {Backend(cfg, req.in, source, q) : q \in FilterGroups(cfg, req.in, source)}
       /\ Executable(plan, cfg) = plan
       /\ source # "auto" => \A q \in plan : q.backend = source

(* A query of the plan is running, has a result, or there is an error.     *)
FetchAccounts ==
  phase = "fetch" =>
    /\ plan # {}
    /\ errChan = <<>> => plan = running \cup Results

(* A failure that came from Prometheus is the first error of the attempt.  *)
FailureIsFirst ==
  phase = "failed" /\ failure.from = "prom" =>
    running = {} /\ errChan # <<>> /\ failure = Head(errChan)

FailureIsAnError == phase = "failed" => failure \in Error

ReplyIsWhole ==
  Answered200 =>
    plan # {} /\ errChan = <<>> /\ reply.merged = plan /\ reply.sources = sources

SourceChosen == req.ds # "auto" => source = req.ds

IInv ==
  /\ TypeOK
  /\ PlanCovers
  /\ FetchAccounts
  /\ FailureIsFirst
  /\ FailureIsAnError
  /\ ReplyIsWhole
  /\ SourceChosen

LEMMA TypesOfRequest ==
  ASSUME NEW r \in Requests
  PROVE  /\ r.ds \in DataSources
         /\ r.in.groups \in Seq(Group)
         /\ DOMAIN r.in.groups \subseteq Nat
<1>1. r.in \in Input(Seq(Group)) /\ r.ds \in DataSources
  BY TopologyAssumption
<1>2. r.in.groups \in Seq(Group)
  BY <1>1 DEF Input
<1> QED
  BY <1>1, <1>2

LEMMA InitIInv == Init => IInv
<1> SUFFICES ASSUME Init PROVE IInv
  OBVIOUS
<1>1. TypeOK
  BY TypesOfRequest, EmptySeq DEF Init, FetchInit, TypeOK, NoError, NoReply
<1> QED
  BY <1>1 DEF Init, FetchInit, IInv, PlanCovers, FetchAccounts, FailureIsFirst, FailureIsAnError,
              ReplyIsWhole, Answered200, SourceChosen

(* A plan that is launched is well-typed and has a client for each query.  *)
LEMMA LaunchedPlan ==
  ASSUME IInv, Launch
  PROVE  /\ plan' \subseteq BuiltQuery
         /\ sources' \subseteq Backends
         /\ Executable(plan', cfg) = plan'
         /\ source # "auto" => \A q \in plan' : q.backend = source
<1> DEFINE groups == FilterGroups(cfg, req.in, source)
<1>1. /\ plan' = {Built(q) : q \in groups}
      /\ sources' = {Backend(cfg, req.in, source, q) : q \in groups}
      /\ \A q \in groups : BuildError(cfg, req.in, source, q) = "none"
  BY DEF Launch, IInv, PlanCovers
<1>2. req \in Requests /\ source \in DataSources
  BY DEF IInv, TypeOK
<1>3. \A q \in groups : /\ q.group \in Nat
                        /\ q.reporter \in Reporters \cup {"both"}
                        /\ q.side \in Sides \cup {"any"}
  BY <1>2, FilterGroupsShape, TypesOfRequest
<1>4. \A q \in groups :
        /\ Backend(cfg, req.in, source, q) \in Backends
        /\ IF Backend(cfg, req.in, source, q) = "loki" THEN cfg.loki ELSE cfg.prom
        /\ source # "auto" => Backend(cfg, req.in, source, q) = source
  BY <1>1, <1>2, BuildableHasClient
<1> HIDE DEF groups
<1>5. plan' \subseteq BuiltQuery
  BY <1>1, <1>3, <1>4 DEF Built, BuiltQuery
<1>6. Executable(plan', cfg) = plan'
  BY <1>1, <1>4 DEF Built, Executable
<1> QED
  BY <1>1, <1>4, <1>5, <1>6 DEF Built

LEMMA StepIInv == IInv /\ [Next]_vars => IInv'
<1> SUFFICES ASSUME IInv, [Next]_vars PROVE IInv'
  OBVIOUS
<1> USE DEF IInv
<1>1. CASE Refuse
  <2>1. [from |-> "request", code |-> 400] \in Error
    BY DEF Error
  <2>2. TypeOK'
    BY <1>1, <2>1 DEF Refuse, Fail, fetchVars, TypeOK
  <2> QED
    BY <1>1, <2>1, <2>2 DEF Refuse, Fail, fetchVars, PlanCovers, FetchAccounts, FailureIsFirst,
         FailureIsAnError, ReplyIsWhole, Answered200, SourceChosen, Built
<1>2. CASE Launch
  <2>1. [from |-> "request", code |-> 400] \in Error
    BY DEF Error
  <2>2. /\ plan' \subseteq BuiltQuery /\ sources' \subseteq Backends
        /\ Executable(plan', cfg) = plan'
        /\ source # "auto" => \A q \in plan' : q.backend = source
    BY <1>2, LaunchedPlan
  <2>3. /\ phase' \in {"fetch", "failed"}
        /\ phase' = "fetch" => plan' # {} /\ failure' = failure
        /\ phase' = "failed" => failure' = [from |-> "request", code |-> 400]
        /\ UNCHANGED <<cfg, req, source, reply>>
    BY <1>2, <2>2 DEF Launch, Fail
  <2>4. running' = plan' /\ resChan' = {} /\ errChan' = <<>>
    BY <1>2, <2>2 DEF Launch, Start
  <2>5. TypeOK'
    BY <2>1, <2>2, <2>3, <2>4 DEF TypeOK
  <2>6. PlanCovers'
    BY <1>2, <2>2, <2>3 DEF Launch, PlanCovers, Built
  <2>7. FetchAccounts' /\ FailureIsFirst' /\ FailureIsAnError'
    BY <2>1, <2>3, <2>4 DEF FetchAccounts, Results, FailureIsFirst, FailureIsAnError
  <2>8. ReplyIsWhole' /\ SourceChosen'
    BY <2>3 DEF ReplyIsWhole, Answered200, SourceChosen
  <2> QED
    BY <2>5, <2>6, <2>7, <2>8
<1>3. CASE Answer
  <2> SUFFICES ASSUME NEW q \in running, AnswerResult(q) \/ AnswerError(q),
                      phase = "fetch", UNCHANGED requestVars
               PROVE  IInv'
    BY <1>3 DEF Answer
  <2>1. PlanCovers' /\ FailureIsFirst' /\ FailureIsAnError' /\ ReplyIsWhole' /\ SourceChosen'
    BY DEF requestVars, PlanCovers, FailureIsFirst, FailureIsAnError, ReplyIsWhole, Answered200,
           SourceChosen, Built
  <2>2. CASE AnswerResult(q)
    <3>1. PICK mergeable \in BOOLEAN :
            resChan' = resChan \cup {[query |-> q, mergeable |-> mergeable]}
      BY <2>2 DEF AnswerResult
    <3>2. running' = running \ {q} /\ errChan' = errChan
      BY <2>2 DEF AnswerResult
    <3>3. TypeOK'
      BY <3>1, <3>2 DEF TypeOK, requestVars
    <3>4. Results' = Results \cup {q}
      <4>1. [query |-> q, mergeable |-> mergeable].query = q
        OBVIOUS
      <4>2. \A r : r \in resChan' <=> r \in resChan \/ r = [query |-> q, mergeable |-> mergeable]
        BY <3>1
      <4> QED
        BY <4>1, <4>2, Zenon DEF Results
    <3>5. FetchAccounts'
      BY <3>2, <3>4 DEF FetchAccounts, requestVars
    <3> QED
      BY <2>1, <3>3, <3>5
  <2>3. CASE AnswerError(q)
    <3>1. PICK code \in FailureCodes[q.backend] :
            errChan' = Append(errChan, [from |-> q.backend, code |-> code])
      BY <2>3 DEF AnswerError
    <3>2. running' = running \ {q} /\ resChan' = resChan
      BY <2>3 DEF AnswerError
    <3>3. [from |-> q.backend, code |-> code] \in Error
      <4>1. q.backend \in {"loki", "prom"}
        BY DEF TypeOK, BuiltQuery, Backends
      <4>2. code \in 400..599
        BY <4>1, FailureCodesAssumption
      <4> QED
        BY <4>1, <4>2 DEF Error
    <3>4. errChan' \in Seq(Error) /\ errChan' # <<>>
      BY <3>1, <3>3 DEF TypeOK
    <3>5. TypeOK'
      BY <3>2, <3>4 DEF TypeOK, requestVars
    <3>6. FetchAccounts'
      BY <3>4 DEF FetchAccounts, requestVars
    <3> QED
      BY <2>1, <3>5, <3>6
  <2> QED
    BY <2>2, <2>3
<1>4. CASE FetchFailed
  <2>1. Head(errChan) \in Error
    BY <1>4 DEF FetchFailed, TypeOK
  <2>2. TypeOK'
    BY <1>4, <2>1 DEF FetchFailed, Fail, fetchVars, TypeOK
  <2> QED
    BY <1>4, <2>1, <2>2 DEF FetchFailed, Fail, fetchVars, AllDone, PlanCovers, FetchAccounts,
         FailureIsFirst, FailureIsAnError, ReplyIsWhole, Answered200, SourceChosen, Built
<1>5. CASE MergeFailed
  <2>1. MergeError \in Error
    BY DEF MergeError, Error
  <2>2. TypeOK'
    BY <1>5, <2>1 DEF MergeFailed, Fail, fetchVars, TypeOK
  <2> QED
    BY <1>5, <2>1, <2>2 DEF MergeFailed, Fail, fetchVars, MergeError, PlanCovers, FetchAccounts,
         FailureIsFirst, FailureIsAnError, ReplyIsWhole, Answered200, SourceChosen, Built
<1>6. CASE Succeed
  <2>1. plan # {} /\ Results = plan
    BY <1>6 DEF Succeed, AllDone, FetchAccounts
  <2>2. TypeOK'
    BY <1>6, <2>1 DEF Succeed, fetchVars, TypeOK
  <2> QED
    BY <1>6, <2>1, <2>2 DEF Succeed, fetchVars, PlanCovers, FetchAccounts,
         FailureIsFirst, FailureIsAnError, ReplyIsWhole, Answered200, SourceChosen, Built
<1>7. CASE Retry
  <2>1. /\ phase' = "plan" /\ source' = "loki" /\ plan' = {} /\ sources' = {}
        /\ failure' = NoError /\ running' = {} /\ resChan' = {} /\ errChan' = <<>>
        /\ UNCHANGED <<cfg, req, reply>>
        /\ req.ds = "auto"
    BY <1>7 DEF Retry, Retryable
  <2>2. TypeOK'
    BY <2>1, EmptySeq DEF TypeOK, DataSources
  <2> QED
    BY <2>1, <2>2 DEF PlanCovers, FetchAccounts, FailureIsFirst,
         FailureIsAnError, ReplyIsWhole, Answered200, SourceChosen
<1>8. CASE Report
  <2>1. failure.code \in 400..599 /\ failure.code \in Nat /\ failure.code # 200
    BY <1>8 DEF Report, FailureIsAnError, Error
  <2>2. /\ phase' = "answered"
        /\ reply'.code = failure.code /\ reply'.merged = {} /\ reply'.sources = {}
        /\ UNCHANGED <<cfg, req, source, plan, sources, failure, running, resChan, errChan>>
    BY <1>8 DEF Report, fetchVars
  <2>3. TypeOK'
    BY <2>1, <2>2 DEF TypeOK
  <2>4. PlanCovers' /\ SourceChosen'
    BY <2>2 DEF PlanCovers, Built, SourceChosen
  <2> QED
    BY <2>1, <2>2, <2>3, <2>4 DEF FetchAccounts, FailureIsFirst, FailureIsAnError, ReplyIsWhole,
         Answered200
<1>9. CASE UNCHANGED vars
  BY <1>9 DEF vars, requestVars, fetchVars, TypeOK, PlanCovers, FetchAccounts, FailureIsFirst,
       FailureIsAnError, ReplyIsWhole, Answered200, SourceChosen, Built, Results
<1> QED
  BY <1>1, <1>2, <1>3, <1>4, <1>5, <1>6, <1>7, <1>8, <1>9 DEF Next, Done

(* The inductive invariant holds in every reachable state. *)
THEOREM Invariant == Spec => []IInv
BY InitIInv, StepIInv, PTL DEF Spec

-----------------------------------------------------------------------------
(* What it implies. *)

(* The handler's variables keep their types. *)
THEOREM TypeCorrect == Spec => []TypeOK
<1>1. IInv => TypeOK
  BY DEF IInv
<1> QED
  BY <1>1, Invariant, PTL

(* Whatever the inventory, the filters and the answers: a 200 merges the   *)
(* results of every query of the plan, and no group lacks a query.         *)
THEOREM WholeAnswer == Spec => []NothingLeftOut
<1>1. IInv => NothingLeftOut
  <2> SUFFICES ASSUME IInv, Answered200
               PROVE  /\ reply.merged = plan
                      /\ \A i \in DOMAIN req.in.groups : \E q \in reply.merged : q.group = i
                      /\ errChan = <<>>
    BY DEF NothingLeftOut
  <2>1. /\ plan # {} /\ errChan = <<>> /\ reply.merged = plan
        /\ plan = {Built(q) : q \in FilterGroups(cfg, req.in, source)}
    BY DEF IInv, ReplyIsWhole, PlanCovers
  <2>2. ASSUME NEW i \in DOMAIN req.in.groups
        PROVE  \E q \in plan : q.group = i
    <3>1. PICK g \in FilterGroups(cfg, req.in, source) : g.group = i
      BY EveryGroupPlanned
    <3>2. Built(g) \in plan /\ Built(g).group = i
      BY <2>1, <3>1 DEF Built
    <3> QED
      BY <3>2
  <2> QED
    BY <2>1, <2>2
<1> QED
  BY <1>1, Invariant, PTL

LEMMA RoutingAgreesState == IInv => ExpandedOnlyForLoki
<1> SUFFICES ASSUME IInv, NEW q \in plan
             PROVE  /\ q.backend = "prom" => q.reporter = "both" /\ q.side = "any"
                    /\ (q.backend = "loki" /\ Volume /\ req.in.dev) => q.side # "any"
                    /\ (q.backend = "loki" /\ Volume /\ DirectionFree(q.group))
                         => q.reporter # "both"
  BY DEF ExpandedOnlyForLoki
<1>1. PICK g \in FilterGroups(cfg, req.in, source) : q = Built(g)
  BY DEF IInv, PlanCovers
<1>2. /\ q.group = g.group /\ q.reporter = g.reporter /\ q.side = g.side
      /\ q.backend = "prom" <=> ForProm(cfg, req.in, source, g)
      /\ q.backend = "loki" <=> ~ForProm(cfg, req.in, source, g)
  BY <1>1 DEF Built, Backend
<1> QED
  BY <1>2, RoutedAsExpanded DEF Volume, DirectionFree

(* The backend of a query agrees with its expansion, although the two are  *)
(* decided on different filters.                                           *)
THEOREM RoutingAgrees == Spec => []ExpandedOnlyForLoki
BY RoutingAgreesState, Invariant, PTL

(* The data sources of an answer are the backends its results came from.   *)
THEOREM HonestSources == Spec => []SourcesAreActual
<1>1. IInv => SourcesAreActual
  <2> SUFFICES ASSUME IInv, Answered200
               PROVE  reply.sources = {q.backend : q \in reply.merged}
    BY DEF SourcesAreActual
  <2> DEFINE groups == FilterGroups(cfg, req.in, source)
  <2>1. /\ plan = {Built(g) : g \in groups}
        /\ sources = {Backend(cfg, req.in, source, g) : g \in groups}
        /\ reply.merged = plan /\ reply.sources = sources
    BY DEF IInv, ReplyIsWhole, PlanCovers
  <2>2. \A g \in groups : Built(g).backend = Backend(cfg, req.in, source, g)
    BY DEF Built
  <2> HIDE DEF groups
  <2> QED
    BY <2>1, <2>2
<1> QED
  BY <1>1, Invariant, PTL

(* A chosen data source is the one that is used. *)
THEOREM ChosenSource == Spec => []DataSourceHonoured
<1>1. IInv => DataSourceHonoured
  BY DEF IInv, PlanCovers, SourceChosen, DataSourceHonoured
<1> QED
  BY <1>1, Invariant, PTL

(* A second attempt follows a refusal of Prometheus that was the first     *)
(* error of an attempt nothing of which still runs.                        *)
THEOREM RetryAfterRefusal == Spec => RetryOnlyWithLoki
<1>1. IInv /\ [Next]_vars =>
        [source' # source =>
           /\ source = "auto" /\ source' = "loki" /\ req.ds = "auto" /\ cfg.loki
           /\ running = {}
           /\ errChan # <<>>
           /\ Head(errChan).from = "prom" /\ Head(errChan).code \in Unauthorized]_vars
  <2> SUFFICES ASSUME IInv, Next, source' # source
               PROVE  /\ source = "auto" /\ source' = "loki" /\ req.ds = "auto" /\ cfg.loki
                      /\ running = {}
                      /\ errChan # <<>>
                      /\ Head(errChan).from = "prom" /\ Head(errChan).code \in Unauthorized
    BY DEF vars, requestVars
  <2>1. Retry
    BY DEF Next, Refuse, Launch, Answer, FetchFailed, MergeFailed, Succeed, Report, Done, Fail,
           vars, requestVars
  <2> QED
    BY <2>1 DEF Retry, Retryable, IInv, FailureIsFirst
<1> QED
  BY <1>1, Invariant, PTL DEF Spec, RetryOnlyWithLoki

(* The three of them, as the run checks them. *)
THEOREM HonestThroughout == Spec => []SourcesTold
BY HonestSources, ChosenSource, PTL DEF SourcesTold

-----------------------------------------------------------------------------
(* The handler keeps the promise of AllOrNothing.                          *)

(* What an attempt has left behind: nothing before it is planned, and a    *)
(* reason when it failed after that.                                       *)
AttemptAccounts ==
  /\ running \subseteq plan
  /\ phase = "plan" => plan = {} /\ resChan = {} /\ errChan = <<>>
  /\ plan = {} => errChan = <<>>
  /\ phase = "failed" => plan = {} \/ (running = {} /\ (errChan # <<>> \/ MergeFails))

LEMMA InitAccounts == Init => AttemptAccounts
BY DEF Init, FetchInit, AttemptAccounts

LEMMA StepAccounts == IInv /\ AttemptAccounts /\ [Next]_vars => AttemptAccounts'
<1> SUFFICES ASSUME IInv, AttemptAccounts, [Next]_vars PROVE AttemptAccounts'
  OBVIOUS
<1> USE DEF AttemptAccounts
<1>1. CASE Refuse
  BY <1>1 DEF Refuse, Fail, fetchVars
<1>2. CASE Launch
  <2>1. Executable(plan', cfg) = plan'
    BY <1>2, LaunchedPlan
  <2> QED
    BY <1>2, <2>1 DEF Launch, Start, Fail
<1>3. CASE Answer
  <2> SUFFICES ASSUME NEW q \in running, AnswerResult(q) \/ AnswerError(q),
                      phase = "fetch", UNCHANGED requestVars
               PROVE  AttemptAccounts'
    BY <1>3 DEF Answer
  <2>1. running' = running \ {q} /\ plan # {}
    BY DEF AnswerResult, AnswerError
  <2> QED
    BY <2>1 DEF requestVars
<1>4. CASE FetchFailed
  BY <1>4 DEF FetchFailed, AllDone, Fail, fetchVars
<1>5. CASE MergeFailed
  BY <1>5 DEF MergeFailed, AllDone, MergeFails, Fail, fetchVars
<1>6. CASE Succeed
  BY <1>6 DEF Succeed, fetchVars
<1>7. CASE Retry
  BY <1>7 DEF Retry
<1>8. CASE Report
  BY <1>8 DEF Report, fetchVars
<1>9. CASE UNCHANGED vars
  BY <1>9 DEF vars, requestVars, fetchVars, MergeFails
<1> QED
  BY <1>1, <1>2, <1>3, <1>4, <1>5, <1>6, <1>7, <1>8, <1>9 DEF Next, Done

(* What the abstract specification sees of a step that changes neither the *)
(* queries nor the answer.                                                 *)
LEMMA Unseen ==
  ASSUME UNCHANGED <<plan, fetchVars, reply>>, phase # "answered", phase' # "answered"
  PROVE  UNCHANGED Promise!vars
BY DEF fetchVars, MergeFails, Promise!vars

(* A step of the handler is a step of AllOrNothing, or is not seen there.  *)
LEMMA StepPromised == IInv /\ AttemptAccounts /\ [Next]_vars => [Promise!Next]_(Promise!vars)
<1> SUFFICES ASSUME IInv, AttemptAccounts, [Next]_vars
             PROVE  Promise!Next \/ UNCHANGED Promise!vars
  OBVIOUS
<1>1. CASE Refuse
  BY <1>1, Unseen DEF Refuse, Fail
<1>2. CASE Launch
  <2>1. /\ running' = plan' /\ resChan' = {} /\ errChan' = <<>>
        /\ phase' = "failed" \/ plan' # {}
    BY <1>2, LaunchedPlan DEF Launch, Start, Fail
  <2>2. phase = "plan" /\ phase' \in {"fetch", "failed"} /\ (phase' = "failed" => plan' = {})
    BY <1>2, LaunchedPlan DEF Launch, Fail
  <2>3. plan = {} /\ running = {} /\ resChan = {} /\ errChan = <<>>
    BY <2>2 DEF AttemptAccounts
  <2>4. CASE plan' = {}
    BY <2>1, <2>2, <2>3, <2>4 DEF Promise!vars, MergeFails
  <2>5. CASE plan' # {}
    BY <2>1, <2>2, <2>3, <2>5 DEF Promise!Next, Promise!Begin, Promise!Nothing, MergeFails
  <2> QED
    BY <2>4, <2>5
<1>3. CASE Answer
  <2> SUFFICES ASSUME NEW q \in running, AnswerResult(q) \/ AnswerError(q),
                      phase = "fetch", UNCHANGED requestVars
               PROVE  Promise!End
    BY <1>3 DEF Answer, Promise!Next
  <2>1. running' = running \ {q} /\ plan' = plan /\ phase' = "fetch"
    BY DEF AnswerResult, AnswerError, requestVars
  <2>2. q \in plan \ (plan \ running) /\ plan' \ running' = (plan \ running) \cup {q}
    BY <2>1 DEF AttemptAccounts
  <2>3. (errChan' = <<>> => errChan = <<>>) /\ resChan \subseteq resChan'
    <3>1. CASE AnswerResult(q)
      BY <3>1 DEF AnswerResult
    <3>2. CASE AnswerError(q)
      <4>1. PICK code \in FailureCodes[q.backend] :
              errChan' = Append(errChan, [from |-> q.backend, code |-> code])
        BY <3>2 DEF AnswerError
      <4>2. Len(errChan') = Len(errChan) + 1 /\ Len(errChan) \in Nat
        BY <4>1 DEF IInv, TypeOK
      <4>3. errChan' # <<>>
        BY <4>2
      <4> QED
        BY <3>2, <4>3 DEF AnswerError
    <3> QED
      BY <3>1, <3>2
  <2>4. (errChan' = <<>> /\ ~MergeFails') => (errChan = <<>> /\ ~MergeFails)
    BY <2>3 DEF MergeFails
  <2> QED
    BY <2>1, <2>2, <2>4 DEF Promise!End
<1>4. CASE FetchFailed
  BY <1>4, Unseen DEF FetchFailed, Fail
<1>5. CASE MergeFailed
  BY <1>5, Unseen DEF MergeFailed, Fail
<1>6. CASE Succeed
  <2>1. plan # {} /\ running = {} /\ errChan = <<>> /\ ~MergeFails /\ phase = "fetch"
    BY <1>6 DEF Succeed, AllDone, IInv, FetchAccounts
  <2>2. phase' = "answered" /\ reply'.code = 200 /\ UNCHANGED <<plan, running, resChan, errChan>>
    BY <1>6 DEF Succeed, fetchVars
  <2>3. Promise!Succeed
    BY <2>1, <2>2 DEF Promise!Succeed, MergeFails
  <2> QED
    BY <2>3 DEF Promise!Next
<1>7. CASE Retry
  <2>1. phase = "failed" /\ errChan # <<>>
    BY <1>7 DEF Retry, Retryable, IInv, FailureIsFirst
  <2>2. plan # {} /\ running = {}
    BY <2>1 DEF AttemptAccounts
  <2>3. phase' = "plan" /\ plan' = {} /\ running' = {}
    BY <1>7 DEF Retry
  <2>4. Promise!Again
    BY <2>1, <2>2, <2>3 DEF Promise!Again, Promise!Lost, Promise!Nothing
  <2> QED
    BY <2>4 DEF Promise!Next
<1>8. CASE Report
  <2>1. failure.code \in 400..599 /\ failure.code # 200
    BY <1>8 DEF Report, IInv, FailureIsAnError, Error
  <2>2. /\ phase = "failed" /\ phase' = "answered" /\ reply'.code # 200
        /\ UNCHANGED <<plan, running, resChan, errChan>>
    BY <1>8, <2>1 DEF Report, fetchVars
  <2>3. running = {} /\ (plan # {} => errChan # <<>> \/ MergeFails)
    BY <2>2 DEF AttemptAccounts
  <2>4. Promise!Refuse
    BY <2>2, <2>3 DEF Promise!Refuse, Promise!Nothing, Promise!Lost, MergeFails
  <2> QED
    BY <2>4 DEF Promise!Next
<1>9. CASE UNCHANGED vars
  BY <1>9 DEF vars, requestVars, fetchVars, MergeFails, Promise!vars
<1> QED
  BY <1>1, <1>2, <1>3, <1>4, <1>5, <1>6, <1>7, <1>8, <1>9 DEF Next, Done

(* For every inventory, filters and answers, a metrics request is answered *)
(* once, by all of its queries or by an error, and never while one runs.   *)
THEOREM KeepsPromise == Spec => ImplementsPromise
<1>1. Init => Promise!Init
  BY DEF Init, FetchInit, Promise!Init, Promise!Nothing
<1>2. Spec => []AttemptAccounts
  BY InitAccounts, StepAccounts, Invariant, PTL DEF Spec
<1> QED
  BY <1>1, <1>2, Invariant, StepPromised, PTL DEF Spec, ImplementsPromise, Promise!Spec

-----------------------------------------------------------------------------
(* Conversations are counted once. *)

U(i) == [group |-> i, reporter |-> "both", side |-> "any"]
Branch(i, r, s) == [group |-> i, reporter |-> r, side |-> s]

(* A group that Prometheus can answer is left whole. *)
LEMMA PromGroupWhole ==
  ASSUME NEW c, NEW in, NEW ds, NEW i \in DOMAIN in.groups,
         ShouldMergeReporters(in.field), ForProm(c, in, ds, U(i))
  PROVE  \A g \in FilterGroups(c, in, ds) : g.group = i => g = U(i)
<1> SUFFICES ASSUME NEW g \in FilterGroups(c, in, ds), g.group = i
             PROVE  g = U(i)
  OBVIOUS
<1>0. PICK u \in Unexpanded(in) :
        \E b : TookReporter(c, in, ds, u, b) /\ TookSide(c, in, ds, b, g)
  BY ExpandedShape DEF FilterGroups
<1>1. PICK b : TookReporter(c, in, ds, u, b) /\ TookSide(c, in, ds, b, g)
  BY <1>0
<1> USE DEF TookReporter, TookSide
<1>2. u = U(u.group)
  BY UnexpandedShape DEF U
<1>3. b.group = u.group
  BY <1>1, <1>2 DEF ByReporter, U
<1>4. g.group = b.group
  <2>1. b = [group |-> b.group, reporter |-> b.reporter, side |-> "any"]
    BY <1>1, <1>2 DEF ByReporter, U
  <2> QED
    BY <1>1, <2>1 DEF BySide
<1>5. u = U(i)
  BY <1>2, <1>3, <1>4
<1>6. b = u
  BY <1>1, <1>5, Zenon
<1> QED
  BY <1>1, <1>5, <1>6, Zenon

(* One that it cannot answer is in all its branches and in nothing else.   *)
LEMMA LokiGroupBranches ==
  ASSUME NEW c, NEW in, NEW ds, NEW i \in DOMAIN in.groups,
         ShouldMergeReporters(in.field), ~ForProm(c, in, ds, U(i)),
         FlowDirection \notin in.groups[i].keys
  PROVE  /\ \A r \in Reporters, s \in IF in.dev THEN Sides ELSE {"any"} :
              Branch(i, r, s) \in FilterGroups(c, in, ds)
         /\ \A g \in FilterGroups(c, in, ds) : g.group = i =>
              /\ ~ForProm(c, in, ds, g)
              /\ g.reporter \in Reporters
              /\ g.side \in IF in.dev THEN Sides ELSE {"any"}
              /\ g = Branch(i, g.reporter, g.side)
<1> DEFINE byReporter == Distribute(Unexpanded(in), ByReporter,
                           LAMBDA q : ForProm(c, in, ds, q) \/ FlowDirection \in Keys(in, q))
           bySide == Distribute(byReporter, BySide, LAMBDA q : ForProm(c, in, ds, q))
<1>1. U(i) \in Unexpanded(in) /\ FlowDirection \notin Keys(in, U(i))
  BY DEF Unexpanded, U, Keys, ReporterKeys, SideKeys
<1>2. \A r \in Reporters :
        /\ Branch(i, r, "any") \in byReporter
        /\ ~ForProm(c, in, ds, Branch(i, r, "any"))
  <2> SUFFICES ASSUME NEW r \in Reporters
               PROVE  /\ Branch(i, r, "any") \in byReporter
                      /\ ~ForProm(c, in, ds, Branch(i, r, "any"))
    OBVIOUS
  <2>1. Branch(i, r, "any") \in ByReporter(U(i))
    BY DEF ByReporter, U, Branch
  <2>2. Branch(i, r, "any") \in byReporter
    BY <1>1, <2>1 DEF Distribute
  <2>3. /\ Branch(i, r, "any").group = U(i).group
        /\ Keys(in, U(i)) \subseteq Keys(in, Branch(i, r, "any"))
        /\ Keys(in, Branch(i, r, "any")) \ Keys(in, U(i)) \subseteq {FlowDirection, DstType}
    BY DEF Keys, ReporterKeys, SideKeys, U, Branch, Reporters
  <2>4. ~ForProm(c, in, ds, Branch(i, r, "any"))
    BY <2>3, BranchStaysOnLoki
  <2> QED
    BY <2>2, <2>4
<1>3. FilterGroups(c, in, ds) = IF in.dev THEN bySide ELSE byReporter
  BY DEF FilterGroups, ExpandQueries
<1>4. \A r \in Reporters, s \in IF in.dev THEN Sides ELSE {"any"} :
        Branch(i, r, s) \in FilterGroups(c, in, ds)
  <2>1. CASE in.dev
    <3> SUFFICES ASSUME NEW r \in Reporters, NEW s \in Sides
                 PROVE  Branch(i, r, s) \in bySide
      BY <1>3, <2>1
    <3>1. Branch(i, r, s) \in BySide(Branch(i, r, "any"))
      BY DEF BySide, Branch
    <3> HIDE DEF byReporter
    <3> QED
      BY <1>2, <3>1 DEF Distribute
  <2>2. CASE ~in.dev
    BY <1>2, <1>3, <2>2
  <2> QED
    BY <2>1, <2>2
<1>5. ASSUME NEW g \in FilterGroups(c, in, ds), g.group = i
      PROVE  /\ ~ForProm(c, in, ds, g)
             /\ g.reporter \in Reporters
             /\ g.side \in IF in.dev THEN Sides ELSE {"any"}
             /\ g = Branch(i, g.reporter, g.side)
  <2>1. g = Branch(i, g.reporter, g.side) /\ (~in.dev => g.side = "any")
    <3>0. PICK u \in Unexpanded(in) :
            \E b : TookReporter(c, in, ds, u, b) /\ TookSide(c, in, ds, b, g)
      BY ExpandedShape DEF FilterGroups
    <3>1. PICK b : TookReporter(c, in, ds, u, b) /\ TookSide(c, in, ds, b, g)
      BY <3>0
    <3> USE DEF TookReporter, TookSide
    <3>2. u = [group |-> u.group, reporter |-> "both", side |-> "any"]
      BY UnexpandedShape
    <3>3. b = [group |-> b.group, reporter |-> b.reporter, side |-> "any"]
      BY <3>1, <3>2 DEF ByReporter
    <3>4. g \in BySide(b) => /\ g.group = b.group
                            /\ g = [group |-> g.group, reporter |-> g.reporter, side |-> g.side]
      BY <3>3 DEF BySide
    <3> QED
      BY <1>5, <3>1, <3>3, <3>4 DEF Branch
  <2>2. ~ForProm(c, in, ds, g)
    <3>1. ForProm(c, in, ds, g) => g = U(i)
      BY <2>1, RoutedAsExpanded DEF U, Branch
    <3> QED
      BY <3>1
  <2>3. g.reporter \in Reporters /\ (in.dev => g.side \in Sides)
    <3>1. g.reporter # "both" /\ (in.dev => g.side # "any")
      BY <1>5, <2>2, RoutedAsExpanded
    <3> QED
      BY <3>1, FilterGroupsShape DEF Reporters, Sides
  <2> QED
    BY <2>1, <2>2, <2>3
<1> QED
  BY <1>4, <1>5

(* Exactly one record of a conversation passes exactly one reporter branch.*)
OnlyPasses(c, r, record) ==
  \A q : q.reporter \in Reporters =>
    \A other \in Records(c) : InReporter(q, other) <=> q.reporter = r /\ other = record

LEMMA OneRecord ==
  ASSUME NEW c \in Conversation
  PROVE  \E r \in Reporters, record \in Records(c) : OnlyPasses(c, r, record)
<1> DEFINE ingress == [dir |-> "ingress", dstType |-> "Pod"]
           egress == [dir |-> "egress", dstType |-> "Pod"]
           inner == [dir |-> "inner", dstType |-> "Pod"]
           external == [dir |-> "egress", dstType |-> ""]
           service == [dir |-> "egress", dstType |-> "Service"]
           Passes(r, record) ==
             \/ r = "ingress" /\ record.dir \in {"ingress", "inner"}
             \/ r = "egress" /\ record.dir = "egress" /\ record.dstType \in {"", "Service"}
<1>1. ASSUME NEW q, NEW record, q.reporter \in Reporters
      PROVE  InReporter(q, record) <=> Passes(q.reporter, record)
  BY <1>1 DEF InReporter, Reporters
<1>2. /\ c.path = "inCluster" => Records(c) = {ingress, egress}
      /\ c.path = "sameNode" => Records(c) = {inner}
      /\ c.path = "outbound" => Records(c) = {external}
      /\ c.path = "toService" => Records(c) = {service}
      /\ c.path = "inbound" => Records(c) = {ingress}
  BY DEF Records
<1>3. c.path \in Paths
  BY DEF Conversation
<1>4. \A r \in Reporters : /\ Passes(r, ingress) <=> r = "ingress"
                           /\ ~Passes(r, egress)
                           /\ Passes(r, inner) <=> r = "ingress"
                           /\ Passes(r, external) <=> r = "egress"
                           /\ Passes(r, service) <=> r = "egress"
  BY DEF Reporters
<1>5. ingress # egress
  OBVIOUS
<1> HIDE DEF Passes, ingress, egress, inner, external, service
<1>6. \A record \in Records(c), r \in Reporters :
        (\A other \in Records(c), p \in Reporters :
           Passes(p, other) <=> p = r /\ other = record) => OnlyPasses(c, r, record)
  BY <1>1 DEF OnlyPasses
<1>7. \E record \in Records(c), r \in Reporters :
        \A other \in Records(c), p \in Reporters :
          Passes(p, other) <=> p = r /\ other = record
  BY <1>2, <1>3, <1>4, <1>5 DEF Paths, Reporters
<1> QED
  BY <1>6, <1>7

(* A conversation that one group selects has exactly one hit, on one side  *)
(* only: the plan's query on its group when Prometheus answers it, one     *)
(* record in one branch when Loki does.                                    *)
LEMMA OneHit ==
  ASSUME NEW c \in Conversation, NEW i \in DOMAIN req.in.groups,
         SelectedBy(c) = {i}, Volume, DirectionFree(i), InNamespace(c),
         req.in.dev => ~(c.src /\ c.dst),
         plan = {Built(q) : q \in FilterGroups(cfg, req.in, source)}
  PROVE  \/ LokiHits(c, plan) = {} /\ \E q : PromHits(c, plan) = {q}
         \/ PromHits(c, plan) = {} /\ \E h : LokiHits(c, plan) = {h}
<1> DEFINE groups == FilterGroups(cfg, req.in, source)
           whole == ForProm(cfg, req.in, source, U(i))
<1>1. \A j \in DOMAIN req.in.groups : c \in req.in.groups[j].flows <=> j = i
  BY DEF SelectedBy
<1>2. \A g \in groups : /\ Built(g).group = g.group /\ Built(g).reporter = g.reporter
                        /\ Built(g).side = g.side /\ g.group \in DOMAIN req.in.groups
                        /\ Built(g).backend = "prom" <=> ForProm(cfg, req.in, source, g)
                        /\ Built(g).backend = "loki" <=> ~ForProm(cfg, req.in, source, g)
  BY FilterGroupsShape DEF Built, Backend
<1>3. CASE whole
  <2>1. U(i) \in groups /\ \A g \in groups : g.group = i => g = U(i)
    <3>1. PICK g \in groups : g.group = i
      BY EveryGroupPlanned
    <3> QED
      BY <1>3, <3>1, PromGroupWhole DEF Volume
  <2> HIDE DEF groups
  <2>2. \A q \in plan : q.group = i => q = Built(U(i)) /\ q.backend = "prom"
    BY <1>2, <1>3, <2>1 DEF groups
  <2>3. Built(U(i)) \in plan /\ Built(U(i)).group = i
    BY <1>2, <2>1 DEF groups, U
  <2>4. \A q \in plan : q.group \in DOMAIN req.in.groups
    BY <1>2 DEF groups
  <2>5. PromHits(c, plan) = {Built(U(i))}
    BY <1>1, <2>2, <2>3, <2>4 DEF PromHits, InNamespace
  <2>6. LokiHits(c, plan) = {}
    BY <1>1, <2>2, <2>4 DEF LokiHits
  <2> QED
    BY <2>5, <2>6
<1>4. CASE ~whole
  <2> DEFINE sides == IF req.in.dev THEN Sides ELSE {"any"}
  <2>1. /\ \A r \in Reporters, s \in sides : Branch(i, r, s) \in groups
        /\ \A g \in groups : g.group = i =>
              /\ ~ForProm(cfg, req.in, source, g)
              /\ g.reporter \in Reporters
              /\ g.side \in sides
              /\ g = Branch(i, g.reporter, g.side)
    BY <1>4, LokiGroupBranches DEF Volume, DirectionFree
  <2>2. PICK r \in Reporters, record \in Records(c) : OnlyPasses(c, r, record)
    BY OneRecord
  <2>3. PICK s \in sides : \A q : q.side \in sides => (InSide(q, c) <=> q.side = s)
    <3>1. CASE req.in.dev /\ c.src
      BY <3>1 DEF InSide, Sides
    <3>2. CASE req.in.dev /\ ~c.src
      BY <3>2 DEF InSide, Sides, InNamespace
    <3>3. CASE ~req.in.dev
      BY <3>3 DEF InSide
    <3> QED
      BY <3>1, <3>2, <3>3
  <2> DEFINE q0 == Built(Branch(i, r, s))
  <2>4. Branch(i, r, s) \in groups
    BY <2>1, <2>2, <2>3
  <2>5. /\ q0 \in plan /\ q0.group = i /\ q0.reporter = r /\ q0.side = s
        /\ q0.backend = "loki"
    BY <1>2, <2>1, <2>4 DEF Branch
  <2> HIDE DEF groups, sides
  <2>6. \A q \in plan :
          /\ q.group \in DOMAIN req.in.groups
          /\ q.group = i => /\ q.backend = "loki"
                            /\ q.reporter \in Reporters /\ q.side \in sides
                            /\ q.reporter = r /\ q.side = s => q = q0
    BY <1>2, <2>1 DEF groups
  <2>7. PromHits(c, plan) = {}
    BY <1>1, <2>6 DEF PromHits
  <2> HIDE DEF q0
  <2>8. \A q \in plan, other \in Records(c) :
          (/\ q.backend = "loki" /\ c \in req.in.groups[q.group].flows
           /\ InReporter(q, other) /\ InSide(q, c))
          <=> q = q0 /\ other = record
    BY <1>1, <2>2, <2>3, <2>5, <2>6 DEF OnlyPasses
  <2>9. LokiHits(c, plan) = {<<q0, record>>}
    BY <2>2, <2>5, <2>8 DEF LokiHits
  <2> QED
    BY <2>7, <2>9
<1> QED
  BY <1>3, <1>4

(* For every inventory, filters and data source: an answer counts each     *)
(* conversation that one group selects once, and no other.                 *)
THEOREM NoDoubleCount == Spec => []CountedOnce
<1>1. IInv => CountedOnce
  <2> SUFFICES ASSUME IInv, Answered200, Volume, NEW c \in Conversation
               PROVE  /\ (Cardinality(SelectedBy(c)) = 1 /\ InNamespace(c)
                           /\ (\A i \in SelectedBy(c) : DirectionFree(i))
                           /\ (req.in.dev => ~(c.src /\ c.dst)))
                         => Weight(c, reply.merged) = 1
                      /\ (SelectedBy(c) = {} \/ ~InNamespace(c)) => Weight(c, reply.merged) = 0
    BY DEF CountedOnce
  <2>1. /\ reply.merged = plan
        /\ plan = {Built(g) : g \in FilterGroups(cfg, req.in, source)}
    BY DEF IInv, ReplyIsWhole, PlanCovers
  <2>2. \A x : Cardinality({x}) = 1 /\ Cardinality({}) = 0
    BY FS_Singleton, FS_EmptySet
  <2>3. ASSUME Cardinality(SelectedBy(c)) = 1, InNamespace(c),
               \A i \in SelectedBy(c) : DirectionFree(i),
               req.in.dev => ~(c.src /\ c.dst)
        PROVE  Weight(c, plan) = 1
    <3>1. DOMAIN req.in.groups = 1 .. Len(req.in.groups) /\ Len(req.in.groups) \in Int
      BY TypesOfRequest DEF IInv, TypeOK
    <3>2. IsFiniteSet(DOMAIN req.in.groups)
      BY <3>1, FS_Interval
    <3>3. IsFiniteSet(SelectedBy(c))
      BY <3>2, FS_Subset DEF SelectedBy
    <3>4. PICK i : SelectedBy(c) = {i}
      BY <2>3, <3>3, FS_Singleton
    <3>5. i \in DOMAIN req.in.groups /\ DirectionFree(i)
      BY <2>3, <3>4 DEF SelectedBy
    <3>6. \/ LokiHits(c, plan) = {} /\ \E q : PromHits(c, plan) = {q}
          \/ PromHits(c, plan) = {} /\ \E h : LokiHits(c, plan) = {h}
      BY <2>1, <2>3, <3>4, <3>5, OneHit
    <3>7. \/ Cardinality(LokiHits(c, plan)) = 0 /\ Cardinality(PromHits(c, plan)) = 1
          \/ Cardinality(LokiHits(c, plan)) = 1 /\ Cardinality(PromHits(c, plan)) = 0
      BY <2>2, <3>6, Zenon
    <3> QED
      BY <3>7 DEF Weight
  <2>4. ASSUME SelectedBy(c) = {} \/ ~InNamespace(c)
        PROVE  Weight(c, plan) = 0
    <3> DEFINE groups == FilterGroups(cfg, req.in, source)
    <3>1. \A g \in groups : g.group \in DOMAIN req.in.groups
      BY FilterGroupsShape
    <3>2. \A q \in plan : q.group \in DOMAIN req.in.groups
      <4> HIDE DEF groups
      <4>1. \A g \in groups : Built(g).group = g.group
        BY DEF Built
      <4> QED
        BY <2>1, <3>1, <4>1 DEF groups
    <3>3. PromHits(c, plan) = {}
      BY <2>4, <3>2 DEF PromHits, SelectedBy, InNamespace
    <3>4. LokiHits(c, plan) = {}
      <4>1. CASE SelectedBy(c) = {}
        BY <3>2, <4>1 DEF LokiHits, SelectedBy
      <4>2. CASE ~InNamespace(c)
        <5>1. req.in.dev /\ ~c.src /\ ~c.dst
          BY <4>2 DEF InNamespace
        <5>2. \A q \in plan : q.backend = "loki" => q.side \in Sides
          <6>1. ExpandedOnlyForLoki
            BY RoutingAgreesState
          <6>2. \A q \in plan : q.side \in Sides \cup {"any"}
            BY DEF IInv, TypeOK, BuiltQuery
          <6> QED
            BY <5>1, <6>1, <6>2 DEF ExpandedOnlyForLoki
        <5>3. \A q \in plan : q.backend = "loki" => ~InSide(q, c)
          BY <5>1, <5>2 DEF InSide, Sides
        <5> QED
          BY <5>3 DEF LokiHits
      <4> QED
        BY <2>4, <4>1, <4>2
    <3> QED
      BY <2>2, <3>3, <3>4 DEF Weight
  <2> QED
    BY <2>1, <2>3, <2>4
<1> QED
  BY <1>1, Invariant, PTL
=============================================================================
