--------------------------- MODULE TopologyRequest ---------------------------
(***************************************************************************)
(* One GET /api/flow/metrics request, from its parameters to its answer    *)
(* (pkg/handler/topology.go GetTopology and getTopologyFlows): plan the    *)
(* queries, run them in parallel, aggregate their results, and, when a     *)
(* Prometheus client was refused, do all of it once more with Loki only.   *)
(*                                                                         *)
(* Requests share nothing that a handler writes, so one request at a time  *)
(* is enough; the concurrency is that of its queries.                      *)
(***************************************************************************)
EXTENDS TopologyRouting, FetchParallel, FiniteSets

CONSTANTS
  Configs,       \* configurations of the server
  Requests       \* parameters of the requests

ASSUME TopologyAssumption ==
  /\ Configs \subseteq Config
  /\ \A r \in Requests : /\ r.ds \in DataSources
                         /\ r.valid \in BOOLEAN
                         /\ r.in \in Input(Seq(Group))
                         /\ r.in.groups # <<>>

VARIABLES
  cfg,       \* the configuration the server was started with
  req,       \* the request's parameters
  phase,     \* where the handler is
  source,    \* the data source of the current attempt
  plan,      \* the queries of the current attempt, with their backends
  sources,   \* dataSources: the backends the plan uses
  failure,   \* the error getTopologyFlows returned
  reply      \* what was written to the client

requestVars == <<cfg, req, phase, source, plan, sources, failure, reply>>
vars == <<requestVars, fetchVars>>

BuiltQuery == [group : Nat, reporter : Reporters \cup {"both"},
               side : Sides \cup {"any"}, backend : Backends]

NoError == [from |-> "none", code |-> 0]
NoReply == [code |-> 0, merged |-> {}, sources |-> {}]

Built(q) == [group |-> q.group, reporter |-> q.reporter, side |-> q.side,
             backend |-> Backend(cfg, req.in, source, q)]

Init ==
  /\ cfg \in Configs
  /\ req \in Requests
  /\ phase = "plan"
  /\ source = req.ds
  /\ plan = {} /\ sources = {}
  /\ failure = NoError
  /\ reply = NoReply
  /\ FetchInit

Fail(error) ==
  /\ phase' = "failed"
  /\ failure' = error
  /\ UNCHANGED <<cfg, req, source, reply>>

-----------------------------------------------------------------------------
(* A parameter does not parse, or the first group that has no query. *)
Refuse ==
  /\ phase = "plan"
  /\ \/ ~req.valid
     \/ \E q \in FilterGroups(cfg, req.in, source) :
          BuildError(cfg, req.in, source, q) # "none"
  /\ Fail([from |-> "request", code |-> 400])
  /\ UNCHANGED <<plan, sources, fetchVars>>

(* Every group has its queries: start those that have a client. *)
Launch ==
  /\ phase = "plan"
  /\ req.valid
  /\ LET groups == FilterGroups(cfg, req.in, source)
     IN  /\ \A q \in groups : BuildError(cfg, req.in, source, q) = "none"
         /\ plan' = {Built(q) : q \in groups}
         /\ sources' = sources \cup {Backend(cfg, req.in, source, q) : q \in groups}
  /\ Start(Executable(plan', cfg))
  /\ IF Executable(plan', cfg) = {}
     THEN Fail([from |-> "request", code |-> 400])
     ELSE phase' = "fetch" /\ UNCHANGED <<cfg, req, source, failure, reply>>

(* The upstream service answers one of the running queries. *)
Answer ==
  /\ phase = "fetch"
  /\ \E q \in running : AnswerResult(q) \/ AnswerError(q)
  /\ UNCHANGED requestVars

(* All queries are done and at least one failed: the error that was sent   *)
(* first is returned, the results are dropped.                             *)
FetchFailed ==
  /\ phase = "fetch"
  /\ AllDone
  /\ errChan # <<>>
  /\ Fail(Head(errChan))
  /\ UNCHANGED <<plan, sources, fetchVars>>

(* All queries succeeded but one result cannot be merged. *)
MergeFailed ==
  /\ phase = "fetch"
  /\ AllDone
  /\ errChan = <<>>
  /\ MergeFails
  /\ Fail(MergeError)
  /\ UNCHANGED <<plan, sources, fetchVars>>

(* All results are merged and written to the client. *)
Succeed ==
  /\ phase = "fetch"
  /\ AllDone
  /\ errChan = <<>>
  /\ ~MergeFails
  /\ phase' = "answered"
  /\ reply' = [code |-> 200, merged |-> Results, sources |-> sources]
  /\ UNCHANGED <<cfg, req, source, plan, sources, failure, fetchVars>>

-----------------------------------------------------------------------------
(* A 401 or 403 of a Prometheus client, in a request that did not choose   *)
(* its data source.                                                        *)
RetryableAgain ==                                                \* mutant
  /\ req.ds = "auto"
  /\ cfg.loki
  /\ source = "loki" \/ failure.from = "prom"
  /\ failure.code \in Unauthorized

Retryable ==
  /\ req.ds = "auto"
  /\ source = "auto"
  /\ cfg.loki
  /\ failure.from = "prom"
  /\ failure.code \in Unauthorized

RetryKeepingSources ==                                           \* mutant
  /\ phase = "failed"
  /\ Retryable
  /\ phase' = "plan" /\ source' = "loki" /\ plan' = {}
  /\ failure' = NoError
  /\ running' = {} /\ resChan' = {} /\ errChan' = <<>>
  /\ UNCHANGED <<cfg, req, sources, reply>>

(* getTopologyFlows is called again, from the raw parameters, with Loki. *)
Retry ==
  /\ phase = "failed"
  /\ Retryable
  /\ phase' = "plan"
  /\ source' = "loki"
  /\ plan' = {} /\ sources' = {}
  /\ failure' = NoError
  /\ running' = {} /\ resChan' = {} /\ errChan' = <<>>
  /\ UNCHANGED <<cfg, req, reply>>

Report ==
  /\ phase = "failed"
  /\ ~Retryable
  /\ phase' = "answered"
  /\ reply' = [code |-> failure.code, merged |-> {}, sources |-> {}]
  /\ UNCHANGED <<cfg, req, source, plan, sources, failure, fetchVars>>

Done == phase = "answered" /\ UNCHANGED vars

Next == Refuse \/ Launch \/ Answer \/ FetchFailed \/ MergeFailed \/ Succeed
          \/ Retry \/ Report \/ Done

(* The handler runs until it answers, and the HTTP clients it uses have a  *)
(* timeout (config "timeout", pkg/httpclient): each query is answered.     *)
Spec == Init /\ [][Next]_vars
FairSpec == Spec /\ WF_vars(Next)

-----------------------------------------------------------------------------
(* What the merged matrices say of a conversation: MatrixMerger adds up    *)
(* the values of equal label sets, so a conversation counts once for every *)
(* query and record that selects it.  A Prometheus metric counts a         *)
(* conversation once, and its developer client only those of the namespace *)
(* (external).                                                             *)
LokiHits(c, merged) ==
  {h \in {q \in merged : q.backend = "loki"} \X Records(c) :
     /\ c \in req.in.groups[h[1].group].flows
     /\ InReporter(h[1], h[2])
     /\ InSide(h[1], c)}

PromHits(c, merged) ==
  {q \in merged : /\ q.backend = "prom"
                  /\ c \in req.in.groups[q.group].flows
                  /\ req.in.dev => c.src \/ c.dst}

Weight(c, merged) ==
  Cardinality(LokiHits(c, merged)) + Cardinality(PromHits(c, merged))

Volume == ShouldMergeReporters(req.in.field)
Answered200 == phase = "answered" /\ reply.code = 200
SelectedBy(c) == {i \in DOMAIN req.in.groups : c \in req.in.groups[i].flows}
InNamespace(c) == req.in.dev => c.src \/ c.dst
DirectionFree(i) == FlowDirection \notin req.in.groups[i].keys

-----------------------------------------------------------------------------
(* Types of the handler's variables. *)
TypeOK ==
  /\ cfg \in Configs
  /\ req \in Requests
  /\ phase \in {"plan", "fetch", "failed", "answered"}
  /\ source \in DataSources
  /\ plan \subseteq BuiltQuery
  /\ sources \subseteq Backends
  /\ failure \in Error \cup {NoError}
  /\ reply.merged \subseteq BuiltQuery
  /\ reply.sources \subseteq Backends
  /\ reply.code \in Nat
  /\ running \subseteq BuiltQuery
  /\ resChan \subseteq [query : BuiltQuery, mergeable : BOOLEAN]
  /\ errChan \in Seq(Error)

(* A 200 carries the merged results of every query of the plan: no query   *)
(* is silently left out because it failed or because its backend has no    *)
(* client (the drop in fetchParallel), and every group of the request      *)
(* contributed.                                                            *)
NothingLeftOut ==
  Answered200 =>
    /\ reply.merged = plan
    /\ \A i \in DOMAIN req.in.groups : \E q \in reply.merged : q.group = i
    /\ errChan = <<>>

(* A group is expanded because it goes to Loki and left whole because it   *)
(* goes to Prometheus.  The test is made twice, before and after the       *)
(* filters of the branches are added: if the two answers differed, a       *)
(* Prometheus metric would be counted once per branch.                     *)
ExpandedOnlyForLoki ==
  \A q \in plan :
    /\ q.backend = "prom" => q.reporter = "both" /\ q.side = "any"
    /\ (q.backend = "loki" /\ Volume /\ req.in.dev) => q.side # "any"
    /\ (q.backend = "loki" /\ Volume /\ DirectionFree(q.group)) => q.reporter # "both"

(* Bytes and packets: a conversation that one group selects is counted     *)
(* exactly once, however many of its records the agents reported and       *)
(* whichever backends and attempts were used; one that no group selects,   *)
(* or outside of the namespace, is not counted.  (One that several groups  *)
(* select, or that has both ends in the namespace, is counted once for     *)
(* each query that selects it: MatrixMerger adds up.)                      *)
CountedOnce ==
  (Answered200 /\ Volume) =>
    \A c \in Conversation :
      /\ (Cardinality(SelectedBy(c)) = 1 /\ InNamespace(c)
           /\ (\A i \in SelectedBy(c) : DirectionFree(i))
           /\ (req.in.dev => ~(c.src /\ c.dst)))
         => Weight(c, reply.merged) = 1
      /\ (SelectedBy(c) = {} \/ ~InNamespace(c)) => Weight(c, reply.merged) = 0

(* The data sources shown to the user are those the merged results came    *)
(* from: nothing of the first attempt survives a retry.                    *)
SourcesAreActual ==
  Answered200 => reply.sources = {q.backend : q \in reply.merged}

(* The data source the user chose is the one that answers, and the one an  *)
(* automatic request was retried with.                                     *)
DataSourceHonoured ==
  /\ req.ds # "auto" => source = req.ds
  /\ source # "auto" => \A q \in plan : q.backend = source

(* What the user is told, and is given, about data sources is true through *)
(* the planning, the fallback from Prometheus to Loki and the retry.       *)
SourcesTold == SourcesAreActual /\ DataSourceHonoured

(* A second attempt is made at most once, with Loki, because Prometheus    *)
(* refused the query that failed first, and when nothing of the first      *)
(* attempt is still running.                                               *)
RetryOnlyWithLoki ==
  [][source' # source =>
       /\ source = "auto" /\ source' = "loki" /\ req.ds = "auto" /\ cfg.loki
       /\ running = {}
       /\ errChan # <<>>
       /\ Head(errChan).from = "prom" /\ Head(errChan).code \in Unauthorized]_vars

(* All or nothing: no answer while a query runs, none that leaves out a    *)
(* query that failed, one answer only, and a second attempt that starts    *)
(* from nothing after every query of the first has ended.                  *)
Promise == INSTANCE AllOrNothing WITH
  asked <- plan,
  ended <- plan \ running,
  sound <- errChan = <<>> /\ ~MergeFails,
  reply <- IF phase # "answered" THEN "none" ELSE IF reply.code = 200 THEN "whole" ELSE "error"

ImplementsPromise == Promise!Spec

(* Every request is answered, whatever the upstream services reply. *)
EveryRequestAnswered == <>(phase = "answered")
=============================================================================
