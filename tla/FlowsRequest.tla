---------------------------- MODULE FlowsRequest ----------------------------
(***************************************************************************)
(* A request for flow records, displayed or exported: GetFlows and         *)
(* ExportFlows (pkg/handler/flows.go, export.go), with the StreamMerger    *)
(* (pkg/loki/streams_merger.go) that merges the answers of Loki to the     *)
(* queries of a request, in the order in which they arrived.               *)
(***************************************************************************)
EXTENDS FetchParallel, FiniteSets

CONSTANTS
  Stores,       \* what Loki may hold: sets of flow records
  Requests,     \* the requests that are made
  DefaultLimit  \* entries that Loki returns to a query without a limit

(* A record is a line of a stream at a time; for the queries, it matches   *)
(* some groups of filters, and has its ends in the namespace or not.       *)
Flow == [stream : STRING, line : STRING, time : Nat, groups : SUBSET STRING,
         src : BOOLEAN, dst : BOOLEAN]

(* The groups are those that Parse splits the filters into; "json" are     *)
(* those with a filter, on an address or an empty value, that Loki can     *)
(* only apply to the parsed line; "dev" is set by a request of a           *)
(* developer, on one namespace; limit 0 is no limit.                       *)
Request == [enabled : BOOLEAN, valid : BOOLEAN, export : {"no", "csv", "other"},
            dev : BOOLEAN, groups : SUBSET STRING, json : SUBSET STRING, limit : Nat]

(* Loki keeps one of several equal entries of a stream.                    *)
Distinct(S) == \A f, g \in S :
  f.stream = g.stream /\ f.time = g.time /\ f.line = g.line => f = g

ASSUME FlowsAssumption ==
  /\ Stores \subseteq SUBSET Flow /\ \A s \in Stores : IsFiniteSet(s) /\ Distinct(s)
  /\ Requests \subseteq Request
  /\ \A r \in Requests : r.groups # {} /\ r.json \subseteq r.groups
  /\ DefaultLimit \in Nat \ {0}

VARIABLES
  store,   \* the records in Loki
  req,     \* the request
  phase,   \* "parse", "fetch" or "done"
  merger,  \* the StreamMerger
  reply    \* code and records that are answered

vars == <<running, resChan, errChan, store, req, phase, merger, reply>>

-----------------------------------------------------------------------------
(* Each group is a query; on a namespace it is two (Distribute), one for   *)
(* records from it and one for records to it.                              *)
SourceOnly(r) == IF r.dev THEN {"src"} ELSE {"any"}              \* mutant
Sides(r) == IF r.dev THEN {"src", "dst"} ELSE {"any"}

Plan(r) == {[backend |-> "loki", group |-> g, side |-> s] : g \in r.groups, s \in Sides(r)}

OnSide(f, side) == CASE side = "src" -> f.src [] side = "dst" -> f.dst [] OTHER -> TRUE
Selected(q) == {f \in store : q.group \in f.groups /\ OnSide(f, q.side)}

(* Loki answers a query by the most recent records, up to the limit.       *)
Cap == IF req.limit = 0 THEN DefaultLimit ELSE req.limit
IsAnswer(A, q) ==
  /\ A \subseteq Selected(q)
  /\ \A f \in A, g \in Selected(q) \ A : f.time >= g.time
  /\ Cardinality(A) <= Cap /\ (A # Selected(q) => Cardinality(A) = Cap)

(* A record comes in its stream, to whose labels a query that parses the   *)
(* lines adds their fields.                                                *)
Returned(A, q) ==
  {[labels |-> <<f.stream, IF q.group \in req.json THEN f.line ELSE "">>, flow |-> f] : f \in A}

-----------------------------------------------------------------------------
(* The merger: the streams and the entries it knows, how often it holds    *)
(* each entry, and statistics.                                             *)
NoMerger == [streams |-> {}, entries |-> {}, copies |-> [e \in {} |-> 0],
             limitReached |-> FALSE, total |-> 0, duplicates |-> 0]

Entry(e) == <<e.labels, e.flow.time, e.flow.line>>

AboveLimit(n) == n > req.limit                                   \* mutant
AtLimit(n) == n >= req.limit

(* A stream that is not known is taken as it is, others only bring the     *)
(* entries that are not.                                                   *)
AllNew(m, E) == E                                                \* mutant
New(m, E) == {e \in E : e.labels \notin m.streams \/ Entry(e) \notin m.entries}

Copies(m, e) == IF e \in DOMAIN m.copies THEN m.copies[e] ELSE 0

Total(m, E) == m.total + Cardinality(E)

Add(m, E) ==
  [streams |-> m.streams \cup {e.labels : e \in E},
   entries |-> m.entries \cup {Entry(e) : e \in E},
   copies  |-> [e \in DOMAIN m.copies \cup New(m, E) |-> Copies(m, e) + (IF e \in New(m, E) THEN 1 ELSE 0)],
   limitReached |-> m.limitReached \/ AtLimit(Cardinality(E)),
   total        |-> Total(m, E),
   duplicates   |-> m.duplicates + Cardinality({e \in E : Entry(e) \in m.entries})]

-----------------------------------------------------------------------------
NoReply == [code |-> 0, records |-> {}]
Reply(code, records) == phase' = "done" /\ reply' = [code |-> code, records |-> records]

Init ==
  /\ store \in Stores /\ req \in Requests
  /\ phase = "parse" /\ merger = NoMerger /\ reply = NoReply
  /\ FetchInit

(* Loki is disabled, or a parameter or a filter cannot be parsed.          *)
Refuse ==
  /\ phase = "parse" /\ ~(req.enabled /\ req.valid)
  /\ Reply(400, {})
  /\ UNCHANGED <<fetchVars, store, req, merger>>

Launch ==
  /\ phase = "parse" /\ req.enabled /\ req.valid
  /\ phase' = "fetch"
  /\ Start(Executable(Plan(req), [loki |-> req.enabled, prom |-> FALSE]))
  /\ UNCHANGED <<store, req, merger, reply>>

Upstream ==
  /\ phase = "fetch"
  /\ \E q \in running : AnswerResult(q) \/ AnswerError(q)
  /\ UNCHANGED <<store, req, phase, merger, reply>>

FetchFailed ==
  /\ phase = "fetch" /\ AllDone /\ errChan # <<>>
  /\ Reply(errChan[1].code, {})
  /\ UNCHANGED <<fetchVars, store, req, merger>>

MergeNext ==
  /\ phase = "fetch" /\ AllDone /\ errChan = <<>>
  /\ \E r \in resChan :
       /\ r.mergeable
       /\ \E A \in SUBSET Selected(r.query) : IsAnswer(A, r.query) /\ merger' = Add(merger, Returned(A, r.query))
       /\ resChan' = resChan \ {r}
  /\ UNCHANGED <<running, errChan, store, req, phase, reply>>

MergeFailed ==
  /\ phase = "fetch" /\ AllDone /\ errChan = <<>> /\ MergeFails
  /\ Reply(MergeError.code, {})
  /\ UNCHANGED <<fetchVars, store, req, merger>>

Merged == DOMAIN merger.copies
Records == {e.flow : e \in Merged}

(* The format of an export is looked at last.                              *)
Answer ==
  /\ phase = "fetch" /\ AllDone /\ errChan = <<>> /\ resChan = {}
  /\ IF req.export = "other" THEN Reply(400, {}) ELSE Reply(200, Records)
  /\ UNCHANGED <<fetchVars, store, req, merger>>

Next == Refuse \/ Launch \/ Upstream \/ FetchFailed \/ MergeNext \/ MergeFailed \/ Answer

(* Loki answers, or its client times out.                                  *)
Spec == Init /\ [][Next]_vars /\ WF_vars(Next)

-----------------------------------------------------------------------------
TypeOK ==
  /\ phase \in {"parse", "fetch", "done"}
  /\ store \in Stores /\ req \in Requests
  /\ running \subseteq Plan(req) /\ {r.query : r \in resChan} \subseteq Plan(req)
  /\ Records \subseteq store /\ \A e \in Merged : merger.copies[e] \in Nat \ {0}
  /\ merger.total \in Nat /\ merger.duplicates \in 0..merger.total
  /\ reply.records \subseteq store

(* The records that the request is about.                                  *)
Wanted == {f \in store : f.groups \cap req.groups # {} /\ (req.dev => f.src \/ f.dst)}

(* An answer that does not say that the limit was reached is complete: it  *)
(* holds each record that the filters select, and nothing else.            *)
CompleteUnlessLimited ==
  reply.code = 200 => /\ reply.records \subseteq Wanted
                      /\ merger.limitReached \/ reply.records = Wanted

(* A record that the limit left out is no more recent than as many records *)
(* of the answer as the limit asks for, whatever group they are of.        *)
MostRecent ==
  reply.code = 200 =>
    \A f \in Wanted \ reply.records : Cardinality({g \in reply.records : g.time >= f.time}) >= Cap

(* Groups may overlap, and a record may have both ends in the namespace:   *)
(* an entry of a stream is displayed, and exported, once, in whatever      *)
(* order the answers are merged.                                           *)
OnceEach == \A e \in Merged : merger.copies[e] = 1

(* The statistics add up: what Loki returned is displayed or a duplicate.  *)
StatsAddUp == merger.total = Cardinality(Merged) + merger.duplicates

(* All or nothing: no answer before every query has ended, and none from   *)
(* which the failure of one was dropped.  The format of an export may be   *)
(* the ruin of a request from its start.                                   *)
Launched == phase # "parse" /\ req.enabled /\ req.valid
Promise == INSTANCE AllOrNothing WITH
  asked <- IF Launched THEN Plan(req) ELSE {},
  ended <- IF Launched THEN Plan(req) \ running ELSE {},
  sound <- errChan = <<>> /\ ~MergeFails /\ req.export # "other",
  reply <- IF phase # "done" THEN "none" ELSE IF reply.code = 200 THEN "whole" ELSE "error"

ImplementsPromise == Promise!Spec
=============================================================================
