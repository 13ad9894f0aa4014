------------------------ MODULE LokiRequests_proofs ------------------------
(***************************************************************************)
(* Proofs about the requests for flow records and the queries that they    *)
(* are made of: FlowsRequest and LokiQueries.                              *)
(*                                                                         *)
(* Of a request, for any records, groups of filters, limits, answers of    *)
(* Loki under the limit and orders of the answers: the merger's index says *)
(* exactly what it holds (IndexOK), so that merging an answer adds all of  *)
(* it and nothing twice; and each query that was merged has an answer      *)
(* among the records (InRecords), which is all that it selects unless the  *)
(* limit was reached.                                                      *)
(*                                                                         *)
(* Of a query, for any fields, texts and numbers, and any number of        *)
(* matches: what is written for a match means what was asked, and the      *)
(* filters of a query are those of its matches and no other.  Of ">=", the *)
(* expression is compared digit by digit with the number.                  *)
(***************************************************************************)
EXTENDS FlowsRequest, LokiQueries, FiniteSetTheorems, WellFoundedInduction, TLAPS

(* The fields that may be added to the labels of a record.                 *)
Fields(S) == {""} \cup {f.line : f \in S}

(* What the merger may hold: a record with the labels that it came with.   *)
EntriesOf(S) == {[labels |-> <<f.stream, x>>, flow |-> f] : f \in S, x \in Fields(S)}

IndexOK ==
  /\ Merged \subseteq EntriesOf(store) /\ IsFiniteSet(Merged)
  /\ merger.entries = {Entry(e) : e \in Merged}
  /\ merger.streams = {e.labels : e \in Merged}
  /\ merger.copies = [e \in Merged |-> 1]
  /\ merger.limitReached \in BOOLEAN /\ merger.total \in Nat /\ merger.duplicates \in Nat
  /\ merger.total = Cardinality(Merged) + merger.duplicates

ChannelsOK ==
  /\ running \subseteq Plan(req)
  /\ \A r \in resChan : r.query \in Plan(req)
  /\ errChan \in Seq(Error)

(* A query whose answer is merged.                                         *)
InRecords(q) ==
  \E A \in SUBSET Records :
    IsAnswer(A, q) /\ (merger.limitReached \/ A = Selected(q))

PhaseOK ==
  /\ phase \in {"parse", "fetch", "done"}
  /\ phase = "parse" => merger = NoMerger /\ reply = NoReply
  /\ phase = "fetch" =>
       /\ reply = NoReply
       /\ \A q \in Plan(req) : q \in running \/ q \in Results \/ errChan # <<>> \/ InRecords(q)
  /\ reply \in [code : Nat, records : {{}, Records}]
  /\ reply.code = 200 => reply.records = Records /\ \A q \in Plan(req) : InRecords(q)

RecordsOK == \A f \in Records : \E q \in Plan(req) : f \in Selected(q)

ParamsOK == store \in Stores /\ req \in Requests

IInv == ParamsOK /\ ChannelsOK /\ IndexOK /\ RecordsOK /\ PhaseOK

-----------------------------------------------------------------------------
(* Lemmas on the data: requests, plans and what Loki returns.              *)

LEMMA ParamTypes ==
  ASSUME ParamsOK
  PROVE  /\ IsFiniteSet(store) /\ Distinct(store) /\ store \subseteq Flow
         /\ req.limit \in Nat /\ req.dev \in BOOLEAN /\ Cap \in Nat \ {0}
         /\ req.groups # {} /\ req.json \subseteq req.groups
BY FlowsAssumption DEF ParamsOK, Request, Cap

LEMMA PlanBackend == \A q \in Plan(req) : q.backend = "loki"
BY DEF Plan

(* Each record that the request is about is selected by a query of the     *)
(* plan, and the queries select no other.                                  *)
LEMMA PlanSelects ==
  ASSUME ParamsOK
  PROVE  \A f \in store : f \in Wanted <=> \E q \in Plan(req) : f \in Selected(q)
<1>1. req.dev \in BOOLEAN /\ store \subseteq Flow
  BY ParamTypes
<1>2. ASSUME NEW f \in store, f \in Wanted
      PROVE  \E q \in Plan(req) : f \in Selected(q)
  <2>1. PICK g \in req.groups : g \in f.groups
    BY <1>2 DEF Wanted
  <2>2. PICK s \in Sides(req) : OnSide(f, s)
    <3>1. CASE req.dev
      <4>1. f.src \/ f.dst
        BY <1>2, <3>1 DEF Wanted
      <4> QED BY <3>1, <4>1 DEF Sides, OnSide
    <3>2. CASE ~req.dev
      BY <3>2 DEF Sides, OnSide
    <3> QED BY <3>1, <3>2
  <2> DEFINE q == [backend |-> "loki", group |-> g, side |-> s]
  <2>3. q \in Plan(req)
    BY DEF Plan
  <2>4. f \in Selected(q)
    BY <2>1, <2>2 DEF Selected
  <2> QED BY <2>3, <2>4
<1>3. ASSUME NEW f \in store, NEW q \in Plan(req), f \in Selected(q)
      PROVE  f \in Wanted
  <2>1. PICK g \in req.groups, s \in Sides(req) : q = [backend |-> "loki", group |-> g, side |-> s]
    BY DEF Plan
  <2>2. g \in f.groups /\ OnSide(f, s)
    BY <1>3, <2>1 DEF Selected
  <2>3. req.dev => f.src \/ f.dst
    BY <2>2 DEF OnSide, Sides
  <2> QED BY <2>2, <2>3 DEF Wanted
<1> QED BY <1>2, <1>3

(* An entry is known by its labels, time and line.                         *)
LEMMA EntryIdentifies ==
  ASSUME ParamsOK,
         NEW d \in EntriesOf(store), NEW e \in EntriesOf(store), Entry(d) = Entry(e)
  PROVE  d = e
<1>1. PICK f \in store, x \in Fields(store) : d = [labels |-> <<f.stream, x>>, flow |-> f]
  BY DEF EntriesOf
<1>2. PICK g \in store, y \in Fields(store) : e = [labels |-> <<g.stream, y>>, flow |-> g]
  BY DEF EntriesOf
<1>3. <<f.stream, x>> = <<g.stream, y>> /\ f.time = g.time /\ f.line = g.line
  BY <1>1, <1>2 DEF Entry
<1>4. f.stream = g.stream /\ x = y
  BY <1>3
<1>5. f = g
  BY <1>3, <1>4, ParamTypes DEF Distinct
<1> QED BY <1>1, <1>2, <1>4, <1>5

LEMMA ReturnedEntries ==
  ASSUME ParamsOK, NEW q, NEW A \in SUBSET store
  PROVE  /\ Returned(A, q) \subseteq EntriesOf(store)
         /\ {e.flow : e \in Returned(A, q)} = A
         /\ IsFiniteSet(Returned(A, q)) /\ Cardinality(Returned(A, q)) = Cardinality(A)
<1> DEFINE entry(f) == [labels |-> <<f.stream, IF q.group \in req.json THEN f.line ELSE "">>, flow |-> f]
           b == [f \in A |-> entry(f)]
<1>1. Returned(A, q) = {entry(f) : f \in A}
  BY DEF Returned
<1>2. Returned(A, q) \subseteq EntriesOf(store)
  <2> SUFFICES ASSUME NEW f \in A PROVE entry(f) \in EntriesOf(store)
    BY <1>1
  <2> DEFINE x == IF q.group \in req.json THEN f.line ELSE ""
  <2>1. f \in store
    OBVIOUS
  <2>2. x \in Fields(store)
    BY <2>1 DEF Fields
  <2>3. entry(f) = [labels |-> <<f.stream, x>>, flow |-> f]
    OBVIOUS
  <2> HIDE DEF x, entry
  <2> QED BY <2>1, <2>2, <2>3 DEF EntriesOf
<1>3. {e.flow : e \in Returned(A, q)} = A
  <2>1. \A f \in A : entry(f).flow = f
    OBVIOUS
  <2> HIDE DEF entry
  <2>2. ASSUME NEW f \in A PROVE f \in {e.flow : e \in Returned(A, q)}
    <3>1. entry(f) \in Returned(A, q)
      BY <1>1
    <3> QED BY <2>1, <3>1
  <2>3. ASSUME NEW e \in Returned(A, q) PROVE e.flow \in A
    <3>1. PICK f \in A : e = entry(f)
      BY <1>1
    <3> QED BY <2>1, <3>1
  <2> QED BY <2>2, <2>3
<1>4. b \in Bijection(A, Returned(A, q))
  <2>1. \A f \in A : b[f] = entry(f) /\ b[f].flow = f
    OBVIOUS
  <2>2. b \in [A -> Returned(A, q)]
    BY <1>1
  <2>3. \A f, g \in A : b[f] = b[g] => f = g
    BY <2>1
  <2>4. \A e \in Returned(A, q) : \E f \in A : b[f] = e
    BY <1>1, <2>1
  <2> QED BY <2>2, <2>3, <2>4 DEF Bijection, Injection, Surjection, IsInjective
<1>5. IsFiniteSet(A)
  BY FS_Subset, ParamTypes
<1>6. ExistsBijection(A, Returned(A, q))
  BY <1>4 DEF ExistsBijection
<1>7. IsFiniteSet(Returned(A, q)) /\ Cardinality(Returned(A, q)) = Cardinality(A)
  BY <1>5, <1>6, FS_Bijection
<1> QED BY <1>2, <1>3, <1>7

-----------------------------------------------------------------------------
(* The merger holds an entry once it knows it, and only then.              *)
LEMMA Known ==
  ASSUME ParamsOK, IndexOK, NEW E \in SUBSET EntriesOf(store)
  PROVE  /\ New(merger, E) = E \ Merged
         /\ {e \in E : Entry(e) \in merger.entries} = E \cap Merged
<1>1. \A e \in E : Entry(e) \in merger.entries <=> e \in Merged
  <2>1. ASSUME NEW e \in E, Entry(e) \in merger.entries PROVE e \in Merged
    <3>1. PICK d \in Merged : Entry(d) = Entry(e)
      BY <2>1 DEF IndexOK
    <3>2. d \in EntriesOf(store) /\ e \in EntriesOf(store)
      BY DEF IndexOK
    <3> QED BY <3>1, <3>2, EntryIdentifies
  <2>2. ASSUME NEW e \in E, e \in Merged PROVE Entry(e) \in merger.entries
    BY <2>2 DEF IndexOK
  <2> QED BY <2>1, <2>2
<1>2. \A e \in E : e \in Merged => e.labels \in merger.streams
  BY DEF IndexOK
<1> QED BY <1>1, <1>2 DEF New

LEMMA Counts ==
  ASSUME NEW M, NEW E, IsFiniteSet(M), IsFiniteSet(E)
  PROVE  /\ IsFiniteSet(M \cup E)
         /\ Cardinality(M \cup E) + Cardinality(E \cap M) = Cardinality(M) + Cardinality(E)
         /\ Cardinality(M) \in Nat /\ Cardinality(E) \in Nat /\ Cardinality(E \cap M) \in Nat
         /\ Cardinality(M \cup E) \in Nat
<1>1. IsFiniteSet(M \cup E) /\ Cardinality(M \cup E) = Cardinality(M) + Cardinality(E) - Cardinality(M \cap E)
  BY FS_Union
<1>2. M \cap E = E \cap M
  OBVIOUS
<1>3. IsFiniteSet(E \cap M)
  BY FS_Subset
<1>4. Cardinality(M) \in Nat /\ Cardinality(E) \in Nat /\ Cardinality(E \cap M) \in Nat /\ Cardinality(M \cup E) \in Nat
  BY <1>1, <1>3, FS_CardinalityType
<1> QED BY <1>1, <1>2, <1>4

(* Merging an answer adds the whole of it, and nothing twice.              *)
LEMMA AddsAnswer ==
  ASSUME ParamsOK, IndexOK, NEW q, NEW A \in SUBSET store,
         merger' = Add(merger, Returned(A, q)), UNCHANGED <<store, req>>
  PROVE  /\ IndexOK' /\ Records' = Records \cup A
         /\ merger'.limitReached = (merger.limitReached \/ AtLimit(Cardinality(A)))
<1> DEFINE E == Returned(A, q)
<1>1. /\ E \subseteq EntriesOf(store) /\ {e.flow : e \in E} = A
      /\ IsFiniteSet(E) /\ Cardinality(E) = Cardinality(A)
  BY ReturnedEntries
<1>2. /\ New(merger, E) = E \ Merged
      /\ {e \in E : Entry(e) \in merger.entries} = E \cap Merged
  BY <1>1, Known
<1>3. merger' = Add(merger, E)
  OBVIOUS
<1> HIDE DEF E
<1>4. Merged' = Merged \cup E
  <2>1. Merged' = Merged \cup New(merger, E)
    BY <1>3 DEF Add, Merged
  <2> QED BY <2>1, <1>2
<1>5. merger'.copies = [e \in Merged \cup E |-> 1]
  <2>1. merger'.copies = [e \in Merged \cup (E \ Merged) |-> Copies(merger, e) + (IF e \in E \ Merged THEN 1 ELSE 0)]
    BY <1>2, <1>3 DEF Add, Merged
  <2>2. merger.copies = [e \in Merged |-> 1]
    BY DEF IndexOK
  <2>3. \A e \in Merged \cup E : Copies(merger, e) = IF e \in Merged THEN 1 ELSE 0
    BY <2>2 DEF Copies, Merged
  <2>4. Merged \cup (E \ Merged) = Merged \cup E
    OBVIOUS
  <2>5. \A e \in Merged \cup E : Copies(merger, e) + (IF e \in E \ Merged THEN 1 ELSE 0) = 1
    BY <2>3
  <2> QED BY <2>1, <2>4, <2>5
<1>6. /\ merger'.entries = {Entry(e) : e \in Merged \cup E}
      /\ merger'.streams = {e.labels : e \in Merged \cup E}
  <2>1. /\ merger'.entries = merger.entries \cup {Entry(e) : e \in E}
        /\ merger'.streams = merger.streams \cup {e.labels : e \in E}
    BY <1>3 DEF Add
  <2>2. /\ merger.entries = {Entry(e) : e \in Merged}
        /\ merger.streams = {e.labels : e \in Merged}
    BY DEF IndexOK
  <2> QED BY <2>1, <2>2
<1>7. /\ merger'.limitReached = (merger.limitReached \/ AtLimit(Cardinality(E)))
      /\ merger'.total = merger.total + Cardinality(E)
      /\ merger'.duplicates = merger.duplicates + Cardinality(E \cap Merged)
  <2>1. merger'.limitReached = (merger.limitReached \/ AtLimit(Cardinality(E)))
    BY <1>3 DEF Add
  <2>2. merger'.total = merger.total + Cardinality(E)
    BY <1>3 DEF Add, Total
  <2>3. merger'.duplicates = merger.duplicates + Cardinality({e \in E : Entry(e) \in merger.entries})
    BY <1>3 DEF Add
  <2> QED BY <1>2, <2>1, <2>2, <2>3
<1>8. Records' = Records \cup A
  BY <1>1, <1>4 DEF Records
<1>9. IsFiniteSet(Merged)
  BY DEF IndexOK
<1>10. /\ IsFiniteSet(Merged \cup E)
       /\ Cardinality(Merged \cup E) + Cardinality(E \cap Merged) = Cardinality(Merged) + Cardinality(E)
       /\ Cardinality(Merged) \in Nat /\ Cardinality(E) \in Nat /\ Cardinality(E \cap Merged) \in Nat
       /\ Cardinality(Merged \cup E) \in Nat
  BY <1>1, <1>9, Counts
<1>11. merger.total \in Nat /\ merger.duplicates \in Nat /\ merger.total = Cardinality(Merged) + merger.duplicates
  BY DEF IndexOK
<1>12. merger'.limitReached \in BOOLEAN
  BY <1>7 DEF AtLimit, IndexOK
<1>13. /\ merger'.total \in Nat /\ merger'.duplicates \in Nat
       /\ merger'.total = Cardinality(Merged \cup E) + merger'.duplicates
  BY <1>7, <1>10, <1>11
<1>14. Merged \cup E \subseteq EntriesOf(store)
  BY <1>1 DEF IndexOK
<1>15. EntriesOf(store') = EntriesOf(store)
  OBVIOUS
<1>16. IndexOK'
  <2>1. Merged' \subseteq EntriesOf(store') /\ IsFiniteSet(Merged')
    BY <1>4, <1>10, <1>14, <1>15
  <2>2. merger'.entries = {Entry(e) : e \in Merged'} /\ merger'.streams = {e.labels : e \in Merged'}
    BY <1>4, <1>6
  <2>3. merger'.copies = [e \in Merged' |-> 1]
    BY <1>4, <1>5
  <2>4. merger'.total = Cardinality(Merged') + merger'.duplicates
    BY <1>4, <1>13
  <2> HIDE DEF Merged
  <2> QED BY <2>1, <2>2, <2>3, <2>4, <1>12, <1>13 DEF IndexOK
<1> QED BY <1>1, <1>7, <1>8, <1>16

-----------------------------------------------------------------------------
LEMMA InitInv == Init => IInv
<1> SUFFICES ASSUME Init PROVE IInv
  OBVIOUS
<1> USE DEF Init
<1>1. ParamsOK
  BY DEF ParamsOK
<1>2. ChannelsOK
  BY DEF ChannelsOK, FetchInit
<1>3. Merged = {} /\ Records = {}
  BY DEF Merged, Records, NoMerger
<1>4. IndexOK
  <2>1. IsFiniteSet({}) /\ Cardinality({}) = 0
    BY FS_EmptySet
  <2>2. merger.copies = [e \in {} |-> 1]
    BY DEF NoMerger
  <2> QED BY <1>3, <2>1, <2>2 DEF IndexOK, NoMerger
<1>5. RecordsOK
  BY <1>3 DEF RecordsOK
<1>6. PhaseOK
  BY DEF PhaseOK, NoReply
<1> QED BY <1>1, <1>2, <1>4, <1>5, <1>6 DEF IInv

(* What does not touch the merger leaves what it holds as it is.           *)
LEMMA MergerKept ==
  ASSUME IInv, UNCHANGED <<store, req, merger>>
  PROVE  /\ ParamsOK' /\ IndexOK' /\ RecordsOK' /\ Records' = Records
         /\ Plan(req)' = Plan(req) /\ \A q : InRecords(q) => InRecords(q)'
<1>1. ParamsOK' /\ IndexOK' /\ Records' = Records
  BY DEF IInv, ParamsOK, IndexOK, Merged, Records
<1>2. Plan(req)' = Plan(req)
  OBVIOUS
<1>3. RecordsOK'
  BY <1>1 DEF IInv, RecordsOK, Selected
<1>4. ASSUME NEW q, InRecords(q) PROVE InRecords(q)'
  BY <1>4, <1>1 DEF InRecords, IsAnswer, Selected, Cap
<1> QED BY <1>1, <1>2, <1>3, <1>4

(* An error is answered.                                                   *)
LEMMA ErrorReply ==
  ASSUME IInv, UNCHANGED <<store, req, merger, fetchVars>>, NEW code \in 400..599, Reply(code, {})
  PROVE  IInv'
<1>1. ParamsOK' /\ IndexOK' /\ RecordsOK'
  BY MergerKept
<1>2. ChannelsOK'
  BY DEF IInv, ChannelsOK, fetchVars
<1>3. PhaseOK'
  BY DEF PhaseOK, Reply
<1> QED BY <1>1, <1>2, <1>3 DEF IInv

LEMMA NextInv == IInv /\ [Next]_vars => IInv'
<1> SUFFICES ASSUME IInv, [Next]_vars PROVE IInv'
  OBVIOUS
<1>1. CASE Refuse
  <2>1. 400 \in 400..599
    OBVIOUS
  <2> QED BY <1>1, <2>1, ErrorReply DEF Refuse
<1>2. CASE Launch
  <2>1. UNCHANGED <<store, req, merger, reply>> /\ phase = "parse" /\ phase' = "fetch"
    BY <1>2 DEF Launch
  <2>2. Executable(Plan(req), [loki |-> req.enabled, prom |-> FALSE]) = Plan(req)
    BY <1>2, PlanBackend DEF Launch, Executable
  <2>3. running' = Plan(req) /\ resChan' = {} /\ errChan' = <<>>
    BY <1>2, <2>2 DEF Launch, Start
  <2>4. ParamsOK' /\ IndexOK' /\ RecordsOK' /\ Plan(req)' = Plan(req)
    BY <2>1, MergerKept
  <2>5. ChannelsOK'
    BY <2>3, <2>4 DEF ChannelsOK
  <2>6. reply' = NoReply
    BY <2>1 DEF IInv, PhaseOK
  <2>7. PhaseOK'
    BY <2>1, <2>3, <2>4, <2>6 DEF PhaseOK, NoReply
  <2> QED BY <2>4, <2>5, <2>7 DEF IInv
<1>3. CASE Upstream
  <2>1. UNCHANGED <<store, req, phase, merger, reply>> /\ phase = "fetch"
    BY <1>3 DEF Upstream
  <2>2. /\ ParamsOK' /\ IndexOK' /\ RecordsOK' /\ Plan(req)' = Plan(req) /\ Records' = Records
        /\ \A q : InRecords(q) => InRecords(q)'
    BY <2>1, MergerKept
  <2>3. ChannelsOK
    BY DEF IInv
  <2>4. /\ reply = NoReply
        /\ \A q \in Plan(req) : q \in running \/ q \in Results \/ errChan # <<>> \/ InRecords(q)
    BY <2>1 DEF IInv, PhaseOK
  <2>5. ChannelsOK' /\ \A q \in Plan(req) :
          q \in running \/ q \in Results \/ errChan # <<>> => q \in running' \/ q \in Results' \/ errChan' # <<>>
    <3>1. PICK p \in running : AnswerResult(p) \/ AnswerError(p)
      BY <1>3 DEF Upstream
    <3>2. p \in Plan(req) /\ p.backend = "loki"
      BY <2>3, PlanBackend DEF ChannelsOK
    <3>3. CASE AnswerResult(p)
      <4>1. PICK b : resChan' = resChan \cup {[query |-> p, mergeable |-> b]}
        BY <3>3 DEF AnswerResult
      <4>2. running' = running \ {p} /\ errChan' = errChan
        BY <3>3 DEF AnswerResult
      <4>3. Results' = Results \cup {p}
        <5>1. [query |-> p, mergeable |-> b].query = p
          OBVIOUS
        <5> QED BY <4>1, <5>1 DEF Results
      <4>4. ChannelsOK'
        BY <2>2, <2>3, <3>2, <4>1, <4>2 DEF ChannelsOK
      <4> QED BY <4>2, <4>3, <4>4
    <3>4. CASE AnswerError(p)
      <4>1. PICK code \in FailureCodes["loki"] : errChan' = Append(errChan, [from |-> "loki", code |-> code])
        BY <3>2, <3>4 DEF AnswerError
      <4>2. running' = running \ {p} /\ resChan' = resChan
        BY <3>4 DEF AnswerError
      <4>3. [from |-> "loki", code |-> code] \in Error
        BY FailureCodesAssumption DEF Error
      <4>4. errChan' \in Seq(Error) /\ errChan' # <<>>
        BY <2>3, <4>1, <4>3 DEF ChannelsOK
      <4>5. ChannelsOK'
        BY <2>2, <2>3, <4>2, <4>4 DEF ChannelsOK
      <4> QED BY <4>4, <4>5
    <3> QED BY <3>1, <3>3, <3>4
  <2>6. PhaseOK'
    BY <2>1, <2>2, <2>4, <2>5 DEF PhaseOK, NoReply
  <2> QED BY <2>2, <2>5, <2>6 DEF IInv
<1>4. CASE FetchFailed
  <2>1. errChan \in Seq(Error) /\ errChan # <<>>
    BY <1>4 DEF FetchFailed, IInv, ChannelsOK
  <2>2. errChan[1] \in Error
    BY <2>1
  <2>3. errChan[1].code \in 400..599
    BY <2>2 DEF Error
  <2> QED BY <1>4, <2>3, ErrorReply DEF FetchFailed
<1>5. CASE MergeNext
  <2>1. UNCHANGED <<running, errChan, store, req, phase, reply>> /\ phase = "fetch" /\ errChan = <<>> /\ running = {}
    BY <1>5 DEF MergeNext, AllDone
  <2> PICK r \in resChan :
          /\ \E A \in SUBSET Selected(r.query) :
               IsAnswer(A, r.query) /\ merger' = Add(merger, Returned(A, r.query))
          /\ resChan' = resChan \ {r}
    BY <1>5 DEF MergeNext
  <2>2. PICK A \in SUBSET Selected(r.query) :
          IsAnswer(A, r.query) /\ merger' = Add(merger, Returned(A, r.query))
    OBVIOUS
  <2> DEFINE p == r.query
  <2>3. ParamsOK /\ ChannelsOK /\ IndexOK /\ RecordsOK /\ p \in Plan(req)
    BY DEF IInv, ChannelsOK
  <2>4. A \in SUBSET store
    BY DEF Selected
  <2>5. /\ IndexOK' /\ Records' = Records \cup A
        /\ merger'.limitReached = (merger.limitReached \/ AtLimit(Cardinality(A)))
    BY <2>1, <2>2, <2>3, <2>4, AddsAnswer
  <2>6. ParamsOK' /\ ChannelsOK'
    BY <2>1, <2>2, <2>3 DEF ParamsOK, ChannelsOK
  <2>7. RecordsOK'
    BY <2>1, <2>3, <2>5 DEF RecordsOK, Selected
  <2>8. \A q : InRecords(q) => InRecords(q)'
    BY <2>1, <2>5 DEF InRecords, IsAnswer, Selected, Cap
  <2>9. InRecords(p)'
    <3>1. IsFiniteSet(A)
      BY <2>3, <2>4, FS_Subset, ParamTypes
    <3>2. merger'.limitReached \/ A = Selected(p)
      <4>1. merger'.limitReached \in BOOLEAN /\ merger.limitReached \in BOOLEAN
        BY <2>3, <2>5 DEF IndexOK
      <4>2. A # Selected(p) => Cardinality(A) = Cap
        BY <2>2 DEF IsAnswer
      <4>3. A # Selected(p) => AtLimit(Cardinality(A))
        BY <4>2, <2>3, ParamTypes DEF AtLimit, Cap
      <4> QED BY <2>5, <4>1, <4>3
    <3>3. IsAnswer(A, p)' /\ Selected(p)' = Selected(p)
      BY <2>1, <2>2 DEF IsAnswer, Selected, Cap
    <3>4. A \in SUBSET Records'
      BY <2>5
    <3> QED BY <3>2, <3>3, <3>4 DEF InRecords
  <2>10. \A q \in Plan(req) : q \in Results' \/ InRecords(q)'
    <3>1. TAKE q \in Plan(req)
    <3>2. q \in Results \/ InRecords(q)
      BY <2>1 DEF IInv, PhaseOK
    <3>3. CASE q = p
      BY <2>9, <3>3
    <3>4. CASE q # p /\ q \in Results
      BY <2>2, <3>4 DEF Results
    <3> QED BY <2>8, <3>2, <3>3, <3>4
  <2>11. reply = NoReply
    BY <2>1 DEF IInv, PhaseOK
  <2>12. PhaseOK'
    BY <2>1, <2>10, <2>11 DEF PhaseOK, NoReply
  <2> QED BY <2>5, <2>6, <2>7, <2>12 DEF IInv
<1>6. CASE MergeFailed
  <2>1. MergeError.code \in 400..599
    BY DEF MergeError
  <2> QED BY <1>6, <2>1, ErrorReply DEF MergeFailed
<1>7. CASE Answer
  <2>1. phase = "fetch" /\ errChan = <<>> /\ running = {} /\ Results = {} /\ UNCHANGED <<fetchVars, store, req, merger>>
    BY <1>7 DEF Answer, AllDone, Results
  <2>2. CASE req.export = "other"
    <3>1. 400 \in 400..599
      OBVIOUS
    <3> QED BY <1>7, <2>2, <3>1, ErrorReply DEF Answer
  <2>3. CASE req.export # "other"
    <3>1. phase' = "done" /\ reply' = [code |-> 200, records |-> Records]
      BY <1>7, <2>3 DEF Answer, Reply
    <3>2. /\ ParamsOK' /\ IndexOK' /\ RecordsOK' /\ Plan(req)' = Plan(req) /\ Records' = Records
          /\ \A q : InRecords(q) => InRecords(q)'
      BY <2>1, MergerKept
    <3>3. ChannelsOK'
      BY <2>1 DEF IInv, ChannelsOK, fetchVars
    <3>4. \A q \in Plan(req) : InRecords(q)
      BY <2>1 DEF IInv, PhaseOK
    <3>5. PhaseOK'
      BY <3>1, <3>2, <3>4 DEF PhaseOK
    <3> QED BY <3>2, <3>3, <3>5 DEF IInv
  <2> QED BY <2>2, <2>3
<1>8. CASE UNCHANGED vars
  <2>1. /\ ParamsOK' /\ IndexOK' /\ RecordsOK' /\ Plan(req)' = Plan(req) /\ Records' = Records
        /\ \A q : InRecords(q) => InRecords(q)'
    BY <1>8, MergerKept DEF vars
  <2>2. ChannelsOK'
    BY <1>8 DEF IInv, ChannelsOK, vars
  <2>3. PhaseOK'
    BY <1>8, <2>1 DEF IInv, PhaseOK, vars, Results
  <2> QED BY <2>1, <2>2, <2>3 DEF IInv
<1> QED BY <1>1, <1>2, <1>3, <1>4, <1>5, <1>6, <1>7, <1>8 DEF Next

-----------------------------------------------------------------------------
(* The inductive invariant holds in every reachable state.                 *)
THEOREM Invariant == Spec => []IInv
BY InitInv, NextInv, PTL DEF Spec

(* Type correctness of a request for flows.                                *)
THEOREM TypeCorrect == Spec => []TypeOK
<1>1. IInv => TypeOK
  <2> SUFFICES ASSUME IInv PROVE TypeOK
    OBVIOUS
  <2>1. Records \subseteq store
    BY DEF IInv, IndexOK, EntriesOf, Records
  <2>2. reply.records \subseteq store
    BY <2>1 DEF IInv, PhaseOK
  <2>3. \A e \in Merged : merger.copies[e] \in Nat \ {0}
    BY DEF IInv, IndexOK
  <2>4. merger.total \in Nat /\ merger.duplicates \in 0..merger.total
    <3>1. Cardinality(Merged) \in Nat
      BY FS_CardinalityType DEF IInv, IndexOK
    <3>2. /\ merger.total \in Nat /\ merger.duplicates \in Nat
          /\ merger.total = Cardinality(Merged) + merger.duplicates
      BY DEF IInv, IndexOK
    <3> QED BY <3>1, <3>2
  <2>5. running \subseteq Plan(req) /\ {r.query : r \in resChan} \subseteq Plan(req)
    BY DEF IInv, ChannelsOK
  <2>6. phase \in {"parse", "fetch", "done"} /\ store \in Stores /\ req \in Requests
    BY DEF IInv, PhaseOK, ParamsOK
  <2> QED BY <2>1, <2>2, <2>3, <2>4, <2>5, <2>6 DEF TypeOK
<1> QED BY <1>1, Invariant, PTL

(* However groups overlap and answers interleave, the merger holds an      *)
(* entry of a stream once.                                                 *)
THEOREM EntriesOnce == Spec => []OnceEach
<1>1. IInv => OnceEach
  BY DEF IInv, IndexOK, OnceEach
<1> QED BY <1>1, Invariant, PTL

(* What Loki returned is displayed or counted as a duplicate.              *)
THEOREM HonestStats == Spec => []StatsAddUp
<1>1. IInv => StatsAddUp
  BY DEF IInv, IndexOK, StatsAddUp
<1> QED BY <1>1, Invariant, PTL

(* An answer that does not say that the limit was reached is complete, for *)
(* any store, filters and limit.                                           *)
THEOREM Complete == Spec => []CompleteUnlessLimited
<1>1. IInv => CompleteUnlessLimited
  <2> SUFFICES ASSUME IInv, reply.code = 200
               PROVE  /\ reply.records \subseteq Wanted
                      /\ merger.limitReached \/ reply.records = Wanted
    BY DEF CompleteUnlessLimited
  <2>1. reply.records = Records /\ \A q \in Plan(req) : InRecords(q)
    BY DEF IInv, PhaseOK
  <2>2. Records \subseteq store
    BY DEF IInv, IndexOK, EntriesOf, Records
  <2>3. Records \subseteq Wanted
    BY <2>2, PlanSelects DEF IInv, RecordsOK
  <2>4. ASSUME ~merger.limitReached, NEW f \in Wanted PROVE f \in Records
    <3>1. f \in store
      BY DEF Wanted
    <3>2. PICK q \in Plan(req) : f \in Selected(q)
      BY <3>1, PlanSelects DEF IInv
    <3>3. PICK A \in SUBSET Records : merger.limitReached \/ A = Selected(q)
      BY <2>1 DEF InRecords
    <3> QED BY <2>4, <3>2, <3>3
  <2>5. ~merger.limitReached => Records = Wanted
    BY <2>3, <2>4
  <2> QED BY <2>1, <2>3, <2>5
<1> QED BY <1>1, Invariant, PTL

(* A record that is left out is no more recent than as many records of the *)
(* answer as the limit asks for.                                           *)
THEOREM Recent == Spec => []MostRecent
<1>1. IInv => MostRecent
  <2> SUFFICES ASSUME IInv, reply.code = 200, NEW f \in Wanted \ reply.records
               PROVE  Cardinality({g \in reply.records : g.time >= f.time}) >= Cap
    BY DEF MostRecent
  <2>1. reply.records = Records /\ \A q \in Plan(req) : InRecords(q)
    BY DEF IInv, PhaseOK
  <2>2. f \in store
    BY DEF Wanted
  <2>3. PICK q \in Plan(req) : f \in Selected(q)
    BY <2>2, PlanSelects DEF IInv
  <2>4. PICK A \in SUBSET Records : IsAnswer(A, q)
    BY <2>1 DEF InRecords
  <2> DEFINE T == {g \in reply.records : g.time >= f.time}
  <2>5. A \in SUBSET T /\ Cardinality(A) = Cap
    BY <2>1, <2>3, <2>4 DEF IsAnswer
  <2>6. IsFiniteSet(T)
    <3>1. T \subseteq store
      BY <2>1 DEF IInv, IndexOK, EntriesOf, Records
    <3> QED BY <3>1, FS_Subset, ParamTypes DEF IInv
  <2>7. Cardinality(A) <= Cardinality(T)
    BY <2>5, <2>6, FS_Subset
  <2>8. Cardinality(T) \in Nat /\ Cap \in Nat
    BY <2>6, FS_CardinalityType, ParamTypes DEF IInv
  <2> QED BY <2>5, <2>7, <2>8
<1> QED BY <1>1, Invariant, PTL

-----------------------------------------------------------------------------
(* The handler keeps the promise of AllOrNothing.                          *)

(* A request that is not refused asks something.                           *)
LEMMA PlanNotEmpty == ASSUME ParamsOK PROVE Plan(req) # {}
<1>1. PICK g : g \in req.groups
  BY ParamTypes
<1>2. PICK s : s \in Sides(req)
  BY DEF Sides
<1>3. [backend |-> "loki", group |-> g, side |-> s] \in Plan(req)
  BY <1>1, <1>2 DEF Plan
<1> QED BY <1>3

(* What is in the channels when a request starts and when it is answered.  *)
FetchAccounts ==
  /\ phase = "fetch" => req.enabled /\ req.valid
  /\ phase = "parse" => running = {} /\ resChan = {} /\ errChan = <<>>

LEMMA InitAccounts == Init => FetchAccounts
BY DEF Init, FetchInit, FetchAccounts

LEMMA NextAccounts == FetchAccounts /\ [Next]_vars => FetchAccounts'
BY DEF FetchAccounts, Next, Refuse, Launch, Upstream, FetchFailed, MergeNext, MergeFailed, Answer,
       Reply, vars

(* A step of the handler is a step of AllOrNothing, or is not seen there.  *)
LEMMA NextPromised == IInv /\ FetchAccounts /\ [Next]_vars => [Promise!Next]_(Promise!vars)
<1> SUFFICES ASSUME IInv, FetchAccounts, [Next]_vars
             PROVE  Promise!Next \/ UNCHANGED Promise!vars
  OBVIOUS
<1>0. ParamsOK /\ ChannelsOK /\ Plan(req) # {}
  BY PlanNotEmpty DEF IInv
<1> HIDE DEF Plan
<1>1. CASE Refuse
  <2>1. /\ phase = "parse" /\ phase' = "done" /\ reply'.code = 400
        /\ ~Launched /\ ~Launched' /\ UNCHANGED <<running, resChan, errChan, req>>
    BY <1>1 DEF Refuse, Reply, fetchVars, Launched
  <2>2. Promise!Refuse
    BY <2>1 DEF Promise!Refuse, Promise!Nothing, MergeFails
  <2> QED BY <2>2 DEF Promise!Next
<1>2. CASE Launch
  <2>1. /\ phase = "parse" /\ phase' = "fetch" /\ ~Launched /\ Launched' /\ req' = req
        /\ resChan' = {} /\ errChan' = <<>>
    BY <1>2 DEF Launch, Launched, Start
  <2>2. running' = Plan(req)
    BY <1>2, PlanBackend DEF Launch, Executable, Start
  <2>3. resChan = {} /\ errChan = <<>>
    BY <2>1 DEF FetchAccounts
  <2>4. Promise!Begin
    BY <1>0, <2>1, <2>2, <2>3 DEF Promise!Begin, Promise!Nothing, MergeFails
  <2> QED BY <2>4 DEF Promise!Next
<1>3. CASE Upstream
  <2>1. PICK q \in running : AnswerResult(q) \/ AnswerError(q)
    BY <1>3 DEF Upstream
  <2>2. /\ phase = "fetch" /\ UNCHANGED <<phase, req>> /\ Launched /\ Launched'
        /\ running' = running \ {q}
    BY <1>3, <2>1 DEF Upstream, FetchAccounts, Launched, AnswerResult, AnswerError
  <2>3. q \in Plan(req) \ (Plan(req) \ running)
        /\ Plan(req) \ running' = (Plan(req) \ running) \cup {q}
    BY <1>0, <2>1, <2>2 DEF ChannelsOK
  <2>4. (errChan' = <<>> => errChan = <<>>) /\ resChan \subseteq resChan'
    <3>1. CASE AnswerResult(q)
      BY <3>1 DEF AnswerResult
    <3>2. CASE AnswerError(q)
      <4>1. PICK code \in FailureCodes[q.backend] :
              errChan' = Append(errChan, [from |-> q.backend, code |-> code])
        BY <3>2 DEF AnswerError
      <4>2. Len(errChan') = Len(errChan) + 1 /\ Len(errChan) \in Nat
        BY <1>0, <4>1 DEF ChannelsOK
      <4>3. errChan' # <<>>
        BY <4>2
      <4> QED BY <3>2, <4>3 DEF AnswerError
    <3> QED BY <2>1, <3>1, <3>2
  <2>5. (errChan' = <<>> /\ ~MergeFails') => (errChan = <<>> /\ ~MergeFails)
    BY <2>4 DEF MergeFails
  <2>6. Promise!End
    BY <2>2, <2>3, <2>5 DEF Promise!End
  <2> QED BY <2>6 DEF Promise!Next
<1>4. CASE FetchFailed
  <2>1. errChan[1].code # 200
    <3>1. errChan[1] \in Error
      BY <1>0, <1>4 DEF FetchFailed, ChannelsOK
    <3> QED BY <3>1 DEF Error
  <2>2. /\ phase = "fetch" /\ running = {} /\ errChan # <<>> /\ phase' = "done" /\ reply'.code # 200
        /\ Launched /\ Launched' /\ UNCHANGED <<running, resChan, errChan, req>>
    BY <1>4, <2>1 DEF FetchFailed, AllDone, Reply, fetchVars, Launched, FetchAccounts
  <2>3. Promise!Refuse
    BY <1>0, <2>2 DEF Promise!Refuse, Promise!Lost, MergeFails
  <2> QED BY <2>3 DEF Promise!Next
<1>5. CASE MergeNext
  <2>1. PICK r \in resChan : r.mergeable /\ resChan' = resChan \ {r}
    BY <1>5 DEF MergeNext
  <2>2. /\ UNCHANGED <<running, errChan, req, phase, reply>> /\ phase = "fetch"
    BY <1>5 DEF MergeNext
  <2>3. MergeFails' = MergeFails
    BY <2>1 DEF MergeFails
  <2>4. Launched' = Launched
    BY <2>2 DEF Launched
  <2> QED BY <2>2, <2>3, <2>4 DEF Promise!vars
<1>6. CASE MergeFailed
  <2>1. /\ phase = "fetch" /\ running = {} /\ MergeFails /\ phase' = "done" /\ reply'.code # 200
        /\ Launched /\ Launched' /\ UNCHANGED <<running, resChan, errChan, req>>
    BY <1>6 DEF MergeFailed, AllDone, Reply, fetchVars, Launched, FetchAccounts, MergeError
  <2>2. Promise!Refuse
    BY <1>0, <2>1 DEF Promise!Refuse, Promise!Lost, MergeFails
  <2> QED BY <2>2 DEF Promise!Next
<1>7. CASE Answer
  <2>1. /\ phase = "fetch" /\ running = {} /\ errChan = <<>> /\ resChan = {} /\ phase' = "done"
        /\ Launched /\ Launched' /\ UNCHANGED <<running, resChan, errChan, req>>
        /\ reply'.code = IF req.export = "other" THEN 400 ELSE 200
    BY <1>7 DEF Answer, AllDone, Reply, fetchVars, Launched, FetchAccounts
  <2>2. CASE req.export = "other"
    <3>1. Promise!Refuse
      BY <1>0, <2>1, <2>2 DEF Promise!Refuse, Promise!Lost, MergeFails
    <3> QED BY <3>1 DEF Promise!Next
  <2>3. CASE req.export # "other"
    <3>1. Promise!Succeed
      BY <1>0, <2>1, <2>3 DEF Promise!Succeed, MergeFails
    <3> QED BY <3>1 DEF Promise!Next
  <2> QED BY <2>2, <2>3
<1>8. CASE UNCHANGED vars
  BY <1>8 DEF vars, Launched, MergeFails, Promise!vars
<1> QED BY <1>1, <1>2, <1>3, <1>4, <1>5, <1>6, <1>7, <1>8 DEF Next

(* For any store, filters and answers of Loki, a request is answered once, *)
(* by all of its queries or by an error, and never while one runs.         *)
THEOREM KeepsPromise == Spec => ImplementsPromise
<1>1. Init => Promise!Init
  BY DEF Init, Launched, Promise!Init, Promise!Nothing
<1>2. Spec => []FetchAccounts
  BY InitAccounts, NextAccounts, PTL DEF Spec
<1> QED BY <1>1, <1>2, Invariant, NextPromised, PTL DEF Spec, ImplementsPromise, Promise!Spec

-----------------------------------------------------------------------------
(* The queries: the filters that a match is written as.                    *)

TextFilter(m) == IF m.key \in Numerics THEN NumericLineFilter(m) ELSE StringLineFilter(m)

(* The filters that a match is written as, in each of the three places.    *)
InLabels(m) == IF m.key \in Labels THEN {ToLabelFilter(m)} ELSE {}
InLine(m) ==
  IF m.key \in Arrays THEN {ArrayLineFilter(m)}
  ELSE IF m.key \in Numerics \cup Strings /\ NA \notin m.values THEN {TextFilter(m)}
  ELSE {}
InJson(m) ==
  IF m.key \in Ips THEN AddressFilters(m)
  ELSE IF m.key \in Numerics \cup Strings /\ NA \in m.values THEN {AsLabelFilters(TextFilter(m))}
  ELSE {}

(* The filters of a query are those of its losses and of its matches.      *)
QueryInv ==
  /\ packetLoss \in Losses
  /\ asked \subseteq Match
  /\ \A m \in asked : Offered(m)
  /\ labelFilters = UNION {InLabels(m) : m \in asked}
  /\ lineFilters = LossFilters(packetLoss) \cup (UNION {InLine(m) : m \in asked})
  /\ jsonFilters = UNION {InJson(m) : m \in asked}

-----------------------------------------------------------------------------
(* The invariant is inductive.                                             *)

(* A field of a type is of no other. *)
LEMMA OneType ==
  ASSUME NEW k
  PROVE  /\ k \in Labels => k \notin Ips /\ k \notin Arrays /\ k \notin Numerics /\ k \notin Strings
         /\ k \in Ips => k \notin Labels /\ k \notin Arrays /\ k \notin Numerics /\ k \notin Strings
         /\ k \in Arrays => k \notin Ips /\ k \notin Labels /\ k \notin Numerics /\ k \notin Strings
         /\ k \in Numerics => k \notin Ips /\ k \notin Arrays /\ k \notin Labels /\ k \notin Strings
         /\ k \in Strings => k \notin Ips /\ k \notin Arrays /\ k \notin Numerics /\ k \notin Labels
BY FieldsAssumption

(* The filters of one more match. *)
LEMMA OneMoreMatch ==
  ASSUME NEW S, NEW m
  PROVE  /\ UNION {InLabels(x) : x \in S \cup {m}} = (UNION {InLabels(x) : x \in S}) \cup InLabels(m)
         /\ UNION {InLine(x) : x \in S \cup {m}} = (UNION {InLine(x) : x \in S}) \cup InLine(m)
         /\ UNION {InJson(x) : x \in S \cup {m}} = (UNION {InJson(x) : x \in S}) \cup InJson(m)
OBVIOUS

LEMMA InitQueryInv == QueryInit => QueryInv
BY DEF QueryInit, QueryInv

LEMMA AskStep ==
  ASSUME QueryInv, NEW m \in Match, Ask(m),
         labelFilters' = labelFilters \cup InLabels(m),
         lineFilters' = lineFilters \cup InLine(m),
         jsonFilters' = jsonFilters \cup InJson(m)
  PROVE  QueryInv'
<1>1. asked' = asked \cup {m} /\ packetLoss' = packetLoss /\ Offered(m)
  BY DEF Ask
<1>2. /\ UNION {InLabels(x) : x \in asked'} = (UNION {InLabels(x) : x \in asked}) \cup InLabels(m)
      /\ UNION {InLine(x) : x \in asked'} = (UNION {InLine(x) : x \in asked}) \cup InLine(m)
      /\ UNION {InJson(x) : x \in asked'} = (UNION {InJson(x) : x \in asked}) \cup InJson(m)
  BY <1>1, OneMoreMatch
<1> DEFINE labels == UNION {InLabels(x) : x \in asked}
           lines == UNION {InLine(x) : x \in asked}
           jsons == UNION {InJson(x) : x \in asked}
<1>3. /\ packetLoss \in Losses /\ asked \subseteq Match /\ (\A x \in asked : Offered(x)) /\ labelFilters = labels
      /\ lineFilters = LossFilters(packetLoss) \cup lines /\ jsonFilters = jsons
  BY DEF QueryInv
<1>4. /\ packetLoss' \in Losses /\ asked' \subseteq Match /\ \A x \in asked' : Offered(x)
      /\ labelFilters' = labels \cup InLabels(m)
      /\ lineFilters' = LossFilters(packetLoss') \cup (lines \cup InLine(m))
      /\ jsonFilters' = jsons \cup InJson(m)
  <2> HIDE DEF labels, lines, jsons
  <2> QED
    BY <1>1, <1>3
<1> QED
  BY <1>2, <1>4 DEF QueryInv

LEMMA NextQueryInv == QueryInv /\ [QueryNext]_queryVars => QueryInv'
<1> SUFFICES ASSUME QueryInv, [QueryNext]_queryVars PROVE QueryInv'
  OBVIOUS
<1>1. ASSUME NEW m \in Match, AddLabel(m) PROVE QueryInv'
  <2>1. InLabels(m) = {ToLabelFilter(m)} /\ InLine(m) = {} /\ InJson(m) = {}
    BY <1>1, OneType DEF AddLabel, InLabels, InLine, InJson
  <2> QED
    BY <1>1, <2>1, AskStep DEF AddLabel
<1>2. ASSUME NEW m \in Match, AddAddress(m) PROVE QueryInv'
  <2>1. InLabels(m) = {} /\ InLine(m) = {} /\ InJson(m) = AddressFilters(m)
    BY <1>2, OneType DEF AddAddress, InLabels, InLine, InJson
  <2> QED
    BY <1>2, <2>1, AskStep DEF AddAddress
<1>3. ASSUME NEW m \in Match, AddText(m) PROVE QueryInv'
  <2>1. /\ InLabels(m) = {}
        /\ InLine(m) = IF NA \in m.values THEN {} ELSE {TextFilter(m)}
        /\ InJson(m) = IF NA \in m.values THEN {AsLabelFilters(TextFilter(m))} ELSE {}
    BY <1>3, OneType DEF AddText, InLabels, InLine, InJson
  <2>2. /\ labelFilters' = labelFilters /\ Ask(m)
        /\ NA \in m.values => jsonFilters' = jsonFilters \cup {AsLabelFilters(TextFilter(m))} /\ lineFilters' = lineFilters
        /\ NA \notin m.values => lineFilters' = lineFilters \cup {TextFilter(m)} /\ jsonFilters' = jsonFilters
    BY <1>3 DEF AddText, TextFilter
  <2> QED
    BY <2>1, <2>2, AskStep
<1>4. ASSUME NEW m \in Match, AddArray(m) PROVE QueryInv'
  <2>1. InLabels(m) = {} /\ InLine(m) = {ArrayLineFilter(m)} /\ InJson(m) = {}
    BY <1>4, OneType DEF AddArray, InLabels, InLine, InJson
  <2> QED
    BY <1>4, <2>1, AskStep DEF AddArray
<1>5. CASE UNCHANGED queryVars
  BY <1>5 DEF queryVars, QueryInv
<1> QED
  BY <1>1, <1>2, <1>3, <1>4, <1>5 DEF QueryNext

(* The filters of a query are those of its matches.                        *)
THEOREM QueryInvariant == QuerySpec => []QueryInv
<1>1. QueryInit => QueryInv
  BY InitQueryInv
<1>2. QueryInv /\ [QueryNext]_queryVars => QueryInv'
  BY NextQueryInv
<1> QED
  BY <1>1, <1>2, PTL DEF QuerySpec

-----------------------------------------------------------------------------
(* What is selected is what each match selects.                            *)

Holds(m, flow) ==
  /\ \A lf \in InLabels(m) : LabelFilterHolds(lf, flow)
  /\ \A f \in InLine(m) : LineFilterHolds(f, flow)
  /\ \A alternatives \in InJson(m) : \E lf \in alternatives : LabelFilterHolds(lf, flow)
LossHolds(loss, flow) == \A f \in LossFilters(loss) : LineFilterHolds(f, flow)

LEMMA SelectedParts ==
  ASSUME QueryInv, NEW flow
  PROVE  Passes(flow) <=> LossHolds(packetLoss, flow) /\ \A m \in asked : Holds(m, flow)
<1>1. (\A lf \in labelFilters : LabelFilterHolds(lf, flow))
        <=> \A m \in asked : \A lf \in InLabels(m) : LabelFilterHolds(lf, flow)
  BY DEF QueryInv
<1>2. (\A f \in lineFilters : LineFilterHolds(f, flow))
        <=> /\ LossHolds(packetLoss, flow)
            /\ \A m \in asked : \A f \in InLine(m) : LineFilterHolds(f, flow)
  BY DEF QueryInv, LossHolds
<1>3. (\A alternatives \in jsonFilters : \E lf \in alternatives : LabelFilterHolds(lf, flow))
        <=> \A m \in asked : \A alternatives \in InJson(m) : \E lf \in alternatives : LabelFilterHolds(lf, flow)
  BY DEF QueryInv
<1> QED
  BY <1>1, <1>2, <1>3 DEF Passes, Selects, Holds

(* The filters on losses mean what the parameter says. *)
LEMMA LossMeans ==
  ASSUME NEW loss \in Losses, NEW flow
  PROVE  LossHolds(loss, flow) <=> LossMeaning(loss, flow)
<1>1. \A key : LineFilterHolds(NotContainsKey(key), flow) <=> flow[key] = Absent
  BY DEF NotContainsKey, LineFilterHolds, FoundInLine, FieldsOf
<1>2. \A key : LineFilterHolds(RegexMatch(key, "positive"), flow) <=> flow[key] # Absent /\ flow[key] > 0
  <2> SUFFICES ASSUME NEW key
               PROVE  LineFilterHolds(RegexMatch(key, "positive"), flow) <=> flow[key] # Absent /\ flow[key] > 0
    OBVIOUS
  <2>1. /\ RegexMatch(key, "positive").patterns = {Pattern("positive", Absent)}
        /\ ~RegexMatch(key, "positive").not /\ FieldsOf(RegexMatch(key, "positive")) = {key}
    BY DEF RegexMatch, FieldsOf
  <2>2. LineFilterHolds(RegexMatch(key, "positive"), flow)
          <=> flow[key] # Absent /\ PatternHolds(Pattern("positive", Absent), flow[key])
    BY <2>1 DEF LineFilterHolds, FoundInLine
  <2>3. PatternHolds(Pattern("positive", Absent), flow[key]) <=> flow[key] # Absent /\ flow[key] > 0
    BY DEF PatternHolds, Pattern
  <2> QED
    BY <2>2, <2>3
<1> QED
  BY <1>1, <1>2 DEF LossHolds, LossFilters, LossMeaning, Losses

-----------------------------------------------------------------------------
(* What a match is made of.                                                *)

LEMMA MatchFacts ==
  ASSUME NEW m \in Match
  PROVE  /\ m.key \in Keys /\ m.values # {} /\ m.regex \in BOOLEAN /\ m.not \in BOOLEAN
         /\ \A a \in m.values : a = NA \/ (a.text # Absent /\ a.exact \in BOOLEAN)
         /\ \A a \in m.values : a # NA /\ a.exact => m.key \in Labels \cup Strings
<1>1. PICK k \in Keys :
        m \in [key : {k}, values : {vs \in SUBSET Asked(k) : Cardinality(vs) \in 1..MaxValues},
               regex : BOOLEAN, not : BOOLEAN, moreThan : BOOLEAN]
  BY DEF Match
<1>2. /\ m.key = k /\ m.values \subseteq Asked(k) /\ Cardinality(m.values) \in 1..MaxValues
      /\ m.regex \in BOOLEAN /\ m.not \in BOOLEAN
  BY <1>1
<1>3. m.values # {}
  BY <1>2, FS_EmptySet
<1>4. \A a \in Asked(k) : a = NA \/ (a.text \in Texts \cup Numbers /\ a.exact \in BOOLEAN)
  BY DEF Asked
<1>5. \A a \in Asked(k) : a # NA /\ a.exact => k \in Labels \cup Strings
  BY DEF Asked
<1> QED
  BY <1>2, <1>3, <1>4, <1>5, AbsentAssumption

LEMMA NAFacts == NA.text = Absent /\ NA.exact
BY DEF NA

(* What a pattern of a type holds of. *)
LEMMA PatternFacts ==
  ASSUME NEW text, NEW value
  PROVE  /\ PatternHolds(Pattern("exact", text), value) <=> value = text
         /\ PatternHolds(Pattern("contains", text), value) <=> value # Absent /\ value \in Containing[text]
         /\ PatternHolds(Pattern("any", text), value) <=> value # Absent
         /\ PatternHolds(Pattern("ip", text), value) <=> value = text
BY DEF PatternHolds, Pattern

LEMMA PatternFields == \A type, text : Pattern(type, text).type = type /\ Pattern(type, text).text = text
BY DEF Pattern

(* A label filter whose patterns are none of addresses. *)
LEMMA PlainLabelFilter ==
  ASSUME NEW lf, NEW flow, \A p \in lf.patterns : p.type # "ip", lf.not \in BOOLEAN
  PROVE  LabelFilterHolds(lf, flow) <=> ((\E p \in lf.patterns : PatternHolds(p, flow[lf.key])) <=> ~lf.not)
BY DEF LabelFilterHolds

-----------------------------------------------------------------------------
(* What is written for a match, by the type of its field.                  *)

(* One of the values that a match asks for is found. *)
HasValue(m, value, type) ==
  \E a \in m.values : PatternHolds(Pattern(IF a.exact THEN "exact" ELSE type, a.text), value)

LEMMA LabelFilterOf ==
  ASSUME NEW m \in Match, NEW flow
  PROVE  LabelFilterHolds(ToLabelFilter(m), flow)
           <=> (HasValue(m, flow[m.key], IF m.regex THEN "contains" ELSE "exact") <=> ~m.not)
<1> DEFINE type == IF m.regex THEN "contains" ELSE "exact"
           lf == ToLabelFilter(m)
<1>1. lf.key = m.key /\ lf.not = m.not
  BY DEF ToLabelFilter
<1>2. lf.patterns = {Pattern(IF m.regex /\ ~a.exact THEN "contains" ELSE "exact", a.text) : a \in m.values}
  BY DEF ToLabelFilter
<1>3. \A a : (IF m.regex /\ ~a.exact THEN "contains" ELSE "exact") = (IF a.exact THEN "exact" ELSE type)
  OBVIOUS
<1>4. \A p \in lf.patterns : p.type # "ip"
  BY <1>2, PatternFields
<1>5. (\E p \in lf.patterns : PatternHolds(p, flow[m.key])) <=> HasValue(m, flow[m.key], type)
  BY <1>2, <1>3 DEF HasValue
<1>6. m.not \in BOOLEAN
  BY MatchFacts
<1> HIDE DEF lf, type
<1>7. LabelFilterHolds(lf, flow) <=> (HasValue(m, flow[m.key], type) <=> ~m.not)
  BY <1>1, <1>4, <1>5, <1>6, PlainLabelFilter
<1> QED
  BY <1>7 DEF lf, type

(* A filter on the text of the line. *)
LEMMA LineFilterOf ==
  ASSUME NEW m \in Match, NEW flow, NEW type
  PROVE  LineFilterHolds(LineFilter(m, type), flow)
           <=> LET found == \E f \in Suffixed[m.key] : flow[f] # Absent /\ HasValue(m, flow[f], type)
               IN  IF m.not THEN ~found /\ flow[m.key] # Absent ELSE found
<1> DEFINE lf == LineFilter(m, type)
           found == \E f \in Suffixed[m.key] : flow[f] # Absent /\ HasValue(m, flow[f], type)
<1>1. lf.key = m.key /\ lf.not = m.not /\ ~lf.strictKey
  BY DEF LineFilter
<1>2. lf.patterns = {Pattern(IF a.exact THEN "exact" ELSE type, a.text) : a \in m.values}
  BY DEF LineFilter
<1>3. lf.patterns # {}
  BY <1>2, MatchFacts
<1>4. \A f : (\E p \in lf.patterns : PatternHolds(p, flow[f])) <=> HasValue(m, flow[f], type)
  BY <1>2 DEF HasValue
<1>5. FoundInLine(lf, flow) <=> found
  BY <1>1, <1>3, <1>4 DEF FoundInLine, FieldsOf
<1> QED
  BY <1>1, <1>3, <1>5 DEF LineFilterHolds

(* The fields that are asked for, parsed. *)
LEMMA ParsedOf ==
  ASSUME NEW m \in Match, NEW flow, NEW type \in {"exact", "contains"}, m.not => m.values = {NA}
  PROVE  (\E lf \in AsLabelFilters(LineFilter(m, type)) : LabelFilterHolds(lf, flow))
           <=> (HasValue(m, flow[m.key], type) <=> ~m.not)
<1> DEFINE p(a) == Pattern(IF a.exact THEN "exact" ELSE type, a.text)
           lf(a) == [key |-> m.key, not |-> m.not, patterns |-> {p(a)}]
<1>1. AsLabelFilters(LineFilter(m, type)) = {lf(a) : a \in m.values}
  BY DEF AsLabelFilters, LineFilter
<1>2. m.not \in BOOLEAN /\ m.values # {}
  BY MatchFacts
<1>3. \A a : LabelFilterHolds(lf(a), flow) <=> (PatternHolds(p(a), flow[m.key]) <=> ~m.not)
  <2> SUFFICES ASSUME NEW a
               PROVE  LabelFilterHolds(lf(a), flow) <=> (PatternHolds(p(a), flow[m.key]) <=> ~m.not)
    OBVIOUS
  <2>1. lf(a).key = m.key /\ lf(a).not = m.not /\ lf(a).patterns = {p(a)} /\ p(a).type # "ip"
    BY PatternFields
  <2> HIDE DEF lf, p
  <2> QED
    BY <1>2, <2>1, PlainLabelFilter
<1>4. (\E x \in {lf(a) : a \in m.values} : LabelFilterHolds(x, flow)) <=> \E a \in m.values : LabelFilterHolds(lf(a), flow)
  OBVIOUS
<1>5. HasValue(m, flow[m.key], type) <=> \E a \in m.values : PatternHolds(p(a), flow[m.key])
  BY DEF HasValue
<1> HIDE DEF lf, p
<1> QED
  BY <1>1, <1>2, <1>3, <1>4, <1>5

-----------------------------------------------------------------------------
(* What is written for a match means what was asked.                       *)

(* Of the texts and numbers asked for. *)
LEMMA ValueMeans ==
  ASSUME NEW m \in Match, NEW value, ~m.moreThan, m.key \notin Arrays
  PROVE  HasValue(m, value, IF m.regex /\ m.key \notin Numerics \cup Ips THEN "contains" ELSE "exact")
           <=> \E a \in m.values : Means(m, a, value)
<1> DEFINE type == IF m.regex /\ m.key \notin Numerics \cup Ips THEN "contains" ELSE "exact"
<1>1. ASSUME NEW a \in m.values
      PROVE  PatternHolds(Pattern(IF a.exact THEN "exact" ELSE type, a.text), value) <=> Means(m, a, value)
  <2>1. CASE a = NA
    BY <2>1, NAFacts, PatternFacts DEF Means
  <2>2. CASE a # NA
    BY <2>2, MatchFacts, PatternFacts DEF Means
  <2> QED
    BY <2>1, <2>2
<1> QED
  BY <1>1 DEF HasValue

LEMMA LabelMeans ==
  ASSUME NEW m \in Match, NEW flow, ~m.moreThan, m.key \in Labels
  PROVE  Holds(m, flow) <=> Meaning(m, flow)
<1>1. Holds(m, flow) <=> LabelFilterHolds(ToLabelFilter(m), flow)
  BY OneType DEF Holds, InLabels, InLine, InJson
<1>2. LabelFilterHolds(ToLabelFilter(m), flow) <=> ((\E a \in m.values : Means(m, a, flow[m.key])) <=> ~m.not)
  BY OneType, LabelFilterOf, ValueMeans
<1>3. Meaning(m, flow) <=> ((\E a \in m.values : Means(m, a, flow[m.key])) <=> ~m.not)
  BY MatchFacts DEF Meaning
<1> QED
  BY <1>1, <1>2, <1>3

LEMMA TextMeans ==
  ASSUME NEW m \in Match, NEW flow, ~m.moreThan, m.key \in Numerics \cup Strings, ~NAIsMixed(m)
  PROVE  Holds(m, flow) <=> Meaning(m, flow)
<1> DEFINE type == IF m.regex /\ m.key \notin Numerics \cup Ips THEN "contains" ELSE "exact"
<1>1. TextFilter(m) = LineFilter(m, type) /\ type \in {"exact", "contains"}
  BY OneType DEF TextFilter, NumericLineFilter, StringLineFilter
<1>2. m.key \notin Arrays /\ m.key \notin Ips /\ m.key \notin Labels /\ m.key \in Suffixed[m.key]
  BY OneType, MatchFacts, FieldsAssumption
<1>3. \A value : HasValue(m, value, type) <=> \E a \in m.values : Means(m, a, value)
  BY <1>2, ValueMeans
<1>4. m.not \in BOOLEAN
  BY MatchFacts
<1> HIDE DEF type
<1>5. CASE NA \in m.values
  <2>1. m.not => m.values = {NA}
    BY <1>5 DEF NAIsMixed
  <2>2. Holds(m, flow) <=> \E lf \in AsLabelFilters(LineFilter(m, type)) : LabelFilterHolds(lf, flow)
    BY <1>1, <1>2, <1>5 DEF Holds, InLabels, InLine, InJson
  <2>3. Holds(m, flow) <=> ((\E a \in m.values : Means(m, a, flow[m.key])) <=> ~m.not)
    BY <1>1, <1>3, <2>1, <2>2, ParsedOf
  <2>4. m.not => \A value : (\E a \in m.values : Means(m, a, value)) <=> value = Absent
    BY <2>1 DEF Means
  <2> QED
    BY <1>2, <1>4, <1>5, <2>3, <2>4 DEF Meaning
<1>6. CASE NA \notin m.values
  <2>1. Holds(m, flow) <=> LineFilterHolds(LineFilter(m, type), flow)
    BY <1>1, <1>2, <1>6 DEF Holds, InLabels, InLine, InJson
  <2> DEFINE found == \E f \in Suffixed[m.key] : flow[f] # Absent /\ \E a \in m.values : Means(m, a, flow[f])
  <2>2. Holds(m, flow) <=> IF m.not THEN ~found /\ flow[m.key] # Absent ELSE found
    BY <1>3, <2>1, LineFilterOf
  <2>3. \A a \in m.values : \A value : Means(m, a, value) => value # Absent
    BY <1>6, MatchFacts DEF Means
  <2>4. (\E f \in Suffixed[m.key], a \in m.values : (f = m.key \/ flow[f] # Absent) /\ Means(m, a, flow[f])) <=> found
    BY <2>3
  <2> QED
    BY <1>2, <1>6, <2>2, <2>4 DEF Meaning
<1> QED
  BY <1>5, <1>6

LEMMA ArrayMeans ==
  ASSUME NEW m \in Match, NEW flow, ~m.moreThan, m.key \in Arrays, ~NAIsMixed(m)
  PROVE  Holds(m, flow) <=> Meaning(m, flow)
<1>1. /\ m.key \notin Labels /\ m.key \notin Ips /\ m.key \notin Numerics /\ m.key \notin Strings
      /\ m.key \in Suffixed[m.key] /\ m.not \in BOOLEAN
  BY OneType, MatchFacts, FieldsAssumption
<1>2. Holds(m, flow) <=> LineFilterHolds(ArrayLineFilter(m), flow)
  BY <1>1 DEF Holds, InLabels, InLine, InJson
<1>3. CASE m.values = {NA}
  <2>1. Meaning(m, flow) <=> IF m.not THEN flow[m.key] # Absent ELSE flow[m.key] = Absent
    BY <1>1, <1>3 DEF Meaning, Means
  <2>2. LineFilterHolds(NotContainsKey(m.key), flow) <=> flow[m.key] = Absent
    BY DEF NotContainsKey, LineFilterHolds, FoundInLine, FieldsOf
  <2>3. LineFilterHolds(RegexMatch(m.key, "any"), flow) <=> flow[m.key] # Absent
    <3>1. /\ RegexMatch(m.key, "any").patterns = {Pattern("any", Absent)}
          /\ ~RegexMatch(m.key, "any").not /\ FieldsOf(RegexMatch(m.key, "any")) = {m.key}
      BY DEF RegexMatch, FieldsOf
    <3> QED
      BY <3>1, PatternFacts DEF LineFilterHolds, FoundInLine
  <2> QED
    BY <1>2, <1>3, <2>1, <2>2, <2>3 DEF ArrayLineFilter
<1>4. CASE m.values # {NA}
  <2>1. NA \notin m.values
    BY <1>4 DEF NAIsMixed
  <2> DEFINE f == ArrayLineFilter(m)
             found == \E k \in Suffixed[m.key] : flow[k] # Absent /\ \E a \in m.values : Means(m, a, flow[k])
  <2>2. f.key = m.key /\ f.not = m.not /\ ~f.strictKey
    BY <1>4 DEF ArrayLineFilter, LineFilter
  <2>3. f.patterns = {Pattern("contains", a.text) : a \in m.values}
    BY <1>4, <2>1 DEF ArrayLineFilter, LineFilter
  <2>4. f.patterns # {}
    BY <2>3, MatchFacts
  <2>5. \A value : (\E p \in f.patterns : PatternHolds(p, value)) <=> \E a \in m.values : Means(m, a, value)
    <3>1. \A a \in m.values : \A value : PatternHolds(Pattern("contains", a.text), value) <=> Means(m, a, value)
      BY <2>1, PatternFacts DEF Means
    <3> QED
      BY <2>3, <3>1
  <2>6. FoundInLine(f, flow) <=> found
    BY <2>2, <2>4, <2>5 DEF FoundInLine, FieldsOf
  <2>7. LineFilterHolds(f, flow) <=> IF m.not THEN ~found /\ flow[m.key] # Absent ELSE found
    BY <2>2, <2>4, <2>6 DEF LineFilterHolds
  <2>8. \A a \in m.values : \A value : Means(m, a, value) => value # Absent
    BY <2>1 DEF Means
  <2>9. (\E k \in Suffixed[m.key], a \in m.values : (k = m.key \/ flow[k] # Absent) /\ Means(m, a, flow[k])) <=> found
    BY <2>8
  <2> QED
    BY <1>1, <1>2, <2>1, <2>7, <2>9 DEF Meaning
<1> QED
  BY <1>3, <1>4

LEMMA AddressMeans ==
  ASSUME NEW m \in Match, NEW flow, ~m.moreThan, m.key \in Ips
  PROVE  Holds(m, flow) <=> Meaning(m, flow)
<1> DEFINE p(a) == IF a = NA THEN Pattern("exact", Absent) ELSE Pattern("ip", a.text)
           lf(a) == [key |-> m.key, not |-> m.not, patterns |-> {p(a)}]
           alternatives == {lf(a) : a \in m.values}
           value == flow[m.key]
<1>1. /\ m.key \notin Labels /\ m.key \notin Arrays /\ m.key \notin Numerics /\ m.key \notin Strings
      /\ m.not \in BOOLEAN /\ m.values # {}
  BY OneType, MatchFacts
<1>2. Holds(m, flow) <=> \A alts \in AddressFilters(m) : \E x \in alts : LabelFilterHolds(x, flow)
  BY <1>1 DEF Holds, InLabels, InLine, InJson
<1>3. AddressFilters(m) = IF m.not THEN {{x} : x \in alternatives} ELSE {alternatives}
  BY DEF AddressFilters
<1>4. ASSUME NEW a \in m.values
      PROVE  LabelFilterHolds(lf(a), flow)
               <=> IF m.not THEN value # Absent /\ ~Means(m, a, value) ELSE Means(m, a, value)
  <2>1. lf(a).key = m.key /\ lf(a).not = m.not /\ lf(a).patterns = {p(a)}
    OBVIOUS
  <2>2. CASE a = NA
    <3>1. p(a).type # "ip" /\ (PatternHolds(p(a), value) <=> value = Absent)
      BY <2>2, PatternFields, PatternFacts
    <3>2. Means(m, a, value) <=> value = Absent
      BY <2>2 DEF Means
    <3> HIDE DEF lf, p
    <3> QED
      BY <1>1, <2>1, <3>1, <3>2 DEF LabelFilterHolds
  <2>3. CASE a # NA
    <3>1. p(a).type = "ip" /\ (PatternHolds(p(a), value) <=> value = a.text)
      BY <2>3, PatternFields, PatternFacts
    <3>2. (Means(m, a, value) <=> value = a.text) /\ a.text # Absent
      BY <1>1, <2>3, MatchFacts DEF Means
    <3> HIDE DEF lf, p
    <3> QED
      BY <1>1, <2>1, <3>1, <3>2 DEF LabelFilterHolds
  <2> QED
    BY <2>2, <2>3
<1>5. Meaning(m, flow)
        <=> IF m.not THEN value # Absent /\ \A a \in m.values : ~Means(m, a, value) ELSE \E a \in m.values : Means(m, a, value)
  BY <1>1 DEF Meaning
<1>6. CASE m.not
  <2>1. Holds(m, flow) <=> \A x \in alternatives : LabelFilterHolds(x, flow)
    <3> HIDE DEF alternatives
    <3>1. AddressFilters(m) = {{x} : x \in alternatives}
      BY <1>3, <1>6
    <3>2. ASSUME Holds(m, flow), NEW x \in alternatives PROVE LabelFilterHolds(x, flow)
      <4>1. {x} \in AddressFilters(m)
        BY <3>1, <3>2
      <4>2. \E y \in {x} : LabelFilterHolds(y, flow)
        BY <1>2, <3>2, <4>1
      <4> QED
        BY <4>2
    <3>3. ASSUME \A x \in alternatives : LabelFilterHolds(x, flow), NEW alts \in AddressFilters(m)
          PROVE  \E x \in alts : LabelFilterHolds(x, flow)
      <4>1. PICK x \in alternatives : alts = {x}
        BY <3>1, <3>3
      <4> QED
        BY <3>3, <4>1
    <3> QED
      BY <1>2, <3>2, <3>3
  <2>2. (\A x \in alternatives : LabelFilterHolds(x, flow)) <=> \A a \in m.values : LabelFilterHolds(lf(a), flow)
    OBVIOUS
  <2> HIDE DEF lf, alternatives
  <2> QED
    BY <1>1, <1>4, <1>5, <1>6, <2>1, <2>2
<1>7. CASE ~m.not
  <2>1. Holds(m, flow) <=> \E x \in alternatives : LabelFilterHolds(x, flow)
    <3> HIDE DEF alternatives
    <3> QED
      BY <1>2, <1>3, <1>7
  <2>2. (\E x \in alternatives : LabelFilterHolds(x, flow)) <=> \E a \in m.values : LabelFilterHolds(lf(a), flow)
    OBVIOUS
  <2> HIDE DEF lf, alternatives
  <2> QED
    BY <1>1, <1>4, <1>5, <1>7, <2>1, <2>2
<1> QED
  BY <1>1, <1>6, <1>7

LEMMA MatchMeans ==
  ASSUME NEW m \in Match, NEW flow, ~m.moreThan, ~NAIsMixed(m)
  PROVE  Holds(m, flow) <=> Meaning(m, flow)
BY MatchFacts, LabelMeans, TextMeans, ArrayMeans, AddressMeans DEF Keys

(* A query without ">=" selects the flows that its matches mean, and no    *)
(* other, whatever is combined in it.                                      *)
ExactlyMeant ==
  (\A m \in asked : ~m.moreThan /\ ~NAIsMixed(m)) => \A flow : Passes(flow) <=> Meant(flow)

(* What flow_query.go writes for the matches of a query selects the flows  *)
(* that they mean.                                                         *)
THEOREM SelectedExactly == QuerySpec => []ExactlyMeant
<1>1. QueryInv => ExactlyMeant
  <2> SUFFICES ASSUME QueryInv, \A m \in asked : ~m.moreThan /\ ~NAIsMixed(m), NEW flow
               PROVE  Passes(flow) <=> Meant(flow)
    BY DEF ExactlyMeant
  <2>1. packetLoss \in Losses /\ asked \subseteq Match
    BY DEF QueryInv
  <2>2. \A m \in asked : Holds(m, flow) <=> Meaning(m, flow)
    BY <2>1, MatchMeans
  <2> QED
    BY <2>1, <2>2, SelectedParts, LossMeans DEF Meant
<1> QED
  BY <1>1, QueryInvariant, PTL

-----------------------------------------------------------------------------
(* ">=" as a regular expression.                                           *)

(* Every set of natural numbers has a least one. *)
LEMMA LeastNatural ==
  ASSUME NEW S, S \subseteq Nat, S # {}
  PROVE  \E x \in S : \A y \in S : x <= y
<1> DEFINE R == {ss \in Nat \X Nat : ss[1] < ss[2]}
<1>1. IsWellFoundedOn(R, Nat)
  BY NatLessThanWellFounded DEF OpToRel
<1>2. \A x, y \in Nat : x < y => <<x, y>> \in R
  OBVIOUS
<1> HIDE DEF R
<1>3. \E x \in S : \A y \in S : <<y, x>> \notin R
  BY <1>1, WFMin
<1>4. \A x, y \in S : x \in Nat /\ y \in Nat
  OBVIOUS
<1>5. \A x, y \in Nat : x < y \/ y <= x
  OBVIOUS
<1> QED
  BY <1>2, <1>3, <1>4, <1>5

Compared == 0..(10^MaxDigits - 1)
Prefix(n, i) == n \div 10^i

LEMMA Powers ==
  /\ 10^0 = 1 /\ 10^1 = 10 /\ 10^2 = 100 /\ 10^3 = 1000 /\ 10^4 = 10000 /\ 10^5 = 100000
  /\ 10^6 = 1000000 /\ 10^7 = 10000000 /\ 10^8 = 100000000 /\ 10^9 = 1000000000
OBVIOUS

(* A prefix is the one before less its last digit; a number with d digits *)
(* has no digit left after d.                                             *)
LEMMA PrefixFacts ==
  ASSUME NEW n \in Nat, NEW i \in 0..MaxDigits
  PROVE  /\ Prefix(n, i) \in Nat /\ 10^i \in Nat \ {0}
         /\ Prefix(n, i + 1) = Prefix(n, i) \div 10
         /\ Prefix(n, i + 1) <= Prefix(n, i)
         /\ n < 10^i => Prefix(n, i) = 0
<1>1. CASE i = 0
  BY <1>1, Powers DEF Prefix
<1>2. CASE i = 1
  BY <1>2, Powers DEF Prefix
<1>3. CASE i = 2
  BY <1>3, Powers DEF Prefix
<1>4. CASE i = 3
  BY <1>4, Powers DEF Prefix
<1>5. CASE i = 4
  BY <1>5, Powers DEF Prefix
<1>6. CASE i = 5
  BY <1>6, Powers DEF Prefix
<1>7. CASE i = 6
  BY <1>7, Powers DEF Prefix
<1>8. CASE i = 7
  BY <1>8, Powers DEF Prefix
<1>9. CASE i = 8
  BY <1>9, Powers DEF Prefix
<1> QED
  BY <1>1, <1>2, <1>3, <1>4, <1>5, <1>6, <1>7, <1>8, <1>9 DEF MaxDigits

LEMMA PrefixOrder ==
  ASSUME NEW n \in Nat, NEW x \in Nat, NEW i \in 0..MaxDigits
  PROVE  /\ n <= x => Prefix(n, i) <= Prefix(x, i)
         /\ Prefix(n, i) < Prefix(x, i) => n < x
<1>1. CASE i = 0
  BY <1>1, Powers DEF Prefix
<1>2. CASE i = 1
  BY <1>2, Powers DEF Prefix
<1>3. CASE i = 2
  BY <1>3, Powers DEF Prefix
<1>4. CASE i = 3
  BY <1>4, Powers DEF Prefix
<1>5. CASE i = 4
  BY <1>5, Powers DEF Prefix
<1>6. CASE i = 5
  BY <1>6, Powers DEF Prefix
<1>7. CASE i = 6
  BY <1>7, Powers DEF Prefix
<1>8. CASE i = 7
  BY <1>8, Powers DEF Prefix
<1>9. CASE i = 8
  BY <1>9, Powers DEF Prefix
<1> QED
  BY <1>1, <1>2, <1>3, <1>4, <1>5, <1>6, <1>7, <1>8, <1>9 DEF MaxDigits

LEMMA DigitsFacts ==
  ASSUME NEW n \in Compared
  PROVE  Digits(n) \in 1..MaxDigits /\ n < 10^Digits(n) /\ (Digits(n) = 1 \/ n >= 10^(Digits(n) - 1))
<1>1. \E d \in 1..MaxDigits : n < 10^d /\ (d = 1 \/ n >= 10^(d - 1))
  <2> DEFINE S == {d \in Nat : d \in 1..MaxDigits /\ n < 10^d}
  <2>1. MaxDigits \in S
    BY Powers DEF Compared, MaxDigits
  <2>2. PICK d \in S : \A y \in S : d <= y
    BY <2>1, LeastNatural
  <2>3. d = 1 \/ n >= 10^(d - 1)
    <3> SUFFICES ASSUME d # 1, n < 10^(d - 1) PROVE FALSE
      <4>1. d - 1 \in 0..MaxDigits
        BY DEF MaxDigits
      <4>2. 10^(d - 1) \in Nat /\ n \in Nat
        BY <4>1, PrefixFacts DEF Compared
      <4> QED
        BY <4>2
    <3>1. d - 1 \in S /\ d \in Nat
      BY DEF MaxDigits
    <3> QED
      BY <2>2, <3>1
  <2> QED
    BY <2>3
<1> QED
  BY <1>1 DEF Digits

(* With a prefix in common but for the last digit, it is that digit which  *)
(* tells the greater number; a longer number than that is greater still.   *)
LEMMA AlternativeSound ==
  ASSUME NEW n \in Nat, NEW x \in Nat, NEW i \in 1..(MaxDigits - 1), NEW k \in i..MaxDigits,
         x \div 10^(k + 1) = (n \div 10^i + 1) \div 10,
         (x \div 10^k) % 10 >= (n \div 10^i + 1) % 10
  PROVE  n < x
<1>1. i \in 0..MaxDigits /\ k \in 0..MaxDigits /\ k \in Nat /\ i \in Nat
  BY DEF MaxDigits
<1>2. Prefix(n, i) < Prefix(x, k)
  <2>1. /\ Prefix(x, k + 1) = Prefix(x, k) \div 10 /\ Prefix(x, k) \in Nat /\ Prefix(n, i) \in Nat
    BY <1>1, PrefixFacts
  <2>2. Prefix(x, k + 1) = (Prefix(n, i) + 1) \div 10 /\ Prefix(x, k) % 10 >= (Prefix(n, i) + 1) % 10
    BY DEF Prefix
  <2> QED
    BY <2>1, <2>2
<1>3. Prefix(x, k) <= Prefix(x, i)
  <2> DEFINE S == {j \in Nat : j \in i..k /\ Prefix(x, j) >= Prefix(x, k)}
  <2>1. k \in S
    BY <1>1, PrefixFacts
  <2>2. PICK j \in S : \A y \in S : j <= y
    BY <2>1, LeastNatural
  <2>3. j = i
    <3> SUFFICES ASSUME j # i PROVE FALSE
      OBVIOUS
    <3>1. j - 1 \in i..k /\ j - 1 \in 0..MaxDigits /\ j - 1 \in Nat /\ j - 1 + 1 = j /\ j \in 0..MaxDigits
      BY <1>1 DEF MaxDigits
    <3>2. Prefix(x, j) <= Prefix(x, j - 1) /\ Prefix(x, j - 1) \in Nat /\ Prefix(x, j) \in Nat /\ Prefix(x, k) \in Nat
      BY <1>1, <3>1, PrefixFacts
    <3>3. j - 1 \in S
      BY <3>1, <3>2
    <3> QED
      BY <2>2, <3>1, <3>3
  <2> QED
    BY <2>3
<1>4. Prefix(n, i) < Prefix(x, i)
  BY <1>1, <1>2, <1>3, PrefixFacts
<1> QED
  BY <1>1, <1>4, PrefixOrder

(* What the expression matches is at least the number, whatever its gaps.  *)
LEMMA MoreThanSound ==
  ASSUME NEW n \in Compared, NEW x \in Compared, MoreThanRegex(n, x)
  PROVE  x >= n
<1>1. n \in Nat /\ x \in Nat
  BY DEF Compared
<1>2. Digits(n) \in 1..MaxDigits /\ n < 10^Digits(n)
  BY DigitsFacts
<1>3. CASE x \div 10 = n \div 10 /\ x % 10 >= n % 10
  BY <1>1, <1>3
<1>4. CASE x >= 10^Digits(n)
  <2>1. Digits(n) \in 0..MaxDigits
    BY <1>2 DEF MaxDigits
  <2>2. 10^Digits(n) \in Nat
    BY <1>1, <2>1, PrefixFacts
  <2> QED
    BY <1>1, <1>2, <1>4, <2>2
<1>5. CASE \E i \in 1..(Digits(n) - 1) :
             LET nextMin == n \div 10^i + 1
             IN  \E k \in IF i = 1 THEN {1} ELSE i..MaxDigits :
                   /\ x \div 10^(k + 1) = nextMin \div 10
                   /\ LET digit == (x \div 10^k) % 10
                      IN  IF nextMin % 9 = 0 THEN digit = nextMin % 10 ELSE digit >= nextMin % 10
  <2>1. PICK i \in 1..(Digits(n) - 1) : \E k \in IF i = 1 THEN {1} ELSE i..MaxDigits :
          /\ x \div 10^(k + 1) = (n \div 10^i + 1) \div 10
          /\ \/ (x \div 10^k) % 10 = (n \div 10^i + 1) % 10
             \/ (x \div 10^k) % 10 >= (n \div 10^i + 1) % 10
    BY <1>5
  <2>2. PICK k \in IF i = 1 THEN {1} ELSE i..MaxDigits :
          /\ x \div 10^(k + 1) = (n \div 10^i + 1) \div 10
          /\ \/ (x \div 10^k) % 10 = (n \div 10^i + 1) % 10
             \/ (x \div 10^k) % 10 >= (n \div 10^i + 1) % 10
    BY <2>1
  <2>3. i \in 1..(MaxDigits - 1) /\ k \in i..MaxDigits
    BY <1>2 DEF MaxDigits
  <2>4. (x \div 10^k) % 10 >= (n \div 10^i + 1) % 10
    <3> i \in 0..MaxDigits
      BY <2>3 DEF MaxDigits
    <3>1. Prefix(n, i) \in Nat
      BY <1>1, PrefixFacts
    <3>2. (Prefix(n, i) + 1) % 10 \in 0..9
      BY <3>1
    <3> QED
      BY <2>2, <3>2 DEF Prefix
  <2>5. n < x
    BY <1>1, <2>2, <2>3, <2>4, AlternativeSound
  <2> QED
    BY <1>1, <2>5
<1> QED
  BY <1>3, <1>4, <1>5 DEF MoreThanRegex

(* It has every number at least as large, if it has no gap.                *)
LEMMA MoreThanComplete ==
  ASSUME NEW n \in Compared, NEW x \in Compared, Covered(n), x >= n
  PROVE  MoreThanRegex(n, x)
<1>1. n \in Nat /\ x \in Nat
  BY DEF Compared
<1> DEFINE d == Digits(n)
<1>2. d \in 1..MaxDigits /\ n < 10^d
  BY DigitsFacts
<1> d \in 0..MaxDigits /\ d \in Nat
  BY <1>2 DEF MaxDigits
<1>3. CASE x \div 10 = n \div 10
  <2>1. x % 10 >= n % 10
    BY <1>1, <1>3
  <2> QED
    BY <1>3, <2>1 DEF MoreThanRegex
<1>4. CASE x >= 10^d
  BY <1>4 DEF MoreThanRegex
<1>5. CASE x < 10^d /\ x \div 10 # n \div 10
  <2> HIDE DEF d
  <2> DEFINE S == {j \in Nat : j \in 1..d /\ Prefix(x, j) = Prefix(n, j)}
  <2>1. d \in S
    <3>1. Prefix(x, d) = 0 /\ Prefix(n, d) = 0
      BY <1>1, <1>2, <1>5, PrefixFacts
    <3> QED
      BY <1>2, <3>1
  <2>2. PICK j \in S : \A y \in S : j <= y
    BY <2>1, LeastNatural
  <2>3. j # 1
    <3>1. Prefix(x, 1) # Prefix(n, 1)
      BY <1>5, Powers DEF Prefix
    <3> QED
      BY <3>1
  <2> DEFINE i == j - 1
  <2>4. /\ i \in Nat /\ i + 1 = j /\ i \in 1..(d - 1) /\ i \in 1..d /\ i \in 0..MaxDigits /\ i \in 1..(MaxDigits - 1)
        /\ i <= MaxDigits
    BY <1>2, <2>3 DEF MaxDigits
  <2>5. i \notin S
    BY <2>2, <2>4
  <2> HIDE DEF i
  <2> DEFINE p == Prefix(n, i)
             q == Prefix(x, i)
  <2>6. /\ p \in Nat /\ q \in Nat /\ p <= q /\ p # q
        /\ Prefix(n, i + 1) = p \div 10 /\ Prefix(x, i + 1) = q \div 10
    BY <1>1, <2>4, <2>5, PrefixFacts, PrefixOrder
  <2>7. q \div 10 = p \div 10
    BY <2>4, <2>6
  <2>8. p + 1 = n \div 10^i + 1
    BY DEF Prefix
  <2>9. x \div 10^(i + 1) = q \div 10 /\ x \div 10^i = q
    BY <2>6 DEF Prefix
  <2> HIDE DEF p, q
  <2>10. (p + 1) \div 10 = q \div 10 /\ q % 10 >= (p + 1) % 10
    BY <2>6, <2>7
  <2>11. (p + 1) % 9 = 0 => (p + 1) % 10 = 9
    BY <2>4, <2>8 DEF Covered, d
  <2>12. IF (p + 1) % 9 = 0 THEN q % 10 = (p + 1) % 10 ELSE q % 10 >= (p + 1) % 10
    BY <2>6, <2>10, <2>11
  <2>13. i \in IF i = 1 THEN {1} ELSE i..MaxDigits
    BY <2>4 DEF MaxDigits
  <2> DEFINE Alternative(a, k) ==
        LET nextMin == n \div 10^a + 1
        IN  /\ x \div 10^(k + 1) = nextMin \div 10
            /\ LET digit == (x \div 10^k) % 10
               IN  IF nextMin % 9 = 0 THEN digit = nextMin % 10 ELSE digit >= nextMin % 10
  <2>14. Alternative(i, i)
    BY <2>8, <2>9, <2>10, <2>12
  <2>15. \E a \in 1..(d - 1) : \E k \in IF a = 1 THEN {1} ELSE a..MaxDigits : Alternative(a, k)
    <3> HIDE DEF Alternative
    <3> QED
      BY <2>4, <2>13, <2>14
  <2> QED
    BY <2>15 DEF MoreThanRegex, d
<1>6. x < 10^d \/ x >= 10^d
  <2>1. 10^d \in Nat
    BY <1>1, PrefixFacts
  <2> QED
    BY <1>1, <2>1
<1> QED
  BY <1>3, <1>4, <1>5, <1>6

(* A number is asked for with ">=" by the text of the line only, and where *)
(* the field may be another one, that is a number as well.                 *)
LEMMA AtLeastFilter ==
  ASSUME NEW m \in Match, NEW flow, Offered(m), m.moreThan,
         \A f \in Suffixed[m.key] : flow[f] \in Numbers \cup {Absent}
  PROVE  /\ \A a \in m.values : a.text \in Compared
         /\ Holds(m, flow) <=> \E f \in Suffixed[m.key], a \in m.values :
                                 flow[f] # Absent /\ MoreThanRegex(a.text, flow[f])
         /\ Meaning(m, flow) <=> \E f \in Suffixed[m.key], a \in m.values : flow[f] # Absent /\ flow[f] >= a.text
<1>1. m.key \in Numerics /\ NA \notin m.values /\ ~m.not
  BY DEF Offered
<1>2. /\ m.key \notin Labels /\ m.key \notin Ips /\ m.key \notin Arrays /\ m.key \notin Strings
  BY <1>1, OneType
<1>3. \A a \in m.values : a.text \in Numbers /\ ~a.exact
  <2>1. PICK k \in Keys : m \in [key : {k}, values : {vs \in SUBSET Asked(k) : Cardinality(vs) \in 1..MaxValues},
                                 regex : BOOLEAN, not : BOOLEAN, moreThan : BOOLEAN]
    BY DEF Match
  <2>2. m.key = k /\ m.values \subseteq Asked(k)
    BY <2>1
  <2> QED
    BY <1>1, <2>2 DEF Asked
<1>4. Holds(m, flow) <=> LineFilterHolds(LineFilter(m, "atLeast"), flow)
  BY <1>1, <1>2 DEF Holds, InLabels, InLine, InJson, TextFilter, NumericLineFilter
<1>5. Holds(m, flow) <=> \E f \in Suffixed[m.key] : flow[f] # Absent /\ HasValue(m, flow[f], "atLeast")
  BY <1>1, <1>4, LineFilterOf
<1>6. \A text, value : PatternHolds(Pattern("atLeast", text), value) <=> value # Absent /\ MoreThanRegex(text, value)
  BY DEF PatternHolds, Pattern
<1>7. \A value : HasValue(m, value, "atLeast") <=> \E a \in m.values : value # Absent /\ MoreThanRegex(a.text, value)
  BY <1>3, <1>6 DEF HasValue
<1>8. \A a \in m.values : \A value : Means(m, a, value) <=> value # Absent /\ value >= a.text
  BY DEF Means
<1>9. Meaning(m, flow) <=> \E f \in Suffixed[m.key], a \in m.values : flow[f] # Absent /\ flow[f] >= a.text
  BY <1>1, <1>2, <1>8 DEF Meaning
<1> QED
  BY <1>3, <1>5, <1>7, <1>9, NumbersAssumption DEF Compared

LEMMA AtLeastMeans ==
  ASSUME NEW m \in Match, NEW flow, Offered(m), m.moreThan,
         \A f \in Suffixed[m.key] : flow[f] \in Numbers \cup {Absent}
  PROVE  /\ Holds(m, flow) => Meaning(m, flow)
         /\ Plain(m) => (Meaning(m, flow) => Holds(m, flow))
<1>1. \A f \in Suffixed[m.key] : flow[f] # Absent => flow[f] \in Compared
  BY NumbersAssumption DEF Compared
<1>2. \A a \in m.values : a.text \in Compared
  BY AtLeastFilter
<1>3. \A a \in m.values, f \in Suffixed[m.key] :
        flow[f] # Absent /\ MoreThanRegex(a.text, flow[f]) => flow[f] >= a.text
  BY <1>1, <1>2, MoreThanSound
<1>4. Plain(m) => \A a \in m.values, f \in Suffixed[m.key] :
        flow[f] # Absent /\ flow[f] >= a.text => MoreThanRegex(a.text, flow[f])
  BY <1>1, <1>2, MoreThanComplete DEF Plain
<1> QED
  BY <1>3, <1>4, AtLeastFilter

(* What a flow of the model has in a field that ends like a numeric one.   *)
LEMMA FlowsHaveNumbers ==
  ASSUME NEW flow \in Flows, NEW m \in asked, m.key \in Numerics
  PROVE  \A f \in Suffixed[m.key] : flow[f] \in Numbers \cup {Absent}
<1> DEFINE numeric == Touched \cap (Numerics \cup LossFields)
<1>1. PICK n \in [numeric -> Numbers \cup {Absent}], t \in [Touched \ numeric -> Texts \cup {Absent}] :
        flow = [f \in Touched |-> IF f \in numeric THEN n[f] ELSE t[f]]
  BY DEF Flows
<1>2. Suffixed[m.key] \subseteq numeric
  BY NumbersAssumption DEF Touched
<1> QED
  BY <1>1, <1>2

(* A query selects exactly the flows that its matches mean, ">=" included: *)
(* what flow_query.go writes for a match, and moreThanRegex for a number   *)
(* without a gap.                                                          *)
THEOREM SelectedAsAsked == QuerySpec => []SelectedAsMeant
<1>1. QueryInv => SelectedAsMeant
  <2> SUFFICES ASSUME QueryInv, NEW flow \in Flows
               PROVE  /\ (\A m \in asked : ~NAIsMixed(m)) => (Passes(flow) => Meant(flow))
                      /\ (\A m \in asked : Plain(m)) => (Meant(flow) => Passes(flow))
    BY DEF SelectedAsMeant, SelectedAreMeant, MeantAreSelected
  <2>1. packetLoss \in Losses /\ asked \subseteq Match /\ \A m \in asked : Offered(m)
    BY DEF QueryInv
  <2>2. \A m \in asked : ~m.moreThan /\ ~NAIsMixed(m) => (Holds(m, flow) <=> Meaning(m, flow))
    BY <2>1, MatchMeans
  <2>3. \A m \in asked : m.moreThan => /\ Holds(m, flow) => Meaning(m, flow)
                                       /\ Plain(m) => (Meaning(m, flow) => Holds(m, flow))
    <3> SUFFICES ASSUME NEW m \in asked, m.moreThan
                 PROVE  /\ Holds(m, flow) => Meaning(m, flow)
                        /\ Plain(m) => (Meaning(m, flow) => Holds(m, flow))
      OBVIOUS
    <3>1. m.key \in Numerics
      BY <2>1 DEF Offered
    <3>2. \A f \in Suffixed[m.key] : flow[f] \in Numbers \cup {Absent}
      BY <3>1, FlowsHaveNumbers
    <3> QED
      BY <2>1, <3>2, AtLeastMeans
  <2>4. /\ (\A m \in asked : ~NAIsMixed(m)) => \A m \in asked : Holds(m, flow) => Meaning(m, flow)
        /\ (\A m \in asked : Plain(m)) => \A m \in asked : Meaning(m, flow) => Holds(m, flow)
    BY <2>2, <2>3 DEF Plain
  <2>5. Passes(flow) <=> LossMeaning(packetLoss, flow) /\ \A m \in asked : Holds(m, flow)
    BY <2>1, SelectedParts, LossMeans
  <2> QED
    BY <2>4, <2>5 DEF Meant
<1> QED
  BY <1>1, QueryInvariant, PTL

-----------------------------------------------------------------------------
(* What Loki and Prometheus make of a match.                               *)

LEMMA MatchAgrees ==
  ASSUME NEW m \in Match, NEW flow, m.key \in Labels \cup Strings, ~NAIsMixed(m), InBoth(m, flow)
  PROVE  Holds(m, flow) <=> LabelFilterHolds(ToLabelFilter(m), flow)
<1>1. CASE m.key \in Labels
  BY <1>1, OneType DEF Holds, InLabels, InLine, InJson
<1>2. CASE m.key \in Strings
  <2> DEFINE type == IF m.regex THEN "contains" ELSE "exact"
  <2>1. /\ m.key \notin Labels /\ m.key \notin Arrays /\ m.key \notin Ips /\ m.key \notin Numerics
        /\ m.key \in Suffixed[m.key] /\ m.not \in BOOLEAN
    BY <1>2, OneType, MatchFacts, FieldsAssumption
  <2>2. TextFilter(m) = LineFilter(m, type) /\ type \in {"exact", "contains"}
    BY <2>1 DEF TextFilter, StringLineFilter
  <2>3. LabelFilterHolds(ToLabelFilter(m), flow) <=> (HasValue(m, flow[m.key], type) <=> ~m.not)
    BY LabelFilterOf
  <2> HIDE DEF type
  <2>4. CASE NA \in m.values
    <3>1. m.not => m.values = {NA}
      BY <1>2, <2>4 DEF NAIsMixed
    <3>2. Holds(m, flow) <=> \E lf \in AsLabelFilters(LineFilter(m, type)) : LabelFilterHolds(lf, flow)
      BY <1>2, <2>1, <2>2, <2>4 DEF Holds, InLabels, InLine, InJson
    <3> QED
      BY <2>2, <2>3, <3>1, <3>2, ParsedOf
  <2>5. CASE NA \notin m.values
    <3>1. Holds(m, flow) <=> LineFilterHolds(LineFilter(m, type), flow)
      BY <1>2, <2>1, <2>2, <2>5 DEF Holds, InLabels, InLine, InJson
    <3>2. flow[m.key] # Absent /\ \A f \in Suffixed[m.key] : f = m.key \/ flow[f] = Absent
      BY DEF InBoth
    <3>3. (\E f \in Suffixed[m.key] : flow[f] # Absent /\ HasValue(m, flow[f], type)) <=> HasValue(m, flow[m.key], type)
      BY <2>1, <3>2
    <3> QED
      BY <2>1, <2>3, <3>1, <3>2, <3>3, LineFilterOf
  <2> QED
    BY <2>4, <2>5
<1> QED
  BY <1>1, <1>2

(* A query on labels and texts that is repeated with the other backend     *)
(* after a refusal is about the same flows (topology.go, resources.go).    *)
THEOREM RetryMeansTheSame == QuerySpec => []BackendsAgree
<1>1. QueryInv => BackendsAgree
  <2> SUFFICES ASSUME QueryInv, packetLoss = "all",
                      \A m \in asked : m.key \in Labels \cup Strings /\ Plain(m),
                      NEW flow \in Flows, \A m \in asked : InBoth(m, flow)
               PROVE  Passes(flow) <=> PromSelects(asked, flow)
    BY DEF BackendsAgree
  <2>1. asked \subseteq Match
    BY DEF QueryInv
  <2>2. \A m \in asked : Holds(m, flow) <=> LabelFilterHolds(ToLabelFilter(m), flow)
    BY <2>1, MatchAgrees DEF Plain
  <2>3. LossHolds("all", flow)
    BY DEF LossHolds, LossFilters
  <2> QED
    BY <2>2, <2>3, SelectedParts DEF PromSelects
<1> QED
  BY <1>1, QueryInvariant, PTL
=============================================================================
