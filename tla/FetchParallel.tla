---------------------------- MODULE FetchParallel ----------------------------
(***************************************************************************)
(* clients.fetchParallel (pkg/handler/clients.go): one goroutine per query *)
(* sends its answer to one of two buffered channels and calls wg.Done; the *)
(* caller waits for all of them, returns the first error of the error      *)
(* channel if there is one and otherwise merges the results.               *)
(*                                                                         *)
(* A query is a record with a field "backend".  The upstream services are  *)
(* external: they answer each query with a result of the expected type     *)
(* (a matrix or streams), with a result of another type, or with an error. *)
(***************************************************************************)
EXTENDS Naturals, Sequences

CONSTANT FailureCodes     \* [backend -> the HTTP codes its client reports]

ASSUME FailureCodesAssumption ==
  FailureCodes \in [{"loki", "prom"} -> SUBSET (400..599)]

VARIABLES running,   \* queries whose goroutine has not called wg.Done
          resChan,   \* results, each the query it answers and whether it is mergeable
          errChan    \* errors, in the order they were sent

fetchVars == <<running, resChan, errChan>>

Unauthorized == {401, 403}
Error == [from : {"loki", "prom", "request"}, code : 400..599]

FetchInit == running = {} /\ resChan = {} /\ errChan = <<>>

(* Queries of a backend that has no client are dropped, not refused. *)
Executable(queries, cfg) ==
  {q \in queries : IF q.backend = "loki" THEN cfg.loki ELSE cfg.prom}

Start(queries) == running' = queries /\ resChan' = {} /\ errChan' = <<>>

(* A result arrives.  QueryMatrix only lets a matrix through, a Loki       *)
(* answer is unmarshalled to whatever type it announces.                   *)
AnswerResult(q) ==
  /\ q \in running
  /\ running' = running \ {q}
  /\ \E mergeable \in {TRUE} \cup {q.backend = "prom"} :
       resChan' = resChan \cup {[query |-> q, mergeable |-> mergeable]}
  /\ UNCHANGED errChan

AnswerError(q) ==
  /\ q \in running
  /\ running' = running \ {q}
  /\ \E code \in FailureCodes[q.backend] :
       errChan' = Append(errChan, [from |-> q.backend, code |-> code])
  /\ UNCHANGED resChan

(* wg.Wait has returned. *)
AnyDone == resChan # {} \/ errChan # <<>>                        \* mutant
AllDone == running = {}

(* Merging stops at the first result of another type than the merger's. *)
MergeFails == \E r \in resChan : ~r.mergeable
MergeError == [from |-> "loki", code |-> 500]
Results == {r.query : r \in resChan}
=============================================================================
