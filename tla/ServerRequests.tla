--------------------------- MODULE ServerRequests ---------------------------
(***************************************************************************)
(* The requests of the back end that look up values rather than flows:     *)
(* label values and names (pkg/handler/resources.go, loki.go), the status  *)
(* of the data sources (status.go), user-defined networks (k8s.go) and the *)
(* configuration of the page (frontend-config.go).                         *)
(*                                                                         *)
(* A request makes one call after the other; requests are served at the    *)
(* same time.  What the back end knows changes meanwhile: an answer is     *)
(* abstracted to the moment at which it was given.                         *)
(***************************************************************************)
EXTENDS FiniteSets, Naturals, Sequences

CONSTANTS Requests,   \* each is served once
          LabelKinds, \* of the kinds of values: "clusters", "zones", "namespaces"
          MaxMoment   \* bounds how often what is known changes

(* Kinds of values are not those of the other requests.                    *)
ASSUME KindsAssumption ==
  /\ LabelKinds \cap {"names", "udnIds", "status", "config", "none"} = {}
  /\ MaxMoment \in Nat

Ends == {"src", "dst"} \* the two labels of a value, of the source and of the destination
Kinds == LabelKinds \cup {"names", "udnIds", "status", "config"}

(* The labels that are looked up, one after the other.                     *)
Lookups(kind) == IF kind = "clusters" THEN <<"src">> ELSE <<"src", "dst">>

VARIABLES sources, \* which of "prom" and "loki" are enabled, the labels that a metric has, and
                   \* whether the server has read the configuration when it started
          moment,  \* of what is known
          req,     \* the requests
          config,  \* the configuration shared by the requests for it: read, or none
          configErr \* whether the last read of it has failed, as they see it
serverVars == <<sources, moment, req, config, configErr>>

Unused == [kind |-> "none", at |-> "unused", todo |-> <<>>, got |-> {}, since |-> 0, code |-> "none",
           prom |-> "none", loki |-> "none", stores |-> {}]

-----------------------------------------------------------------------------
(* The course of a request.                                                *)

Reply(q, code) == [q EXCEPT !.at = "answered", !.code = code]
Aborted(q) == [q EXCEPT !.at = "aborted"]

(* getNamespacesValues for the status: its Prometheus clients are without  *)
(* Loki, and its Loki clients without Prometheus.                          *)
StatusPart(q) == IF q.prom = "none" THEN "prom" ELSE "loki"
HasProm(q) == "prom" \in sources.enabled /\ (q.kind = "status" => StatusPart(q) = "prom")
HasLoki(q) == "loki" \in sources.enabled /\ (q.kind = "status" => StatusPart(q) = "loki")

(* What the status reports of a part decides what is done next, not what   *)
(* the reply is.                                                           *)
StatusAfter(q, result) ==
  IF StatusPart(q) = "prom"
    THEN IF "loki" \in sources.enabled
           THEN [q EXCEPT !.prom = result, !.at = "ready", !.todo = <<>>]
         ELSE Reply([q EXCEPT !.prom = result, !.loki = "disabled"], "ok")
  ELSE Reply([q EXCEPT !.loki = result], "ok")

Failed(q, code) == IF q.kind = "status" THEN StatusAfter(q, code) ELSE Reply(q, code)

(* Mutant: no lookup tests whether there is a Loki to ask. *)
BeginUntested(q) ==
  IF q.todo = <<>> THEN IF q.kind = "status" THEN StatusAfter(q, "noError") ELSE Reply(q, "ok")
  ELSE IF HasProm(q) /\ Head(q.todo) \in sources.known THEN [q EXCEPT !.at = "prom"]
  ELSE IF HasLoki(q) THEN [q EXCEPT !.at = "loki"] ELSE Aborted(q)

(* The label is looked up in Prometheus when a metric has it, else in      *)
(* Loki.  Names are asked of Loki without a test that there is one.        *)
Begin(q) ==
  IF q.todo = <<>> THEN IF q.kind = "status" THEN StatusAfter(q, "noError") ELSE Reply(q, "ok")
  ELSE IF HasProm(q) /\ Head(q.todo) \in sources.known THEN [q EXCEPT !.at = "prom"]
  ELSE IF HasLoki(q) THEN [q EXCEPT !.at = "loki"]
  ELSE IF q.kind = "names" THEN Aborted(q)
  ELSE Failed(q, "missingLabels")

Found(q) == Begin([q EXCEPT !.got = @ \cup {<<StatusPart(q), Head(q.todo)>>}, !.todo = Tail(@)])

(* A refusal by Prometheus repeats the lookup of a label with Loki, not    *)
(* that of names.                                                          *)
Refused(q) ==
  IF q.kind = "names" THEN Failed(q, "refused")
  ELSE IF HasLoki(q) THEN [q EXCEPT !.at = "loki"]
  ELSE Failed(q, "missingLabels")

(* The client has its reply.                                               *)
Received == [Unused EXCEPT !.at = "received"]

-----------------------------------------------------------------------------
Init ==
  /\ sources \in [enabled : {{"prom"}, {"loki"}, {"prom", "loki"}}, known : SUBSET Ends, started : BOOLEAN]
  /\ "prom" \notin sources.enabled => sources.known = {}
  /\ moment = 0
  /\ req = [r \in Requests |-> Unused]
  /\ config = IF sources.started THEN "read" ELSE "none"
  /\ configErr = ~sources.started

Update(r, q) == req' = [req EXCEPT ![r] = q]

Asked(kind) == [Unused EXCEPT !.kind = kind, !.todo = Lookups(kind), !.since = moment]

(* newClients, then the first lookup; a status without Prometheus begins   *)
(* with Loki.  The clients of Prometheus, or the token for Kubernetes, may *)
(* not be there to be read.                                                *)
FirstSteps(q) ==
  CASE q.kind = "config" -> {[q EXCEPT !.at = "check"]}
    [] q.kind = "udnIds" -> {[q EXCEPT !.at = "list"], Reply(q, "failed")}
    [] q.kind = "status" /\ "prom" \notin sources.enabled ->
         {[q EXCEPT !.prom = "disabled", !.at = "ready", !.todo = <<>>]}
    [] OTHER -> {Begin(q)} \cup {Failed(q, "failed") : x \in sources.enabled \cap {"prom"}}

Serve(r, kind) ==
  /\ req[r].at = "unused"
  /\ \E q \in FirstSteps(Asked(kind)) : Update(r, q)
  /\ UNCHANGED <<sources, moment, config, configErr>>

(* What is known changes.                                                  *)
Change ==
  /\ moment < MaxMoment
  /\ moment' = moment + 1
  /\ UNCHANGED <<sources, req, config, configErr>>

PromAnswers(r) ==
  /\ req[r].at = "prom"
  /\ \E q \in {Found(req[r]), Refused(req[r]), Failed(req[r], "failed")} : Update(r, q)
  /\ UNCHANGED <<sources, moment, config, configErr>>

LokiAnswers(r) ==
  /\ req[r].at = "loki"
  /\ \E q \in {Found(req[r]), Failed(req[r], "failed")} : Update(r, q)
  /\ UNCHANGED <<sources, moment, config, configErr>>

(* The status asks Loki whether it is ready, and then for its namespaces   *)
(* whether it is or not.                                                   *)
ReadyAnswers(r) ==
  /\ req[r].at = "ready"
  /\ \E q \in {Begin([req[r] EXCEPT !.todo = Lookups("status")]), Reply([req[r] EXCEPT !.loki = "failed"], "ok")} :
       Update(r, q)
  /\ UNCHANGED <<sources, moment, config, configErr>>

(* Mutant: the first reply is replaced by a later one. *)
ListedLater(q, code) ==
  LET p == [q EXCEPT !.code = code, !.got = IF code = "none" THEN @ \cup {<<"k8s", Head(q.todo)>>} ELSE @, !.todo = Tail(@)]
  IN  IF p.todo # <<>> THEN p ELSE Reply(p, IF p.code = "none" THEN "ok" ELSE p.code)

(* A list that fails writes its error and the handler goes on; only the    *)
(* first header that is written counts.                                    *)
Listed(q, code) ==
  LET p == [q EXCEPT !.code = IF @ = "none" THEN code ELSE @,
                     !.got = IF code = "none" THEN @ \cup {<<"k8s", Head(q.todo)>>} ELSE @, !.todo = Tail(@)]
  IN  IF p.todo # <<>> THEN p ELSE Reply(p, IF p.code = "none" THEN "ok" ELSE p.code)

ListAnswers(r) ==
  /\ req[r].at = "list"
  /\ \E code \in {"none", "failed"} : Update(r, Listed(req[r], code))
  /\ UNCHANGED <<sources, moment, config, configErr>>

-----------------------------------------------------------------------------
(* The configuration: two variables that the requests share without a lock *)
(* and that one assignment stores in either order.                         *)

(* Mutant: the configuration is read for every request. *)
NeedsReadAlways(err) == TRUE
NeedsRead(err) == err

ConfigCheck(r) ==
  /\ req[r].at = "check"
  /\ Update(r, [req[r] EXCEPT !.at = IF NeedsRead(configErr) THEN "read" ELSE "age"])
  /\ UNCHANGED <<sources, moment, config, configErr>>

ConfigRead(r) ==
  /\ req[r].at = "read"
  /\ \E result \in {"read", "none"} :
       Update(r, [req[r] EXCEPT !.at = "store", !.stores = {<<"config", result>>, <<"err", result>>}])
  /\ UNCHANGED <<sources, moment, config, configErr>>

AfterStore(left) == IF left = {} THEN "recheck" ELSE "store"

ConfigStore(r) ==
  /\ req[r].at = "store"
  /\ \E s \in req[r].stores :
       /\ Update(r, [req[r] EXCEPT !.stores = @ \ {s}, !.at = AfterStore(req[r].stores \ {s})])
       /\ config' = IF s[1] = "config" THEN s[2] ELSE config
       /\ configErr' = IF s[1] = "err" THEN s[2] = "none" ELSE configErr
  /\ UNCHANGED <<sources, moment>>

(* An error is written and the handler goes on.                            *)
ConfigRecheck(r) ==
  /\ req[r].at = "recheck"
  /\ Update(r, [req[r] EXCEPT !.at = "age", !.code = IF configErr THEN "failed" ELSE @])
  /\ UNCHANGED <<sources, moment, config, configErr>>

(* Loki is asked for the age of its chunks: the answer is stored in the    *)
(* configuration, a failure is ignored.                                    *)
ConfigAge(r) ==
  /\ req[r].at = "age"
  /\ \E answered \in {FALSE} \cup {x \in {TRUE} : "loki" \in sources.enabled} :
       Update(r, IF answered /\ config = "none" THEN Aborted(req[r]) ELSE [req[r] EXCEPT !.at = "write"])
  /\ UNCHANGED <<sources, moment, config, configErr>>

ConfigWrite(r) ==
  /\ req[r].at = "write"
  /\ Update(r, IF config = "none" THEN Aborted(req[r])
               ELSE Reply(req[r], IF req[r].code = "none" THEN "ok" ELSE req[r].code))
  /\ UNCHANGED <<sources, moment, config, configErr>>

ConfigStep(r) == \/ ConfigCheck(r) \/ ConfigRead(r) \/ ConfigStore(r)
                 \/ ConfigRecheck(r) \/ ConfigAge(r) \/ ConfigWrite(r)

Step(r) == PromAnswers(r) \/ LokiAnswers(r) \/ ReadyAnswers(r) \/ ListAnswers(r) \/ ConfigStep(r)

-----------------------------------------------------------------------------
(* Properties.                                                             *)

TypeOK ==
  /\ sources.enabled \in SUBSET {"prom", "loki"} /\ sources.known \in SUBSET Ends
  /\ moment \in 0..MaxMoment
  /\ config \in {"read", "none"} /\ configErr \in BOOLEAN
  /\ \A r \in Requests :
       /\ req[r].kind \in Kinds \cup {"none"}
       /\ req[r].at \in {"unused", "prom", "loki", "ready", "list", "check", "read", "store", "recheck", "age",
                         "write", "answered", "aborted", "received"}
       /\ req[r].code \in {"none", "ok", "failed", "refused", "missingLabels"}
       /\ req[r].since \in 0..moment
       /\ req[r].at = "store" <=> req[r].stores # {}

LookedUp(q, via) == {end \in Ends : <<via, end>> \in q.got}

All(kind) == {Lookups(kind)[i] : i \in DOMAIN Lookups(kind)}

(* A successful reply holds what every lookup found, and a status reports  *)
(* no error of a source only with the namespaces of both ends from it: a   *)
(* lookup that failed is never left out, wherever it failed.               *)
AnswersAreComplete ==
  \A r \in Requests : req[r].at = "answered" =>
    /\ req[r].code = "ok" /\ req[r].kind \in LabelKinds \cup {"names"} => LookedUp(req[r], "prom") = All(req[r].kind)
    /\ req[r].code = "ok" /\ req[r].kind = "udnIds" => LookedUp(req[r], "k8s") = All("udnIds")
    /\ req[r].kind = "status" => \A part \in {"prom", "loki"} :
         req[r][part] = "noError" => LookedUp(req[r], part) = All("status")

(* A label that Prometheus refuses to look up is not an error as long as   *)
(* Loki has an answer, in all the requests but that for names and that for *)
(* the status, which reports of each source.                               *)
RefusalIsNotAnError ==
  \A r \in Requests : req[r].kind \in LabelKinds /\ "loki" \in sources.enabled =>
    req[r].code \notin {"refused", "missingLabels"}

(* Requests are well-formed, and their replies say what was found.         *)
AnswersInv == TypeOK /\ AnswersAreComplete /\ RefusalIsNotAnError

(* A configuration that was read when the server started is served to every *)
(* request, whatever becomes of the file and whatever Loki answers.        *)
ConfigIsServed ==
  sources.started => \A r \in Requests : req[r].kind = "config" =>
    req[r].at # "aborted" /\ (req[r].at = "answered" => req[r].code = "ok")

(* Every request is answered, but two that stop in the middle: names that  *)
(* no metric has when there is no Loki to ask, and a configuration that    *)
(* could not be read.                                                      *)
Stopped(q) ==
  /\ q.at = "aborted"
  /\ \/ q.kind = "names" /\ "loki" \notin sources.enabled /\ sources.known # Ends
     \/ q.kind = "config" /\ ~sources.started
EveryRequestIsAnswered ==
  \A r \in Requests : (req[r].at # "unused") ~> (req[r].at \in {"answered", "received"} \/ Stopped(req[r]))
=============================================================================
