------------------------- MODULE Autocomplete_proofs -------------------------
(***************************************************************************)
(* Theorems about ServerRequests and Autocomplete: for any set of requests *)
(* served at the same time, any kinds of values and any keys, no reply and *)
(* no entry of the cache leaves out a lookup that failed.                  *)
(*                                                                         *)
(* The argument is about one request: what it has found and what it still  *)
(* has to look up make up all that it was asked for, of the data source    *)
(* that it is at.  Requests meet in the configuration only.                *)
(***************************************************************************)
EXTENDS Autocomplete, TLAPS

-----------------------------------------------------------------------------
(* The inductive invariant.                                                *)

Todos == {<<>>, <<"src">>, <<"dst">>, <<"src", "dst">>}
Rest(todo) == {todo[i] : i \in DOMAIN todo}
Codes == {"none", "ok", "failed", "refused", "missingLabels"}
Results == Codes \cup {"noError", "disabled"}
Stores == {"config", "err"} \X {"read", "none"}
ConfigPlaces == {"check", "read", "store", "recheck", "age", "write"}
Places == {"unused", "prom", "loki", "ready", "list", "answered", "aborted", "received"} \cup ConfigPlaces

Request == [kind : Kinds \cup {"none"}, at : Places, todo : Todos, got : SUBSET ({"prom", "loki", "k8s"} \X Ends),
            since : Nat, code : Codes, prom : Results, loki : Results, stores : SUBSET Stores]

(* What is found of a source and what is left make up all of it.           *)
Accounted(q, via) == LookedUp(q, via) \cup Rest(q.todo) = All(q.kind)

NoneInv(q) == q.kind = "none" /\ q.at \in {"unused", "received"} /\ q.stores = {} /\ q.code = "none"

ValueInv(q) ==
  /\ q.kind \in LabelKinds \cup {"names"}
  /\ q.at \in {"prom", "loki", "answered", "aborted"}
  /\ q.prom = "none" /\ q.loki = "none" /\ q.stores = {}
  /\ Accounted(q, "prom")
  /\ q.at \in {"prom", "loki"} => q.todo # <<>> /\ q.code = "none"
  /\ q.code = "ok" => q.todo = <<>>
  /\ q.kind \in LabelKinds /\ "loki" \in sources.enabled => q.code \notin {"refused", "missingLabels"}

StatusInv(q) ==
  /\ q.kind = "status"
  /\ q.at \in {"prom", "loki", "ready", "answered"}
  /\ q.stores = {}
  /\ q.at = "prom" => q.prom = "none"
  /\ q.at \in {"loki", "ready"} => q.prom # "none"
  /\ q.at \in {"prom", "loki"} => q.todo # <<>> /\ Accounted(q, StatusPart(q))
  /\ q.at # "answered" => q.loki = "none"
  /\ q.at \in {"prom", "ready"} => LookedUp(q, "loki") = {}
  /\ \A part \in {"prom", "loki"} : q[part] = "noError" => LookedUp(q, part) = All("status")

UdnInv(q) ==
  /\ q.kind = "udnIds"
  /\ q.at \in {"list", "answered"}
  /\ q.stores = {}
  /\ q.at = "list" => q.todo # <<>> /\ q.code \in {"none", "failed"}
  /\ q.code = "none" => Accounted(q, "k8s")
  /\ q.code = "ok" => LookedUp(q, "k8s") = All("udnIds")

ConfigInv(q) ==
  /\ q.kind = "config"
  /\ q.at \in ConfigPlaces \cup {"answered", "aborted"}
  /\ q.at = "store" <=> q.stores # {}
  /\ sources.started => /\ q.at \in {"check", "age", "write", "answered"}
                        /\ q.code = IF q.at = "answered" THEN "ok" ELSE "none"

RequestInv(q) ==
  /\ q \in Request /\ q.since <= moment
  /\ NoneInv(q) \/ ValueInv(q) \/ StatusInv(q) \/ UdnInv(q) \/ ConfigInv(q)

SharedInv ==
  /\ sources.enabled \in SUBSET {"prom", "loki"} /\ sources.known \in SUBSET Ends
  /\ moment \in 0..MaxMoment
  /\ config \in {"read", "none"} /\ configErr \in BOOLEAN
  /\ sources.started => config = "read" /\ ~configErr

(* A request is of the key that it was asked for, and no older than a      *)
(* clear unless it was under way then.                                     *)
Timely(key, since) == key \in Cleared => since >= clearedAt \/ key \in late

PageInv ==
  /\ keyOf \in [Requests -> Keys \cup {"none"}]
  /\ cache \in [Keys -> [got : SUBSET Ends, since : Nat, held : BOOLEAN]]
  /\ clearedAt \in Nat /\ clearedAt <= moment
  /\ \A r \in Requests : keyOf[r] # "none" =>
       req[r].kind = KindOf(keyOf[r]) /\ Timely(keyOf[r], req[r].since)
  /\ \A k \in Keys : cache[k].held => cache[k].got = All(KindOf(k)) /\ Timely(k, cache[k].since)

IInv ==
  /\ SharedInv
  /\ req \in [Requests -> Request]
  /\ \A r \in Requests : RequestInv(req[r])
  /\ PageInv

-----------------------------------------------------------------------------
(* Facts about lookups.                                                    *)

LEMMA TodoFacts ==
  ASSUME NEW todo \in Todos, todo # <<>>
  PROVE  /\ Head(todo) \in Ends
         /\ Tail(todo) \in Todos
         /\ Rest(todo) = {Head(todo)} \cup Rest(Tail(todo))
<1>1. CASE todo = <<"src">>
  BY <1>1 DEF Todos, Rest, Ends
<1>2. CASE todo = <<"dst">>
  BY <1>2 DEF Todos, Rest, Ends
<1>3. CASE todo = <<"src", "dst">>
  <2>1. Head(todo) = "src" /\ Tail(todo) = <<"dst">>
    BY <1>3
  <2>2. Rest(todo) = {"src", "dst"}
    BY <1>3 DEF Rest
  <2>3. Rest(<<"dst">>) = {"dst"}
    BY DEF Rest
  <2> QED
    BY <2>1, <2>2, <2>3 DEF Todos, Ends
<1> QED
  BY <1>1, <1>2, <1>3 DEF Todos

LEMMA NothingLeft == Rest(<<>>) = {} /\ <<>> \in Todos
BY DEF Rest, Todos

LEMMA LookupsFacts ==
  ASSUME NEW kind
  PROVE  /\ Lookups(kind) \in Todos /\ Lookups(kind) # <<>>
         /\ All(kind) = Rest(Lookups(kind))
         /\ All(kind) \subseteq Ends
         /\ kind # "clusters" => All(kind) = Ends
<1>1. Lookups(kind) \in Todos /\ Lookups(kind) # <<>>
  BY DEF Lookups, Todos
<1>2. All(kind) = Rest(Lookups(kind))
  BY DEF All, Rest
<1>3. Rest(<<"src">>) = {"src"} /\ Rest(<<"src", "dst">>) = {"src", "dst"}
  BY DEF Rest
<1> QED
  BY <1>1, <1>2, <1>3 DEF Lookups, Ends

Same(p, q) == p.kind = q.kind /\ p.since = q.since

-----------------------------------------------------------------------------
(* The course of a request.                                                *)

(* What is reported of a part of the status, as long as nothing is         *)
(* reported as found that was not.                                         *)
StatusBefore(q) ==
  /\ q \in Request /\ q.kind = "status" /\ q.stores = {} /\ q.loki = "none"
  /\ q.prom = "none" => LookedUp(q, "loki") = {}
  /\ q.prom = "noError" => LookedUp(q, "prom") = All("status")

LEMMA StatusAfterKeeps ==
  ASSUME NEW q, StatusBefore(q), NEW result \in Results \ {"none"},
         result = "noError" => LookedUp(q, StatusPart(q)) = All("status")
  PROVE  /\ StatusAfter(q, result) \in Request
         /\ StatusInv(StatusAfter(q, result))
         /\ Same(StatusAfter(q, result), q)
<1> DEFINE p == StatusAfter(q, result)
<1>1. p.got = q.got /\ p \in Request /\ Same(p, q) /\ p.stores = {}
  <2>0. q \in Request /\ q.stores = {} /\ result \in Results /\ "noError" \in Results /\ "disabled" \in Results
        /\ "ok" \in Codes /\ "ready" \in Places /\ "answered" \in Places /\ <<>> \in Todos
    BY NothingLeft DEF StatusBefore, Results, Codes, Places
  <2>1. CASE p = [q EXCEPT !.prom = result, !.at = "ready", !.todo = <<>>]
    BY <2>0, <2>1 DEF Request, Same
  <2>2. CASE p = Reply([q EXCEPT !.prom = result, !.loki = "disabled"], "ok")
    BY <2>0, <2>2 DEF Request, Same, Reply
  <2>3. CASE p = Reply([q EXCEPT !.loki = result], "ok")
    BY <2>0, <2>3 DEF Request, Same, Reply
  <2> QED
    BY <2>1, <2>2, <2>3 DEF StatusAfter
<1>2. LookedUp(p, "prom") = LookedUp(q, "prom") /\ LookedUp(p, "loki") = LookedUp(q, "loki")
  BY <1>1 DEF LookedUp
<1>3. CASE q.prom = "none"
  BY <1>1, <1>2, <1>3 DEF StatusBefore, StatusAfter, Reply, Request, StatusInv, StatusPart, Results, Codes
<1>4. CASE q.prom # "none"
  BY <1>1, <1>2, <1>4 DEF StatusBefore, StatusAfter, Reply, Request, StatusInv, StatusPart, Results, Codes
<1> QED
  BY <1>1, <1>3, <1>4

(* A value that has nothing to report yet.                                 *)
ValueBefore(q) ==
  /\ q \in Request /\ q.kind \in LabelKinds \cup {"names"}
  /\ q.code = "none" /\ q.prom = "none" /\ q.loki = "none" /\ q.stores = {}
  /\ Accounted(q, "prom")

LEMMA ReplyKeeps ==
  ASSUME NEW q, ValueBefore(q), NEW code \in Codes, code = "ok" => q.todo = <<>>,
         q.kind \in LabelKinds /\ "loki" \in sources.enabled => code \notin {"refused", "missingLabels"}
  PROVE  Reply(q, code) \in Request /\ ValueInv(Reply(q, code)) /\ Same(Reply(q, code), q)
BY DEF ValueBefore, Reply, ValueInv, Request, Same, Accounted, LookedUp, Codes, Places

(* The step of a value to a data source, or away from it.                  *)
LEMMA AtKeeps ==
  ASSUME NEW q, ValueBefore(q), NEW at \in {"prom", "loki", "aborted"}, q.todo # <<>>
  PROVE  /\ [q EXCEPT !.at = at] \in Request
         /\ ValueInv([q EXCEPT !.at = at])
         /\ Same([q EXCEPT !.at = at], q)
BY DEF ValueBefore, ValueInv, Request, Same, Accounted, LookedUp, Codes, Places

LEMMA NotStatus == \A kind \in LabelKinds \cup {"names"} : kind \notin {"status", "udnIds", "config", "none"}
BY KindsAssumption

LEMMA BeginValue ==
  ASSUME NEW q, ValueBefore(q)
  PROVE  Begin(q) \in Request /\ ValueInv(Begin(q)) /\ Same(Begin(q), q)
<1> USE NotStatus
<1>0. q.kind \in LabelKinds \cup {"names"} /\ q.kind # "status"
  BY DEF ValueBefore
<1>1. CASE q.todo = <<>>
  BY <1>0, <1>1, ReplyKeeps DEF Begin, Codes
<1>2. CASE q.todo # <<>>
  <2>1. CASE Begin(q) \in {[q EXCEPT !.at = "prom"], [q EXCEPT !.at = "loki"], [q EXCEPT !.at = "aborted"]}
    BY <1>2, <2>1, AtKeeps, ZenonT(60)
  <2>2. CASE Begin(q) = Reply(q, "missingLabels") /\ "loki" \notin sources.enabled
    BY <1>2, <2>2, ReplyKeeps DEF Codes
  <2> QED
    BY <1>0, <1>2, <2>1, <2>2 DEF Begin, HasLoki, Failed, Aborted
<1> QED
  BY <1>1, <1>2

LEMMA BeginStatus ==
  ASSUME NEW q, StatusBefore(q), Accounted(q, StatusPart(q))
  PROVE  Begin(q) \in Request /\ StatusInv(Begin(q)) /\ Same(Begin(q), q)
<1>1. CASE q.todo = <<>>
  BY <1>1, StatusAfterKeeps, NothingLeft DEF Begin, StatusBefore, Accounted, Results
<1>2. CASE q.todo # <<>>
  <2>1. CASE HasProm(q) /\ Begin(q) = [q EXCEPT !.at = "prom"]
    BY <1>2, <2>1 DEF HasProm, StatusBefore, StatusInv, StatusPart, Request, Same, Accounted, LookedUp, Places
  <2>2. CASE HasLoki(q) /\ Begin(q) = [q EXCEPT !.at = "loki"]
    BY <1>2, <2>2 DEF HasLoki, StatusBefore, StatusInv, StatusPart, Request, Same, Accounted, LookedUp, Places
  <2>3. CASE Begin(q) = StatusAfter(q, "missingLabels")
    BY <2>3, StatusAfterKeeps DEF Results, Codes
  <2> QED
    BY <1>2, <2>1, <2>2, <2>3 DEF Begin, Failed, StatusBefore
<1> QED
  BY <1>1, <1>2

(* What a lookup finds is accounted for.                                   *)
With(q, via, end, rest) == [q EXCEPT !.got = @ \cup {<<via, end>>}, !.todo = rest]

LEMMA WithFacts ==
  ASSUME NEW q \in Request, NEW via \in {"prom", "loki", "k8s"}, NEW end \in Ends, NEW rest \in Todos
  PROVE  /\ With(q, via, end, rest) \in Request
         /\ Same(With(q, via, end, rest), q)
         /\ With(q, via, end, rest).got = q.got \cup {<<via, end>>}
         /\ With(q, via, end, rest).todo = rest
<1>1. <<via, end>> \in {"prom", "loki", "k8s"} \X Ends
  OBVIOUS
<1>2. q.got \cup {<<via, end>>} \in SUBSET ({"prom", "loki", "k8s"} \X Ends)
  BY <1>1 DEF Request
<1> QED
  BY <1>2 DEF Request, Same, With

LEMMA FoundAccounted ==
  ASSUME NEW q \in Request, q.todo # <<>>, NEW via \in {"prom", "loki", "k8s"}, NEW p,
         p.got = q.got \cup {<<via, Head(q.todo)>>}, p.todo = Tail(q.todo), p.kind = q.kind,
         Accounted(q, via)
  PROVE  Accounted(p, via) /\ \A other : other # via => LookedUp(p, other) = LookedUp(q, other)
<1>1. q.todo \in Todos
  BY DEF Request
<1>2. Head(q.todo) \in Ends /\ Rest(q.todo) = {Head(q.todo)} \cup Rest(p.todo)
  BY <1>1, TodoFacts
<1>3. LookedUp(p, via) = LookedUp(q, via) \cup {Head(q.todo)}
      /\ \A other : other # via => LookedUp(p, other) = LookedUp(q, other)
  <2> DEFINE end == Head(q.todo)
  <2>1. end \in Ends /\ p.got = q.got \cup {<<via, end>>}
    BY <1>2
  <2> HIDE DEF end
  <2>2. LookedUp(p, via) = LookedUp(q, via) \cup {end}
        /\ \A other : other # via => LookedUp(p, other) = LookedUp(q, other)
    BY <2>1 DEF LookedUp
  <2> QED
    BY <2>2 DEF end
<1> QED
  BY <1>2, <1>3 DEF Accounted

LEMMA ValueFound ==
  ASSUME NEW q \in Request, ValueInv(q), q.at \in {"prom", "loki"}
  PROVE  Found(q) \in Request /\ ValueInv(Found(q)) /\ Same(Found(q), q)
<1> DEFINE p == [q EXCEPT !.got = @ \cup {<<StatusPart(q), Head(q.todo)>>}, !.todo = Tail(@)]
<1>1. StatusPart(q) = "prom" /\ q.todo # <<>> /\ Accounted(q, "prom")
  BY DEF ValueInv, StatusPart
<1>2. Head(q.todo) \in Ends /\ Tail(q.todo) \in Todos
  BY <1>1, TodoFacts DEF Request
<1>3. p \in Request /\ Same(p, q) /\ p.got = q.got \cup {<<"prom", Head(q.todo)>>} /\ p.todo = Tail(q.todo)
  <2>1. p = With(q, "prom", Head(q.todo), Tail(q.todo))
    BY <1>1 DEF With
  <2> HIDE DEF p
  <2> QED
    BY <1>2, <2>1, WithFacts
<1>4. Accounted(p, "prom")
  BY <1>1, <1>3, FoundAccounted DEF Same
<1>5. ValueBefore(p)
  BY <1>3, <1>4 DEF ValueBefore, ValueInv, Same, Request
<1>6. Found(q) = Begin(p)
  BY DEF Found
<1> QED
  BY <1>3, <1>5, <1>6, BeginValue DEF Same

LEMMA StatusFound ==
  ASSUME NEW q \in Request, StatusInv(q), q.at \in {"prom", "loki"}
  PROVE  Found(q) \in Request /\ StatusInv(Found(q)) /\ Same(Found(q), q)
<1> DEFINE part == StatusPart(q)
           p == [q EXCEPT !.got = @ \cup {<<StatusPart(q), Head(q.todo)>>}, !.todo = Tail(@)]
<1>1. part \in {"prom", "loki"} /\ q.todo # <<>> /\ Accounted(q, part)
  BY DEF StatusInv, StatusPart
<1>2. Head(q.todo) \in Ends /\ Tail(q.todo) \in Todos
  BY <1>1, TodoFacts DEF Request
<1>3. p \in Request /\ Same(p, q) /\ p.got = q.got \cup {<<part, Head(q.todo)>>} /\ p.todo = Tail(q.todo)
  <2>1. p = With(q, part, Head(q.todo), Tail(q.todo))
    BY DEF With
  <2> HIDE DEF p, part
  <2> QED
    BY <1>1, <1>2, <2>1, WithFacts
<1>4. Accounted(p, part) /\ \A other : other # part => LookedUp(p, other) = LookedUp(q, other)
  <2> HIDE DEF part, p
  <2> QED
    BY <1>1, <1>3, FoundAccounted DEF Same
<1>5. StatusPart(p) = part /\ p.prom = q.prom /\ p.loki = q.loki /\ p.stores = q.stores
  BY DEF StatusPart, Request
<1>6. StatusBefore(p)
  <2>1. p.prom = "none" => LookedUp(p, "loki") = {}
    BY <1>4, <1>5 DEF StatusInv, StatusPart
  <2>2. p.prom = "noError" => LookedUp(p, "prom") = All("status")
    BY <1>4, <1>5 DEF StatusInv, StatusPart
  <2> QED
    BY <1>3, <1>5, <2>1, <2>2 DEF StatusBefore, StatusInv, Same
<1>7. Found(q) = Begin(p)
  BY DEF Found
<1> QED
  BY <1>3, <1>4, <1>5, <1>6, <1>7, BeginStatus DEF Same

(* A lookup that does not find anything, in either source.                 *)
LEMMA ValueFails ==
  ASSUME NEW q \in Request, ValueInv(q), q.at \in {"prom", "loki"}
  PROVE  /\ \A p \in {Failed(q, "failed"), Refused(q)} : p \in Request /\ ValueInv(p) /\ Same(p, q)
<1> USE NotStatus
<1>1. ValueBefore(q) /\ q.kind # "status" /\ q.todo # <<>>
  BY DEF ValueInv, ValueBefore
<1>2. Failed(q, "failed") = Reply(q, "failed")
  BY <1>1 DEF Failed
<1>3. Reply(q, "failed") \in Request /\ ValueInv(Reply(q, "failed")) /\ Same(Reply(q, "failed"), q)
  BY <1>1, ReplyKeeps DEF Codes
<1>4. CASE q.kind = "names"
  <2>1. Refused(q) = Reply(q, "refused") /\ q.kind \notin LabelKinds
    BY <1>4, KindsAssumption DEF Refused, Failed
  <2> QED
    BY <1>1, <1>2, <1>3, <2>1, ReplyKeeps DEF Codes
<1>5. CASE q.kind # "names" /\ HasLoki(q)
  BY <1>1, <1>2, <1>3, <1>5, AtKeeps DEF Refused
<1>6. CASE q.kind # "names" /\ ~HasLoki(q)
  <2>1. "loki" \notin sources.enabled /\ Refused(q) = Reply(q, "missingLabels")
    BY <1>1, <1>6 DEF HasLoki, Refused, Failed
  <2> QED
    BY <1>1, <1>2, <1>3, <2>1, ReplyKeeps DEF Codes
<1> QED
  BY <1>4, <1>5, <1>6

LEMMA StatusFails ==
  ASSUME NEW q \in Request, StatusInv(q), q.at \in {"prom", "loki"}
  PROVE  /\ Failed(q, "failed") \in Request /\ StatusInv(Failed(q, "failed")) /\ Same(Failed(q, "failed"), q)
         /\ q.at = "prom" => Refused(q) \in Request /\ StatusInv(Refused(q)) /\ Same(Refused(q), q)
<1>1. StatusBefore(q)
  BY DEF StatusInv, StatusBefore
<1>2. Failed(q, "failed") = StatusAfter(q, "failed")
  BY <1>1 DEF Failed, StatusBefore
<1>3. q.at = "prom" => Refused(q) = StatusAfter(q, "missingLabels")
  BY <1>1 DEF Refused, Failed, HasLoki, StatusBefore, StatusInv, StatusPart
<1> QED
  BY <1>1, <1>2, <1>3, StatusAfterKeeps DEF Results, Codes

-----------------------------------------------------------------------------
(* One step of one request, as long as it leaves RequestInv and the kind   *)
(* and the moment of the request.                                          *)
Fine(p, q) == RequestInv(p) /\ Same(p, q)

LEMMA ByKind ==
  ASSUME NEW q, RequestInv(q)
  PROVE  /\ q.at \in {"prom", "loki"} => ValueInv(q) \/ StatusInv(q)
         /\ q.at = "ready" => StatusInv(q)
         /\ q.at = "list" => UdnInv(q)
         /\ q.at \in ConfigPlaces => ConfigInv(q)
         /\ q.at = "unused" => NoneInv(q)
BY DEF RequestInv, NoneInv, ValueInv, StatusInv, UdnInv, ConfigInv, ConfigPlaces

LEMMA CallKeeps ==
  ASSUME NEW q, RequestInv(q), q.at \in {"prom", "loki"}
  PROVE  /\ Fine(Found(q), q) /\ Fine(Failed(q, "failed"), q)
         /\ q.at = "prom" => Fine(Refused(q), q)
<1>1. CASE ValueInv(q)
  BY <1>1, ValueFound, ValueFails DEF Fine, RequestInv, Same
<1>2. CASE StatusInv(q)
  BY <1>2, StatusFound, StatusFails DEF Fine, RequestInv, Same
<1> QED
  BY <1>1, <1>2, ByKind

LEMMA ReadyKeeps ==
  ASSUME NEW q, RequestInv(q), q.at = "ready"
  PROVE  /\ Fine(Begin([q EXCEPT !.todo = Lookups("status")]), q)
         /\ Fine(Reply([q EXCEPT !.loki = "failed"], "ok"), q)
<1> DEFINE p == [q EXCEPT !.todo = Lookups("status")]
<1>1. q \in Request /\ StatusInv(q)
  BY ByKind DEF RequestInv
<1>2. p \in Request /\ Same(p, q) /\ p.todo = Lookups("status") /\ p.got = q.got
      /\ p.prom = q.prom /\ p.loki = q.loki /\ p.stores = q.stores
  BY <1>1, LookupsFacts DEF Request, Same
<1>3. StatusPart(p) = "loki"
  BY <1>1, <1>2 DEF StatusInv, StatusPart
<1>4. LookedUp(p, "loki") = LookedUp(q, "loki") /\ LookedUp(p, "prom") = LookedUp(q, "prom")
  BY <1>2 DEF LookedUp
<1>5. StatusBefore(p)
  BY <1>1, <1>2, <1>4 DEF StatusBefore, StatusInv, Same
<1>6. Accounted(p, "loki")
  <2>1. LookedUp(p, "loki") = {}
    BY <1>1, <1>4 DEF StatusInv
  <2>2. Rest(Lookups("status")) = All("status")
    BY LookupsFacts
  <2>3. p.kind = "status"
    BY <1>1, <1>2 DEF Same, StatusInv
  <2> QED
    BY <1>2, <2>1, <2>2, <2>3 DEF Accounted
<1>7. Fine(Begin(p), q)
  BY <1>1, <1>2, <1>3, <1>5, <1>6, BeginStatus DEF Fine, RequestInv, Same
<1>8. Fine(Reply([q EXCEPT !.loki = "failed"], "ok"), q)
  <2>1. StatusBefore(q) /\ StatusPart(q) = "loki"
    BY <1>1 DEF StatusBefore, StatusInv, StatusPart
  <2>2. Reply([q EXCEPT !.loki = "failed"], "ok") = StatusAfter(q, "failed")
    BY <2>1 DEF StatusAfter
  <2> QED
    BY <1>1, <2>1, <2>2, StatusAfterKeeps DEF Fine, RequestInv, Same, Results, Codes
<1> QED
  BY <1>7, <1>8

LEMMA ListedKeeps ==
  ASSUME NEW q, RequestInv(q), q.at = "list", NEW code \in {"none", "failed"}
  PROVE  Fine(Listed(q, code), q)
<1> DEFINE p == [q EXCEPT !.code = IF @ = "none" THEN code ELSE @,
                          !.got = IF code = "none" THEN @ \cup {<<"k8s", Head(q.todo)>>} ELSE @, !.todo = Tail(@)]
<1>1. q \in Request /\ UdnInv(q) /\ q.todo # <<>> /\ q.code \in {"none", "failed"}
  BY ByKind DEF RequestInv, UdnInv
<1>2. Head(q.todo) \in Ends /\ Tail(q.todo) \in Todos
  BY <1>1, TodoFacts DEF Request
<1>3. <<"k8s", Head(q.todo)>> \in {"prom", "loki", "k8s"} \X Ends
  BY <1>2
<1>4. (IF code = "none" THEN q.got \cup {<<"k8s", Head(q.todo)>>} ELSE q.got) \in SUBSET ({"prom", "loki", "k8s"} \X Ends)
  BY <1>1, <1>3 DEF Request
<1>5. /\ p \in Request /\ Same(p, q) /\ p.at = "list" /\ p.stores = {} /\ p.todo = Tail(q.todo)
      /\ p.code \in {"none", "failed"}
      /\ p.code = "none" => q.code = "none" /\ p.got = q.got \cup {<<"k8s", Head(q.todo)>>}
  BY <1>1, <1>2, <1>4 DEF Request, Same, UdnInv, Codes
<1>6. p.code = "none" => Accounted(p, "k8s")
  <2> SUFFICES ASSUME p.code = "none" PROVE Accounted(p, "k8s")
    OBVIOUS
  <2>1. Accounted(q, "k8s")
    BY <1>1, <1>5 DEF UdnInv
  <2> HIDE DEF p
  <2> QED
    BY <1>1, <1>5, <2>1, FoundAccounted DEF Same
<1>7. Listed(q, code) = IF p.todo # <<>> THEN p ELSE Reply(p, IF p.code = "none" THEN "ok" ELSE p.code)
  BY DEF Listed
<1> HIDE DEF p
<1>8. CASE p.todo # <<>>
  BY <1>1, <1>5, <1>6, <1>7, <1>8 DEF Fine, RequestInv, Same, UdnInv
<1>9. CASE p.todo = <<>>
  <2> DEFINE w == Reply(p, IF p.code = "none" THEN "ok" ELSE p.code)
  <2>1. /\ w \in Request /\ Same(w, p) /\ w.at = "answered" /\ w.stores = {} /\ w.got = p.got /\ w.todo = p.todo
        /\ w.code \in {"ok", "failed"} /\ (w.code = "ok" => p.code = "none")
    BY <1>5 DEF Reply, Request, Same, Codes, Places
  <2>2. w.code = "ok" => LookedUp(w, "k8s") = All("udnIds")
    <3>1. p.code = "none" => LookedUp(p, "k8s") = All(p.kind)
      BY <1>6, <1>9, NothingLeft DEF Accounted
    <3>2. p.kind = "udnIds" /\ LookedUp(w, "k8s") = LookedUp(p, "k8s")
      BY <1>1, <1>5, <2>1 DEF Same, UdnInv, LookedUp
    <3> QED
      BY <2>1, <3>1, <3>2
  <2> HIDE DEF w
  <2>3. UdnInv(w)
    BY <1>1, <1>5, <2>1, <2>2 DEF UdnInv, Same
  <2>4. Listed(q, code) = w
    BY <1>7, <1>9 DEF w
  <2> QED
    BY <1>1, <1>5, <2>1, <2>3, <2>4 DEF Fine, RequestInv, Same
<1> QED
  BY <1>8, <1>9

LEMMA AskedFacts ==
  ASSUME SharedInv, NEW kind \in Kinds
  PROVE  /\ Asked(kind) \in Request /\ Asked(kind).kind = kind /\ Asked(kind).since = moment
         /\ Asked(kind).todo = Lookups(kind) /\ Asked(kind).code = "none"
         /\ Asked(kind).prom = "none" /\ Asked(kind).loki = "none" /\ Asked(kind).stores = {}
         /\ \A via : LookedUp(Asked(kind), via) = {} /\ Accounted(Asked(kind), via)
<1>1. /\ Asked(kind).kind = kind /\ Asked(kind).since = moment
      /\ Asked(kind).todo = Lookups(kind) /\ Asked(kind).code = "none"
      /\ Asked(kind).prom = "none" /\ Asked(kind).loki = "none" /\ Asked(kind).stores = {}
      /\ Asked(kind).got = {}
  BY DEF Asked, Unused
<1>2. moment \in Nat
  BY KindsAssumption DEF SharedInv
<1>3. Asked(kind) \in Request
  BY <1>2, LookupsFacts DEF Asked, Unused, Request, Places, Codes, Results
<1>4. \A via : LookedUp(Asked(kind), via) = {}
  BY <1>1 DEF LookedUp
<1>5. \A via : Accounted(Asked(kind), via)
  BY <1>1, <1>4, LookupsFacts DEF Accounted
<1> QED
  BY <1>1, <1>3, <1>4, <1>5

(* The first step of a request of any kind.                                *)
LEMMA FirstKeeps ==
  ASSUME SharedInv, NEW kind \in Kinds, NEW p \in FirstSteps(Asked(kind))
  PROVE  RequestInv(p) /\ p.kind = kind /\ p.since = moment
<1> DEFINE q == Asked(kind)
<1>0. /\ q \in Request /\ q.kind = kind /\ q.since = moment /\ q.todo = Lookups(kind) /\ q.code = "none"
      /\ q.prom = "none" /\ q.loki = "none" /\ q.stores = {}
      /\ \A via : LookedUp(q, via) = {} /\ Accounted(q, via)
      /\ moment \in Nat /\ Lookups(kind) # <<>>
  BY AskedFacts, LookupsFacts, KindsAssumption DEF SharedInv
<1> HIDE DEF q
<1> SUFFICES Fine(p, q)
  BY <1>0 DEF Fine, Same
<1>1. CASE kind = "config"
  <2>1. p = [q EXCEPT !.at = "check"]
    BY <1>0, <1>1 DEF FirstSteps, q
  <2> QED
    BY <1>0, <1>1, <2>1 DEF Fine, RequestInv, ConfigInv, Same, Request, Places, ConfigPlaces
<1>2. CASE kind = "udnIds"
  <2>1. CASE p = [q EXCEPT !.at = "list"]
    <3>1. p \in Request /\ Same(p, q) /\ p.at = "list" /\ p.todo = q.todo /\ p.code = "none" /\ p.stores = {} /\ p.got = q.got
      BY <1>0, <2>1 DEF Request, Same, Places
    <3>2. Accounted(p, "k8s")
      BY <1>0, <3>1 DEF Accounted, LookedUp, Same
    <3> QED
      BY <1>0, <1>2, <3>1, <3>2 DEF Fine, RequestInv, UdnInv, Same
  <2>2. CASE p = Reply(q, "failed")
    <3>1. p \in Request /\ Same(p, q) /\ p.at = "answered" /\ p.code = "failed" /\ p.stores = {}
      BY <1>0, <2>2 DEF Request, Same, Reply, Places, Codes
    <3> QED
      BY <1>0, <1>2, <3>1 DEF Fine, RequestInv, UdnInv, Same
  <2> QED
    BY <1>0, <1>2, <2>1, <2>2 DEF FirstSteps, q
<1>3. CASE kind = "status"
  <2>1. StatusBefore(q) /\ StatusPart(q) = "prom"
    BY <1>0, <1>3 DEF StatusBefore, StatusPart
  <2>2. CASE p = Begin(q)
    BY <1>0, <2>1, <2>2, BeginStatus DEF Fine, RequestInv, Same
  <2>3. CASE p = Failed(q, "failed")
    BY <1>0, <1>3, <2>1, <2>3, StatusAfterKeeps DEF Fine, RequestInv, Same, Failed, Results, Codes
  <2>4. CASE p = [q EXCEPT !.prom = "disabled", !.at = "ready", !.todo = <<>>]
    <3>1. p \in Request /\ Same(p, q) /\ p.got = q.got /\ p.at = "ready" /\ p.prom = "disabled" /\ p.loki = "none" /\ p.stores = {}
      BY <1>0, <2>4, NothingLeft DEF Request, Same, Places, Results
    <3>2. LookedUp(p, "loki") = {}
      BY <1>0, <3>1 DEF LookedUp
    <3>3. StatusInv(p)
      BY <1>0, <1>3, <3>1, <3>2 DEF StatusInv, Same
    <3> QED
      BY <1>0, <3>1, <3>3 DEF Fine, RequestInv, Same
  <2> QED
    BY <1>0, <1>3, <2>2, <2>3, <2>4 DEF FirstSteps, q
<1>4. CASE kind \in LabelKinds \cup {"names"}
  <2>1. ValueBefore(q) /\ kind \notin {"status", "udnIds", "config", "none"}
    BY <1>0, <1>4, NotStatus DEF ValueBefore
  <2>2. CASE p = Begin(q)
    BY <1>0, <2>1, <2>2, BeginValue DEF Fine, RequestInv, Same
  <2>3. CASE p = Failed(q, "failed")
    BY <1>0, <2>1, <2>3, ReplyKeeps DEF Fine, RequestInv, Same, Failed, Codes
  <2> QED
    BY <1>0, <2>1, <2>2, <2>3 DEF FirstSteps, q
<1> QED
  BY <1>1, <1>2, <1>3, <1>4 DEF Kinds

-----------------------------------------------------------------------------
(* What a step of one request does to the whole.                           *)

LEMMA RequestsKept ==
  ASSUME IInv, NEW r \in Requests, NEW p, Update(r, p), RequestInv(p), UNCHANGED <<sources, moment>>
  PROVE  req' \in [Requests -> Request] /\ \A x \in Requests : RequestInv(req[x])'
<1>1. req' \in [Requests -> Request]
  BY DEF IInv, RequestInv, Update
<1>2. ASSUME NEW x \in Requests PROVE RequestInv(req[x])'
  <2>1. RequestInv(IF x = r THEN p ELSE req[x]) /\ req'[x] = IF x = r THEN p ELSE req[x]
    BY <1>2 DEF IInv, Update
  <2> QED
    BY <2>1, ZenonT(60) DEF RequestInv, NoneInv, ValueInv, StatusInv, UdnInv, ConfigInv, Accounted, LookedUp, StatusPart
<1> QED
  BY <1>1, <1>2

LEMMA KindOfKey ==
  ASSUME NEW key \in Keys
  PROVE  KindOf(key) \in LabelKinds \cup {"names"} /\ KindOf(key) # "none" /\ key # "none"
BY KindsAssumption, KeysAssumption DEF Keys, KindOf

LEMMA PageKept ==
  ASSUME IInv, NEW r \in Requests, NEW p, Update(r, p), keyOf[r] = "none" \/ Same(p, req[r]),
         UNCHANGED moment, UNCHANGED pageVars
  PROVE  PageInv'
<1>1. UNCHANGED <<cache, keyOf, clearedAt, late>>
  BY DEF pageVars
<1>2. ASSUME NEW x \in Requests, keyOf[x] # "none"
      PROVE  req'[x].kind = req[x].kind /\ req'[x].since = req[x].since
  BY <1>2 DEF IInv, Update, Same
<1> QED
  BY <1>1, <1>2 DEF IInv, PageInv, Timely

LEMMA StepKept ==
  ASSUME IInv, NEW r \in Requests, NEW p, Update(r, p), Fine(p, req[r]),
         UNCHANGED <<sources, moment, config, configErr>>, UNCHANGED pageVars
  PROVE  IInv'
<1>1. SharedInv'
  BY DEF IInv, SharedInv
<1>2. PageInv'
  BY PageKept DEF Fine
<1> QED
  BY <1>1, <1>2, RequestsKept DEF IInv, Fine

-----------------------------------------------------------------------------
(* The configuration, which requests share.                                *)

LEMMA ConfigFine ==
  ASSUME NEW q, RequestInv(q), q.at \in ConfigPlaces,
         NEW p \in Request, p.kind = q.kind, p.since = q.since,
         p.at \in ConfigPlaces \cup {"answered", "aborted"},
         p.at = "store" <=> p.stores # {},
         sources.started => /\ p.at \in {"check", "age", "write", "answered"}
                            /\ p.code = IF p.at = "answered" THEN "ok" ELSE "none"
  PROVE  Fine(p, q)
BY ByKind DEF Fine, RequestInv, Same, ConfigInv

LEMMA ConfigStepKeeps ==
  ASSUME IInv, NEW r \in Requests, ConfigStep(r), UNCHANGED pageVars
  PROVE  IInv'
<1> DEFINE q == req[r]
<1>0. q \in Request /\ RequestInv(q) /\ SharedInv /\ (q.at \in ConfigPlaces => ConfigInv(q))
  BY ByKind DEF IInv, RequestInv
<1>1. ASSUME NEW p, Update(r, p), Fine(p, q), UNCHANGED <<sources, moment, config, configErr>>
      PROVE  IInv'
  BY <1>1, StepKept
<1>2. CASE ConfigCheck(r)
  <2> DEFINE p == [q EXCEPT !.at = IF NeedsRead(configErr) THEN "read" ELSE "age"]
  <2>1. /\ Update(r, p) /\ UNCHANGED <<sources, moment, config, configErr>> /\ q.at = "check"
    BY <1>2 DEF ConfigCheck
  <2>2. ConfigInv(q)
    BY <1>0, <2>1 DEF ConfigPlaces
  <2>3. /\ p \in Request /\ p.kind = q.kind /\ p.since = q.since /\ p.code = q.code /\ p.stores = q.stores
        /\ p.at = IF configErr THEN "read" ELSE "age"
    BY <1>0 DEF Request, Places, ConfigPlaces, NeedsRead
  <2> HIDE DEF p, q
  <2>4. Fine(p, q)
    BY <1>0, <2>1, <2>2, <2>3, ConfigFine DEF ConfigInv, SharedInv, ConfigPlaces
  <2> QED
    BY <1>1, <2>1, <2>4
<1>3. CASE ConfigRead(r)
  <2>1. q.at = "read" /\ UNCHANGED <<sources, moment, config, configErr>>
    BY <1>3 DEF ConfigRead
  <2>2. PICK result \in {"read", "none"} :
          Update(r, [q EXCEPT !.at = "store", !.stores = {<<"config", result>>, <<"err", result>>}])
    BY <1>3 DEF ConfigRead
  <2> DEFINE p == [q EXCEPT !.at = "store", !.stores = {<<"config", result>>, <<"err", result>>}]
  <2>3. {<<"config", result>>, <<"err", result>>} \in SUBSET Stores
    BY <2>2 DEF Stores
  <2>4. /\ p \in Request /\ p.kind = q.kind /\ p.since = q.since /\ p.at = "store" /\ p.stores # {}
    BY <1>0, <2>3 DEF Request, Places, ConfigPlaces
  <2>5. ~sources.started
    BY <1>0, <2>1 DEF ConfigInv, ConfigPlaces
  <2>6. Update(r, p)
    BY <2>2
  <2> HIDE DEF p, q
  <2>7. Fine(p, q)
    BY <1>0, <2>1, <2>4, <2>5, ConfigFine DEF ConfigPlaces
  <2> QED
    BY <1>1, <2>1, <2>6, <2>7
<1>4. CASE ConfigStore(r)
  <2>1. q.at = "store" /\ UNCHANGED <<sources, moment>>
    BY <1>4 DEF ConfigStore
  <2>2. PICK s \in q.stores :
          /\ Update(r, [q EXCEPT !.stores = @ \ {s}, !.at = AfterStore(q.stores \ {s})])
          /\ config' = IF s[1] = "config" THEN s[2] ELSE config
          /\ configErr' = IF s[1] = "err" THEN s[2] = "none" ELSE configErr
    BY <1>4 DEF ConfigStore
  <2> DEFINE p == [q EXCEPT !.stores = q.stores \ {s}, !.at = AfterStore(q.stores \ {s})]
  <2>3. q.stores \ {s} \in SUBSET Stores /\ s \in Stores
    BY <1>0 DEF Request
  <2>4. AfterStore(q.stores \ {s}) \in {"store", "recheck"}
        /\ (AfterStore(q.stores \ {s}) = "store" <=> q.stores \ {s} # {})
    BY DEF AfterStore
  <2>5. /\ p \in Request /\ p.kind = q.kind /\ p.since = q.since /\ p.stores = q.stores \ {s}
        /\ p.at = AfterStore(q.stores \ {s})
    BY <1>0, <2>3, <2>4 DEF Request, Places, ConfigPlaces
  <2>6. ~sources.started
    BY <1>0, <2>1 DEF ConfigInv, ConfigPlaces
  <2>7. Update(r, p)
    BY <2>2
  <2> HIDE DEF p, q
  <2>8. Fine(p, q)
    BY <1>0, <2>1, <2>4, <2>5, <2>6, ConfigFine DEF ConfigPlaces
  <2>9. SharedInv'
    <3>1. s[2] \in {"read", "none"} /\ (s[2] = "none") \in BOOLEAN
      BY <2>3 DEF Stores
    <3>2. config' \in {"read", "none"}
      BY <1>0, <2>2, <3>1 DEF SharedInv
    <3>3. configErr' \in BOOLEAN
      BY <1>0, <2>2, <3>1, Zenon DEF SharedInv
    <3> QED
      BY <1>0, <2>1, <2>6, <3>2, <3>3 DEF SharedInv
  <2>10. PageInv'
    BY <2>1, <2>7, <2>8, PageKept DEF Fine, q
  <2> QED
    BY <2>1, <2>7, <2>8, <2>9, <2>10, RequestsKept DEF IInv, Fine
<1>5. CASE ConfigRecheck(r)
  <2> DEFINE p == [q EXCEPT !.at = "age", !.code = IF configErr THEN "failed" ELSE @]
  <2>1. /\ Update(r, p) /\ UNCHANGED <<sources, moment, config, configErr>> /\ q.at = "recheck"
    BY <1>5 DEF ConfigRecheck
  <2>2. ConfigInv(q)
    BY <1>0, <2>1 DEF ConfigPlaces
  <2>3. /\ p \in Request /\ p.kind = q.kind /\ p.since = q.since /\ p.stores = q.stores /\ p.at = "age"
    BY <1>0 DEF Request, Places, ConfigPlaces, Codes
  <2> HIDE DEF p, q
  <2>4. Fine(p, q)
    BY <1>0, <2>1, <2>2, <2>3, ConfigFine DEF ConfigInv, ConfigPlaces
  <2> QED
    BY <1>1, <2>1, <2>4
<1>6. CASE ConfigAge(r)
  <2>1. /\ UNCHANGED <<sources, moment, config, configErr>> /\ q.at = "age"
    BY <1>6 DEF ConfigAge
  <2>2. ConfigInv(q)
    BY <1>0, <2>1 DEF ConfigPlaces
  <2>3. PICK answered : Update(r, IF answered /\ config = "none" THEN Aborted(q) ELSE [q EXCEPT !.at = "write"])
    BY <1>6 DEF ConfigAge
  <2> DEFINE p == IF answered /\ config = "none" THEN Aborted(q) ELSE [q EXCEPT !.at = "write"]
  <2>4. /\ p \in Request /\ p.kind = q.kind /\ p.since = q.since /\ p.stores = q.stores /\ p.code = q.code
        /\ p.at \in {"aborted", "write"} /\ (p.at = "aborted" => config = "none")
    BY <1>0 DEF Request, Places, ConfigPlaces, Aborted
  <2>5. Update(r, p)
    BY <2>3
  <2> HIDE DEF p, q
  <2>6. Fine(p, q)
    BY <1>0, <2>1, <2>2, <2>4, ConfigFine DEF ConfigInv, SharedInv, ConfigPlaces
  <2> QED
    BY <1>1, <2>1, <2>5, <2>6
<1>7. CASE ConfigWrite(r)
  <2> DEFINE p == IF config = "none" THEN Aborted(q) ELSE Reply(q, IF q.code = "none" THEN "ok" ELSE q.code)
  <2>1. /\ Update(r, p) /\ UNCHANGED <<sources, moment, config, configErr>> /\ q.at = "write"
    BY <1>7 DEF ConfigWrite
  <2>2. ConfigInv(q)
    BY <1>0, <2>1 DEF ConfigPlaces
  <2>3. /\ p \in Request /\ p.kind = q.kind /\ p.since = q.since /\ p.stores = q.stores
        /\ p.at = IF config = "none" THEN "aborted" ELSE "answered"
        /\ config # "none" => p.code = IF q.code = "none" THEN "ok" ELSE q.code
    BY <1>0, ZenonT(60) DEF Request, Places, ConfigPlaces, Codes, Aborted, Reply
  <2> HIDE DEF p, q
  <2>4. Fine(p, q)
    BY <1>0, <2>1, <2>2, <2>3, ConfigFine DEF ConfigInv, SharedInv, ConfigPlaces
  <2> QED
    BY <1>1, <2>1, <2>4
<1> QED
  BY <1>2, <1>3, <1>4, <1>5, <1>6, <1>7 DEF ConfigStep

-----------------------------------------------------------------------------
(* The invariant holds at first, and every step keeps it.                  *)

LEMMA InitInv == PageInit => IInv
<1> SUFFICES ASSUME PageInit PROVE IInv
  OBVIOUS
<1>1. Unused \in Request /\ NoneInv(Unused) /\ Unused.since = 0
  BY NothingLeft DEF Unused, Request, NoneInv, Places, Codes, Results
<1>2. SharedInv
  <2>1. sources.enabled \in {{"prom"}, {"loki"}, {"prom", "loki"}} /\ sources.known \in SUBSET Ends
        /\ sources.started \in BOOLEAN
    BY DEF PageInit, Init
  <2>2. sources.enabled \in SUBSET {"prom", "loki"}
    BY <2>1
  <2>3. config \in {"read", "none"} /\ configErr = ~sources.started /\ (sources.started => config = "read")
        /\ moment = 0
    BY DEF PageInit, Init
  <2>4. configErr \in BOOLEAN /\ (sources.started => ~configErr)
    BY <2>1, <2>3, Zenon
  <2> QED
    BY <2>1, <2>2, <2>3, <2>4, KindsAssumption DEF SharedInv
<1>3. req \in [Requests -> Request] /\ \A r \in Requests : RequestInv(req[r])
  BY <1>1 DEF PageInit, Init, RequestInv
<1>4. None \in [got : SUBSET Ends, since : Nat, held : BOOLEAN] /\ ~None.held
  BY DEF None
<1>5. PageInv
  BY <1>4 DEF PageInit, Init, PageInv
<1> QED
  BY <1>2, <1>3, <1>5 DEF IInv

LEMMA StepKeeps ==
  ASSUME IInv, NEW r \in Requests, Step(r), UNCHANGED pageVars
  PROVE  IInv'
<1>0. RequestInv(req[r])
  BY DEF IInv
<1>1. CASE PromAnswers(r)
  <2>1. req[r].at = "prom" /\ UNCHANGED <<sources, moment, config, configErr>>
    BY <1>1 DEF PromAnswers
  <2>2. PICK p \in {Found(req[r]), Refused(req[r]), Failed(req[r], "failed")} : Update(r, p)
    BY <1>1 DEF PromAnswers
  <2>3. Fine(p, req[r])
    BY <1>0, <2>1, <2>2, CallKeeps
  <2> QED
    BY <2>1, <2>2, <2>3, StepKept
<1>2. CASE LokiAnswers(r)
  <2>1. req[r].at = "loki" /\ UNCHANGED <<sources, moment, config, configErr>>
    BY <1>2 DEF LokiAnswers
  <2>2. PICK p \in {Found(req[r]), Failed(req[r], "failed")} : Update(r, p)
    BY <1>2 DEF LokiAnswers
  <2>3. Fine(p, req[r])
    BY <1>0, <2>1, <2>2, CallKeeps
  <2> QED
    BY <2>1, <2>2, <2>3, StepKept
<1>3. CASE ReadyAnswers(r)
  <2>1. req[r].at = "ready" /\ UNCHANGED <<sources, moment, config, configErr>>
    BY <1>3 DEF ReadyAnswers
  <2>2. PICK p \in {Begin([req[r] EXCEPT !.todo = Lookups("status")]), Reply([req[r] EXCEPT !.loki = "failed"], "ok")} :
          Update(r, p)
    BY <1>3 DEF ReadyAnswers
  <2>3. Fine(p, req[r])
    BY <1>0, <2>1, <2>2, ReadyKeeps
  <2> QED
    BY <2>1, <2>2, <2>3, StepKept
<1>4. CASE ListAnswers(r)
  <2>1. req[r].at = "list" /\ UNCHANGED <<sources, moment, config, configErr>>
    BY <1>4 DEF ListAnswers
  <2>2. PICK code \in {"none", "failed"} : Update(r, Listed(req[r], code))
    BY <1>4 DEF ListAnswers
  <2>3. Fine(Listed(req[r], code), req[r])
    BY <1>0, <2>1, <2>2, ListedKeeps
  <2> QED
    BY <2>1, <2>2, <2>3, StepKept
<1>5. CASE ConfigStep(r)
  BY <1>5, ConfigStepKeeps
<1> QED
  BY <1>1, <1>2, <1>3, <1>4, <1>5 DEF Step

(* A request begins: what is new of it is its kind and its moment.         *)
LEMMA ServeKeeps ==
  ASSUME IInv, NEW r \in Requests, NEW kind \in Kinds, Serve(r, kind)
  PROVE  /\ SharedInv' /\ moment' = moment /\ keyOf[r] = "none"
         /\ req' \in [Requests -> Request] /\ \A x \in Requests : RequestInv(req[x])'
         /\ req'[r].kind = kind /\ req'[r].since = moment
         /\ \A x \in Requests \ {r} : req'[x] = req[x]
<1>1. UNCHANGED <<sources, moment, config, configErr>> /\ SharedInv
  BY DEF Serve, IInv
<1>2. PICK p \in FirstSteps(Asked(kind)) : Update(r, p)
  BY DEF Serve
<1>3. RequestInv(p) /\ p.kind = kind /\ p.since = moment
  BY <1>1, FirstKeeps
<1>4. keyOf[r] = "none"
  <2>1. req[r].kind = "none"
    BY ByKind DEF IInv, NoneInv, Serve
  <2>2. keyOf[r] \in Keys => KindOf(keyOf[r]) # "none"
    BY KindOfKey
  <2>3. keyOf[r] \in Keys \cup {"none"} /\ (keyOf[r] # "none" => req[r].kind = KindOf(keyOf[r]))
    BY DEF IInv, PageInv
  <2> QED
    BY <2>1, <2>2, <2>3
<1>5. req'[r] = p /\ \A x \in Requests \ {r} : req'[x] = req[x]
  BY <1>2 DEF IInv, Update
<1>6. req' \in [Requests -> Request] /\ \A x \in Requests : RequestInv(req[x])'
  BY <1>1, <1>2, <1>3, RequestsKept
<1>7. SharedInv'
  BY <1>1 DEF SharedInv
<1> QED
  BY <1>1, <1>3, <1>4, <1>5, <1>6, <1>7

LEMMA AskKeeps ==
  ASSUME IInv, NEW r \in Requests, NEW key \in Keys, Ask(r, key)
  PROVE  IInv'
<1>1. Serve(r, KindOf(key)) /\ keyOf' = [keyOf EXCEPT ![r] = key] /\ UNCHANGED <<cache, clearedAt, late>>
  BY DEF Ask
<1>2. KindOf(key) \in Kinds
  BY KindOfKey DEF Kinds
<1>3. /\ SharedInv' /\ moment' = moment
      /\ req' \in [Requests -> Request] /\ \A x \in Requests : RequestInv(req[x])'
      /\ req'[r].kind = KindOf(key) /\ req'[r].since = moment
      /\ \A x \in Requests \ {r} : req'[x] = req[x]
  BY <1>1, <1>2, ServeKeeps
<1>4. PageInv'
  <2>1. PageInv /\ moment \in Nat
    BY KindsAssumption DEF IInv, SharedInv
  <2>2. keyOf' \in [Requests -> Keys \cup {"none"}] /\ keyOf'[r] = key
        /\ \A x \in Requests \ {r} : keyOf'[x] = keyOf[x]
    BY <1>1, <2>1 DEF PageInv
  <2>3. ASSUME NEW x \in Requests, keyOf'[x] # "none"
        PROVE  req'[x].kind = KindOf(keyOf'[x]) /\ Timely(keyOf[x], req[x].since)'
    <3>1. CASE x = r
      BY <1>1, <1>3, <2>1, <2>2, <3>1 DEF PageInv, Timely
    <3>2. CASE x # r
      BY <1>1, <1>3, <2>1, <2>2, <2>3, <3>2 DEF PageInv, Timely
    <3> QED
      BY <3>1, <3>2
  <2> QED
    BY <1>1, <1>3, <2>1, <2>2, <2>3 DEF PageInv, Timely
<1> QED
  BY <1>3, <1>4 DEF IInv

LEMMA AskOtherKeeps ==
  ASSUME IInv, NEW r \in Requests, NEW kind \in {"udnIds", "status", "config"}, AskOther(r, kind)
  PROVE  IInv'
<1>1. Serve(r, kind) /\ UNCHANGED <<cache, keyOf, clearedAt, late>> /\ kind \in Kinds
  BY DEF AskOther, pageVars, Kinds
<1>2. /\ SharedInv' /\ moment' = moment /\ keyOf[r] = "none"
      /\ req' \in [Requests -> Request] /\ \A x \in Requests : RequestInv(req[x])'
      /\ \A x \in Requests \ {r} : req'[x] = req[x]
  BY <1>1, ServeKeeps
<1>3. PageInv'
  BY <1>1, <1>2 DEF IInv, PageInv, Timely
<1> QED
  BY <1>2, <1>3 DEF IInv

(* An answer fills the cache only if it is complete.                       *)
LEMMA ReceiveKeeps ==
  ASSUME IInv, NEW r \in Requests, Receive(r)
  PROVE  IInv'
<1> DEFINE q == req[r]
           key == keyOf[r]
           entry == [got |-> LookedUp(q, "prom"), since |-> q.since, held |-> TRUE]
<1>1. /\ UNCHANGED <<sources, moment, config, configErr, clearedAt, late>>
      /\ keyOf' = [keyOf EXCEPT ![r] = "none"]
      /\ q.at \in {"answered", "aborted"} /\ key # "none"
      /\ req' = [req EXCEPT ![r] = IF q.at = "answered" THEN Received ELSE q]
      /\ cache' = IF q.at = "answered" /\ q.code = "ok" THEN [cache EXCEPT ![key] = entry] ELSE cache
  BY DEF Receive
<1>2. SharedInv'
  BY <1>1 DEF IInv, SharedInv
<1>3. RequestInv(Received) /\ RequestInv(q)
  <2>1. Received \in Request /\ Received.since = 0 /\ NoneInv(Received)
    BY NothingLeft DEF Received, Unused, Request, NoneInv, Places, Codes, Results
  <2> QED
    BY <2>1, KindsAssumption DEF IInv, SharedInv, RequestInv
<1>4. req' \in [Requests -> Request] /\ \A x \in Requests : RequestInv(req[x])'
  <2> DEFINE p == IF q.at = "answered" THEN Received ELSE q
  <2>1. Update(r, p) /\ RequestInv(p)
    BY <1>1, <1>3 DEF Update
  <2> HIDE DEF p
  <2> QED
    BY <1>1, <2>1, RequestsKept
<1>5. key \in Keys /\ q.kind = KindOf(key) /\ Timely(key, q.since)
  BY <1>1 DEF IInv, PageInv
<1>6. q.at = "answered" /\ q.code = "ok" => entry.got = All(KindOf(key))
  <2>1. ValueInv(q)
    BY <1>1, <1>3, <1>5, KindOfKey, NotStatus DEF RequestInv, NoneInv, StatusInv, UdnInv, ConfigInv
  <2> QED
    BY <1>5, <2>1, NothingLeft DEF ValueInv, Accounted
<1>7. entry \in [got : SUBSET Ends, since : Nat, held : BOOLEAN]
  BY <1>3 DEF RequestInv, Request, LookedUp
<1>8. PageInv'
  <2>1. PageInv
    BY DEF IInv
  <2>2. keyOf' \in [Requests -> Keys \cup {"none"}] /\ keyOf'[r] = "none"
        /\ \A x \in Requests \ {r} : keyOf'[x] = keyOf[x] /\ req'[x] = req[x]
    BY <1>1, <2>1 DEF IInv, PageInv
  <2>3. cache' \in [Keys -> [got : SUBSET Ends, since : Nat, held : BOOLEAN]]
    <3> HIDE DEF entry, key
    <3> QED
      BY <1>1, <1>7, <2>1 DEF PageInv
  <2>4. \A x \in Requests : keyOf'[x] # "none" =>
          req'[x].kind = KindOf(keyOf'[x]) /\ Timely(keyOf[x], req[x].since)'
    BY <1>1, <2>1, <2>2 DEF PageInv, Timely
  <2>5. ASSUME NEW k \in Keys, cache'[k].held
        PROVE  cache'[k].got = All(KindOf(k)) /\ Timely(k, cache[k].since)'
    <3>1. CASE k = key /\ q.at = "answered" /\ q.code = "ok"
      <4>1. cache'[k] = entry
        BY <1>1, <2>1, <3>1 DEF PageInv
      <4> QED
        BY <1>1, <1>5, <1>6, <3>1, <4>1 DEF Timely
    <3>2. CASE ~(k = key /\ q.at = "answered" /\ q.code = "ok")
      <4>1. cache'[k] = cache[k]
        <5> HIDE DEF entry, key, q
        <5> QED
          BY <1>1, <1>5, <2>1, <3>2 DEF PageInv
      <4> QED
        BY <1>1, <2>1, <2>5, <4>1 DEF PageInv, Timely
    <3> QED
      BY <3>1, <3>2
  <2> QED
    BY <1>1, <2>1, <2>2, <2>3, <2>4, <2>5 DEF PageInv
<1> QED
  BY <1>2, <1>4, <1>8 DEF IInv

(* A clear forgets, and remembers who is still being asked.                *)
LEMMA ClearKeeps ==
  ASSUME IInv, Clear
  PROVE  IInv'
<1>1. /\ UNCHANGED <<sources, moment, req, config, configErr, keyOf>>
      /\ cache' = [k \in Keys |-> IF k \in Cleared THEN None ELSE cache[k]]
      /\ clearedAt' = moment
      /\ late' = {k \in Cleared : Asking(k)}
  BY DEF Clear, serverVars
<1>2. SharedInv' /\ req' \in [Requests -> Request] /\ \A x \in Requests : RequestInv(req[x])'
  BY <1>1 DEF IInv, SharedInv, RequestInv, NoneInv, ValueInv, StatusInv, UdnInv, ConfigInv, Accounted, LookedUp, StatusPart
<1>3. PageInv /\ moment \in Nat
  BY KindsAssumption DEF IInv, SharedInv
<1>4. None \in [got : SUBSET Ends, since : Nat, held : BOOLEAN] /\ ~None.held
  BY DEF None
<1>5. cache' \in [Keys -> [got : SUBSET Ends, since : Nat, held : BOOLEAN]]
  BY <1>1, <1>3, <1>4 DEF PageInv
<1>6. \A x \in Requests : keyOf[x] \in Cleared => keyOf[x] \in late'
  BY <1>1 DEF Asking
<1>7. \A x \in Requests : keyOf'[x] # "none" =>
        req'[x].kind = KindOf(keyOf'[x]) /\ Timely(keyOf[x], req[x].since)'
  BY <1>1, <1>3, <1>6 DEF PageInv, Timely, Cleared
<1>8. \A k \in Keys : cache'[k].held =>
        cache'[k].got = All(KindOf(k)) /\ Timely(k, cache[k].since)'
  BY <1>1, <1>3, <1>4 DEF PageInv, Timely, Cleared
<1>9. PageInv'
  BY <1>1, <1>3, <1>5, <1>7, <1>8 DEF PageInv
<1> QED
  BY <1>2, <1>9 DEF IInv

LEMMA ChangeKeeps ==
  ASSUME IInv, Change, UNCHANGED pageVars
  PROVE  IInv'
<1>1. /\ UNCHANGED <<sources, req, config, configErr, cache, keyOf, clearedAt, late>>
      /\ moment < MaxMoment /\ moment' = moment + 1
  BY DEF Change, pageVars
<1>2. SharedInv /\ moment \in Nat /\ moment' \in Nat /\ moment' \in 0..MaxMoment
  BY <1>1, KindsAssumption DEF IInv, SharedInv
<1>3. SharedInv'
  BY <1>1, <1>2 DEF SharedInv
<1>4. ASSUME NEW x \in Requests PROVE RequestInv(req[x])'
  <2>1. RequestInv(req[x]) /\ req[x].since \in Nat /\ req[x].since <= moment
    BY DEF IInv, RequestInv, Request
  <2>2. req'[x].since <= moment'
    BY <1>1, <1>2, <2>1
  <2> QED
    BY <1>1, <2>1, <2>2
       DEF RequestInv, NoneInv, ValueInv, StatusInv, UdnInv, ConfigInv, Accounted, LookedUp, StatusPart
<1>5. PageInv'
  BY <1>1, <1>2 DEF IInv, PageInv, Timely
<1> QED
  BY <1>1, <1>3, <1>4, <1>5 DEF IInv

(* The inductive invariant of the requests and of the page.                *)
THEOREM Invariant == Spec => []IInv
<1>1. IInv /\ [Next]_vars => IInv'
  <2> SUFFICES ASSUME IInv, [Next]_vars PROVE IInv'
    OBVIOUS
  <2>1. CASE \E r \in Requests : \E key \in Keys : Ask(r, key)
    BY <2>1, AskKeeps
  <2>2. CASE \E r \in Requests : \E kind \in {"udnIds", "status", "config"} : AskOther(r, kind)
    BY <2>2, AskOtherKeeps
  <2>3. CASE \E r \in Requests : Step(r) /\ UNCHANGED pageVars
    BY <2>3, StepKeeps
  <2>4. CASE \E r \in Requests : Receive(r)
    BY <2>4, ReceiveKeeps
  <2>5. CASE Change /\ UNCHANGED pageVars
    BY <2>5, ChangeKeeps
  <2>6. CASE Clear
    BY <2>6, ClearKeeps
  <2>7. CASE UNCHANGED vars
    <3>1. UNCHANGED <<sources, moment, req, config, configErr, cache, keyOf, clearedAt, late>>
      BY <2>7 DEF vars, serverVars, pageVars
    <3> QED
      BY <3>1 DEF IInv, SharedInv, PageInv, Timely, RequestInv, NoneInv, ValueInv, StatusInv, UdnInv, ConfigInv,
                  Accounted, LookedUp, StatusPart
  <2> QED
    BY <2>1, <2>2, <2>3, <2>4, <2>5, <2>6, <2>7 DEF Next
<1> QED
  BY <1>1, InitInv, PTL DEF Spec

-----------------------------------------------------------------------------
(* What the run checks.                                                    *)

(* Requests are well-formed, and their replies say what was found: the     *)
(* lookups of resources.go and loki.go one after the other, the parts of   *)
(* the status, and the lists of k8s.go.                                    *)
THEOREM WholeAnswers == Spec => []AnswersInv
<1> SUFFICES ASSUME IInv PROVE AnswersInv
  BY Invariant, PTL
<1>1. ASSUME NEW r \in Requests PROVE req[r] \in Request /\ RequestInv(req[r])
  BY DEF IInv, RequestInv
<1>2. TypeOK
  <2>1. ASSUME NEW r \in Requests
        PROVE  req[r].since \in 0..moment /\ (req[r].at = "store" <=> req[r].stores # {})
    <3>1. moment \in Nat /\ req[r].since \in Nat /\ req[r].since <= moment
      BY <1>1, KindsAssumption DEF IInv, SharedInv, RequestInv, Request
    <3>2. req[r].at = "store" <=> req[r].stores # {}
      BY <1>1 DEF RequestInv, NoneInv, ValueInv, StatusInv, UdnInv, ConfigInv
    <3> QED
      BY <3>1, <3>2
  <2> QED
    BY <1>1, <2>1 DEF TypeOK, IInv, SharedInv, Request, Places, ConfigPlaces, Codes
<1>3. AnswersAreComplete
  <2> SUFFICES ASSUME NEW r \in Requests, req[r].at = "answered"
               PROVE  /\ req[r].code = "ok" /\ req[r].kind \in LabelKinds \cup {"names"}
                           => LookedUp(req[r], "prom") = All(req[r].kind)
                      /\ req[r].code = "ok" /\ req[r].kind = "udnIds" => LookedUp(req[r], "k8s") = All("udnIds")
                      /\ req[r].kind = "status" => \A part \in {"prom", "loki"} :
                           req[r][part] = "noError" => LookedUp(req[r], part) = All("status")
    BY DEF AnswersAreComplete
  <2>1. CASE ValueInv(req[r])
    BY <2>1, NotStatus, NothingLeft DEF ValueInv, Accounted
  <2>2. CASE StatusInv(req[r])
    BY <2>2, NotStatus DEF StatusInv
  <2>3. CASE UdnInv(req[r])
    BY <2>3, NotStatus DEF UdnInv
  <2>4. CASE NoneInv(req[r]) \/ ConfigInv(req[r])
    BY <2>4, NotStatus DEF NoneInv, ConfigInv
  <2> QED
    BY <1>1, <2>1, <2>2, <2>3, <2>4 DEF RequestInv
<1>4. RefusalIsNotAnError
  BY <1>1, NotStatus DEF RefusalIsNotAnError, RequestInv, NoneInv, ValueInv, StatusInv, UdnInv, ConfigInv
<1> QED
  BY <1>2, <1>3, <1>4 DEF AnswersInv

(* A configuration that was read when the server started is served, though *)
(* requests share it without a lock (frontend-config.go): none of them     *)
(* ever writes it.                                                         *)
THEOREM ConfigServed == Spec => []ConfigIsServed
<1> SUFFICES ASSUME IInv PROVE ConfigIsServed
  BY Invariant, PTL
<1> SUFFICES ASSUME sources.started, NEW r \in Requests, req[r].kind = "config"
             PROVE  req[r].at # "aborted" /\ (req[r].at = "answered" => req[r].code = "ok")
  BY DEF ConfigIsServed
<1>1. ConfigInv(req[r])
  BY NotStatus DEF IInv, RequestInv, NoneInv, ValueInv, StatusInv, UdnInv
<1> QED
  BY <1>1 DEF ConfigInv

(* What is suggested is whole, and after a clear no older than it, unless  *)
(* it was being asked at that moment (autocomplete-cache.ts).              *)
THEOREM CacheHonest == Spec => []CacheInv
<1> SUFFICES ASSUME IInv PROVE CacheInv
  BY Invariant, PTL
<1>1. {"namespaces"} \cup NameKeys \subseteq Keys
  BY KeysAssumption DEF Keys
<1> QED
  BY <1>1 DEF CacheInv, CacheIsComplete, ClearedIsAskedAgain, IInv, PageInv, Timely, Cleared
=============================================================================
