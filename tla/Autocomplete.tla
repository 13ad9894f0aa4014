---------------------------- MODULE Autocomplete ----------------------------
(***************************************************************************)
(* The suggestions of the search field (utils/filter-options.ts,           *)
(* utils/autocomplete-cache.ts) and the server that is asked for them: a   *)
(* cache that an answer fills whenever it comes, and that the user clears  *)
(* with the filters.                                                       *)
(***************************************************************************)
EXTENDS ServerRequests

CONSTANT NameKeys \* kinds and namespaces whose names are suggested

ASSUME KeysAssumption == "namespaces" \in LabelKinds /\ "none" \notin NameKeys

Keys == LabelKinds \cup NameKeys
KindOf(key) == IF key \in NameKeys THEN "names" ELSE key
None == [got |-> {}, since |-> 0, held |-> FALSE]

VARIABLES cache,    \* what is known of each key
          keyOf,    \* the key that the page asks with a request
          clearedAt, \* the moment of the last clear
          late      \* keys that were asked for at that moment
pageVars == <<cache, keyOf, clearedAt, late>>
vars == <<serverVars, pageVars>>

PageInit ==
  /\ Init
  /\ cache = [k \in Keys |-> None]
  /\ keyOf = [r \in Requests |-> "none"]
  /\ clearedAt = 0 /\ late = {}

Asking(key) == \E r \in Requests : keyOf[r] = key

(* A key that is not in the cache is asked of the server, whether or not   *)
(* it is being asked already.                                              *)
Ask(r, key) ==
  /\ ~cache[key].held
  /\ Serve(r, KindOf(key))
  /\ keyOf' = [keyOf EXCEPT ![r] = key]
  /\ UNCHANGED <<cache, clearedAt, late>>

(* Other requests of this page and of others.                              *)
AskOther(r, kind) == Serve(r, kind) /\ UNCHANGED pageVars

(* An answer fills the cache; an error, or no answer, does not.            *)
Receive(r) ==
  /\ keyOf[r] # "none" /\ req[r].at \in {"answered", "aborted"}
  /\ keyOf' = [keyOf EXCEPT ![r] = "none"]
  /\ cache' = IF req[r].at = "answered" /\ req[r].code = "ok"
                THEN [cache EXCEPT ![keyOf[r]] = [got |-> LookedUp(req[r], "prom"), since |-> req[r].since, held |-> TRUE]]
              ELSE cache
  /\ req' = [req EXCEPT ![r] = IF @.at = "answered" THEN Received ELSE @]
  /\ UNCHANGED <<sources, moment, config, configErr, clearedAt, late>>

(* Mutant: the names are kept. *)
ClearedNamespaces == {"namespaces"}
Cleared == {"namespaces"} \cup NameKeys

Clear ==
  /\ cache' = [k \in Keys |-> IF k \in Cleared THEN None ELSE cache[k]]
  /\ clearedAt' = moment
  /\ late' = {k \in Cleared : Asking(k)}
  /\ UNCHANGED <<serverVars, keyOf>>

Next ==
  \/ \E r \in Requests : \/ \E key \in Keys : Ask(r, key)
                         \/ \E kind \in {"udnIds", "status", "config"} : AskOther(r, kind)
                         \/ Step(r) /\ UNCHANGED pageVars
                         \/ Receive(r)
  \/ Change /\ UNCHANGED pageVars
  \/ Clear

(* The server goes on with a request: its calls are answered, or time out. *)
Spec == PageInit /\ [][Next]_vars
        /\ \A r \in Requests : WF_vars(Step(r) /\ UNCHANGED pageVars)

-----------------------------------------------------------------------------
(* What is suggested for a key is all that its lookups have found, for the *)
(* source and for the destination.                                         *)
CacheIsComplete ==
  \A k \in Keys : cache[k].held => cache[k].got = All(KindOf(k))

(* After a clear, namespaces and names were asked for no earlier than it;  *)
(* but an answer that was under way when the user cleared may still fill   *)
(* the cache with what was known before.                                   *)
ClearedIsAskedAgain ==
  \A k \in {"namespaces"} \cup NameKeys : cache[k].held => cache[k].since >= clearedAt \/ k \in late

(* What is suggested is whole, and of a moment that the user can tell.     *)
CacheInv == CacheIsComplete /\ ClearedIsAskedAgain
=============================================================================
