----------------------------- MODULE AllOrNothing -----------------------------
(***************************************************************************)
(* What the handlers that share clients.fetchParallel promise to a client: *)
(* a request is put to the upstream services as a set of queries, and is   *)
(* answered once, when every query has ended, with the whole of it or with *)
(* an error.  After an attempt that cannot be answered as a whole, another *)
(* one may start, from nothing.                                            *)
(*                                                                         *)
(* asked' is any set, whose members are those of the specification that    *)
(* implements this one; so this is a safety specification, to be compared  *)
(* with and not to be run.                                                 *)
(***************************************************************************)
VARIABLES
  asked,   \* the queries of the attempt, {} before it is planned
  ended,   \* those that have ended, with a result or an error
  sound,   \* nothing that is known yet prevents a whole answer
  reply    \* "none", "whole" or "error"

vars == <<asked, ended, sound, reply>>

Nothing == asked = {} /\ ended = {}

(* Each query has ended, and the attempt has no whole answer.              *)
Lost == asked # {} /\ ended = asked /\ ~sound

Init == Nothing /\ reply = "none"

Begin ==
  /\ reply = "none"
  /\ Nothing
  /\ asked' # {} /\ ended' = {}
  /\ UNCHANGED <<sound, reply>>

(* A query ends; its result, or its error, may be the ruin of the attempt. *)
End ==
  /\ reply = "none"
  /\ \E q \in asked \ ended : ended' = ended \cup {q}
  /\ sound' => sound
  /\ UNCHANGED <<asked, reply>>

Again ==
  /\ reply = "none"
  /\ Lost
  /\ Nothing'
  /\ UNCHANGED reply

Succeed ==
  /\ reply = "none"
  /\ asked # {} /\ ended = asked /\ sound
  /\ reply' = "whole"
  /\ UNCHANGED <<asked, ended, sound>>

(* Before anything was asked, or when the attempt is lost.                 *)
Refuse ==
  /\ reply = "none"
  /\ Nothing \/ Lost
  /\ reply' = "error"
  /\ UNCHANGED <<asked, ended, sound>>

Next == Begin \/ End \/ Again \/ Succeed \/ Refuse

Spec == Init /\ [][Next]_vars
=============================================================================
