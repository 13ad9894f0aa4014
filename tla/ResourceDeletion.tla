-------------------------- MODULE ResourceDeletion --------------------------
(***************************************************************************)
(* A page on one named resource from which it can be deleted: the          *)
(* ResourceWatcher (web/src/components/forms/resource-watcher.tsx) of the  *)
(* FlowCollector status page (forms/flowCollector/status.tsx).             *)
(*                                                                         *)
(* The watch may miss that the resource is deleted, and keep it. So the    *)
(* page keeps a snapshot of what it deletes and asks for it (k8sGet) until *)
(* it is not found, or until too many attempts; from then on it ignores    *)
(* what the watch says of the uid that was deleted.                        *)
(***************************************************************************)
EXTENDS Naturals, Sequences

CONSTANTS
  MaxAttempts,  \* DELETE_ABSENCE_MAX_ATTEMPTS, 20 in the code
  MaxLog        \* bound: length of the log from which nobody creates

ASSUME DeletionAssumption == MaxAttempts \in Nat \ {0} /\ MaxLog \in Nat \ {0}

None == 0   \* no uid

VARIABLES
  log,     \* the states of the resource in the cluster
  pos,     \* how far the watch has delivered them, 0 before the first
  page,    \* state of the component
  call,    \* the k8sDelete in flight: uid of the data it was called with
  poll,    \* the k8sGet in flight, or its timer
  gone     \* history: uids that the page reported deleted

vars == <<log, pos, page, call, poll, gone>>

(* A uid is the place in the log where the resource was created; an ending *)
(* resource has a deletionTimestamp and waits for its finalizers.          *)
Absent == [uid |-> None, ending |-> FALSE]
Stored == log[Len(log)]
Watched == IF pos = 0 THEN Absent ELSE log[pos]

-----------------------------------------------------------------------------
(* What the component derives from its state and the watch.                *)
IsCRPresentAlways(p, w) == w.uid # None                          \* mutant
IsCRPresent(p, w) == w.uid # None /\ w.uid # p.deleted

ConfirmedAbsent(p) == p.deleted # None /\ p.snapshot = None

Shown ==
  IF page.snapshot # None THEN [uid |-> page.snapshot, ending |-> TRUE]
  ELSE IF IsCRPresent(page, Watched) THEN Watched ELSE Absent

(* Nothing is known: neither the watch nor a deletion says anything.       *)
Unknown(p, i, w) == i = 0 /\ ~IsCRPresent(p, w) /\ p.snapshot = None /\ ~ConfirmedAbsent(p)

Resolved == ~Unknown(page, pos, Watched) \/ page.missing

(* The effects that run after a render: the deleted uid is forgotten when  *)
(* the watch has another or none, a supposed absence when something is     *)
(* known.                                                                  *)
Effects(p, i, w) ==
  LET q == IF ConfirmedAbsent(p) /\ w.uid # p.deleted THEN [p EXCEPT !.deleted = None] ELSE p
  IN  [q EXCEPT !.missing = @ /\ Unknown(q, i, w)]

NoCall == [state |-> "none", uid |-> None]
NoPoll == [state |-> "none", uid |-> None]

Init ==
  /\ log \in {<<Absent>>, <<[uid |-> 1, ending |-> FALSE]>>}
  /\ pos = 0
  /\ page = [deleted |-> None, snapshot |-> None, attempts |-> 0, missing |-> FALSE, error |-> FALSE]
  /\ call = NoCall /\ poll = NoPoll
  /\ gone = {}

-----------------------------------------------------------------------------
(* The cluster: others create and delete, finalizers end.                  *)
Created ==
  /\ Stored = Absent /\ Len(log) < MaxLog
  /\ log' = Append(log, [uid |-> Len(log) + 1, ending |-> FALSE])

Deleted(fin) ==
  /\ Stored.uid # None /\ ~Stored.ending
  /\ log' = Append(log, IF fin THEN [Stored EXCEPT !.ending = TRUE] ELSE Absent)

Finalized == Stored.ending /\ log' = Append(log, Absent)

OtherWrites ==
  /\ Created \/ (\E fin \in BOOLEAN : Deleted(fin)) \/ Finalized
  /\ UNCHANGED <<pos, page, call, poll, gone>>

(* The watch delivers a later state, and may skip some, deletions too.     *)
Watch ==
  /\ \E i \in (pos + 1)..Len(log) : pos' = i /\ page' = Effects(page, i, log[i])
  /\ UNCHANGED <<log, call, poll, gone>>

TimerArmed == Unknown(page, pos, Watched)

(* A watch may never load what is absent: the page stops waiting.          *)
MissingTimer ==
  /\ TimerArmed /\ ~page.missing
  /\ page' = [page EXCEPT !.missing = TRUE]
  /\ UNCHANGED <<log, pos, call, poll, gone>>

-----------------------------------------------------------------------------
(* The user confirms; the button is disabled while the resource is ending. *)
Delete ==
  /\ Shown.uid # None /\ ~Shown.ending /\ call = NoCall
  /\ call' = [state |-> "sent", uid |-> Shown.uid]
  /\ UNCHANGED <<log, pos, page, poll, gone>>

(* k8sDelete deletes by name, whatever the uid is; it may fail without     *)
(* effect, or its answer may be lost.                                      *)
ServerDeletes ==
  /\ call.state = "sent"
  /\ \/ /\ \E fin \in BOOLEAN : Deleted(fin)
        /\ \E answer \in {"done", "failed"} : call' = [call EXCEPT !.state = answer]
     \/ Stored.ending /\ call' = [call EXCEPT !.state = "done"] /\ UNCHANGED log
     \/ call' = [call EXCEPT !.state = "failed"] /\ UNCHANGED log
  /\ UNCHANGED <<pos, page, poll, gone>>

Asked == [state |-> "asked", uid |-> None]

DeleteSucceeds ==
  /\ call.state = "done"
  /\ page' = Effects([page EXCEPT !.deleted = call.uid, !.snapshot = call.uid,
                                  !.attempts = 1, !.error = FALSE], pos, Watched)
  /\ poll' = Asked
  /\ call' = [call EXCEPT !.state = "confirming"]
  /\ UNCHANGED <<log, pos, gone>>

DeleteFails ==
  /\ call.state = "failed"
  /\ page' = [page EXCEPT !.error = TRUE]
  /\ call' = NoCall
  /\ UNCHANGED <<log, pos, poll, gone>>

(* k8sGet answers with what is stored under the name, or fails.            *)
ServerGets ==
  /\ poll.state = "asked"
  /\ \/ poll' = [state |-> IF Stored = Absent THEN "notFound" ELSE "found", uid |-> Stored.uid]
     \/ poll' = [state |-> "failed", uid |-> None]
  /\ UNCHANGED <<log, pos, page, call, gone>>

NotFoundOrFailed == poll.state \in {"notFound", "failed"}        \* mutant
NotFound == poll.state = "notFound"

(* The snapshot is dropped; the deleted uid stays until the watch agrees.  *)
PollFinds404 ==
  /\ NotFound
  /\ page' = Effects([page EXCEPT !.snapshot = None], pos, Watched)
  /\ poll' = NoPoll /\ call' = NoCall
  /\ gone' = gone \cup {page.deleted}
  /\ UNCHANGED <<log, pos>>

FailKeepsUid(p) == [p EXCEPT !.snapshot = None, !.error = TRUE]  \* mutant
FailDeletePoll(p) == [p EXCEPT !.snapshot = None, !.deleted = None, !.error = TRUE]

LastAttempt == page.attempts >= MaxAttempts

PollGivesUp ==
  /\ poll.state \in {"found", "failed"} /\ ~NotFound /\ LastAttempt
  /\ page' = Effects(FailDeletePoll(page), pos, Watched)
  /\ poll' = NoPoll /\ call' = NoCall
  /\ UNCHANGED <<log, pos, gone>>

PollWaits ==
  /\ poll.state \in {"found", "failed"} /\ ~NotFound /\ ~LastAttempt
  /\ poll' = [state |-> "timer", uid |-> None]
  /\ UNCHANGED <<log, pos, page, call, gone>>

NotCounted(p) == p                                               \* mutant
Counted(p) == [p EXCEPT !.attempts = @ + 1]

PollAgain ==
  /\ poll.state = "timer"
  /\ page' = Counted(page)
  /\ poll' = Asked
  /\ UNCHANGED <<log, pos, call, gone>>

-----------------------------------------------------------------------------
Answers == ServerDeletes \/ DeleteSucceeds \/ DeleteFails \/ ServerGets
Polls == PollFinds404 \/ PollGivesUp \/ PollWaits \/ PollAgain

Next == OtherWrites \/ Watch \/ MissingTimer \/ Delete \/ Answers \/ Polls

(* Requests are answered and timers fire. Neither the watch nor the        *)
(* finalizers are obliged to anything.                                     *)
Fairness == WF_vars(Answers) /\ WF_vars(Polls) /\ WF_vars(MissingTimer)

Spec == Init /\ [][Next]_vars /\ Fairness

-----------------------------------------------------------------------------
Entries == [uid : Nat, ending : BOOLEAN]

TypeOK ==
  /\ log \in Seq(Entries) /\ log # <<>>
  /\ pos \in 0..Len(log)
  /\ page \in [deleted : Nat, snapshot : Nat, attempts : 0..MaxAttempts, missing : BOOLEAN, error : BOOLEAN]
  /\ call \in [state : {"none", "sent", "done", "failed", "confirming"}, uid : Nat]
  /\ poll \in [state : {"none", "asked", "found", "notFound", "failed", "timer"}, uid : Nat]
  /\ gone \subseteq Nat

(* What the page reports deleted is deleted: nothing of that uid is stored *)
(* ("Confirm absence via GET - do not rely on the watch alone").           *)
GoneIsGone == \A u \in gone : Stored.uid # u

(* And it is never shown again, however stale the watch is and whatever is *)
(* created next ("Ignore watch data that still points at the resource we   *)
(* just deleted").                                                         *)
GoneNotShown == \A u \in gone : Shown.uid # u

(* The page does not stay in the deleting state (DELETE_ABSENCE_           *)
(* MAX_ATTEMPTS: "so a stuck CR or non-404 GET cannot loop forever").      *)
DeletionEnds == page.snapshot # None ~> page.snapshot = None

(* Once the watch has caught up for good, the page shows what is stored,   *)
(* whatever failed on the way, a stuck finalizer or a recreation.          *)
ShowsStored == <>[](pos = Len(log)) => <>[](Shown.uid = Stored.uid)

(* The page stops waiting for a resource even if the watch never loads.    *)
PageResolves == []<>Resolved

(* Together: the page ends up showing what there is, or that there is not. *)
SettlesOnStored == ShowsStored /\ PageResolves
=============================================================================
