---------------------------- MODULE HealthRules ----------------------------
(***************************************************************************)
(* Health rules that users customise in one shared resource, the           *)
(* FlowCollector: the manager of the Network Health page resets an         *)
(* override (web/src/components/forms/healthRule/manager.tsx), the wizard  *)
(* writes or resets one (healthRule/wizard.tsx over resource-watcher.tsx), *)
(* and others, the operator or other users, write to it too.               *)
(*                                                                         *)
(* Kubernetes stores versions of the resource: log[v] is version v, and an *)
(* update of a copy is stored only if the copy has the last version.       *)
(***************************************************************************)
EXTENDS Naturals, Sequences

CONSTANTS
  Templates,    \* names of the health rules
  Variants,     \* what an override can say
  Rests,        \* values of the rest of the FlowCollector
  Clicks,       \* clicks on the confirmation of a reset, which may overlap
  Attempts,     \* attempts of a reset (5 in the code)
  MaxVersion    \* bound: version from which nobody else writes, and after which no reset is confirmed

Default == "default"          \* no override: the operator's rule applies
NoTemplate == "none"
RestOfExample == "example"

ASSUME TemplatesAssumption ==
  /\ Default \notin Variants /\ NoTemplate \notin Templates
  /\ RestOfExample \notin Rests /\ Rests # {}
  /\ Attempts \in Nat \ {0} /\ MaxVersion \in Nat \ {0}

FlowCollectors == [rules : [Templates -> Variants \cup {Default}], rest : Rests \cup {RestOfExample}]

(* The example that the operator ships, shown until the resource is known. *)
Example == [rules |-> [t \in Templates |-> Default], rest |-> RestOfExample]

VARIABLES
  log,       \* the versions of the FlowCollector
  seen,      \* last version delivered to the watches of manager and wizard
  manager,   \* pending: template that it is asked to reset; busy: its button spins
  resets,    \* for each click, its run of updateFlowCollectorWithRetry
  wizard     \* the wizard

rulesVars == <<log, seen, manager, resets, wizard>>

Stored == log[Len(log)]

(* A copy of the resource: its metadata hold the version.                  *)
Copy(v) == [version |-> v, fc |-> IF v = 0 THEN Example ELSE log[v]]
FlowCollectorCopies == [version : Nat, fc : FlowCollectors]

(* mergeHealthRuleIntoFlowCollector and removeHealthRuleFromFlowCollector  *)
WithRule(fc, t, v) == [fc EXCEPT !.rules[t] = v]
Reset(fc, t) == WithRule(fc, t, Default)

(* An update that changes nothing keeps the version.                       *)
Store(fc) == log' = IF fc = Stored THEN log ELSE Append(log, fc)

SeedKept(prev, v) == prev                                        \* mutant
(* syncFlowCollectorMeta: the metadata follow the watch, the data do not.  *)
Synced(prev, v) == [prev EXCEPT !.version = v]

-----------------------------------------------------------------------------
Idle == [pc |-> "idle", template |-> NoTemplate, copy |-> [version |-> 0, fc |-> Example],
         attempt |-> 0, failed |-> FALSE]

NoQuestion == [pending |-> NoTemplate, busy |-> FALSE]

NoRequest == [template |-> NoTemplate, create |-> FALSE, copy |-> [version |-> 0, fc |-> Example]]
Closed == [open |-> FALSE, copy |-> [version |-> 0, fc |-> Example], request |-> NoRequest]

RulesInit ==
  /\ \E fc \in [rules : [Templates -> Variants \cup {Default}], rest : Rests] : log = <<fc>>
  /\ seen = [manager |-> 0, wizard |-> 0]
  /\ manager = NoQuestion
  /\ resets = [c \in Clicks |-> Idle]
  /\ wizard = Closed

(* The watches of the two pages lag behind, each on its own.               *)
Watch ==
  \/ \E v \in (seen.manager + 1)..Len(log) :
       seen' = [seen EXCEPT !.manager = v] /\ UNCHANGED <<log, manager, resets, wizard>>
  \/ \E v \in (seen.wizard + 1)..Len(log) :
       /\ seen' = [seen EXCEPT !.wizard = v]
       /\ wizard' = IF wizard.open THEN [wizard EXCEPT !.copy = Synced(@, v)] ELSE wizard
       /\ UNCHANGED <<log, manager, resets>>

(* Another writer, whose own conflicts are its own.                        *)
OtherWrites ==
  /\ Len(log) < MaxVersion
  /\ \/ \E r \in Rests : Store([Stored EXCEPT !.rest = r])
     \/ \E t \in Templates, v \in Variants : Store(WithRule(Stored, t, v))
  /\ UNCHANGED <<seen, manager, resets, wizard>>

-----------------------------------------------------------------------------
(* The manager: choose a template that the watch shows overridden, confirm *)
(* (the button spins, but is not disabled, while a reset runs), or cancel. *)
(* The end of any reset stops the button; a reset that succeeds closes the *)
(* question, whatever it is about by then.                                 *)
ChooseReset ==
  /\ manager.pending = NoTemplate /\ seen.manager # 0
  /\ \E t \in Templates :
       /\ log[seen.manager].rules[t] # Default
       /\ manager' = [manager EXCEPT !.pending = t]
  /\ UNCHANGED <<log, seen, resets, wizard>>

CancelReset ==
  /\ manager.pending # NoTemplate /\ ~manager.busy
  /\ manager' = NoQuestion
  /\ UNCHANGED <<log, seen, resets, wizard>>

ConfirmReset(c) ==
  /\ manager.pending # NoTemplate
  /\ resets[c].pc = "idle" /\ Len(log) <= MaxVersion
  /\ resets' = [resets EXCEPT ![c] = [pc |-> "update", template |-> manager.pending, attempt |-> 0,
                                      copy |-> Copy(seen.manager), failed |-> FALSE]]
  /\ manager' = [manager EXCEPT !.busy = TRUE]
  /\ UNCHANGED <<log, seen, wizard>>

Ended(c, failed) == [resets EXCEPT ![c] = [Idle EXCEPT !.failed = failed]]

LastAttempt(c) == resets[c].attempt = Attempts - 1

GiveUpQuietly(c) == Ended(c, FALSE)                              \* mutant
GiveUpNever(c) == [resets EXCEPT ![c].pc = "wait"]               \* mutant
GiveUp(c) == Ended(c, TRUE)

UpdateAccepted(c) ==
  /\ resets[c].pc = "update" /\ resets[c].copy.version = Len(log)
  /\ Store(Reset(resets[c].copy.fc, resets[c].template))
  /\ resets' = Ended(c, FALSE)
  /\ manager' = NoQuestion
  /\ UNCHANGED <<seen, wizard>>

UpdateRefused(c) ==
  /\ resets[c].pc = "update" /\ resets[c].copy.version # Len(log)
  /\ resets' = IF LastAttempt(c) THEN GiveUp(c)
               ELSE [resets EXCEPT ![c].pc = "wait", ![c].attempt = @ + 1]
  /\ manager' = IF LastAttempt(c) THEN [manager EXCEPT !.busy = FALSE] ELSE manager
  /\ UNCHANGED <<log, seen, wizard>>

RefetchMetaOnly(c) == [resets[c].copy EXCEPT !.version = Len(log)]  \* mutant
Refetch(c) == Copy(Len(log))

(* After a second, k8sGet; the update that follows may be late again.      *)
Retry(c) ==
  /\ resets[c].pc = "wait"
  /\ resets' = [resets EXCEPT ![c].pc = "update", ![c].copy = Refetch(c)]
  /\ UNCHANGED <<log, seen, manager, wizard>>

(* An error that is not a conflict, before the update is stored or after.  *)
ResetFails(c) ==
  /\ resets[c].pc # "idle"
  /\ \/ UNCHANGED log
     \/ /\ resets[c].pc = "update" /\ resets[c].copy.version = Len(log)
        /\ Store(Reset(resets[c].copy.fc, resets[c].template))
  /\ resets' = GiveUp(c)
  /\ manager' = [manager EXCEPT !.busy = FALSE]
  /\ UNCHANGED <<seen, wizard>>

-----------------------------------------------------------------------------
(* The wizard keeps what it was first given, the example if the watch has  *)
(* nothing yet.                                                            *)
OpenWizard ==
  /\ ~wizard.open
  /\ wizard' = [Closed EXCEPT !.open = TRUE, !.copy = Copy(seen.wizard)]
  /\ UNCHANGED <<log, seen, manager, resets>>

Saving == wizard.request # NoRequest

LeaveWizard ==
  /\ wizard.open /\ ~Saving
  /\ wizard' = Closed
  /\ UNCHANGED <<log, seen, manager, resets>>

(* onSaveTemplate, or onConfirmDanger for a reset: the copy is changed     *)
(* before it is known whether the write is accepted.                       *)
Save ==
  /\ wizard.open /\ ~Saving /\ Len(log) < MaxVersion
  /\ \E t \in Templates, v \in Variants \cup {Default} :
       LET merged == [wizard.copy EXCEPT !.fc = WithRule(@, t, v)]
       IN  /\ v = Default => wizard.copy.fc.rules[t] # Default
           /\ wizard' = [wizard EXCEPT !.copy = merged,
                !.request = [template |-> t, create |-> seen.wizard = 0, copy |-> merged]]
  /\ UNCHANGED <<log, seen, manager, resets>>

IsLatest(request) == ~request.create /\ request.copy.version = Len(log)

(* k8sUpdate; the page of the health rules replaces the wizard.            *)
SaveAccepted ==
  /\ Saving /\ IsLatest(wizard.request)
  /\ Store(wizard.request.copy.fc)
  /\ wizard' = Closed
  /\ UNCHANGED <<seen, manager, resets>>

(* A conflict, a k8sCreate of what exists, an update without version, or   *)
(* any other error, before the update is stored or after: it is shown, and *)
(* the user can save again.                                                *)
SaveFails ==
  /\ Saving
  /\ UNCHANGED log \/ (IsLatest(wizard.request) /\ Store(wizard.request.copy.fc))
  /\ wizard' = [wizard EXCEPT !.request = NoRequest]
  /\ UNCHANGED <<seen, manager, resets>>

-----------------------------------------------------------------------------
UpdateAnswered(c) == UpdateAccepted(c) \/ UpdateRefused(c) \/ ResetFails(c)

RulesNext ==
  \/ Watch \/ OtherWrites
  \/ ChooseReset \/ CancelReset
  \/ \E c \in Clicks : ConfirmReset(c) \/ Retry(c) \/ UpdateAnswered(c)
  \/ OpenWizard \/ LeaveWizard \/ Save \/ SaveAccepted \/ SaveFails

(* Requests are answered and timers fire; nothing obliges the users.       *)
Fairness == \A c \in Clicks : WF_rulesVars(Retry(c)) /\ WF_rulesVars(UpdateAnswered(c))

RulesSpec == RulesInit /\ [][RulesNext]_rulesVars /\ Fairness

-----------------------------------------------------------------------------
RulesTypeOK ==
  /\ log \in Seq(FlowCollectors) /\ log # <<>>
  /\ seen \in [{"manager", "wizard"} -> 0..Len(log)]
  /\ manager \in [pending : Templates \cup {NoTemplate}, busy : BOOLEAN]
  /\ resets \in [Clicks -> [pc : {"idle", "update", "wait"}, template : Templates \cup {NoTemplate},
                           copy : FlowCollectorCopies, attempt : 0..(Attempts - 1), failed : BOOLEAN]]
  /\ wizard \in [open : BOOLEAN, copy : FlowCollectorCopies,
                 request : [template : Templates \cup {NoTemplate}, create : BOOLEAN, copy : FlowCollectorCopies]]

(* The write of an update changes one rule at most.                        *)
OnlyRule(t, v) == Stored' = WithRule(Stored, t, v)

(* Whatever was written since the watch or the first attempts of a reset   *)
(* (k8sUpdate, k8sGet and again k8sUpdate), and whatever clicks overlap, a *)
(* reset that is stored removes its override and changes nothing else.     *)
ResetKeepsOthers ==
  [][\A c \in Clicks : UpdateAccepted(c) \/ ResetFails(c) =>
       log' = log \/ OnlyRule(resets[c].template, Default)]_rulesVars

(* A reset that ends without an error removed the override: none is        *)
(* dropped silently ("so a naive update would 409 on a stale               *)
(* resourceVersion and silently drop the user's reset").                   *)
ResetIsDone ==
  [][\A c \in Clicks : resets[c].pc # "idle" /\ resets'[c] = Idle =>
       Stored'.rules[resets[c].template] = Default]_rulesVars

(* Once the watch has the resource, what the wizard would save has the     *)
(* version that the watch has, so that it is not refused for having none   *)
(* (syncFlowCollectorMeta).                                                *)
VersionTracked == wizard.open => wizard.copy.version = seen.wizard

(* A reset ends, in an error if need be: the confirmation stops spinning.  *)
ResetEnds == \A c \in Clicks : resets[c].pc # "idle" ~> resets[c].pc = "idle"
=============================================================================
