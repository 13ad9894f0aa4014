---------------------- MODULE ResourceDeletion_proofs ----------------------
(***************************************************************************)
(* Proofs about ResourceDeletion, for any number of attempts and of        *)
(* recreations.                                                            *)
(***************************************************************************)
EXTENDS ResourceDeletion, TLAPS

(* A uid is stored in one run of the log, from the place it names on.      *)
LogOK ==
  /\ \A i \in 1..Len(log) : log[i].uid <= i
  /\ \A i, j \in 1..Len(log) :
       i <= j /\ log[j].uid # None /\ log[j].uid <= i => log[i].uid = log[j].uid

(* What the page deletes is what its watch showed, and the deleted uid is  *)
(* kept just as long as the watch shows it.                                *)
PageOK ==
  /\ page.deleted <= pos /\ call.uid <= pos
  /\ page.snapshot # None => page.deleted = page.snapshot
  /\ ConfirmedAbsent(page) => Watched.uid = page.deleted

CallOK ==
  /\ call.state \in {"sent", "done", "failed"} =>
       page.deleted = None /\ page.snapshot = None /\ call.uid # None
  /\ poll.state # "none" => page.snapshot # None
  /\ poll.state = "notFound" => Stored.uid # page.deleted
  /\ poll.state = "timer" => page.attempts < MaxAttempts

(* What is gone is not stored, is not being deleted, and is ignored or was *)
(* left behind by the watch.                                               *)
GoneOK ==
  /\ \A u \in gone : u # None /\ u <= pos /\ Stored.uid # u
  /\ page.snapshot \notin gone /\ call.uid \notin gone
  /\ \A u \in gone : u = page.deleted \/ Watched.uid # u

IInv == TypeOK /\ LogOK /\ PageOK /\ CallOK /\ GoneOK

-----------------------------------------------------------------------------
LEMMA EntryTypes == Absent \in Entries /\ Absent.uid = 0 /\ None = 0
BY DEF Absent, Entries, None

LEMMA InitInv == Init => IInv
<1> SUFFICES ASSUME Init PROVE IInv
  OBVIOUS
<1>1. log \in Seq(Entries) /\ log # <<>> /\ Len(log) = 1 /\ log[1].uid \in {0, 1}
  <2>1. PICK e \in Entries : log = <<e>> /\ e.uid \in {0, 1}
    <3>1. [uid |-> 1, ending |-> FALSE] \in Entries
      BY DEF Entries
    <3> QED BY <3>1, EntryTypes DEF Init
  <2> QED BY <2>1
<1>2. TypeOK
  BY <1>1, DeletionAssumption DEF Init, TypeOK, NoCall, NoPoll, None
<1>3. LogOK
  <2>1. \A i \in 1..Len(log) : i = 1
    BY <1>1
  <2> QED BY <1>1, <2>1 DEF LogOK
<1>4. PageOK /\ CallOK /\ GoneOK
  BY DEF Init, PageOK, CallOK, GoneOK, NoCall, NoPoll, ConfirmedAbsent, None
<1> QED BY <1>2, <1>3, <1>4 DEF IInv

(* The log only grows, and what is stored is new or was there already.     *)
Grows ==
  /\ log' \in Seq(Entries) /\ log' # <<>> /\ Len(log') >= Len(log)
  /\ \A i \in 1..Len(log) : log'[i] = log[i]
  /\ \A u \in 1..Len(log) : Stored.uid # u => Stored'.uid # u

Writes == Created \/ (\E fin \in BOOLEAN : Deleted(fin)) \/ Finalized \/ UNCHANGED log

LEMMA Written == ASSUME IInv, Writes PROVE Grows /\ LogOK'
<1> DEFINE n == Len(log)
<1>1. log \in Seq(Entries) /\ n \in Nat \ {0} /\ Stored \in Entries /\ LogOK
  BY DEF IInv, TypeOK, Stored
<1>2. CASE UNCHANGED log
  BY <1>1, <1>2 DEF Grows, LogOK, IInv, TypeOK, Stored
<1>3. CASE ~UNCHANGED log
  <2>1. PICK e \in Entries : /\ log' = Append(log, e)
                             /\ e.uid = n + 1 \/ e.uid = Stored.uid \/ e.uid = None
    <3>1. CASE Created
      <4>1. [uid |-> n + 1, ending |-> FALSE] \in Entries
        BY <1>1 DEF Entries
      <4> QED BY <3>1, <4>1 DEF Created
    <3>2. CASE \E fin \in BOOLEAN : Deleted(fin)
      <4>1. [Stored EXCEPT !.ending = TRUE] \in Entries /\ [Stored EXCEPT !.ending = TRUE].uid = Stored.uid
        BY <1>1 DEF Entries
      <4> QED BY <3>2, <4>1, EntryTypes DEF Deleted
    <3>3. CASE Finalized
      BY <3>3, EntryTypes DEF Finalized
    <3> QED BY <3>1, <3>2, <3>3, <1>3 DEF Writes
  <2>2. Len(log') = n + 1 /\ log'[n + 1] = e /\ \A i \in 1..n : log'[i] = log[i]
    BY <1>1, <2>1
  <2>3. Stored' = e
    BY <2>2 DEF Stored
  <2>4. Grows
    BY <1>1, <2>1, <2>2, <2>3 DEF Grows, None
  <2>5. LogOK'
    <3>1. ASSUME NEW i \in 1..(n + 1) PROVE log'[i].uid <= i
      <4>1. CASE i <= n
        BY <4>1, <1>1, <2>2 DEF LogOK
      <4>2. CASE i = n + 1
        <5>1. Stored.uid <= n
          BY <1>1 DEF LogOK, Stored
        <5>2. Stored.uid \in Nat /\ i \in Nat /\ log'[i] = e
          BY <4>2, <1>1, <2>2 DEF Entries
        <5> QED BY <4>2, <5>1, <5>2, <1>1, <2>1, EntryTypes
      <4> QED BY <4>1, <4>2, <1>1
    <3>2. ASSUME NEW i \in 1..(n + 1), NEW j \in 1..(n + 1), i <= j, log'[j].uid # None, log'[j].uid <= i
          PROVE  log'[i].uid = log'[j].uid
      <4>1. CASE j <= n
        BY <4>1, <3>2, <1>1, <2>2 DEF LogOK
      <4>2. CASE j = n + 1 /\ i <= n
        <5>1. e.uid = Stored.uid
          BY <4>2, <3>2, <2>1, <2>2
        <5>2. log[i].uid = log[n].uid
          BY <4>2, <5>1, <3>2, <1>1, <2>2 DEF LogOK, Stored
        <5> QED BY <4>2, <5>1, <5>2, <2>2 DEF Stored
      <4>3. CASE j = n + 1 /\ i = n + 1
        BY <4>3
      <4> QED BY <4>1, <4>2, <4>3, <1>1
    <3> QED BY <2>2, <3>1, <3>2 DEF LogOK
  <2> QED BY <2>4, <2>5
<1> QED BY <1>2, <1>3

LEMMA NothingWritten == ASSUME IInv, UNCHANGED log PROVE Grows /\ LogOK'
BY Written DEF Writes

(* The rest of a step that leaves the page and its watch alone.            *)
LEMMA QuietStep ==
  ASSUME IInv, Writes, UNCHANGED <<pos, page, gone>>,
         call' \in [state : {"none", "sent", "done", "failed", "confirming"}, uid : Nat],
         poll' \in [state : {"none", "asked", "found", "notFound", "failed", "timer"}, uid : Nat],
         call'.uid <= pos, call'.uid \notin gone, CallOK'
  PROVE  IInv'
<1>1. Grows /\ LogOK'
  BY Written
<1>2. Watched' = Watched
  BY <1>1 DEF Watched, Grows, IInv, TypeOK
<1>3. TypeOK'
  BY <1>1 DEF IInv, TypeOK, Grows
<1>4. PageOK'
  BY <1>2 DEF IInv, PageOK, ConfirmedAbsent
<1>5. GoneOK'
  <2>1. \A u \in gone : u \in 1..Len(log)
    BY DEF IInv, GoneOK, TypeOK, None
  <2>2. \A u \in gone : Stored'.uid # u
    BY <2>1, <1>1 DEF IInv, GoneOK, Grows
  <2> QED BY <2>2, <1>2 DEF IInv, GoneOK
<1> QED BY <1>1, <1>3, <1>4, <1>5 DEF IInv

-----------------------------------------------------------------------------
Pages == [deleted : Nat, snapshot : Nat, attempts : 0..MaxAttempts, missing : BOOLEAN, error : BOOLEAN]

(* The effects only forget the deleted uid, once the watch has left it.    *)
LEMMA EffectsType ==
  ASSUME NEW p \in Pages, NEW i \in Nat, NEW w \in Entries
  PROVE  LET q == Effects(p, i, w)
         IN  /\ q \in Pages
             /\ q.snapshot = p.snapshot /\ q.attempts = p.attempts
             /\ q.deleted = IF ConfirmedAbsent(p) /\ w.uid # p.deleted THEN None ELSE p.deleted
<1> DEFINE r == IF ConfirmedAbsent(p) /\ w.uid # p.deleted THEN [p EXCEPT !.deleted = None] ELSE p
<1>1. /\ r \in Pages /\ r.snapshot = p.snapshot /\ r.attempts = p.attempts
      /\ r.deleted = IF ConfirmedAbsent(p) /\ w.uid # p.deleted THEN None ELSE p.deleted
  BY DEF Pages, None
<1>2. Effects(p, i, w) = [r EXCEPT !.missing = @ /\ Unknown(r, i, w)]
  BY DEF Effects
<1>3. (r.missing /\ Unknown(r, i, w)) \in BOOLEAN
  BY <1>1 DEF Pages, Unknown
<1> HIDE DEF r
<1> QED BY <1>1, <1>2, <1>3 DEF Pages

LEMMA WatchedType == ASSUME TypeOK PROVE Watched \in Entries /\ Stored \in Entries
BY EntryTypes DEF TypeOK, Watched, Stored

(* What the watch has left, it does not show again.                        *)
LEMMA WatchLeaves ==
  ASSUME IInv, NEW u \in Nat \ {0}, u <= pos, Watched.uid # u, NEW i \in pos..Len(log)
  PROVE  log[i].uid # u
<1>1. log \in Seq(Entries) /\ pos \in 1..Len(log) /\ Watched = log[pos] /\ i \in 1..Len(log)
  BY DEF IInv, TypeOK, Watched
<1>2. log[i].uid = u => log[pos].uid = log[i].uid
  BY <1>1 DEF IInv, LogOK, None
<1> QED BY <1>1, <1>2

LEMMA WatchInv == ASSUME IInv, Watch PROVE IInv'
<1>1. PICK i \in (pos + 1)..Len(log) : pos' = i /\ page' = Effects(page, i, log[i])
  BY DEF Watch
<1>2. UNCHANGED <<log, call, poll, gone>>
  BY DEF Watch
<1>3. /\ log \in Seq(Entries) /\ pos \in Nat /\ page \in Pages /\ i \in 1..Len(log) /\ i > pos
      /\ log[i] \in Entries /\ Watched' = log[i] /\ Stored' = Stored
  BY <1>1, <1>2 DEF IInv, TypeOK, Pages, Watched, Stored
<1>4. /\ page' \in Pages /\ page'.snapshot = page.snapshot /\ page'.attempts = page.attempts
      /\ page'.deleted = IF ConfirmedAbsent(page) /\ log[i].uid # page.deleted THEN None ELSE page.deleted
  <2> DEFINE w == log[i]
  <2>1. i \in Nat /\ w \in Entries /\ page' = Effects(page, i, w)
    BY <1>1, <1>3
  <2> HIDE DEF w
  <2>2. /\ page' \in Pages /\ page'.snapshot = page.snapshot /\ page'.attempts = page.attempts
        /\ page'.deleted = IF ConfirmedAbsent(page) /\ w.uid # page.deleted THEN None ELSE page.deleted
    BY <2>1, <1>3, EffectsType
  <2> QED BY <2>2 DEF w
<1>5. TypeOK'
  BY <1>1, <1>2, <1>3, <1>4 DEF IInv, TypeOK, Pages
<1>6. LogOK'
  BY <1>2 DEF IInv, LogOK
<1>7. PageOK'
  BY <1>1, <1>2, <1>3, <1>4 DEF IInv, TypeOK, PageOK, ConfirmedAbsent, None, Pages
<1>8. CallOK'
  BY <1>2, <1>3, <1>4 DEF IInv, CallOK, ConfirmedAbsent, None
<1>9. GoneOK'
  <2>1. \A u \in gone : u # None /\ u <= pos' /\ Stored'.uid # u
    BY <1>1, <1>3 DEF IInv, GoneOK, TypeOK
  <2>2. ASSUME NEW u \in gone PROVE u = page'.deleted \/ Watched'.uid # u
    <3>1. u \in Nat \ {0} /\ u <= pos /\ u # page.snapshot
      BY DEF IInv, GoneOK, TypeOK, None
    <3>2. CASE u = page.deleted
      BY <3>1, <3>2, <1>3, <1>4 DEF ConfirmedAbsent, IInv, PageOK
    <3>3. CASE u # page.deleted
      <4>1. Watched.uid # u /\ i \in pos..Len(log)
        BY <3>3, <1>1, <1>3 DEF IInv, GoneOK
      <4> QED BY <3>1, <4>1, <1>3, WatchLeaves
    <3> QED BY <3>2, <3>3
  <2> QED BY <2>1, <2>2, <1>2, <1>4 DEF IInv, GoneOK
<1> QED BY <1>5, <1>6, <1>7, <1>8, <1>9 DEF IInv

(* The rest of a step of the page, which leaves the log and its watch.     *)
LEMMA PageStep ==
  ASSUME IInv, UNCHANGED <<log, pos>>, page' \in Pages, gone' \subseteq Nat,
         call' \in [state : {"none", "sent", "done", "failed", "confirming"}, uid : Nat],
         poll' \in [state : {"none", "asked", "found", "notFound", "failed", "timer"}, uid : Nat],
         PageOK', CallOK', GoneOK'
  PROVE  IInv'
BY NothingWritten DEF IInv, TypeOK, Pages

-----------------------------------------------------------------------------
Calls == [state : {"none", "sent", "done", "failed", "confirming"}, uid : Nat]
PollStates == [state : {"none", "asked", "found", "notFound", "failed", "timer"}, uid : Nat]

LEMMA Types == ASSUME IInv PROVE /\ page \in Pages /\ call \in Calls /\ poll \in PollStates
                                 /\ pos \in Nat /\ Watched \in Entries /\ gone \subseteq Nat
                                 /\ NoCall \in Calls /\ NoPoll \in PollStates /\ Asked \in PollStates
BY WatchedType DEF IInv, TypeOK, Pages, Calls, PollStates, NoCall, NoPoll, Asked, None

LEMMA OtherWritesInv == ASSUME IInv, OtherWrites PROVE IInv'
<1>1. Writes /\ UNCHANGED <<pos, page, call, poll, gone>>
  BY DEF OtherWrites, Writes
<1>2. Grows
  BY <1>1, Written
<1>3. CallOK'
  <2>1. poll.state = "notFound" => page.deleted \in 1..Len(log)
    BY DEF IInv, TypeOK, PageOK, CallOK, None
  <2>2. poll.state = "notFound" => Stored'.uid # page.deleted
    BY <2>1, <1>2 DEF IInv, CallOK, Grows
  <2> QED BY <2>2, <1>1 DEF IInv, CallOK
<1> QED BY <1>1, <1>3, Types, QuietStep DEF Calls, PollStates, IInv, PageOK, GoneOK

LEMMA TimerInv == ASSUME IInv, MissingTimer PROVE IInv'
<1>1. /\ page' = [page EXCEPT !.missing = TRUE] /\ UNCHANGED <<log, pos, call, poll, gone>>
      /\ Watched' = Watched /\ Stored' = Stored
  BY DEF MissingTimer, Watched, Stored
<1>2. /\ page' \in Pages /\ page'.deleted = page.deleted /\ page'.snapshot = page.snapshot
      /\ page'.attempts = page.attempts
  BY <1>1, Types DEF Pages
<1>3. PageOK' /\ CallOK' /\ GoneOK'
  BY <1>1, <1>2 DEF IInv, PageOK, CallOK, GoneOK, ConfirmedAbsent
<1> QED BY <1>1, <1>2, <1>3, Types, PageStep DEF Calls, PollStates

(* What can be deleted is what the watch shows: nothing is being deleted.  *)
LEMMA DeleteInv == ASSUME IInv, Delete PROVE IInv'
<1>1. page.snapshot = None /\ Shown = Watched /\ Watched.uid # None /\ Watched.uid # page.deleted
  BY DEF Delete, Shown, IsCRPresent, Absent
<1>2. page.deleted = None
  BY <1>1 DEF IInv, PageOK, ConfirmedAbsent
<1>3. call' = [state |-> "sent", uid |-> Watched.uid] /\ UNCHANGED <<log, pos, page, poll, gone>>
  BY <1>1 DEF Delete
<1>4. Watched.uid <= pos /\ Watched.uid \in Nat
  BY Types, SMTT(30) DEF IInv, LogOK, TypeOK, Watched, Absent, Entries, None
<1>5. Watched.uid \notin gone
  BY <1>1, <1>2 DEF IInv, GoneOK
<1>6. call' \in Calls
  BY <1>3, <1>4 DEF Calls
<1>7. CallOK'
  BY <1>1, <1>2, <1>3 DEF IInv, CallOK, Stored
<1> QED BY <1>3, <1>4, <1>5, <1>6, <1>7, Types, QuietStep DEF Calls, PollStates, Writes

LEMMA ServerDeletesInv == ASSUME IInv, ServerDeletes PROVE IInv'
<1>1. Writes /\ UNCHANGED <<pos, page, poll, gone>> /\ call.state = "sent"
  BY DEF ServerDeletes, Writes
<1>2. call' \in Calls /\ call'.uid = call.uid /\ call'.state \in {"done", "failed"}
  BY Types DEF ServerDeletes, Calls
<1>3. CallOK'
  BY <1>1, <1>2 DEF IInv, CallOK
<1> QED BY <1>1, <1>2, <1>3, Types, QuietStep DEF Calls, PollStates, IInv, PageOK, GoneOK

LEMMA DeleteSucceedsInv == ASSUME IInv, DeleteSucceeds PROVE IInv'
<1> DEFINE p == [page EXCEPT !.deleted = call.uid, !.snapshot = call.uid, !.attempts = 1, !.error = FALSE]
<1>1. p \in Pages /\ p.deleted = call.uid /\ p.snapshot = call.uid
  <2>1. 1 \in 0..MaxAttempts
    BY DeletionAssumption
  <2> QED BY <2>1, Types DEF Pages, Calls
<1>2. call.uid # None /\ page.deleted = None /\ page.snapshot = None
  BY DEF DeleteSucceeds, IInv, CallOK
<1>3. page' = Effects(p, pos, Watched) /\ UNCHANGED <<log, pos, gone>> /\ poll' = Asked
      /\ Watched' = Watched /\ Stored' = Stored
  BY DEF DeleteSucceeds, Watched, Stored
<1>4. ~ConfirmedAbsent(p)
  BY <1>1, <1>2 DEF ConfirmedAbsent
<1> HIDE DEF p
<1>5. page' \in Pages /\ page'.deleted = call.uid /\ page'.snapshot = call.uid
  BY <1>1, <1>3, <1>4, Types, EffectsType
<1>6. call' \in Calls /\ call'.uid = call.uid /\ call'.state = "confirming"
  BY Types DEF DeleteSucceeds, Calls
<1>7. PageOK' /\ CallOK'
  BY <1>2, <1>3, <1>5, <1>6 DEF IInv, PageOK, CallOK, ConfirmedAbsent, Asked
<1>8. GoneOK'
  BY <1>2, <1>3, <1>5, <1>6 DEF IInv, GoneOK
<1> QED BY <1>3, <1>5, <1>6, <1>7, <1>8, Types, PageStep DEF Calls, PollStates

LEMMA DeleteFailsInv == ASSUME IInv, DeleteFails PROVE IInv'
<1>1. /\ page' = [page EXCEPT !.error = TRUE] /\ call' = NoCall /\ UNCHANGED <<log, pos, poll, gone>>
      /\ Watched' = Watched /\ Stored' = Stored
  BY DEF DeleteFails, Watched, Stored
<1>2. /\ page' \in Pages /\ page'.deleted = page.deleted /\ page'.snapshot = page.snapshot
      /\ page'.attempts = page.attempts
  BY <1>1, Types DEF Pages
<1>3. None \notin gone /\ None <= pos
  BY Types DEF IInv, GoneOK, None
<1>4. PageOK' /\ CallOK' /\ GoneOK'
  BY <1>1, <1>2, <1>3 DEF IInv, PageOK, CallOK, GoneOK, ConfirmedAbsent, NoCall
<1> QED BY <1>1, <1>2, <1>4, Types, PageStep DEF Calls, PollStates

LEMMA ServerGetsInv == ASSUME IInv, ServerGets PROVE IInv'
<1>1. UNCHANGED <<log, pos, page, call, gone>> /\ poll.state = "asked" /\ Stored' = Stored
  BY DEF ServerGets, Stored
<1>2. poll' \in PollStates
  BY WatchedType DEF ServerGets, PollStates, None, IInv, Entries
<1>3. poll'.state = "notFound" => Stored = Absent
  BY DEF ServerGets
<1>4. poll'.state \in {"found", "notFound", "failed"}
  BY DEF ServerGets
<1>5. page.snapshot # None /\ page.deleted = page.snapshot
  BY <1>1 DEF IInv, CallOK, PageOK
<1>6. CallOK'
  BY <1>1, <1>3, <1>4, <1>5 DEF IInv, CallOK, Absent
<1> QED BY <1>1, <1>2, <1>6, Types, QuietStep DEF Calls, PollStates, Writes, IInv, PageOK, GoneOK

(* The poll: the resource is not found, and the watch is stale or not.     *)
LEMMA PollFinds404Inv == ASSUME IInv, PollFinds404 PROVE IInv'
<1> DEFINE p == [page EXCEPT !.snapshot = None]
<1>1. p \in Pages /\ p.deleted = page.deleted /\ p.snapshot = None
  BY Types DEF Pages, None
<1>2. /\ page.snapshot # None /\ page.deleted = page.snapshot /\ Stored.uid # page.deleted
  BY DEF PollFinds404, NotFound, IInv, CallOK, PageOK
<1>3. /\ page' = Effects(p, pos, Watched) /\ UNCHANGED <<log, pos>> /\ poll' = NoPoll /\ call' = NoCall
      /\ gone' = gone \cup {page.deleted} /\ Watched' = Watched /\ Stored' = Stored
  BY DEF PollFinds404, Watched, Stored
<1>4. ConfirmedAbsent(p)
  BY <1>1, <1>2 DEF ConfirmedAbsent
<1> HIDE DEF p
<1>5. /\ page' \in Pages /\ page'.snapshot = None
      /\ page'.deleted = IF Watched.uid # page.deleted THEN None ELSE page.deleted
  BY <1>1, <1>3, <1>4, Types, EffectsType
<1>6. page.deleted \in Nat /\ page.deleted <= pos /\ None <= pos
  BY Types DEF IInv, PageOK, Pages, None
<1>7. PageOK' /\ CallOK'
  BY <1>3, <1>5, <1>6 DEF IInv, PageOK, CallOK, ConfirmedAbsent, NoCall, NoPoll
<1>8. GoneOK'
  <2>1. \A u \in gone' : u # None /\ u <= pos' /\ Stored'.uid # u
    BY <1>2, <1>3, <1>6 DEF IInv, GoneOK
  <2>2. \A u \in gone' : u = page'.deleted \/ Watched'.uid # u
    BY <1>2, <1>3, <1>5 DEF IInv, GoneOK
  <2> QED BY <2>1, <2>2, <1>3, <1>5 DEF GoneOK, NoCall
<1> QED BY <1>3, <1>5, <1>6, <1>7, <1>8, Types, PageStep DEF Calls, PollStates

LEMMA PollGivesUpInv == ASSUME IInv, PollGivesUp PROVE IInv'
<1> DEFINE p == FailDeletePoll(page)
<1>1. p \in Pages /\ p.deleted = None /\ p.snapshot = None
  BY Types DEF Pages, None, FailDeletePoll
<1>2. page.snapshot # None /\ page.deleted = page.snapshot /\ page.deleted \notin gone
  BY DEF PollGivesUp, IInv, CallOK, PageOK, GoneOK
<1>3. /\ page' = Effects(p, pos, Watched) /\ UNCHANGED <<log, pos, gone>> /\ poll' = NoPoll /\ call' = NoCall
      /\ Watched' = Watched /\ Stored' = Stored
  BY DEF PollGivesUp, Watched, Stored
<1> HIDE DEF p
<1>4. page' \in Pages /\ page'.snapshot = None /\ page'.deleted = None
  BY <1>1, <1>3, Types, EffectsType
<1>5. None <= pos /\ None \notin gone
  BY Types DEF IInv, GoneOK, None
<1>6. PageOK' /\ CallOK' /\ GoneOK'
  BY <1>2, <1>3, <1>4, <1>5 DEF IInv, PageOK, CallOK, GoneOK, ConfirmedAbsent, NoCall, NoPoll
<1> QED BY <1>3, <1>4, <1>6, Types, PageStep DEF Calls, PollStates

LEMMA PollWaitsInv == ASSUME IInv, PollWaits PROVE IInv'
<1>1. /\ poll' = [state |-> "timer", uid |-> None] /\ UNCHANGED <<log, pos, page, call, gone>>
      /\ poll.state # "none" /\ ~LastAttempt /\ Stored' = Stored
  BY DEF PollWaits, Stored
<1>2. page.attempts < MaxAttempts
  BY <1>1, Types, DeletionAssumption DEF LastAttempt, Pages
<1>3. CallOK' /\ poll' \in PollStates
  BY <1>1, <1>2 DEF IInv, CallOK, PollStates, None
<1> QED BY <1>1, <1>3, Types, QuietStep DEF Calls, PollStates, Writes, IInv, PageOK, GoneOK

LEMMA PollAgainInv == ASSUME IInv, PollAgain PROVE IInv'
<1>1. /\ page' = [page EXCEPT !.attempts = @ + 1] /\ poll' = Asked /\ UNCHANGED <<log, pos, call, gone>>
      /\ poll.state = "timer" /\ Watched' = Watched /\ Stored' = Stored
  BY DEF PollAgain, Counted, Watched, Stored
<1>2. page.attempts + 1 \in 0..MaxAttempts
  BY <1>1, Types, DeletionAssumption DEF IInv, CallOK, Pages
<1>3. page' \in Pages /\ page'.deleted = page.deleted /\ page'.snapshot = page.snapshot
  BY <1>1, <1>2, Types DEF Pages
<1>4. PageOK' /\ CallOK' /\ GoneOK'
  BY <1>1, <1>3 DEF IInv, PageOK, CallOK, GoneOK, ConfirmedAbsent, Asked
<1> QED BY <1>1, <1>3, <1>4, Types, PageStep DEF Calls, PollStates

LEMMA StutterInv == ASSUME IInv, UNCHANGED vars PROVE IInv'
<1>1. UNCHANGED <<log, pos, page, call, poll, gone>> /\ Stored' = Stored
  BY DEF vars, Stored
<1>2. CallOK'
  BY <1>1 DEF IInv, CallOK
<1> QED BY <1>1, <1>2, Types, QuietStep DEF Calls, PollStates, Writes, IInv, PageOK, GoneOK

LEMMA NextInv == IInv /\ [Next]_vars => IInv'
BY OtherWritesInv, WatchInv, TimerInv, DeleteInv, ServerDeletesInv, DeleteSucceedsInv, DeleteFailsInv,
   ServerGetsInv, PollFinds404Inv, PollGivesUpInv, PollWaitsInv, PollAgainInv, StutterInv
   DEF Next, Answers, Polls

-----------------------------------------------------------------------------
(* The watch follows the log, the deleted uid is kept just as long as the  *)
(* watch shows it, and what is gone stays gone.                            *)
THEOREM Invariant == Spec => []IInv
BY InitInv, NextInv, PTL DEF Spec

THEOREM TypeCorrect == Spec => []TypeOK
BY Invariant, PTL DEF IInv

(* What pollUntilGone confirms to be absent is not stored.                 *)
THEOREM Confirmed == Spec => []GoneIsGone
<1>1. IInv => GoneIsGone
  BY DEF IInv, GoneOK, GoneIsGone
<1> QED BY <1>1, Invariant, PTL

(* A resource that the page reported deleted is not shown again, whatever  *)
(* the watch misses (isStaleWatchAfterDelete).                             *)
THEOREM NeverShownAgain == Spec => []GoneNotShown
<1>1. ASSUME IInv, NEW u \in gone PROVE Shown.uid # u
  <2>1. u # None /\ u # page.snapshot /\ (u = page.deleted \/ Watched.uid # u)
    BY <1>1 DEF IInv, GoneOK
  <2>2. CASE page.snapshot # None
    BY <2>1, <2>2 DEF Shown
  <2>3. CASE page.snapshot = None /\ IsCRPresent(page, Watched)
    BY <2>1, <2>3 DEF Shown, IsCRPresent
  <2>4. CASE page.snapshot = None /\ ~IsCRPresent(page, Watched)
    BY <2>1, <2>4 DEF Shown, Absent
  <2> QED BY <2>2, <2>3, <2>4
<1>2. IInv => GoneNotShown
  BY <1>1 DEF GoneNotShown
<1> QED BY <1>2, Invariant, PTL
=============================================================================
