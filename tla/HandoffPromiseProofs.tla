------------------------ MODULE HandoffPromiseProofs ------------------------
(***************************************************************************)
(* The policy loop keeps the promise of HandoffPromise, for every set of   *)
(* torrents and handlers, whatever fails and wherever it crashes; and the  *)
(* promise is what makes hand-offs orderly.                                *)
(***************************************************************************)
EXTENDS HandoffProofs

(***************************************************************************)
(* Who works on a torrent.                                                 *)
(***************************************************************************)

Handles(k, t) == task[k].pc # "idle" /\ task[k].torrent = t
Refreshes(r, t) == refresh[r].pc # "idle" /\ refresh[r].torrent = t

LEMMA WorkersAre ==
    ASSUME NEW t \in Torrents
    PROVE  /\ Workers[t] = {<<"handler", k>> : k \in {k \in Tasks : Handles(k, t)}}
                           \cup {<<"refresh", r>> : r \in {r \in Refreshers : Refreshes(r, t)}}
           /\ Workers'[t] = {<<"handler", k>> : k \in {k \in Tasks : Handles(k, t)'}}
                           \cup {<<"refresh", r>> : r \in {r \in Refreshers : Refreshes(r, t)'}}
<1>1. \A k \in Tasks : k \in LiveTasks /\ task[k].torrent = t <=> Handles(k, t)
  BY DEF LiveTasks, Handles
<1>2. QED  BY DEF Workers, LiveTasks, ActiveRefreshes, Handles, Refreshes

LEMMA WorkersSame ==
    ASSUME NEW t \in Torrents,
           \A k \in Tasks : Handles(k, t)' <=> Handles(k, t),
           \A r \in Refreshers : Refreshes(r, t)' <=> Refreshes(r, t)
    PROVE  Workers'[t] = Workers[t]
BY WorkersAre

\* The mapped variables are functions on the torrents, before and after a step.
LEMMA MappedShape ==
    /\ Workers = [t \in Torrents |-> Workers[t]] /\ Workers' = [t \in Torrents |-> Workers'[t]]
    /\ Paused = [t \in Torrents |-> remote[t].paused]
    /\ Paused' = [t \in Torrents |-> remote'[t].paused]
    /\ Marked = [t \in Torrents |-> remote[t].tags \cap MarkTags # {} \/ t \in retried]
    /\ Marked' = [t \in Torrents |-> remote'[t].tags \cap MarkTags # {} \/ t \in retried']
BY DEF Workers, Paused, Marked, MarkTags

\* A torrent with the same marks, the same pause and the same workers.
SameRow(t) ==
    /\ remote'[t].paused = remote[t].paused
    /\ remote'[t].tags \cap MarkTags = remote[t].tags \cap MarkTags
    /\ t \in retried' <=> t \in retried
Same(t) == SameRow(t) /\ Workers'[t] = Workers[t]

LEMMA StutterSame ==
    ASSUME \A t \in Torrents : Same(t)
    PROVE  UNCHANGED Promise!vars
BY MappedShape DEF Same, SameRow, Promise!vars

\* Work on one torrent is a step of the promise if it is left marked or running.
LEMMA WorkDone ==
    ASSUME TypeOK', PausedMarked', NEW t \in Torrents, Workers[t] # {},
           Workers'[t] \in {Workers[t], {}},
           \A u \in Torrents \ {t} : Same(u)
    PROVE  Promise!Works(t)
<1> DEFINE p == Paused'[t]
           m == Marked'[t]
           w == Workers'[t]
<1>1. p \in BOOLEAN /\ m \in BOOLEAN
  BY MappedShape DEF TypeOK, Row
<1>2. p => m
  BY MappedShape DEF PausedMarked
<1>3. Paused' = [Paused EXCEPT ![t] = p] /\ Marked' = [Marked EXCEPT ![t] = m]
  BY MappedShape DEF Same, SameRow
<1>4. Workers' = [Workers EXCEPT ![t] = w]
  BY MappedShape DEF Same, SameRow
<1>5. QED  BY <1>1, <1>2, <1>3, <1>4 DEF Promise!Works

(***************************************************************************)
(* The steps of the actors.                                                *)
(***************************************************************************)

\* Other torrents are not affected by a call on one of them.
LEMMA OthersSame ==
    ASSUME NEW t \in Torrents,
           \A u \in Torrents \ {t} : remote'[u] = remote[u] /\ (u \in retried' <=> u \in retried),
           \A k \in Tasks, u \in Torrents \ {t} : Handles(k, u)' <=> Handles(k, u),
           \A r \in Refreshers, u \in Torrents \ {t} : Refreshes(r, u)' <=> Refreshes(r, u)
    PROVE  \A u \in Torrents \ {t} : Same(u)
BY WorkersSame DEF Same, SameRow

\* A handler that works alone goes on, or ends and leaves nobody.
LEMMA HandlerWorks ==
    ASSUME TypeOK, SingleDispatcher, PausedMarked', TypeOK',
           NEW k \in Tasks, task[k].pc # "idle", UNCHANGED refresh,
           NEW t \in Torrents, t = task[k].torrent,
           \/ /\ task' = [task EXCEPT ![k] = [task[k] EXCEPT !.pc = task'[k].pc]]
              /\ task'[k].pc # "idle"
           \/ task' = [task EXCEPT ![k] = IdleTask],
           \A u \in Torrents \ {t} : remote'[u] = remote[u] /\ (u \in retried' <=> u \in retried)
    PROVE  Promise!Works(t)
<1>1. task[k] \in Task /\ task \in [Tasks -> Task]
  BY DEF TypeOK
<1>2. \A l \in Tasks \ {k} : task'[l] = task[l]
  BY <1>1
<1>3. (task'[k].pc # "idle" /\ task'[k].torrent = t) \/ task'[k].pc = "idle"
  BY <1>1 DEF Task, IdleTask
<1>4. \A l \in Tasks : Handles(l, t) => l = k
  BY DEF SingleDispatcher, HandleExclusive, LiveTasks, Handles
<1>5. \A r \in Refreshers : ~Refreshes(r, t)
  BY DEF SingleDispatcher, RefreshApart, ActiveRefreshes, Handled, LiveTasks, Refreshes
<1>6. /\ \A l \in Tasks \ {k} : \A u : Handles(l, u)' <=> Handles(l, u)
      /\ \A u \in Torrents \ {t} : ~Handles(k, u) /\ ~Handles(k, u)'
      /\ Handles(k, t)
      /\ Handles(k, t)' <=> task'[k].pc # "idle"
  BY <1>2, <1>3 DEF Handles
<1>7. \A r \in Refreshers : \A u : Refreshes(r, u)' <=> Refreshes(r, u)
  BY DEF Refreshes
<1>8. \A u \in Torrents \ {t} : Same(u)
  BY <1>1, <1>6, <1>7, OthersSame
<1>9. Workers[t] # {}
  <2>1. <<"handler", k>> \in Workers[t]
    BY <1>6, WorkersAre
  <2>2. QED  BY <2>1
<1>10. Workers'[t] \in {Workers[t], {}}
  <2>1. CASE task'[k].pc # "idle"
    BY <1>1, <1>6, <1>7, <2>1, WorkersSame
  <2>2. CASE task'[k].pc = "idle"
    <3>1. \A l \in Tasks : ~Handles(l, t)'
      BY <1>4, <1>6, <2>2
    <3>2. \A r \in Refreshers : ~Refreshes(r, t)'
      BY <1>5, <1>7
    <3>3. Workers'[t] = {}
      BY <1>1, <3>1, <3>2, WorkersAre
    <3>4. QED  BY <3>3
  <2>3. QED  BY <2>1, <2>2
<1>11. QED  BY <1>1, <1>8, <1>9, <1>10, WorkDone

LEMMA HandlePromise ==
    ASSUME TypeOK, SingleDispatcher, PausedMarked', TypeOK', NEW k \in Tasks, Handle(k)
    PROVE  \E t \in Torrents : Promise!Works(t)
<1> USE DEF bookkeeping
<1>1. task[k] \in Task /\ task \in [Tasks -> Task] /\ remote \in [Torrents -> Row]
  BY DEF TypeOK
<1>2. ASSUME NEW s, Continue(k, s)
      PROVE  \/ /\ task' = [task EXCEPT ![k] = [task[k] EXCEPT !.pc = task'[k].pc]]
                /\ task'[k].pc # "idle"
             \/ task' = [task EXCEPT ![k] = IdleTask]
  BY <1>1, <1>2 DEF Continue, Task
<1>3. task[k].pc # "idle"
  BY DEF Handle, Begin, CallReturns, CallRaises, CallStages, MainStages, FailureStages
<1>4. PICK t \in Torrents : t = task[k].torrent
  BY <1>3 DEF TypeOK
<1>5. CASE Begin(k)
  <2>1. /\ task' = [task EXCEPT ![k] = [task[k] EXCEPT !.pc = task'[k].pc]]
        /\ task'[k].pc # "idle" /\ task[k].pc # "idle"
        /\ UNCHANGED <<remote, retried, refresh>>
    BY <1>1, <1>5 DEF Begin, Task
  <2>2. \A u \in Torrents \ {t} : remote'[u] = remote[u] /\ (u \in retried' <=> u \in retried)
    BY <2>1
  <2>3. QED  BY <1>4, <2>1, <2>2, HandlerWorks
<1>6. CASE CallReturns(k)
  <2>1. task[k].pc # "idle" /\ Continue(k, NextStage(task[k].pc)) /\ UNCHANGED refresh
    BY <1>3, <1>6 DEF CallReturns, CallStages, MainStages, FailureStages
  <2>2. \A u \in Torrents \ {t} : remote'[u] = remote[u] /\ (u \in retried' <=> u \in retried)
    BY <1>1, <1>4, <1>6 DEF CallReturns
  <2>3. QED  BY <1>2, <1>4, <2>1, <2>2, HandlerWorks
<1>7. CASE CallRaises(k)
  <2>1. task[k].pc # "idle" /\ Continue(k, FailStage(task[k].pc)) /\ UNCHANGED refresh
    BY <1>3, <1>7 DEF CallRaises, CallStages, MainStages, FailureStages
  <2>2. \A u \in Torrents \ {t} : remote'[u] = remote[u] /\ (u \in retried' <=> u \in retried)
    BY <1>1, <1>4, <1>7 DEF CallRaises, FailedCall
  <2>3. QED  BY <1>2, <1>4, <2>1, <2>2, HandlerWorks
<1>8. QED  BY <1>5, <1>6, <1>7 DEF Handle

\* The batch of a pass: nobody works on its torrents, and each gets a handler
\* of its own.
LEMMA DispatchPromise ==
    ASSUME TypeOK, SingleDispatcher, pass.pc \in {"tagging", "untagging"},
           Dispatch, UNCHANGED refresh,
           \A t \in Torrents : SameRow(t)
    PROVE  Promise!Takes
<1> DEFINE batch == pass.batch
<1>1. batch \in SUBSET Torrents /\ task \in [Tasks -> Task]
  BY DEF TypeOK, Pass
<1>2. PICK slot \in Injection(batch, IdleTasks) :
        task' = [k \in Tasks |->
                    IF \E t \in batch : slot[t] = k
                    THEN [pc |-> "queued",
                          torrent |-> CHOOSE t \in batch : slot[t] = k,
                          chain |-> FALSE]
                    ELSE task[k]]
  BY DEF Dispatch, CreateTasks
<1>3. /\ slot \in [batch -> IdleTasks]
      /\ \A t, u \in batch : slot[t] = slot[u] => t = u
  BY DEF Injection, IsInjective
<1>4. \A t \in batch : slot[t] \in Tasks /\ task[slot[t]].pc = "idle"
  BY <1>3 DEF IdleTasks, LiveTasks
<1>5. ASSUME NEW k \in Tasks, NEW t \in batch, slot[t] = k
      PROVE  task'[k].pc = "queued" /\ task'[k].torrent = t
  <2>1. (CHOOSE u \in batch : slot[u] = k) = t
    BY <1>3, <1>5
  <2>2. QED  BY <1>2, <1>5, <2>1
<1>6. \A k \in Tasks : (\A t \in batch : slot[t] # k) => task'[k] = task[k]
  BY <1>2
<1>7. \A r \in Refreshers : \A t : ~Refreshes(r, t) /\ ~Refreshes(r, t)'
  BY DEF SingleDispatcher, RefreshApart, ActiveRefreshes, Refreshes
<1>8. \A k \in Tasks, t \in batch : ~Handles(k, t)
  BY DEF SingleDispatcher, BatchUnclaimed, ClaimHeld, LiveTasks, Handles
<1> HIDE DEF batch
<1> DEFINE actor == [t \in batch |-> <<"handler", slot[t]>>]
<1>9. actor \in Promise!Injection(batch, Actors)
  <2>1. actor \in [batch -> Actors]
    BY <1>4 DEF Actors
  <2>2. \A t, u \in batch : actor[t] = actor[u] => t = u
    BY <1>3
  <2>3. QED  BY <2>1, <2>2 DEF Promise!Injection, Promise!IsInjective
<1>10. batch \in SUBSET Promise!Free
  <2>1. ASSUME NEW t \in batch PROVE Workers[t] = {}
    BY <1>1, <1>7, <1>8, WorkersAre
  <2>2. QED  BY <1>1, <2>1 DEF Promise!Free
<1>11. ASSUME NEW t \in batch PROVE Workers'[t] = {actor[t]}
  <2>1. \A k \in Tasks : Handles(k, t)' <=> k = slot[t]
    <3>1. ASSUME NEW k \in Tasks PROVE Handles(k, t)' <=> k = slot[t]
      <4>1. CASE k = slot[t]
        BY <1>5, <4>1 DEF Handles
      <4>2. CASE \E u \in batch : u # t /\ slot[u] = k
        BY <1>3, <1>5, <4>2 DEF Handles
      <4>3. CASE \A u \in batch : slot[u] # k
        <5>1. task'[k] = task[k] /\ ~Handles(k, t)
          BY <1>6, <1>8, <4>3
        <5>2. QED  BY <4>3, <5>1 DEF Handles
      <4>4. QED  BY <4>1, <4>2, <4>3
    <3>2. QED  BY <3>1
  <2>2. slot[t] \in Tasks /\ actor[t] = <<"handler", slot[t]>> /\ t \in Torrents
    BY <1>1, <1>4
  <2> HIDE DEF actor
  <2>3. QED  BY <1>7, <2>1, <2>2, WorkersAre
<1>12. ASSUME NEW t \in Torrents, t \notin batch PROVE Workers'[t] = Workers[t]
  <2>1. ASSUME NEW k \in Tasks PROVE Handles(k, t)' <=> Handles(k, t)
    <3>1. CASE \E u \in batch : slot[u] = k
      <4>1. task'[k].torrent # t /\ task[k].pc = "idle"
        BY <1>4, <1>5, <1>12, <3>1
      <4>2. QED  BY <4>1 DEF Handles
    <3>2. CASE \A u \in batch : slot[u] # k
      <4>1. task'[k] = task[k]
        BY <1>6, <3>2
      <4>2. QED  BY <4>1 DEF Handles
    <3>3. QED  BY <3>1, <3>2
  <2>2. QED  BY <1>7, <2>1, WorkersSame
<1> HIDE DEF actor
<1>13. Workers' = [t \in Torrents |-> IF t \in batch THEN {actor[t]} ELSE Workers[t]]
  BY <1>11, <1>12, MappedShape
<1>14. UNCHANGED <<Paused, Marked>>
  BY MappedShape DEF SameRow
<1>15. QED  BY <1>9, <1>10, <1>13, <1>14 DEF Promise!Takes

\* A refresh of the loop starts on a torrent nobody works on.
LEMMA RefreshTakes ==
    ASSUME TypeOK, SingleDispatcher, NEW r, Refreshers = {r}, RefreshStarts(r)
    PROVE  Promise!Takes
<1>1. PICK t \in Torrents \ inflight :
        refresh' = [refresh EXCEPT ![r] = [pc |-> "replace", torrent |-> t]]
  BY DEF RefreshStarts
<1>2. refresh'[r].pc = "replace" /\ refresh'[r].torrent = t /\ refresh[r].pc = "idle"
  BY <1>1 DEF RefreshStarts, TypeOK
<1>3. UNCHANGED <<task, remote, retried>>
  BY DEF RefreshStarts, bookkeeping
<1>4. /\ \A k \in Tasks : \A u : Handles(k, u)' <=> Handles(k, u)
      /\ \A k \in Tasks : ~Handles(k, t)
  BY <1>1, <1>3 DEF SingleDispatcher, ClaimHeld, LiveTasks, Handles
<1>5. /\ \A u : ~Refreshes(r, u)
      /\ \A u : Refreshes(r, u)' <=> u = t
  BY <1>2 DEF Refreshes
<1> DEFINE batch == {t}
           actor == [u \in batch |-> <<"refresh", r>>]
<1>6. actor \in Promise!Injection(batch, Actors)
  <2>1. <<"refresh", r>> \in Actors
    BY DEF Actors
  <2>2. QED  BY <2>1 DEF Promise!Injection, Promise!IsInjective
<1>7. Workers[t] = {}
  BY <1>4, <1>5, WorkersAre
<1>8. batch \in SUBSET Promise!Free
  BY <1>7 DEF Promise!Free
<1>9. Workers'[t] = {actor[t]}
  <2>1. actor[t] = <<"refresh", r>>
    OBVIOUS
  <2> HIDE DEF actor
  <2>2. QED  BY <1>4, <1>5, <2>1, WorkersAre
<1>10. \A u \in Torrents : u \notin batch => Workers'[u] = Workers[u]
  BY <1>4, <1>5, WorkersSame
<1> HIDE DEF actor
<1>11. Workers' = [u \in Torrents |-> IF u \in batch THEN {actor[u]} ELSE Workers[u]]
  BY <1>9, <1>10, MappedShape
<1>12. UNCHANGED <<Paused, Marked>>
  BY <1>3, MappedShape
<1>13. QED  BY <1>6, <1>8, <1>11, <1>12 DEF Promise!Takes

\* It goes on, or ends and leaves nobody.
LEMMA RefreshWorks ==
    ASSUME TypeOK, SingleDispatcher, TypeOK', PausedMarked', NEW r, Refreshers = {r},
           RefreshResumes(r) \/ RefreshFails(r)
    PROVE  \E t \in Torrents : Promise!Works(t)
<1>1. /\ refresh[r].pc # "idle" /\ refresh' = [refresh EXCEPT ![r] = Idle]
      /\ UNCHANGED <<task, retried>>
  BY DEF RefreshResumes, RefreshFails, RefreshEnds, bookkeeping
<1>2. PICK t \in Torrents : t = refresh[r].torrent
  BY <1>1 DEF TypeOK
<1>3. \A u \in Torrents \ {t} : remote'[u] = remote[u]
  BY <1>2 DEF RefreshResumes, RefreshFails, FailedCall, Resumed, TypeOK
<1>4. /\ \A k \in Tasks : \A u : Handles(k, u)' <=> Handles(k, u)
      /\ \A k \in Tasks : ~Handles(k, t)
  <2>1. ~Handled(t)
    BY <1>1, <1>2 DEF SingleDispatcher, RefreshApart, ActiveRefreshes
  <2>2. QED  BY <1>1, <2>1 DEF Handled, LiveTasks, Handles
<1>5. /\ \A u : Refreshes(r, u) <=> u = t
      /\ \A u : ~Refreshes(r, u)'
  BY <1>1, <1>2 DEF Refreshes, Idle, TypeOK
<1>6. \A u \in Torrents \ {t} : Same(u)
  BY <1>1, <1>3, <1>4, <1>5, OthersSame
<1>7. Workers[t] # {}
  <2>1. <<"refresh", r>> \in Workers[t]
    BY <1>5, WorkersAre
  <2>2. QED  BY <2>1
<1>8. Workers'[t] = {}
  BY <1>4, <1>5, WorkersAre
<1>9. QED  BY <1>6, <1>7, <1>8, WorkDone

\* Nobody works on the torrents a retry takes up.
LEMMA RetryPromise ==
    ASSUME TypeOK, SingleDispatcher, pass.pc = "retryClear",
           UNCHANGED <<task, refresh>>, retried' = retried \cup pass.batch,
           remote' \in {remote, ClearFailureTags(pass.batch)}
    PROVE  Promise!Retries
<1>1. pass.batch \in SUBSET Torrents /\ remote \in [Torrents -> Row]
  BY DEF TypeOK, Pass
<1>2. ASSUME NEW t \in pass.batch PROVE Workers[t] = {}
  <2>1. \A k \in Tasks : ~Handles(k, t)
    BY <1>2 DEF SingleDispatcher, BatchUnclaimed, ClaimHeld, LiveTasks, Handles
  <2>2. \A r \in Refreshers : ~Refreshes(r, t)
    BY DEF SingleDispatcher, RefreshApart, ActiveRefreshes, Refreshes
  <2>3. t \in Torrents
    BY <1>1
  <2>4. QED  BY <2>1, <2>2, <2>3, WorkersAre
<1>3. pass.batch \in SUBSET Promise!Free
  BY <1>1, <1>2 DEF Promise!Free
<1>4. \A t \in Torrents : Workers'[t] = Workers[t]
  BY WorkersSame DEF Handles, Refreshes
<1>5. \A t \in Torrents : remote'[t].paused = remote[t].paused
  BY <1>1 DEF ClearFailureTags, Row
<1>6. \A t \in Torrents \ pass.batch : remote'[t].tags = remote[t].tags
  BY <1>1 DEF ClearFailureTags
<1>7. Marked' = [t \in Torrents |-> t \in pass.batch \/ Marked[t]]
  <2>1. \A t \in Torrents : (remote'[t].tags \cap MarkTags # {} \/ t \in retried')
                            = (t \in pass.batch \/ Marked[t])
    BY <1>6, MappedShape
  <2>2. QED  BY <2>1, MappedShape
<1>8. UNCHANGED <<Workers, Paused>>
  BY <1>4, <1>5, MappedShape
<1>9. QED  BY <1>3, <1>7, <1>8 DEF Promise!Retries

\* A step of the loop takes torrents up for a retry, hands off a batch, or
\* changes nothing the promise is about.
LEMMA PolicyLoopPromise ==
    ASSUME TypeOK, SingleDispatcher, PolicyLoop
    PROVE  Promise!Takes \/ Promise!Retries \/ UNCHANGED Promise!vars
<1> USE DEF bookkeeping
<1>1. UNCHANGED refresh
  BY DEF PolicyLoop, PollAnswered, PollApplied, PassStarts, RecoverFailed, RecoverClear,
         RecoverTag, Judge, TagPass, UntagPass, PassFails
<1>2. CASE RecoverClear \/ (PassFails /\ pass.pc = "retryClear")
  BY <1>1, <1>2, RetryPromise DEF RecoverClear, PassFails, FailedCall
<1>3. CASE ~RecoverClear /\ ~(PassFails /\ pass.pc = "retryClear")
  <2>1. /\ remote' \in {remote, TagCandidates(pass.batch), TagCandidates(pass.cands), UntagCandidates}
        /\ UNCHANGED retried
    BY <1>3 DEF PolicyLoop, PollAnswered, PollApplied, PassStarts, RecoverFailed,
                RecoverTag, Judge, TagPass, UntagPass, PassFails, FailedCall
  <2>2. ASSUME NEW t \in Torrents, NEW batch
        PROVE  /\ TagCandidates(batch)[t].paused = remote[t].paused
               /\ TagCandidates(batch)[t].tags \cap MarkTags = remote[t].tags \cap MarkTags
               /\ UntagCandidates[t].paused = remote[t].paused
               /\ UntagCandidates[t].tags \cap MarkTags = remote[t].tags \cap MarkTags
    <3>1. remote[t] \in Row
      BY DEF TypeOK
    <3>2. QED  BY <3>1 DEF TagCandidates, UntagCandidates, MarkTags, Row
  <2>3. \A t \in Torrents : SameRow(t)
    BY <2>1, <2>2 DEF SameRow
  <2>4. CASE UNCHANGED task
    <3>1. \A t \in Torrents : Same(t)
      BY <1>1, <2>3, <2>4, WorkersSame DEF Same, Handles, Refreshes
    <3>2. QED  BY <3>1, StutterSame
  <2>5. CASE Dispatch /\ pass.pc \in {"tagging", "untagging"}
    BY <1>1, <2>3, <2>5, DispatchPromise
  <2>6. UNCHANGED task \/ (Dispatch /\ pass.pc \in {"tagging", "untagging"})
    BY DEF PolicyLoop, PollAnswered, PollApplied, PassStarts, RecoverFailed, RecoverClear,
           RecoverTag, Judge, TagPass, UntagPass, PassFails
  <2>7. QED  BY <2>4, <2>5, <2>6
<1>4. QED  BY <1>2, <1>3

LEMMA StepPromise ==
    ASSUME LoopOnly, TypeOK, SingleDispatcher, PausedMarked,
           TypeOK', PausedMarked', [Next]_vars
    PROVE  [Promise!Next]_(Promise!vars)
<1> USE DEF Promise!Next, bookkeeping
<1>1. Pickers = {ChainTask} /\ Refreshers = {LoopRefresh}
  BY DEF LoopOnly, Pickers, Refreshers
<1>2. ASSUME NEW k \in Tasks, Handle(k) PROVE Promise!Next
  BY <1>2, HandlePromise
<1>3. CASE PolicyLoop
  BY <1>3, PolicyLoopPromise
<1>4. ~ChainStarts
  BY DEF ChainStarts, SingleDispatcher, ChainAsleep
<1>5. ~\E p \in Pickers : PickNext(p)
  BY DEF PickNext, ScanStarts, PickSelects, PickFindsNone, PickDispatches, PickReannounces,
         PickFails, LoopOnly, Pickers, SingleDispatcher, ChainAsleep
<1>6. ASSUME UNCHANGED <<remote, retried>>,
             \A k \in Tasks, t \in Torrents : Handles(k, t)' <=> Handles(k, t),
             \A r \in Refreshers, t \in Torrents : Refreshes(r, t)' <=> Refreshes(r, t)
      PROVE  UNCHANGED Promise!vars
  BY <1>6, WorkersSame, StutterSame DEF Same, SameRow
<1>7. ASSUME NEW r \in Refreshers, RefreshWebseeds(r)
      PROVE  Promise!Next \/ UNCHANGED Promise!vars
  <2>1. Refreshers = {r}
    BY <1>1
  <2>2. CASE RefreshStarts(r)
    BY <2>1, <2>2, RefreshTakes
  <2>3. CASE RefreshReplaces(r)
    <3>1. UNCHANGED <<remote, retried, task>>
      BY <2>3 DEF RefreshReplaces
    <3>2. refresh'[r].torrent = refresh[r].torrent /\ refresh[r].pc # "idle" /\ refresh'[r].pc # "idle"
      BY <2>3 DEF RefreshReplaces, TypeOK, Refresh
    <3>3. QED  BY <1>6, <2>1, <3>1, <3>2 DEF Handles, Refreshes
  <2>4. CASE RefreshResumes(r) \/ RefreshFails(r)
    BY <2>1, <2>4, RefreshWorks
  <2>5. QED  BY <1>7, <2>2, <2>3, <2>4 DEF RefreshWebseeds
<1>8. CASE Restart
  <2>1. /\ \A k \in Tasks : \A t : ~Handles(k, t)'
        /\ \A r \in Refreshers : \A t : ~Refreshes(r, t)'
        /\ UNCHANGED <<remote, retried>>
    BY <1>8 DEF Restart, IdleTask, Idle, Handles, Refreshes
  <2>2. \A t \in Torrents : Workers'[t] = {}
    BY <2>1, WorkersAre
  <2>3. Workers' = [t \in Torrents |-> {}] /\ UNCHANGED <<Paused, Marked>>
    BY <2>1, <2>2, MappedShape
  <2>4. QED  BY <2>3 DEF Promise!Crashes
<1>9. CASE UNCHANGED vars
  BY <1>6, <1>9 DEF vars, Handles, Refreshes
<1>10. QED  BY <1>2, <1>3, <1>4, <1>5, <1>7, <1>8, <1>9 DEF Next, LoopOnly

\* The policy loop keeps the promise, whatever fails and wherever the daemon
\* crashes: one worker per torrent, which alone pauses, resumes and marks it,
\* and never leaves it paused without a mark; only retries take marks, and only
\* from torrents nobody works on.
THEOREM LoopKeepsPromise ==
    ASSUME LoopOnly, Delivery = "webseed"
    PROVE  Spec => PromiseKept
<1>1. Init => Promise!Init
  <2> SUFFICES ASSUME Init PROVE Promise!Init
    OBVIOUS
  <2>1. \A t \in Torrents : Workers[t] = {}
    BY DEF Init, Workers, LiveTasks, ActiveRefreshes, IdleTask, Idle
  <2>2. \A t \in Torrents : /\ remote[t].paused = FALSE
                            /\ (remote[t].tags \cap MarkTags # {} \/ t \in retried) = FALSE
    BY DEF Init, Blank
  <2>3. Workers = [t \in Torrents |-> {}]
    BY <2>1, MappedShape
  <2>4. Paused = [t \in Torrents |-> FALSE] /\ Marked = [t \in Torrents |-> FALSE]
    BY <2>2, MappedShape
  <2>5. QED  BY <2>3, <2>4 DEF Promise!Init
<1>2. TypeOK /\ SingleDispatcher /\ PausedMarked /\ TypeOK' /\ PausedMarked' /\ [Next]_vars
        => [Promise!Next]_(Promise!vars)
  BY StepPromise
<1>3. Spec => []SingleDispatcher
  BY LoopAlone DEF LoopOnly, LoopDispatches
<1>4. QED
  BY <1>1, <1>2, <1>3, TypeCorrect, MarksKept, PTL DEF Spec, PromiseKept, Promise!Spec

(***************************************************************************)
(* What the promise gives its user.                                        *)
(***************************************************************************)

LEMMA PromiseIsOrderly == Promise!Spec => []Promise!Orderly
<1>1. Promise!Init => Promise!Orderly
  BY DEF Promise!Init, Promise!Orderly
<1>2. Promise!Orderly /\ [Promise!Next]_(Promise!vars) => Promise!Orderly'
  <2> SUFFICES ASSUME Promise!Orderly, [Promise!Next]_(Promise!vars),
                      NEW t \in Torrents
               PROVE  /\ \A a, b \in Workers'[t] : a = b
                      /\ Paused'[t] => Marked'[t]
    BY DEF Promise!Orderly
  <2>1. /\ \A a, b \in Workers[t] : a = b
        /\ Paused[t] => Marked[t]
    BY DEF Promise!Orderly
  <2>2. CASE Promise!Takes
    BY <2>1, <2>2 DEF Promise!Takes
  <2>3. ASSUME NEW u \in Torrents, Promise!Works(u)
        PROVE  /\ \A a, b \in Workers'[t] : a = b
               /\ Paused'[t] => Marked'[t]
    BY <2>1, <2>3, MappedShape DEF Promise!Works
  <2>4. CASE Promise!Retries
    BY <2>1, <2>4 DEF Promise!Retries
  <2>5. CASE Promise!Crashes
    BY <2>1, <2>5 DEF Promise!Crashes
  <2>6. CASE UNCHANGED Promise!vars
    BY <2>1, <2>6 DEF Promise!vars
  <2>7. QED  BY <2>2, <2>3, <2>4, <2>5, <2>6 DEF Promise!Next
<1>3. QED  BY <1>1, <1>2, PTL DEF Promise!Spec

\* So handlers and webseed refreshes together, of the loop that hands off with
\* web seeds, never number two on one torrent, and no torrent is ever paused
\* without a mark or a retry: neither while it is worked on nor after a crash.
THEOREM LoopIsOrderly ==
    ASSUME LoopOnly, Delivery = "webseed"
    PROVE  Spec => []Promise!Orderly
BY LoopKeepsPromise, PromiseIsOrderly, PTL DEF PromiseKept
=============================================================================
