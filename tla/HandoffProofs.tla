--------------------------- MODULE HandoffProofs ---------------------------
(***************************************************************************)
(* Proofs about Handoff, for every set of torrents, tasks, scans, users    *)
(* and webseed recoveries.                                                 *)
(***************************************************************************)
EXTENDS Handoff, TLAPS

(***************************************************************************)
(* The tables of the handler stay within their types.                      *)
(***************************************************************************)

LEMMA EffectType ==
    ASSUME NEW s \in CallStages, NEW r \in Row
    PROVE  CallEffect(s, r) \in Row
BY DEF CallEffect, CallStages, MainStages, FailureStages, Row, Tags

LEMMA MirrorType ==
    ASSUME NEW s \in CallStages, NEW r \in Row
    PROVE  CallMirror(s, r) \in Row
BY DEF CallMirror, Retag, CallStages, MainStages, FailureStages, Row, Tags

LEMMA StageType ==
    ASSUME NEW s \in CallStages
    PROVE  /\ NextStage(s) \in CallStages \cup {"idle"}
           /\ FailStage(s) \in CallStages \cup {"idle"}
BY DEF NextStage, FailStage, CallStages, MainStages, FailureStages

(***************************************************************************)
(* What creating handler tasks does: idle slots, and only they, receive    *)
(* the torrents of the batch, one slot per torrent.                        *)
(***************************************************************************)

LEMMA CreatesTasks ==
    ASSUME TypeOK,
           NEW batch \in SUBSET Torrents, NEW chain \in BOOLEAN,
           CreateTasks(batch, chain)
    PROVE  /\ task' \in [Tasks -> Task]
           /\ \A k \in Tasks : \/ task'[k] = task[k]
                               \/ /\ task[k].pc = "idle"
                                  /\ task'[k].pc = "queued"
                                  /\ task'[k].torrent \in batch
                                  /\ task'[k].chain = chain
           /\ \A t \in batch : \E k \in Tasks : /\ task[k].pc = "idle"
                                                /\ task'[k].pc = "queued"
                                                /\ task'[k].torrent = t
           /\ \A k, l \in Tasks : /\ task[k].pc = "idle" /\ task'[k].pc # "idle"
                                  /\ task[l].pc = "idle" /\ task'[l].pc # "idle"
                                  /\ task'[k].torrent = task'[l].torrent
                                  => k = l
<1>1. PICK slot \in Injection(batch, IdleTasks) :
        task' = [k \in Tasks |->
                    IF \E t \in batch : slot[t] = k
                    THEN [pc |-> "queued",
                          torrent |-> CHOOSE t \in batch : slot[t] = k,
                          chain |-> chain]
                    ELSE task[k]]
  BY DEF CreateTasks
<1>2. /\ slot \in [batch -> IdleTasks]
      /\ \A t, u \in batch : slot[t] = slot[u] => t = u
  BY DEF Injection, IsInjective
<1> DEFINE New(k, t) == /\ slot[t] = k /\ task[k].pc = "idle"
                        /\ task'[k] \in Task
                        /\ task'[k].pc = "queued"
                        /\ task'[k].torrent = t
                        /\ task'[k].chain = chain
<1>3. ASSUME NEW t \in batch
      PROVE  slot[t] \in Tasks /\ New(slot[t], t)
  <2>1. slot[t] \in Tasks /\ task[slot[t]].pc = "idle"
    BY <1>2 DEF IdleTasks, LiveTasks
  <2>2. (CHOOSE u \in batch : slot[u] = slot[t]) = t
    BY <1>2
  <2>3. task'[slot[t]] = [pc |-> "queued", torrent |-> t, chain |-> chain]
    BY <1>1, <2>1, <2>2
  <2>4. task'[slot[t]] \in Task
    BY <2>3 DEF Task
  <2>5. QED  BY <2>1, <2>3, <2>4
<1>4. \A k \in Tasks : task'[k] = task[k] \/ \E t \in batch : slot[t] = k
  BY <1>1
<1>5. \A k \in Tasks : task'[k] = task[k] \/ \E t \in batch : New(k, t)
  BY <1>3, <1>4
<1>6. task' \in [Tasks -> Task]
  <2>1. task \in [Tasks -> Task]
    BY DEF TypeOK
  <2>2. \A k \in Tasks : task'[k] \in Task
    BY <1>5, <2>1
  <2>3. task' = [k \in Tasks |-> task'[k]]
    BY <1>1
  <2>4. QED  BY <2>2, <2>3
<1>7. \A t \in batch : \E k \in Tasks : /\ task[k].pc = "idle"
                                        /\ task'[k].pc = "queued"
                                        /\ task'[k].torrent = t
  BY <1>3
<1>8. ASSUME NEW k \in Tasks, NEW l \in Tasks,
             task[k].pc = "idle", task'[k].pc # "idle",
             task[l].pc = "idle", task'[l].pc # "idle",
             task'[k].torrent = task'[l].torrent
      PROVE  k = l
  <2>1. PICK t \in batch : New(k, t)
    BY <1>5, <1>8
  <2>2. PICK u \in batch : New(l, u)
    BY <1>5, <1>8
  <2>3. QED  BY <1>8, <2>1, <2>2
<1>9. QED  BY <1>5, <1>6, <1>7, <1>8

(***************************************************************************)
(* Type correctness.                                                       *)
(***************************************************************************)

LEMMA ContinueType ==
    ASSUME TypeOK, NEW k \in Tasks, task[k].pc # "idle",
           NEW s \in CallStages \cup {"idle"}, Continue(k, s)
    PROVE  /\ task' \in [Tasks -> Task]
           /\ \A l \in Tasks : task'[l].pc # "idle" => task'[l].torrent \in Torrents
           /\ inflight' \subseteq Torrents
           /\ pick' \in [Pickers -> Pick]
           /\ \A p \in Pickers : pick'[p].pc = "tagging" => pick'[p].torrent \in Torrents
<1>1. task[k] \in Task /\ task[k].torrent \in Torrents
  BY DEF TypeOK
<1>2. CASE s # "idle"
  <2>1. [task[k] EXCEPT !.pc = s] \in Task /\ [task[k] EXCEPT !.pc = s].torrent \in Torrents
    BY <1>1 DEF Task
  <2>2. task' = [task EXCEPT ![k] = [task[k] EXCEPT !.pc = s]] /\ UNCHANGED <<inflight, pick>>
    BY <1>2 DEF Continue
  <2>3. QED  BY <2>1, <2>2 DEF TypeOK
<1>3. CASE s = "idle"
  <2>1. task' = [task EXCEPT ![k] = IdleTask] /\ inflight' = inflight \ {task[k].torrent}
    BY <1>3 DEF Continue
  <2>2. IdleTask \in Task /\ IdleTask.pc = "idle"
    BY DEF IdleTask, Task
  <2>3. \/ pick' = pick
        \/ pick' = [pick EXCEPT ![ChainTask] = [pick[ChainTask] EXCEPT !.pc = "scheduled"]]
    BY <1>3 DEF Continue
  <2>4. /\ pick' \in [Pickers -> Pick]
        /\ \A p \in Pickers : pick'[p].pc = "tagging" => pick'[p].torrent \in Torrents
    BY <2>3 DEF TypeOK, Pickers, Pick
  <2>5. QED  BY <2>1, <2>2, <2>4 DEF TypeOK
<1>4. QED  BY <1>2, <1>3

LEMMA TypeHandle ==
    ASSUME TypeOK, NEW k \in Tasks, Handle(k)
    PROVE  TypeOK'
<1>1. CASE Begin(k)
  BY <1>1 DEF Begin, bookkeeping, TypeOK, Task, CallStages, MainStages
<1>2. CASE CallReturns(k)
  <2> DEFINE t == task[k].torrent
             s == task[k].pc
  <2>1. t \in Torrents /\ s \in CallStages /\ s # "idle"
    BY <1>2 DEF CallReturns, TypeOK, CallStages, MainStages, FailureStages
  <2>2. remote' \in [Torrents -> Row] /\ mirror' \in [Torrents -> Row]
    BY <1>2, <2>1, EffectType, MirrorType DEF CallReturns, TypeOK
  <2>3. Continue(k, NextStage(s)) /\ NextStage(s) \in CallStages \cup {"idle"}
    BY <1>2, <2>1, StageType DEF CallReturns
  <2>4. QED  BY <1>2, <2>1, <2>2, <2>3, ContinueType DEF CallReturns, bookkeeping, TypeOK
<1>3. CASE CallRaises(k)
  <2> DEFINE t == task[k].torrent
             s == task[k].pc
  <2>1. t \in Torrents /\ s \in CallStages /\ s # "idle"
    BY <1>3 DEF CallRaises, TypeOK, CallStages, MainStages, FailureStages
  <2>2. remote' \in [Torrents -> Row]
    BY <1>3, <2>1, EffectType DEF CallRaises, FailedCall, TypeOK
  <2>3. Continue(k, FailStage(s)) /\ FailStage(s) \in CallStages \cup {"idle"}
    BY <1>3, <2>1, StageType DEF CallRaises
  <2>4. QED  BY <1>3, <2>1, <2>2, <2>3, ContinueType DEF CallRaises, bookkeeping, TypeOK
<1>4. QED  BY <1>1, <1>2, <1>3 DEF Handle

LEMMA RetagType ==
    ASSUME NEW row \in Row, NEW add \in SUBSET Tags, NEW remove \in SUBSET Tags
    PROVE  Retag(row, add, remove) \in Row
BY DEF Retag, Row

LEMMA BatchCallTypes ==
    ASSUME TypeOK, NEW batch \in SUBSET Torrents
    PROVE  /\ ClearFailureTags(batch) \in [Torrents -> Row]
           /\ TagCandidates(batch) \in [Torrents -> Row]
           /\ RetagRetried(batch) \in [Torrents -> Row]
           /\ UntagCandidates \in [Torrents -> Row]
<1>1. remote \in [Torrents -> Row] /\ mirror \in [Torrents -> Row]
  BY DEF TypeOK
<1>2. ASSUME NEW row \in Row
      PROVE  /\ [row EXCEPT !.tags = @ \ {"failed", "skip", "done"}] \in Row
             /\ [row EXCEPT !.tags = @ \cup {"candidate"}] \in Row
             /\ [row EXCEPT !.tags = @ \ {"candidate"}] \in Row
             /\ Retag(row, {"candidate"}, {"failed", "skip", "done"}) \in Row
  BY DEF Row, Tags, Retag
<1>3. QED
  BY <1>1, <1>2 DEF ClearFailureTags, TagCandidates, RetagRetried, UntagCandidates

LEMMA TypeDispatch ==
    ASSUME TypeOK, Dispatch
    PROVE  /\ task' \in [Tasks -> Task]
           /\ \A k \in Tasks : task'[k].pc # "idle" => task'[k].torrent \in Torrents
           /\ inflight' \subseteq Torrents
           /\ pass' \in Pass /\ seen' \in [Torrents -> Row]
<1>1. pass.batch \in SUBSET Torrents /\ FALSE \in BOOLEAN
  BY DEF TypeOK, Pass
<1>2. CreateTasks(pass.batch, FALSE)
  BY DEF Dispatch
<1>3. /\ task' \in [Tasks -> Task]
      /\ \A k \in Tasks : task'[k] = task[k] \/ task'[k].torrent \in pass.batch
  BY <1>1, <1>2, CreatesTasks
<1>4. QED  BY <1>1, <1>3 DEF Dispatch, EndPass, IdlePass, Blank, Pass, Row, Tags, TypeOK

LEMMA TypePolicyLoop ==
    ASSUME TypeOK, PolicyLoop
    PROVE  TypeOK'
<1> USE DEF bookkeeping
<1>1. CASE PollAnswered
  BY <1>1 DEF PollAnswered, TypeOK, Pass
<1>2. CASE PollApplied
  BY <1>2 DEF PollApplied, EndPass, IdlePass, Blank, TypeOK, Pass, Row, Tags
<1>3. CASE PassStarts
  BY <1>3 DEF PassStarts, TypeOK, Pass
<1>4. CASE RecoverFailed
  <2>1. PICK batch \in SUBSET {t \in Torrents : /\ t \notin inflight
                                               /\ "failed" \in seen[t].tags
                                               /\ retries[t] < MaxRetryAttempts} :
          /\ pass' = [pass EXCEPT !.pc = "retryClear", !.batch = batch]
          /\ retries' = [t \in Torrents |-> IF t \in batch THEN retries[t] + 1 ELSE retries[t]]
    BY <1>4 DEF RecoverFailed
  <2>2. pass' \in Pass
    BY <2>1 DEF TypeOK, Pass
  <2>3. retries' \in [Torrents -> 0..MaxRetryAttempts]
    BY <2>1, HandoffAssumption DEF TypeOK
  <2>4. QED  BY <1>4, <2>2, <2>3 DEF RecoverFailed, TypeOK
<1>5. CASE RecoverClear
  <2>1. ClearFailureTags(pass.batch) \in [Torrents -> Row]
    BY BatchCallTypes DEF TypeOK, Pass
  <2>2. QED  BY <1>5, <2>1 DEF RecoverClear, TypeOK, Pass
<1>6. CASE RecoverTag
  <2>1. /\ TagCandidates(pass.batch) \in [Torrents -> Row]
        /\ RetagRetried(pass.batch) \in [Torrents -> Row]
    BY BatchCallTypes DEF TypeOK, Pass
  <2>2. QED  BY <1>6, <2>1 DEF RecoverTag, TypeOK, Pass
<1>7. CASE Judge
  <2>1. pass' \in Pass
    BY <1>7 DEF Judge, EndPass, IdlePass, Pass, TypeOK
  <2>2. seen' = seen \/ seen' = Blank
    BY <1>7 DEF Judge, EndPass
  <2>3. seen \in [Torrents -> Row] /\ Blank \in [Torrents -> Row]
    BY DEF Blank, Row, Tags, TypeOK
  <2>4. QED  BY <1>7, <2>1, <2>2, <2>3 DEF Judge, TypeOK
<1>8. CASE TagPass
  <2>1. TagCandidates(pass.cands) \in [Torrents -> Row]
    BY BatchCallTypes DEF TypeOK, Pass
  <2>2. CASE ClearCandidates # {}
    BY <1>8, <2>1, <2>2 DEF TagPass, TypeOK, Pass
  <2>3. CASE ClearCandidates = {}
    BY <1>8, <2>1, <2>3, TypeDispatch DEF TagPass, TypeOK
  <2>4. QED  BY <2>2, <2>3
<1>9. CASE UntagPass
  <2>1. UntagCandidates \in [Torrents -> Row]
    BY BatchCallTypes
  <2>2. QED  BY <1>9, <2>1, TypeDispatch DEF UntagPass, TypeOK
<1>10. CASE PassFails
  <2>1. remote' \in [Torrents -> Row]
    BY <1>10, BatchCallTypes DEF PassFails, FailedCall, TypeOK, Pass
  <2>2. pass' \in Pass /\ seen' \in [Torrents -> Row]
    BY <1>10 DEF PassFails, EndPass, IdlePass, Blank, Pass, Row, Tags
  <2>3. retried' \subseteq Torrents
    BY <1>10 DEF PassFails, TypeOK, Pass
  <2>4. QED  BY <1>10, <2>1, <2>2, <2>3 DEF PassFails, TypeOK
<1>11. QED
  BY <1>1, <1>2, <1>3, <1>4, <1>5, <1>6, <1>7, <1>8, <1>9, <1>10 DEF PolicyLoop

LEMMA TypePick ==
    ASSUME TypeOK, ChainStarts \/ \E p \in Pickers : PickNext(p)
    PROVE  TypeOK'
<1> USE DEF bookkeeping
<1>1. CASE ChainStarts
  BY <1>1 DEF ChainStarts, TypeOK, Pick, Pickers
<1>2. ASSUME NEW p \in Pickers, PickNext(p)
      PROVE  TypeOK'
  <2>1. CASE ScanStarts(p)
    BY <2>1 DEF ScanStarts, TypeOK, Pick
  <2>2. CASE PickSelects(p)
    BY <2>2 DEF PickSelects, TypeOK, Pick
  <2>3. CASE PickFindsNone(p)
    BY <2>3 DEF PickFindsNone, TypeOK, Pick, Idle
  <2>4. ASSUME pick[p].pc = "tagging", pick' = [pick EXCEPT ![p] = Idle]
        PROVE  /\ pick[p].torrent \in Torrents
               /\ TagCandidates({pick[p].torrent}) \in [Torrents -> Row]
               /\ pick' \in [Pickers -> Pick]
               /\ \A q \in Pickers : pick'[q].pc = "tagging" => pick'[q].torrent \in Torrents
    <3>1. pick[p].torrent \in Torrents
      BY <2>4 DEF TypeOK
    <3>2. TagCandidates({pick[p].torrent}) \in [Torrents -> Row]
      BY <3>1, BatchCallTypes
    <3>3. QED  BY <2>4, <3>1, <3>2 DEF TypeOK, Pick, Idle
  <2>5. CASE PickDispatches(p)
    <3>1. {pick[p].torrent} \in SUBSET Torrents /\ TRUE \in BOOLEAN
      BY <2>4, <2>5 DEF PickDispatches
    <3>2. CreateTasks({pick[p].torrent}, TRUE)
      BY <2>5 DEF PickDispatches
    <3>3. /\ task' \in [Tasks -> Task]
          /\ \A k \in Tasks : task'[k] = task[k] \/ task'[k].torrent \in {pick[p].torrent}
      BY <3>1, <3>2, CreatesTasks
    <3>4. QED  BY <2>4, <2>5, <3>1, <3>3 DEF PickDispatches, TypeOK
  <2>6. CASE PickReannounces(p)
    BY <2>4, <2>6 DEF PickReannounces, TypeOK
  <2>7. CASE PickFails(p)
    BY <2>4, <2>7 DEF PickFails, FailedCall, TypeOK
  <2>8. QED
    BY <1>2, <2>1, <2>2, <2>3, <2>5, <2>6, <2>7 DEF PickNext
<1>3. QED  BY <1>1, <1>2

LEMMA TypeRequest ==
    ASSUME TypeOK, NEW u \in Users, Request(u)
    PROVE  TypeOK'
<1> USE DEF bookkeeping
<1> DEFINE t == user[u].torrent
<1>1. CASE UserRequests(u)
  <2>1. PICK v \in Torrents, op \in UserOps :
          user' = [user EXCEPT ![u] = [pc |-> op, torrent |-> v]]
    BY <1>1 DEF UserRequests
  <2>2. [pc |-> op, torrent |-> v] \in User
    BY HandoffAssumption DEF User
  <2>3. requests' \in 0..MaxRequests
    BY <1>1, HandoffAssumption DEF UserRequests, TypeOK
  <2>4. QED  BY <1>1, <2>1, <2>2, <2>3 DEF UserRequests, TypeOK
<1>2. ASSUME user[u].pc \in {"unskip", "unfail", "skipTag", "skipClear", "retryClear", "retryTag"}
      PROVE  t \in Torrents /\ RequestEffect(u) \in [Torrents -> Row]
  <2>1. t \in Torrents /\ remote[t] \in Row /\ remote \in [Torrents -> Row]
    BY <1>2 DEF TypeOK
  <2>2. PICK tags \in SUBSET Tags :
          RequestEffect(u) = [remote EXCEPT ![t].tags = tags]
    <3>1. remote[t].tags \in SUBSET Tags
      BY <2>1 DEF Row
    <3>2. QED  BY <1>2, <2>1, <3>1 DEF RequestEffect, Tags
  <2>3. QED  BY <2>1, <2>2 DEF Row
<1>3. CASE RequestAdvances(u)
  <2>1. RequestEffect(u) \in [Torrents -> Row]
    BY <1>2, <1>3 DEF RequestAdvances
  <2>2. PICK pc \in {"unfail", "skipClear", "retryTag"} : user' = [user EXCEPT ![u].pc = pc]
    BY <1>3 DEF RequestAdvances
  <2>3. user' \in [Users -> User] /\ user'[u].torrent = t
    BY <2>2 DEF TypeOK, User
  <2>4. \A v \in Users : user'[v].pc # "idle" => user'[v].torrent \in Torrents
    BY <1>2, <1>3, <2>2, <2>3 DEF RequestAdvances, TypeOK
  <2>5. QED  BY <1>3, <2>1, <2>3, <2>4 DEF RequestAdvances, TypeOK
<1>4. ASSUME user' = [user EXCEPT ![u] = Idle]
      PROVE  /\ user' \in [Users -> User]
             /\ \A v \in Users : user'[v].pc # "idle" => user'[v].torrent \in Torrents
  BY <1>4 DEF TypeOK, User, Idle
<1>5. CASE ForceDispatches(u)
  <2>1. t \in Torrents /\ RequestEffect(u) \in [Torrents -> Row]
    BY <1>2, <1>5 DEF ForceDispatches
  <2>2. mirror' \in [Torrents -> Row]
    BY <1>5, <2>1, RetagType DEF ForceDispatches, TypeOK, Tags
  <2>3. {t} \in SUBSET Torrents /\ TRUE \in BOOLEAN /\ CreateTasks({t}, TRUE)
    BY <1>5, <2>1 DEF ForceDispatches
  <2>4. /\ task' \in [Tasks -> Task]
        /\ \A k \in Tasks : task'[k] = task[k] \/ task'[k].torrent \in {t}
    BY <2>3, CreatesTasks
  <2>5. QED  BY <1>4, <1>5, <2>1, <2>2, <2>4 DEF ForceDispatches, TypeOK
<1>6. CASE RequestEnds(u)
  <2>1. t \in Torrents /\ RequestEffect(u) \in [Torrents -> Row]
    BY <1>2, <1>6 DEF RequestEnds
  <2>2. /\ Retag(mirror[t], {"skip"}, {"candidate", "active"}) \in Row
        /\ Retag(mirror[t], {"candidate"}, {"failed", "skip", "done"}) \in Row
    BY <2>1, RetagType DEF TypeOK, Tags
  <2>3. QED  BY <1>4, <1>6, <2>1, <2>2 DEF RequestEnds, TypeOK
<1>7. CASE RequestFails(u)
  <2>1. user[u] \in User /\ user[u].pc # "idle"
    BY <1>7 DEF RequestFails, TypeOK
  <2>2. RequestEffect(u) \in [Torrents -> Row]
    BY <1>2, <2>1 DEF User
  <2>3. QED  BY <1>4, <1>7, <2>2 DEF RequestFails, FailedCall, TypeOK
<1>8. QED  BY <1>1, <1>3, <1>5, <1>6, <1>7 DEF Request

LEMMA TypeRefresh ==
    ASSUME TypeOK, NEW r \in Refreshers, RefreshWebseeds(r)
    PROVE  TypeOK'
<1> USE DEF bookkeeping
<1>1. CASE RefreshStarts(r)
  BY <1>1 DEF RefreshStarts, TypeOK, Refresh
<1>2. CASE RefreshReplaces(r)
  BY <1>2 DEF RefreshReplaces, TypeOK, Refresh
<1>3. ASSUME RefreshEnds(r)
      PROVE  /\ refresh' \in [Refreshers -> Refresh]
             /\ \A q \in Refreshers : refresh'[q].pc # "idle" => refresh'[q].torrent \in Torrents
             /\ inflight' \subseteq Torrents
  BY <1>3 DEF RefreshEnds, TypeOK, Refresh, Idle
<1>4. ASSUME refresh[r].pc = "resume"
      PROVE  Resumed(refresh[r].torrent) \in [Torrents -> Row]
  <2> DEFINE row == remote[refresh[r].torrent]
  <2>1. remote \in [Torrents -> Row] /\ refresh[r].torrent \in Torrents
    BY <1>4 DEF TypeOK
  <2>2. row \in Row
    BY <2>1
  <2>3. [row EXCEPT !.paused = FALSE] \in Row
    BY <2>2 DEF Row
  <2>4. Resumed(refresh[r].torrent)
          = [remote EXCEPT ![refresh[r].torrent] = [row EXCEPT !.paused = FALSE]]
    BY DEF Resumed
  <2>5. QED
    <3> HIDE DEF row
    <3> QED  BY <2>1, <2>3, <2>4
<1>5. CASE RefreshResumes(r)
  BY <1>3, <1>4, <1>5 DEF RefreshResumes, TypeOK
<1>6. CASE RefreshFails(r)
  <2>1. remote' \in [Torrents -> Row]
    BY <1>4, <1>6 DEF RefreshFails, FailedCall, TypeOK
  <2>2. QED  BY <1>3, <1>6, <2>1 DEF RefreshFails, TypeOK
<1>7. QED  BY <1>1, <1>2, <1>5, <1>6 DEF RefreshWebseeds

LEMMA TypeRestart ==
    ASSUME TypeOK, Restart
    PROVE  TypeOK'
<1>1. restarts' \in 0..MaxRestarts
  BY HandoffAssumption DEF Restart, TypeOK
<1>2. pass' \in Pass /\ task' \in [Tasks -> Task] /\ seen' \in [Torrents -> Row]
  BY DEF Restart, IdlePass, Pass, IdleTask, Task, Blank, Row, Tags
<1>3. /\ pick' \in [Pickers -> Pick] /\ user' \in [Users -> User]
      /\ refresh' \in [Refreshers -> Refresh]
  BY DEF Restart, Idle, Pick, User, Refresh
<1>4. /\ \A k \in Tasks : task'[k].pc = "idle"
      /\ \A p \in Pickers : pick'[p].pc = "idle"
      /\ \A u \in Users : user'[u].pc = "idle"
      /\ \A r \in Refreshers : refresh'[r].pc = "idle"
  BY DEF Restart, IdleTask, Idle
<1>5. QED  BY <1>1, <1>2, <1>3, <1>4 DEF Restart, TypeOK

LEMMA TypeInit == Init => TypeOK
<1> SUFFICES ASSUME Init PROVE TypeOK
  OBVIOUS
<1>1. 0 \in 0..MaxRetryAttempts /\ 0 \in 0..MaxRequests /\ 0 \in 0..MaxRestarts
  BY HandoffAssumption
<1>2. Blank \in [Torrents -> Row] /\ IdlePass \in Pass
  BY DEF Blank, Row, Tags, IdlePass, Pass
<1>3. task \in [Tasks -> Task] /\ \A k \in Tasks : task[k].pc = "idle"
  BY DEF Init, IdleTask, Task
<1>4. /\ pick \in [Pickers -> Pick] /\ \A p \in Pickers : pick[p].pc = "idle"
      /\ user \in [Users -> User] /\ \A u \in Users : user[u].pc = "idle"
      /\ refresh \in [Refreshers -> Refresh] /\ \A r \in Refreshers : refresh[r].pc = "idle"
  BY DEF Init, Idle, Pick, User, Refresh
<1>5. QED  BY <1>1, <1>2, <1>3, <1>4 DEF Init, TypeOK

LEMMA TypeStep == TypeOK /\ [Next]_vars => TypeOK'
<1> SUFFICES ASSUME TypeOK, [Next]_vars PROVE TypeOK'
  OBVIOUS
<1>1. CASE \E k \in Tasks : Handle(k)
  BY <1>1, TypeHandle
<1>2. CASE PolicyLoop
  BY <1>2, TypePolicyLoop
<1>3. CASE ChainStarts \/ \E p \in Pickers : PickNext(p)
  BY <1>3, TypePick
<1>4. CASE \E u \in Users : Request(u)
  BY <1>4, TypeRequest
<1>5. CASE \E r \in Refreshers : RefreshWebseeds(r)
  BY <1>5, TypeRefresh
<1>6. CASE Restart
  BY <1>6, TypeRestart
<1>7. CASE UNCHANGED vars
  BY <1>7 DEF vars, TypeOK
<1>8. QED  BY <1>1, <1>2, <1>3, <1>4, <1>5, <1>6, <1>7 DEF Next

\* Whatever interleaving of handlers, passes, picks, requests, refreshes, failed
\* calls and crashes: claims name known torrents, a task, pick or request that
\* is under way has a torrent, and the retry count stays within its maximum.
THEOREM TypeCorrect == Spec => []TypeOK
BY TypeInit, TypeStep, PTL DEF Spec

(***************************************************************************)
(* No claim is leaked.                                                     *)
(***************************************************************************)

Refreshed(t) == \E r \in ActiveRefreshes : refresh[r].torrent = t

LEMMA ClaimsOwned ==
    NoLeakedClaim <=> \A t \in inflight : Handled(t) \/ Refreshed(t)
BY DEF NoLeakedClaim, Handled, Refreshed

\* A handler that goes on keeps its claim, one that ends releases it: the
\* claims of the others have owners as before.
LEMMA ContinueOwned ==
    ASSUME TypeOK, NoLeakedClaim, NEW k \in Tasks, task[k].pc # "idle",
           NEW s \in CallStages \cup {"idle"}, Continue(k, s), UNCHANGED refresh
    PROVE  NoLeakedClaim'
<1>1. task[k] \in Task /\ task \in [Tasks -> Task]
  BY DEF TypeOK
<1>2. ASSUME NEW t \in inflight', Refreshed(t)
      PROVE  Refreshed(t)'
  BY <1>2 DEF Refreshed, ActiveRefreshes
<1>3. ASSUME NEW t \in inflight', Handled(t)
      PROVE  Handled(t)'
  <2>1. PICK l \in Tasks : task[l].pc # "idle" /\ task[l].torrent = t
    BY <1>3 DEF Handled, LiveTasks
  <2>2. task'[l].pc # "idle" /\ task'[l].torrent = t
    <3>1. CASE s # "idle"
      <4>1. task' = [task EXCEPT ![k] = [task[k] EXCEPT !.pc = s]]
        BY <3>1 DEF Continue
      <4>2. [task[k] EXCEPT !.pc = s].torrent = task[k].torrent
        BY <1>1 DEF Task
      <4>3. [task[k] EXCEPT !.pc = s].pc = s
        BY <1>1 DEF Task
      <4>4. QED  BY <1>1, <2>1, <3>1, <4>1, <4>2, <4>3
    <3>2. CASE s = "idle"
      <4>1. task' = [task EXCEPT ![k] = IdleTask] /\ t # task[k].torrent
        BY <1>3, <3>2 DEF Continue
      <4>2. task'[l] = task[l]
        BY <1>1, <2>1, <4>1
      <4>3. QED  BY <2>1, <4>2
    <3>3. QED  BY <3>1, <3>2
  <2>3. QED  BY <2>2 DEF Handled, LiveTasks
<1>4. inflight' \subseteq inflight
  BY DEF Continue
<1>5. QED
  BY <1>2, <1>3, <1>4, ClaimsOwned DEF NoLeakedClaim, Handled, Refreshed

\* Claims taken for a batch belong to the tasks created for it.
LEMMA CreateOwned ==
    ASSUME TypeOK, NoLeakedClaim,
           NEW batch \in SUBSET Torrents, NEW chain \in BOOLEAN,
           CreateTasks(batch, chain),
           inflight' \subseteq inflight \cup batch, UNCHANGED refresh
    PROVE  NoLeakedClaim'
<1>1. ASSUME NEW t \in inflight' PROVE (Handled(t) \/ Refreshed(t))'
  <2>1. CASE t \in batch
    <3>1. PICK k \in Tasks : task'[k].pc = "queued" /\ task'[k].torrent = t
      BY <2>1, CreatesTasks
    <3>2. QED  BY <3>1 DEF Handled, LiveTasks
  <2>2. CASE Handled(t)
    <3>1. PICK k \in Tasks : task[k].pc # "idle" /\ task[k].torrent = t
      BY <2>2 DEF Handled, LiveTasks
    <3>2. task'[k] = task[k]
      BY <3>1, CreatesTasks
    <3>3. QED  BY <3>1, <3>2 DEF Handled, LiveTasks
  <2>3. CASE Refreshed(t)
    BY <2>3 DEF Refreshed, ActiveRefreshes
  <2>4. t \in batch \/ t \in inflight
    OBVIOUS
  <2>5. QED  BY <2>1, <2>2, <2>3, <2>4, ClaimsOwned
<1>2. QED  BY <1>1 DEF NoLeakedClaim, Handled, Refreshed

\* A refresh that ends releases its claim and nothing else.
LEMMA RefreshEndsOwned ==
    ASSUME TypeOK, NoLeakedClaim, NEW r \in Refreshers, RefreshEnds(r), UNCHANGED task
    PROVE  NoLeakedClaim'
<1>1. ASSUME NEW t \in inflight' PROVE (Handled(t) \/ Refreshed(t))'
  <2>1. t \in inflight /\ t # refresh[r].torrent
    BY DEF RefreshEnds
  <2>2. CASE Handled(t)
    BY <2>2 DEF Handled, LiveTasks
  <2>3. CASE Refreshed(t)
    <3>1. PICK q \in Refreshers : refresh[q].pc # "idle" /\ refresh[q].torrent = t
      BY <2>3 DEF Refreshed, ActiveRefreshes
    <3>2. refresh'[q] = refresh[q]
      BY <2>1, <3>1 DEF RefreshEnds, TypeOK
    <3>3. QED  BY <3>1, <3>2 DEF Refreshed, ActiveRefreshes
  <2>4. QED  BY <2>1, <2>2, <2>3, ClaimsOwned
<1>2. QED  BY <1>1 DEF NoLeakedClaim, Handled, Refreshed

LEMMA OwnedStep == TypeOK /\ NoLeakedClaim /\ [Next]_vars => NoLeakedClaim'
<1> SUFFICES ASSUME TypeOK, NoLeakedClaim, [Next]_vars PROVE NoLeakedClaim'
  OBVIOUS
<1> USE DEF bookkeeping
\* Most steps touch neither claims nor owners.
<1>1. ASSUME UNCHANGED <<inflight, task, refresh>>
      PROVE  NoLeakedClaim'
  BY <1>1 DEF NoLeakedClaim, LiveTasks, ActiveRefreshes
<1>2. ASSUME NEW k \in Tasks, Handle(k) PROVE NoLeakedClaim'
  <2>1. CASE Begin(k)
    <3>1. ASSUME NEW t \in inflight' PROVE (Handled(t) \/ Refreshed(t))'
      <4>1. \A l \in Tasks : /\ task[l].pc # "idle" => task'[l].pc # "idle"
                             /\ task'[l].torrent = task[l].torrent
        BY <2>1 DEF Begin, TypeOK, Task
      <4>2. t \in inflight \/ Handled(t)
        BY <2>1, <3>1 DEF Begin, Handled, LiveTasks
      <4>3. Handled(t) => Handled(t)'
        BY <4>1 DEF Handled, LiveTasks
      <4>4. Refreshed(t) => Refreshed(t)'
        BY <2>1 DEF Begin, Refreshed, ActiveRefreshes
      <4>5. QED  BY <4>2, <4>3, <4>4, ClaimsOwned
    <3>2. QED  BY <3>1 DEF NoLeakedClaim, Handled, Refreshed
  <2>2. CASE CallReturns(k)
    <3>1. /\ task[k].pc # "idle" /\ task[k].pc \in CallStages
          /\ Continue(k, NextStage(task[k].pc)) /\ UNCHANGED refresh
      BY <2>2 DEF CallReturns, CallStages, MainStages, FailureStages
    <3>2. QED  BY <3>1, StageType, ContinueOwned
  <2>3. CASE CallRaises(k)
    <3>1. /\ task[k].pc # "idle" /\ task[k].pc \in CallStages
          /\ Continue(k, FailStage(task[k].pc)) /\ UNCHANGED refresh
      BY <2>3 DEF CallRaises, CallStages, MainStages, FailureStages
    <3>2. QED  BY <3>1, StageType, ContinueOwned
  <2>4. QED  BY <1>2, <2>1, <2>2, <2>3 DEF Handle
<1>3. CASE PolicyLoop
  <2>1. ASSUME Dispatch, UNCHANGED refresh PROVE NoLeakedClaim'
    <3>1. pass.batch \in SUBSET Torrents /\ FALSE \in BOOLEAN
      BY DEF TypeOK, Pass
    <3>2. /\ CreateTasks(pass.batch, FALSE)
          /\ inflight' \subseteq inflight \cup pass.batch
      BY <2>1 DEF Dispatch
    <3>3. QED  BY <2>1, <3>1, <3>2, CreateOwned
  <2>2. CASE TagPass
    BY <1>1, <2>1, <2>2 DEF TagPass
  <2>3. CASE UntagPass
    BY <2>1, <2>3 DEF UntagPass
  <2>4. CASE \/ PollAnswered \/ PollApplied \/ PassStarts
             \/ RecoverFailed \/ RecoverClear \/ RecoverTag
             \/ Judge \/ PassFails
    BY <1>1, <2>4 DEF PollAnswered, PollApplied, PassStarts, RecoverFailed,
                      RecoverClear, RecoverTag, Judge, PassFails
  <2>5. QED  BY <1>3, <2>2, <2>3, <2>4 DEF PolicyLoop
<1>4. CASE ChainStarts
  BY <1>1, <1>4 DEF ChainStarts
<1>5. ASSUME NEW p \in Pickers, PickNext(p) PROVE NoLeakedClaim'
  <2>1. CASE PickDispatches(p)
    <3>1. {pick[p].torrent} \in SUBSET Torrents /\ TRUE \in BOOLEAN
      BY <2>1 DEF PickDispatches, TypeOK
    <3>2. /\ CreateTasks({pick[p].torrent}, TRUE) /\ UNCHANGED refresh
          /\ inflight' \subseteq inflight \cup {pick[p].torrent}
      BY <2>1 DEF PickDispatches
    <3>3. QED  BY <3>1, <3>2, CreateOwned
  <2>2. CASE \/ ScanStarts(p) \/ PickSelects(p) \/ PickFindsNone(p)
             \/ PickReannounces(p) \/ PickFails(p)
    BY <1>1, <2>2 DEF ScanStarts, PickSelects, PickFindsNone, PickReannounces, PickFails
  <2>3. QED  BY <1>5, <2>1, <2>2 DEF PickNext
<1>6. ASSUME NEW u \in Users, Request(u) PROVE NoLeakedClaim'
  <2>1. CASE ForceDispatches(u)
    <3>1. {user[u].torrent} \in SUBSET Torrents /\ TRUE \in BOOLEAN
      BY <2>1 DEF ForceDispatches, TypeOK
    <3>2. /\ CreateTasks({user[u].torrent}, TRUE) /\ UNCHANGED refresh
          /\ inflight' \subseteq inflight \cup {user[u].torrent}
      BY <2>1 DEF ForceDispatches
    <3>3. QED  BY <3>1, <3>2, CreateOwned
  <2>2. CASE UserRequests(u) \/ RequestAdvances(u) \/ RequestEnds(u) \/ RequestFails(u)
    BY <1>1, <2>2 DEF UserRequests, RequestAdvances, RequestEnds, RequestFails
  <2>3. QED  BY <1>6, <2>1, <2>2 DEF Request
<1>7. ASSUME NEW r \in Refreshers, RefreshWebseeds(r) PROVE NoLeakedClaim'
  <2>1. CASE RefreshStarts(r) \/ RefreshReplaces(r)
    <3>1. ASSUME NEW t \in inflight' PROVE (Handled(t) \/ Refreshed(t))'
      <4>1. t \in inflight \/ (refresh'[r].torrent = t /\ refresh'[r].pc # "idle")
        BY <2>1, <3>1 DEF RefreshStarts, RefreshReplaces, TypeOK
      <4>2. Handled(t) => Handled(t)'
        BY <2>1 DEF RefreshStarts, RefreshReplaces, Handled, LiveTasks
      <4>3. \A q \in Refreshers : refresh[q].pc # "idle" =>
              refresh'[q].pc # "idle" /\ refresh'[q].torrent = refresh[q].torrent
        <5>1. refresh \in [Refreshers -> Refresh]
          BY DEF TypeOK
        <5>2. CASE RefreshStarts(r)
          BY <5>1, <5>2 DEF RefreshStarts
        <5>3. CASE RefreshReplaces(r)
          BY <5>1, <5>3 DEF RefreshReplaces, Refresh
        <5>4. QED  BY <2>1, <5>2, <5>3
      <4>4. Refreshed(t) => Refreshed(t)'
        BY <4>3 DEF Refreshed, ActiveRefreshes
      <4>5. QED  BY <4>1, <4>2, <4>4, ClaimsOwned DEF Refreshed, ActiveRefreshes
    <3>2. QED  BY <3>1 DEF NoLeakedClaim, Handled, Refreshed
  <2>2. CASE RefreshResumes(r) \/ RefreshFails(r)
    BY <2>2, RefreshEndsOwned DEF RefreshResumes, RefreshFails
  <2>3. QED  BY <1>7, <2>1, <2>2 DEF RefreshWebseeds
<1>8. CASE Restart
  BY <1>8 DEF Restart, NoLeakedClaim
<1>9. CASE UNCHANGED vars
  BY <1>1, <1>9 DEF vars
<1>10. QED
  BY <1>2, <1>3, <1>4, <1>5, <1>6, <1>7, <1>8, <1>9 DEF Next

\* Whoever dispatches and whatever fails, every torrent in _inflight belongs to
\* a handler or a webseed refresh that will release it.
THEOREM ClaimsNeverLeak == Spec => []NoLeakedClaim
<1>1. Init => NoLeakedClaim
  BY DEF Init, NoLeakedClaim
<1>2. QED  BY <1>1, OwnedStep, TypeCorrect, PTL DEF Spec

(***************************************************************************)
(* The policy loop as the only dispatcher.  Without manual scans, forced   *)
(* hand-offs and webseed recovery tasks, hand-offs are exclusive, whatever *)
(* fails and whatever torrents users skip or retry meanwhile.              *)
(***************************************************************************)

LoopDispatches ==
    /\ Scans = {} /\ Recoveries = {}
    /\ Users = {} \/ "unskip" \notin UserOps

\* No request is on its way to a hand-off.
NoForce == \A u \in Users : user[u].pc \notin {"unskip", "unfail"}

\* Steps of the loop that create no task and touch no claim.
LEMMA LoopQuiet ==
    ASSUME SingleDispatcher, UNCHANGED <<task, inflight, refresh, pick>>,
           ActiveRefreshes # {} => pass'.pc \in {"idle", "sweep"},
           BatchUnclaimed'
    PROVE  SingleDispatcher'
<1>1. (ChainAsleep /\ HandleExclusive /\ ClaimHeld)'
  BY DEF SingleDispatcher, ChainAsleep, HandleExclusive, ClaimHeld, LiveTasks
<1>2. RefreshApart'
  BY DEF SingleDispatcher, RefreshApart, ActiveRefreshes, Handled, LiveTasks
<1>3. QED  BY <1>1, <1>2 DEF SingleDispatcher

\* A handler goes on or ends; its torrent is no one else's.
LEMMA LoopHandle ==
    ASSUME TypeOK, SingleDispatcher, NEW k \in Tasks, task[k].pc # "idle",
           \/ /\ task' = [task EXCEPT ![k] = [task[k] EXCEPT !.pc = task'[k].pc]]
              /\ task'[k].pc # "idle"
              /\ inflight' = inflight
           \/ /\ task' = [task EXCEPT ![k] = IdleTask]
              /\ inflight' = inflight \ {task[k].torrent},
           UNCHANGED <<pass, refresh, pick>>
    PROVE  SingleDispatcher'
<1>1. task[k] \in Task /\ task \in [Tasks -> Task] /\ task[k].torrent \in inflight
  BY DEF TypeOK, SingleDispatcher, ClaimHeld, LiveTasks
<1>2. \A l \in Tasks : task'[l].pc # "idle" =>
         /\ task[l].pc # "idle"
         /\ task'[l].torrent = task[l].torrent
         /\ task'[l].chain = task[l].chain
  BY <1>1 DEF Task, IdleTask
<1>3. \A t \in inflight : t \in inflight' \/ (t = task[k].torrent /\ task'[k].pc = "idle")
  BY <1>1 DEF IdleTask
<1>4. ChainAsleep' /\ HandleExclusive'
  BY <1>2 DEF SingleDispatcher, ChainAsleep, HandleExclusive, LiveTasks
<1>5. ClaimHeld'
  BY <1>2, <1>3 DEF SingleDispatcher, ClaimHeld, HandleExclusive, LiveTasks
<1>6. RefreshApart'
  <2>1. \A t : Handled(t)' => Handled(t)
    BY <1>2 DEF Handled, LiveTasks
  <2>2. Handled(task[k].torrent)
    BY DEF Handled, LiveTasks
  <2>3. QED  BY <1>3, <2>1, <2>2 DEF SingleDispatcher, RefreshApart, ActiveRefreshes
<1>7. BatchUnclaimed'
  BY DEF SingleDispatcher, BatchUnclaimed
<1>8. QED  BY <1>4, <1>5, <1>6, <1>7 DEF SingleDispatcher

\* The batch of a pass is dispatched.
LEMMA LoopDispatch ==
    ASSUME TypeOK, SingleDispatcher, pass.pc \in {"tagging", "untagging"},
           Dispatch, UNCHANGED <<refresh, pick>>
    PROVE  SingleDispatcher'
<1>1. pass.batch \in SUBSET Torrents /\ FALSE \in BOOLEAN
  BY DEF TypeOK, Pass
<1>2. CreateTasks(pass.batch, FALSE) /\ inflight' = inflight \cup pass.batch /\ pass' = IdlePass
  BY DEF Dispatch, EndPass
<1>3. \A k \in Tasks : task[k].pc # "idle" => task[k].torrent \notin pass.batch
  BY DEF SingleDispatcher, BatchUnclaimed, ClaimHeld, LiveTasks
<1>4. \A k \in Tasks : task'[k].pc # "idle" =>
         \/ task[k].pc # "idle" /\ task'[k] = task[k]
         \/ task[k].pc = "idle" /\ task'[k].torrent \in pass.batch /\ task'[k].chain = FALSE
  <2>1. \A k \in Tasks : \/ task'[k] = task[k]
                          \/ /\ task[k].pc = "idle"
                             /\ task'[k].pc = "queued"
                             /\ task'[k].torrent \in pass.batch
                             /\ task'[k].chain = FALSE
    BY <1>1, <1>2, CreatesTasks, Zenon
  <2>2. QED  BY <2>1, Zenon
<1>5. ChainAsleep' /\ ClaimHeld'
  BY <1>2, <1>4 DEF SingleDispatcher, ChainAsleep, ClaimHeld, LiveTasks
<1>6. HandleExclusive'
  <2>1. SUFFICES ASSUME NEW k \in Tasks, NEW l \in Tasks,
                        task'[k].pc # "idle", task'[l].pc # "idle",
                        task'[k].torrent = task'[l].torrent
                 PROVE  k = l
    BY DEF HandleExclusive, LiveTasks
  <2>2. CASE task[k].pc # "idle" /\ task[l].pc # "idle"
    BY <1>4, <2>1, <2>2 DEF SingleDispatcher, HandleExclusive, LiveTasks
  <2>3. CASE task[k].pc = "idle" /\ task[l].pc = "idle"
    BY <1>1, <1>2, <2>1, <2>3, CreatesTasks
  <2>4. CASE (task[k].pc = "idle") # (task[l].pc = "idle")
    BY <1>3, <1>4, <2>1, <2>4
  <2>5. QED  BY <2>2, <2>3, <2>4
<1>7. ActiveRefreshes' = {}
  BY DEF SingleDispatcher, RefreshApart, ActiveRefreshes
<1>8. RefreshApart' /\ BatchUnclaimed'
  BY <1>2, <1>7 DEF RefreshApart, BatchUnclaimed, IdlePass
<1>9. QED  BY <1>5, <1>6, <1>8 DEF SingleDispatcher

LEMMA LoopStep ==
    ASSUME LoopDispatches, TypeOK, SingleDispatcher, NoForce, [Next]_vars
    PROVE  SingleDispatcher'
<1> USE DEF bookkeeping
<1>1. Pickers = {ChainTask} /\ Refreshers = {LoopRefresh}
  BY DEF LoopDispatches, Pickers, Refreshers
<1>2. pick[ChainTask].pc = "idle" /\ \A k \in Tasks : task[k].pc # "idle" => ~task[k].chain
  BY DEF SingleDispatcher, ChainAsleep, LiveTasks
<1>3. refresh[LoopRefresh].pc # "idle" => pass.pc \in {"idle", "sweep"}
  BY <1>1 DEF SingleDispatcher, RefreshApart, ActiveRefreshes
<1>4. ActiveRefreshes # {} => refresh[LoopRefresh].pc # "idle"
  BY <1>1 DEF ActiveRefreshes
<1>5. ASSUME NEW k \in Tasks, Handle(k) PROVE SingleDispatcher'
  <2>1. task[k] \in Task /\ task \in [Tasks -> Task] /\ (task[k].pc # "idle" => task[k].torrent \in inflight)
    BY DEF TypeOK, SingleDispatcher, ClaimHeld, LiveTasks
  <2>2. ASSUME NEW s \in CallStages \cup {"idle"}, Continue(k, s), task[k].pc # "idle",
               UNCHANGED <<pass, refresh>>
        PROVE  SingleDispatcher'
    <3>1. CASE s = "idle"
      BY <1>2, <2>2, <3>1, LoopHandle DEF Continue
    <3>2. CASE s # "idle"
      BY <2>1, <2>2, <3>2, LoopHandle DEF Continue, Task
    <3>3. QED  BY <3>1, <3>2
  <2>3. CASE Begin(k)
    BY <2>1, <2>3, LoopHandle DEF Begin, Task
  <2>4. CASE CallReturns(k)
    <3>1. /\ task[k].pc # "idle" /\ task[k].pc \in CallStages
          /\ Continue(k, NextStage(task[k].pc)) /\ UNCHANGED <<pass, refresh>>
      BY <2>4 DEF CallReturns, CallStages, MainStages, FailureStages
    <3>2. QED  BY <2>2, <3>1, StageType
  <2>5. CASE CallRaises(k)
    <3>1. /\ task[k].pc # "idle" /\ task[k].pc \in CallStages
          /\ Continue(k, FailStage(task[k].pc)) /\ UNCHANGED <<pass, refresh>>
      BY <2>5 DEF CallRaises, CallStages, MainStages, FailureStages
    <3>2. QED  BY <2>2, <3>1, StageType
  <2>6. QED  BY <1>5, <2>3, <2>4, <2>5 DEF Handle
<1>6. CASE PolicyLoop
  <2> USE DEF EndPass, IdlePass, LoopFree, BatchUnclaimed
  <2>1. CASE PollAnswered
    BY <1>4, <2>1, LoopQuiet DEF PollAnswered, TypeOK, Pass
  <2>2. CASE PollApplied
    BY <1>3, <1>4, <2>2, LoopQuiet DEF PollApplied
  <2>3. CASE PassStarts
    BY <1>4, <2>3, LoopQuiet DEF PassStarts, TypeOK, Pass
  <2>4. CASE RecoverFailed
    <3>1. UNCHANGED <<task, inflight, refresh, pick>> /\ refresh[LoopRefresh].pc = "idle"
      BY <2>4 DEF RecoverFailed
    <3>2. BatchUnclaimed'
      BY <2>4 DEF RecoverFailed, TypeOK, Pass
    <3>3. QED  BY <1>4, <3>1, <3>2, LoopQuiet
  <2>5. CASE RecoverClear
    BY <1>3, <1>4, <2>5, LoopQuiet DEF RecoverClear, TypeOK, Pass, SingleDispatcher
  <2>6. CASE RecoverTag
    BY <1>3, <1>4, <2>6, LoopQuiet DEF RecoverTag, TypeOK, Pass
  <2>7. CASE Judge
    <3>1. UNCHANGED <<task, inflight, refresh, pick>> /\ refresh[LoopRefresh].pc = "idle"
      BY <2>7 DEF Judge
    <3>2. BatchUnclaimed'
      BY <2>7 DEF Judge, Candidate
    <3>3. QED  BY <1>4, <3>1, <3>2, LoopQuiet
  <2>8. CASE TagPass
    <3>1. CASE ClearCandidates # {}
      BY <1>3, <1>4, <2>8, <3>1, LoopQuiet DEF TagPass, TypeOK, Pass, SingleDispatcher
    <3>2. CASE ClearCandidates = {}
      BY <2>8, <3>2, LoopDispatch DEF TagPass
    <3>3. QED  BY <3>1, <3>2
  <2>9. CASE UntagPass
    BY <2>9, LoopDispatch DEF UntagPass
  <2>10. CASE PassFails
    BY <1>3, <1>4, <2>10, LoopQuiet DEF PassFails
  <2>11. QED
    BY <1>6, <2>1, <2>2, <2>3, <2>4, <2>5, <2>6, <2>7, <2>8, <2>9, <2>10 DEF PolicyLoop
<1>7. CASE ChainStarts
  BY <1>2, <1>7 DEF ChainStarts
<1>8. ASSUME NEW p \in Pickers, PickNext(p) PROVE SingleDispatcher'
  BY <1>1, <1>2, <1>8 DEF PickNext, ScanStarts, PickSelects, PickFindsNone,
                          PickDispatches, PickReannounces, PickFails, LoopDispatches
<1>9. ASSUME NEW r \in Refreshers, RefreshWebseeds(r) PROVE SingleDispatcher'
  <2>1. r = LoopRefresh /\ r \notin Recoveries /\ refresh \in [Refreshers -> Refresh]
    BY <1>1 DEF LoopDispatches, TypeOK
  <2>2. \A t \in Torrents : Handled(t) => t \in inflight
    BY DEF SingleDispatcher, ClaimHeld, Handled
  <2>3. CASE RefreshStarts(r) \/ RefreshReplaces(r)
    <3>1. pass.pc \in {"idle", "sweep"}
      BY <1>3, <2>1, <2>3 DEF RefreshStarts, RefreshReplaces
    <3>2. refresh'[r].torrent \in inflight' /\ ~Handled(refresh'[r].torrent) /\ inflight \subseteq inflight'
      <4>1. CASE RefreshStarts(r)
        BY <2>1, <2>2, <4>1 DEF RefreshStarts
      <4>2. CASE RefreshReplaces(r)
        <5>1. refresh[r].torrent \in inflight /\ ~Handled(refresh[r].torrent)
          BY <4>2 DEF RefreshReplaces, SingleDispatcher, RefreshApart, ActiveRefreshes
        <5>2. refresh'[r].torrent = refresh[r].torrent /\ inflight' = inflight
          BY <2>1, <4>2 DEF RefreshReplaces, Refresh
        <5>3. QED  BY <5>1, <5>2
      <4>3. QED  BY <2>3, <4>1, <4>2
    <3>3. UNCHANGED <<task, pass, pick>>
      BY <2>3 DEF RefreshStarts, RefreshReplaces
    <3>4. (ChainAsleep /\ HandleExclusive /\ ClaimHeld /\ BatchUnclaimed)'
      BY <3>1, <3>2, <3>3 DEF SingleDispatcher, ChainAsleep, HandleExclusive, ClaimHeld,
                              BatchUnclaimed, LiveTasks
    <3>5. RefreshApart'
      BY <1>1, <2>1, <3>1, <3>2, <3>3 DEF RefreshApart, ActiveRefreshes, Handled, LiveTasks
    <3>6. QED  BY <3>4, <3>5 DEF SingleDispatcher
  <2>4. CASE RefreshResumes(r) \/ RefreshFails(r)
    <3>1. /\ RefreshEnds(r) /\ UNCHANGED <<task, pass, pick>>
          /\ refresh[r].pc # "idle"
      BY <2>4 DEF RefreshResumes, RefreshFails
    <3>2. ~Handled(refresh[r].torrent) /\ inflight' = inflight \ {refresh[r].torrent}
      BY <3>1 DEF RefreshEnds, SingleDispatcher, RefreshApart, ActiveRefreshes
    <3>3. (ChainAsleep /\ HandleExclusive /\ ClaimHeld /\ BatchUnclaimed)'
      BY <3>1, <3>2 DEF SingleDispatcher, ChainAsleep, HandleExclusive, ClaimHeld,
                        BatchUnclaimed, LiveTasks, Handled
    <3>4. ActiveRefreshes' = {}
      BY <1>1, <2>1, <3>1 DEF RefreshEnds, ActiveRefreshes, Idle
    <3>5. QED  BY <3>3, <3>4 DEF SingleDispatcher, RefreshApart
  <2>5. QED  BY <1>9, <2>3, <2>4 DEF RefreshWebseeds
<1>10. CASE Restart
  BY <1>1, <1>10 DEF Restart, SingleDispatcher, ChainAsleep, HandleExclusive, ClaimHeld,
                RefreshApart, BatchUnclaimed, LiveTasks, ActiveRefreshes, IdleTask, Idle, IdlePass
<1>11. CASE UNCHANGED vars
  BY <1>11, <1>3, <1>4, LoopQuiet DEF vars, SingleDispatcher, BatchUnclaimed
<1>12. ASSUME NEW u \in Users, Request(u) PROVE SingleDispatcher'
  <2>1. ~ForceDispatches(u)
    BY DEF ForceDispatches, NoForce
  <2>2. UNCHANGED <<task, inflight, refresh, pick, pass>>
    BY <1>12, <2>1 DEF Request, UserRequests, RequestAdvances, RequestEnds, RequestFails
  <2>3. QED  BY <1>3, <1>4, <2>2, LoopQuiet DEF SingleDispatcher, BatchUnclaimed
<1>13. QED
  BY <1>5, <1>6, <1>7, <1>8, <1>9, <1>10, <1>11, <1>12 DEF Next

LEMMA NoForceStep ==
    ASSUME LoopDispatches, TypeOK, NoForce, [Next]_vars
    PROVE  NoForce'
<1>1. CASE UNCHANGED user
  BY <1>1 DEF NoForce
<1>2. ASSUME NEW u \in Users, Request(u) PROVE NoForce'
  <2>1. user \in [Users -> User] /\ "unskip" \notin UserOps
    BY <1>2 DEF TypeOK, LoopDispatches
  <2>2. user'[u].pc \notin {"unskip", "unfail"} /\ \A v \in Users \ {u} : user'[v] = user[v]
    <3>1. CASE UserRequests(u)
      BY <2>1, <3>1, HandoffAssumption DEF UserRequests
    <3>2. CASE RequestAdvances(u)
      <4>1. user[u] \in User /\ user[u].pc # "unskip"
        BY <2>1 DEF NoForce
      <4>2. PICK pc \in {"skipClear", "retryTag"} : user' = [user EXCEPT ![u].pc = pc]
        BY <3>2, <4>1 DEF RequestAdvances
      <4>3. QED  BY <2>1, <4>1, <4>2 DEF User
    <3>3. CASE ForceDispatches(u)
      BY <3>3 DEF ForceDispatches, NoForce
    <3>4. CASE RequestEnds(u) \/ RequestFails(u)
      BY <2>1, <3>4 DEF RequestEnds, RequestFails, Idle
    <3>5. QED  BY <1>2, <3>1, <3>2, <3>3, <3>4 DEF Request
  <2>3. QED  BY <2>2 DEF NoForce
<1>3. CASE Restart
  BY <1>3 DEF Restart, Idle, NoForce
<1>4. CASE UNCHANGED vars
  BY <1>1, <1>4 DEF vars
<1>5. ASSUME NEW k \in Tasks, Handle(k) PROVE UNCHANGED user
  BY <1>5 DEF Handle, Begin, CallReturns, CallRaises
<1>6. CASE PolicyLoop
  BY <1>1, <1>6 DEF PolicyLoop, PollAnswered, PollApplied, PassStarts, RecoverFailed,
     RecoverClear, RecoverTag, Judge, TagPass, UntagPass, PassFails
<1>7. CASE ChainStarts
  BY <1>1, <1>7 DEF ChainStarts
<1>8. ASSUME NEW p \in Pickers, PickNext(p) PROVE UNCHANGED user
  BY <1>8 DEF PickNext, ScanStarts, PickSelects, PickFindsNone, PickDispatches,
     PickReannounces, PickFails
<1>9. ASSUME NEW r \in Refreshers, RefreshWebseeds(r) PROVE UNCHANGED user
  BY <1>9 DEF RefreshWebseeds, RefreshStarts, RefreshReplaces, RefreshResumes, RefreshFails
<1>10. QED
  BY <1>1, <1>2, <1>3, <1>4, <1>5, <1>6, <1>7, <1>8, <1>9 DEF Next

LEMMA LoopInit ==
    ASSUME Init
    PROVE  SingleDispatcher /\ NoForce
BY DEF Init, NoForce, SingleDispatcher, ChainAsleep, HandleExclusive, ClaimHeld, RefreshApart,
       BatchUnclaimed, LiveTasks, ActiveRefreshes, IdleTask, Idle, IdlePass, Pickers

\* As long as the policy loop is the only dispatcher, the reasons why its
\* hand-offs stay exclusive hold throughout: the chain sleeps, refreshes are
\* awaited, and a batch stays unclaimed until it is dispatched.
THEOREM LoopAlone ==
    ASSUME LoopDispatches
    PROVE  Spec => []SingleDispatcher
<1>1. Init => SingleDispatcher /\ NoForce
  BY LoopInit
<1>2. TypeOK /\ SingleDispatcher /\ NoForce /\ [Next]_vars => (SingleDispatcher /\ NoForce)'
  BY LoopStep, NoForceStep
<1>3. QED  BY <1>1, <1>2, TypeCorrect, PTL DEF Spec

\* Then no torrent is handed to two handlers, through every failed call, retry
\* and crash.
THEOREM LoopExclusive ==
    ASSUME LoopDispatches
    PROVE  Spec => []HandleExclusive
<1>1. SingleDispatcher => HandleExclusive
  BY DEF SingleDispatcher
<1>2. QED  BY <1>1, LoopAlone, PTL

\* No torrent is handled unclaimed, from its dispatch to the end of its handler.
THEOREM LoopHoldsClaims ==
    ASSUME LoopDispatches
    PROVE  Spec => []ClaimHeld
<1>1. SingleDispatcher => ClaimHeld
  BY DEF SingleDispatcher
<1>2. QED  BY <1>1, LoopAlone, PTL

\* And none is handled while its web seeds are refreshed.
THEOREM LoopRefreshesApart ==
    ASSUME LoopDispatches
    PROVE  Spec => []RefreshExclusive
<1>1. SingleDispatcher => RefreshExclusive
  BY DEF SingleDispatcher, RefreshApart, RefreshExclusive
<1>2. QED  BY <1>1, LoopAlone, PTL

(***************************************************************************)
(* No torrent is left paused in silence.  A paused torrent carries a tag   *)
(* the operator is shown, or was taken up for a retry; that it keeps the   *)
(* tag while its handler works through the stages needs to know how far    *)
(* the handler has come, and that nobody else changes the torrent's tags:  *)
(* hand-offs are exclusive, and no retry takes up a handled torrent.       *)
(***************************************************************************)

\* Nobody but the policy loop and its handlers.
LoopOnly == Scans = {} /\ Users = {} /\ Recoveries = {}

MarkTags == {"failed", "active"}

\* What a stage relies on: the torrent is tagged before it is paused, tagged
\* failed before its active tag goes, and resumed before it is tagged done.
StageMarked(k) ==
    LET row == remote[task[k].torrent]
    IN  /\ task[k].pc = "pause" => "active" \in row.tags
        /\ task[k].pc \in {"tagDone", "untagActive"} => ~row.paused
        /\ task[k].pc = "untagFailed" => "failed" \in row.tags
        /\ task[k].pc # "resumeKept"

PausedMarked ==
    /\ \A t \in Torrents :
        remote[t].paused => remote[t].tags \cap MarkTags # {} \/ t \in retried
    /\ \A k \in LiveTasks : StageMarked(k)

\* A row that has the same marks, and is not paused unless it was.
Milder(new, old) ==
    /\ new.tags \cap MarkTags = old.tags \cap MarkTags
    /\ new.paused => old.paused

\* Whatever leaves every row at least as mild, but for torrents it takes up for
\* a retry while nobody handles them, and starts handlers at most, keeps the marks.
LEMMA MilderMarked ==
    ASSUME TypeOK, PausedMarked, retried \subseteq retried',
           \A t \in Torrents : Milder(remote'[t], remote[t]) \/ (t \in retried' /\ ~Handled(t)),
           \A k \in Tasks : task'[k] = task[k] \/ task'[k].pc \in {"idle", "queued"}
    PROVE  PausedMarked'
<1>1. \A t \in Torrents :
        remote'[t].paused => remote'[t].tags \cap MarkTags # {} \/ t \in retried'
  BY DEF PausedMarked, Milder
<1>2. ASSUME NEW k \in Tasks, task'[k].pc # "idle" PROVE StageMarked(k)'
  <2>1. CASE task'[k].pc = "queued"
    BY <2>1 DEF StageMarked
  <2>2. CASE task'[k] = task[k]
    <3>1. StageMarked(k) /\ task[k].torrent \in Torrents /\ Handled(task[k].torrent)
      BY <1>2, <2>2 DEF PausedMarked, LiveTasks, TypeOK, Handled
    <3>2. Milder(remote'[task[k].torrent], remote[task[k].torrent])
      BY <3>1
    <3>3. QED  BY <2>2, <3>1, <3>2 DEF StageMarked, Milder, MarkTags
  <2>3. QED  BY <1>2, <2>1, <2>2
<1>3. QED  BY <1>1, <1>2 DEF PausedMarked, LiveTasks

\* Tagging or untagging candidates touches no mark, and neither does resuming;
\* taking the failure tags from a batch leaves the other torrents alone.
LEMMA CandidatesMilder ==
    ASSUME TypeOK, NEW batch \in SUBSET Torrents, NEW t \in Torrents
    PROVE  /\ Milder(TagCandidates(batch)[t], remote[t])
           /\ Milder(UntagCandidates[t], remote[t])
           /\ \A v \in Torrents : Milder(Resumed(v)[t], remote[t])
           /\ t \notin batch => Milder(ClearFailureTags(batch)[t], remote[t])
<1>1. remote \in [Torrents -> Row] /\ remote[t] \in Row
  BY DEF TypeOK
<1>2. Milder(TagCandidates(batch)[t], remote[t]) /\ Milder(UntagCandidates[t], remote[t])
  BY <1>1 DEF TagCandidates, UntagCandidates, Milder, MarkTags, Row
<1>3. ASSUME NEW v \in Torrents PROVE Milder(Resumed(v)[t], remote[t])
  BY <1>1 DEF Resumed, Milder, MarkTags, Row
<1>4. t \notin batch => Milder(ClearFailureTags(batch)[t], remote[t])
  BY <1>1 DEF ClearFailureTags, Milder
<1>5. QED  BY <1>2, <1>3, <1>4

\* Calls that mark the torrent, after which a retry no longer accounts for it.
MarkStages == {"tagActive", "tagFailed"}

\* What a call does to the row of the handler's torrent, and what the stage
\* after it relies on, whether it returned or raised.
LEMMA CallMarks ==
    ASSUME Delivery = "webseed", NEW row \in Row, NEW s \in CallStages,
           NEW taken \in BOOLEAN,
           row.paused => row.tags \cap MarkTags # {} \/ taken,
           s = "pause" => "active" \in row.tags,
           s \in {"tagDone", "untagActive"} => ~row.paused,
           s = "untagFailed" => "failed" \in row.tags,
           s # "resumeKept"
    PROVE  /\ CallEffect(s, row).paused =>
                CallEffect(s, row).tags \cap MarkTags # {} \/ (taken /\ s \notin MarkStages)
           /\ NextStage(s) = "pause" => "active" \in CallEffect(s, row).tags
           /\ NextStage(s) \in {"tagDone", "untagActive"} => ~CallEffect(s, row).paused
           /\ NextStage(s) = "untagFailed" => "failed" \in CallEffect(s, row).tags
           /\ NextStage(s) # "resumeKept"
           /\ FailStage(s) \notin {"pause", "tagDone", "untagActive", "untagFailed", "resumeKept"}
BY DEF CallEffect, NextStage, FailStage, CallStages, MainStages, FailureStages, MarkTags, MarkStages, Row

\* A call of a handler that has its torrent for itself.
LEMMA HandlerMarked ==
    ASSUME TypeOK, HandleExclusive, PausedMarked, NEW k \in Tasks, NEW s,
           task[k].pc \in CallStages, Continue(k, s),
           retried \subseteq retried' \cup {task[k].torrent},
           NEW row \in Row,
           remote' = [remote EXCEPT ![task[k].torrent] = row],
           row.paused => row.tags \cap MarkTags # {} \/ task[k].torrent \in retried',
           s = "pause" => "active" \in row.tags,
           s \in {"tagDone", "untagActive"} => ~row.paused,
           s = "untagFailed" => "failed" \in row.tags,
           s # "resumeKept"
    PROVE  PausedMarked'
<1> DEFINE t == task[k].torrent
<1>1. /\ task[k].pc # "idle" /\ t \in Torrents /\ task[k] \in Task
      /\ task \in [Tasks -> Task] /\ remote \in [Torrents -> Row]
  BY DEF TypeOK, CallStages, MainStages, FailureStages
<1>2. remote'[t] = row /\ \A u \in Torrents : u # t => remote'[u] = remote[u]
  BY <1>1
<1>3. \A u \in Torrents :
        remote'[u].paused => remote'[u].tags \cap MarkTags # {} \/ u \in retried'
  BY <1>2 DEF PausedMarked
<1>4. /\ \A l \in Tasks \ {k} : task'[l] = task[l]
      /\ task'[k].pc = s
      /\ s # "idle" => task'[k].torrent = t
  BY <1>1 DEF Continue, Task, IdleTask
<1>5. ASSUME NEW l \in Tasks, task'[l].pc # "idle" PROVE StageMarked(l)'
  <2>1. CASE l = k
    BY <1>2, <1>4, <1>5, <2>1 DEF StageMarked
  <2>2. CASE l # k
    <3>1. task'[l] = task[l] /\ StageMarked(l) /\ task[l].torrent \in Torrents
      BY <1>4, <1>5, <2>2 DEF PausedMarked, LiveTasks, TypeOK
    <3>2. task[l].torrent # t
      BY <1>1, <1>5, <2>2, <3>1 DEF HandleExclusive, LiveTasks
    <3>3. remote'[task[l].torrent] = remote[task[l].torrent]
      BY <1>2, <3>1, <3>2
    <3>4. QED  BY <3>1, <3>3 DEF StageMarked
  <2>3. QED  BY <2>1, <2>2
<1>6. QED  BY <1>3, <1>5 DEF PausedMarked, LiveTasks

LEMMA MarkedHandle ==
    ASSUME TypeOK, HandleExclusive, PausedMarked, Delivery = "webseed",
           NEW k \in Tasks, Handle(k)
    PROVE  PausedMarked'
<1> DEFINE t == task[k].torrent
           s == task[k].pc
           row == remote[t]
           taken == t \in retried
<1>1. CASE Begin(k)
  <2>1. task \in [Tasks -> Task] /\ task[k] \in Task
    BY DEF TypeOK
  <2>2. /\ \A l \in Tasks \ {k} : task'[l] = task[l]
        /\ task'[k].pc = "tagActive"
        /\ UNCHANGED <<remote, retried>>
    BY <1>1, <2>1 DEF Begin, Task, bookkeeping
  <2>3. \A l \in Tasks : task'[l].pc # "idle" => StageMarked(l)'
    BY <2>2 DEF StageMarked, PausedMarked, LiveTasks
  <2>4. QED  BY <2>2, <2>3 DEF PausedMarked, LiveTasks
<1>2. ASSUME s \in CallStages
      PROVE  /\ t \in Torrents /\ row \in Row /\ remote \in [Torrents -> Row]
             /\ row.paused => row.tags \cap MarkTags # {} \/ taken
             /\ s = "pause" => "active" \in row.tags
             /\ s \in {"tagDone", "untagActive"} => ~row.paused
             /\ s = "untagFailed" => "failed" \in row.tags
             /\ s # "resumeKept"
  <2>1. s # "idle" /\ k \in LiveTasks
    BY <1>2 DEF CallStages, MainStages, FailureStages, LiveTasks
  <2>2. t \in Torrents /\ row \in Row /\ remote \in [Torrents -> Row]
    BY <2>1 DEF TypeOK
  <2>3. QED  BY <2>1, <2>2 DEF PausedMarked, StageMarked
<1>3. ASSUME s \in CallStages
      PROVE  /\ CallEffect(s, row) \in Row
             /\ CallEffect(s, row).paused =>
                  CallEffect(s, row).tags \cap MarkTags # {} \/ (taken /\ s \notin MarkStages)
             /\ NextStage(s) = "pause" => "active" \in CallEffect(s, row).tags
             /\ NextStage(s) \in {"tagDone", "untagActive"} => ~CallEffect(s, row).paused
             /\ NextStage(s) = "untagFailed" => "failed" \in CallEffect(s, row).tags
             /\ NextStage(s) # "resumeKept"
             /\ FailStage(s) \notin {"pause", "tagDone", "untagActive", "untagFailed", "resumeKept"}
  <2>1. taken \in BOOLEAN
    OBVIOUS
  <2> HIDE DEF t, s, row, taken
  <2>2. QED  BY <1>2, <1>3, <2>1, EffectType, CallMarks
<1>4. CASE CallReturns(k)
  <2>1. /\ s \in CallStages /\ Continue(k, NextStage(s))
        /\ remote' = [remote EXCEPT ![t] = CallEffect(s, row)]
        /\ retried' = IF s \in MarkStages THEN retried \ {t} ELSE retried
    BY <1>4 DEF CallReturns, MarkStages
  <2> DEFINE after == CallEffect(s, row)
             next == NextStage(s)
  <2>2. /\ task[k].pc \in CallStages /\ Continue(k, next)
        /\ retried \subseteq retried' \cup {task[k].torrent}
        /\ after \in Row /\ remote' = [remote EXCEPT ![task[k].torrent] = after]
        /\ after.paused => after.tags \cap MarkTags # {} \/ task[k].torrent \in retried'
        /\ next = "pause" => "active" \in after.tags
        /\ next \in {"tagDone", "untagActive"} => ~after.paused
        /\ next = "untagFailed" => "failed" \in after.tags
        /\ next # "resumeKept"
    BY <1>3, <2>1
  <2> HIDE DEF after, next, t, s, row, taken
  <2>3. QED  BY <2>2, HandlerMarked
<1>5. CASE CallRaises(k)
  <2>1. s \in CallStages /\ Continue(k, FailStage(s)) /\ retried' = retried
    BY <1>5 DEF CallRaises, bookkeeping
  <2> DEFINE next == FailStage(s)
  <2>2. /\ task[k].pc \in CallStages /\ Continue(k, next)
        /\ retried \subseteq retried' \cup {task[k].torrent}
        /\ next \notin {"pause", "tagDone", "untagActive", "untagFailed", "resumeKept"}
    BY <1>3, <2>1
  <2>3. ASSUME NEW after \in {row, CallEffect(s, row)}, remote' = [remote EXCEPT ![t] = after]
        PROVE  PausedMarked'
    <3>1. after \in Row /\ (after.paused => after.tags \cap MarkTags # {} \/ t \in retried')
      BY <1>2, <1>3, <2>1, <2>3
    <3> HIDE DEF next, t, s, row, taken
    <3>2. remote' = [remote EXCEPT ![task[k].torrent] = after]
      BY <2>3 DEF t
    <3>3. after.paused => after.tags \cap MarkTags # {} \/ task[k].torrent \in retried'
      BY <3>1 DEF t
    <3>4. QED  BY <2>2, <3>1, <3>2, <3>3, HandlerMarked
  <2>4. remote = [remote EXCEPT ![t] = row]
    BY <1>2, <2>1
  <2>5. \/ remote' = [remote EXCEPT ![t] = row]
        \/ remote' = [remote EXCEPT ![t] = CallEffect(s, row)]
    BY <1>5, <2>4 DEF CallRaises, FailedCall
  <2>6. QED  BY <2>3, <2>5
<1>6. QED  BY <1>1, <1>4, <1>5 DEF Handle

LEMMA MarkedPolicyLoop ==
    ASSUME TypeOK, SingleDispatcher, PausedMarked, PolicyLoop
    PROVE  PausedMarked'
<1> USE DEF bookkeeping
<1>1. pass \in Pass /\ pass.batch \in SUBSET Torrents /\ pass.cands \in SUBSET Torrents
      /\ FALSE \in BOOLEAN
  BY DEF TypeOK, Pass
<1>2. \A t \in Torrents : Milder(remote[t], remote[t])
  BY DEF Milder
<1>3. CASE UNCHANGED <<remote, task, retried>>
  BY <1>2, <1>3, MilderMarked
<1>4. Dispatch => \A k \in Tasks : task'[k] = task[k] \/ task'[k].pc \in {"idle", "queued"}
  <2>1. SUFFICES ASSUME Dispatch
                 PROVE  \A k \in Tasks : task'[k] = task[k] \/ task'[k].pc \in {"idle", "queued"}
    OBVIOUS
  <2>2. CreateTasks(pass.batch, FALSE)
    BY <2>1 DEF Dispatch
  <2>3. \A k \in Tasks : task'[k] = task[k] \/ task'[k].pc = "queued"
    BY <1>1, <2>2, CreatesTasks
  <2>4. QED  BY <2>3
\* Nobody handles a torrent of the batch that a retry takes up.
<1>5. ASSUME pass.pc = "retryClear", NEW t \in pass.batch PROVE ~Handled(t)
  BY <1>5 DEF SingleDispatcher, BatchUnclaimed, ClaimHeld, Handled
<1>6. CASE \/ PollAnswered \/ PollApplied \/ PassStarts \/ RecoverFailed \/ Judge
  BY <1>3, <1>6 DEF PollAnswered, PollApplied, PassStarts, RecoverFailed, Judge
<1>7. ASSUME pass.pc = "retryClear", UNCHANGED task, retried' = retried \cup pass.batch,
             remote' \in {remote, ClearFailureTags(pass.batch)}
      PROVE  PausedMarked'
  <2>1. \A t \in Torrents : Milder(remote'[t], remote[t]) \/ (t \in retried' /\ ~Handled(t))
    BY <1>1, <1>2, <1>5, <1>7, CandidatesMilder
  <2>2. QED  BY <1>7, <2>1, MilderMarked
<1>8. CASE RecoverClear
  BY <1>7, <1>8 DEF RecoverClear
<1>9. CASE RecoverTag
  <2>1. \A t \in Torrents : Milder(remote'[t], remote[t])
    BY <1>1, <1>9, CandidatesMilder DEF RecoverTag
  <2>2. QED  BY <1>9, <2>1, MilderMarked DEF RecoverTag
<1>10. CASE TagPass
  <2>1. \A t \in Torrents : Milder(remote'[t], remote[t])
    BY <1>1, <1>10, CandidatesMilder DEF TagPass
  <2>2. UNCHANGED task \/ Dispatch
    BY <1>10 DEF TagPass
  <2>3. QED  BY <1>4, <1>10, <2>1, <2>2, MilderMarked DEF TagPass
<1>11. CASE UntagPass
  <2>1. \A t \in Torrents : Milder(remote'[t], remote[t])
    BY <1>1, <1>11, CandidatesMilder DEF UntagPass
  <2>2. QED  BY <1>4, <1>11, <2>1, MilderMarked DEF UntagPass
<1>12. CASE PassFails
  <2>1. CASE pass.pc = "retryClear"
    BY <1>7, <1>12, <2>1 DEF PassFails, FailedCall
  <2>2. CASE pass.pc # "retryClear"
    <3>1. /\ remote' \in {remote, TagCandidates(pass.batch), TagCandidates(pass.cands), UntagCandidates}
          /\ UNCHANGED <<task, retried>>
      BY <1>12, <2>2 DEF PassFails, FailedCall
    <3>2. \A t \in Torrents : Milder(remote'[t], remote[t])
      BY <1>1, <1>2, <3>1, CandidatesMilder
    <3>3. QED  BY <3>1, <3>2, MilderMarked
  <2>3. QED  BY <2>1, <2>2
<1>13. QED  BY <1>6, <1>8, <1>9, <1>10, <1>11, <1>12 DEF PolicyLoop

LEMMA MarkedStep ==
    ASSUME LoopOnly, Delivery = "webseed",
           TypeOK, SingleDispatcher, PausedMarked, [Next]_vars
    PROVE  PausedMarked'
<1> USE DEF bookkeeping
<1>1. \A t \in Torrents : Milder(remote[t], remote[t])
  BY DEF Milder
<1>2. CASE \E k \in Tasks : Handle(k)
  BY <1>2, MarkedHandle DEF SingleDispatcher
<1>3. CASE PolicyLoop
  BY <1>3, MarkedPolicyLoop
<1>4. CASE ChainStarts
  BY <1>4 DEF ChainStarts, SingleDispatcher, ChainAsleep
<1>5. ~\E p \in Pickers : PickNext(p)
  BY DEF PickNext, ScanStarts, PickSelects, PickFindsNone, PickDispatches, PickReannounces,
         PickFails, LoopOnly, Pickers, SingleDispatcher, ChainAsleep
<1>6. ASSUME NEW r \in Refreshers, RefreshWebseeds(r) PROVE PausedMarked'
  <2>1. UNCHANGED <<task, retried>>
    BY <1>6 DEF RefreshWebseeds, RefreshStarts, RefreshReplaces, RefreshResumes, RefreshFails
  <2>2. \/ UNCHANGED remote
        \/ refresh[r].pc = "resume" /\ remote' = Resumed(refresh[r].torrent)
    BY <1>6 DEF RefreshWebseeds, RefreshStarts, RefreshReplaces, RefreshResumes,
                RefreshFails, FailedCall
  <2>3. refresh[r].pc = "resume" => refresh[r].torrent \in Torrents
    BY DEF TypeOK
  <2>4. \A t \in Torrents : Milder(remote'[t], remote[t])
    BY <1>1, <2>2, <2>3, CandidatesMilder
  <2>5. QED  BY <2>1, <2>4, MilderMarked
<1>7. CASE Restart
  <2>1. UNCHANGED <<remote, retried>> /\ \A k \in Tasks : task'[k].pc = "idle"
    BY <1>7 DEF Restart, IdleTask
  <2>2. QED  BY <1>1, <2>1, MilderMarked
<1>8. CASE UNCHANGED vars
  BY <1>1, <1>8, MilderMarked DEF vars
<1>9. QED  BY <1>2, <1>3, <1>4, <1>5, <1>6, <1>7, <1>8 DEF Next, LoopOnly

LEMMA MarksKept ==
    ASSUME LoopOnly, Delivery = "webseed"
    PROVE  Spec => []PausedMarked
<1>1. Init => PausedMarked
  BY DEF Init, PausedMarked, Blank, LiveTasks, IdleTask
<1>2. TypeOK /\ SingleDispatcher /\ PausedMarked /\ [Next]_vars => PausedMarked'
  BY MarkedStep
<1>3. Spec => []SingleDispatcher
  BY LoopAlone DEF LoopOnly, LoopDispatches
<1>4. QED  BY <1>1, <1>2, <1>3, TypeCorrect, PTL DEF Spec

\* With web seeds, and as long as the policy loop is alone with its handlers, a
\* torrent that the daemon paused is shown to the operator as soon as it has been
\* idle for long, unless a retry took it up, whatever call fails and wherever the
\* daemon crashes; on a qBittorrent that names a paused download pausedDL.
THEOREM PauseIsShown ==
    ASSUME LoopOnly, Delivery = "webseed", PausedState = "pausedDL"
    PROVE  Spec => []NoSilentPause
<1>1. PausedMarked => NoSilentPause
  BY DEF PausedMarked, NoSilentPause, AttentionRow, MarkTags
<1>2. QED  BY <1>1, MarksKept, PTL

=============================================================================
