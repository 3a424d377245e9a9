------------------------------ MODULE Handoff ------------------------------
(***************************************************************************)
(* The debrid hand-off of the interceptor (qbx/engine/interceptor.py).     *)
(*                                                                         *)
(* Every stalled torrent may be dispatched to a handler task, _handle, by  *)
(* three independent paths: the policy pass of the loop                    *)
(* (_process_torrents), the queue pick of manual scans and of the queue    *)
(* chain (_process_next_in_queue), and a user's force_intercept.  Webseed  *)
(* refreshes claim torrents in the same set, _inflight.                    *)
(*                                                                         *)
(* All of it runs on one asyncio event loop: a coroutine is interrupted    *)
(* only where it awaits.  A program counter names the call the coroutine   *)
(* is suspended in; a step is the effect of that call on qBittorrent       *)
(* followed by the code up to the next await.                              *)
(***************************************************************************)
EXTENDS FiniteSets, Functions, Integers

CONSTANTS
    Torrents,       \* incomplete, stalled torrents known to qBittorrent, of no local-only
                    \* or cache-only category
    Tasks,          \* handler tasks that can be alive at once (bound)
    Scans,          \* manual scans (scan_once) that can run at once
    Users,          \* HTTP requests on one torrent that can run at once
    UserOps,        \* the requests they make, each named by its first call
    LoopRefresh,    \* the policy loop, refreshing webseeds inline
    Recoveries,     \* background webseed recovery tasks
    ChainTask,      \* the queue chain task, _queue_chain_task
    NoTorrent,      \* placeholder of an idle actor
    MaxPerScan,     \* max_debrid_per_scan
    Delivery,       \* delivery_mode: "webseed" or "download"
    Fallback,       \* fallback_to_torrent
    MaxRetryAttempts, \* max_retry_attempts; 0 stands for auto_retry_failed off
    PausedState,    \* name of a paused download: "pausedDL" (4.x) or "stoppedDL" (5.x)
    Faults,         \* TRUE if a call to qBittorrent may fail, applied or not
    MaxRequests,    \* user requests considered (bound)
    MaxRestarts     \* daemon crashes and restarts considered (bound)

ASSUME HandoffAssumption ==
    /\ IsFiniteSet(Torrents) /\ IsFiniteSet(Tasks)
    /\ NoTorrent \notin Torrents
    /\ ChainTask \notin Scans
    /\ LoopRefresh \notin Recoveries
    /\ UserOps \subseteq {"unskip", "skipTag", "retryClear"}
    /\ MaxPerScan \in Nat
    /\ Delivery \in {"webseed", "download"}
    /\ Fallback \in BOOLEAN /\ Faults \in BOOLEAN
    /\ MaxRetryAttempts \in Nat /\ MaxRequests \in Nat
    /\ PausedState \in {"pausedDL", "stoppedDL"}
    /\ MaxRestarts \in Nat

VARIABLES
    remote,     \* what qBittorrent holds: tags and whether it is paused
    mirror,     \* _sync_torrents, the daemon's copy of tags and state
    inflight,   \* _inflight, the claimed torrents
    task,       \* the _handle tasks
    pass,       \* the policy loop
    seen,       \* the torrent rows the loop's current poll or pass works on
    pick,       \* the _process_next_in_queue calls
    user,       \* the user requests
    refresh,    \* the _refresh_webseeds calls
    retries,    \* retry_count of each torrent, kept in the state file
    retried,    \* history: torrents that auto-retry took the failed tag from and no
                \* hand-off has marked since
    requests,   \* user requests made so far
    restarts    \* restarts so far

vars == <<remote, mirror, inflight, task, pass, seen, pick, user, refresh,
          retries, retried, requests, restarts>>
bookkeeping == <<retries, retried, requests, restarts>>

-----------------------------------------------------------------------------
(* Records *)

Tags == {"active", "done", "failed", "candidate", "skip", "webseed"}
Row == [tags : SUBSET Tags, paused : BOOLEAN]

MainStages == {"tagActive", "pause", "dropCandidate", "resolve", "inject",
               "resume", "tagDone", "untagActive", "resumeKept"}
FailureStages == {"cleanup", "tagFailed", "untagFailed", "fallback"}
CallStages == MainStages \cup FailureStages
Task == [pc : {"idle", "queued"} \cup CallStages,
         torrent : Torrents \cup {NoTorrent},
         chain : BOOLEAN]
Pass == [pc : {"idle", "polling", "sweep", "retryClear", "retryTag", "judge",
               "tagging", "untagging"},
         batch : SUBSET Torrents,
         cands : SUBSET Torrents]
Pickers == Scans \cup {ChainTask}
Pick == [pc : {"idle", "scheduled", "waiting", "tagging"},
         torrent : Torrents \cup {NoTorrent}]
User == [pc : {"idle", "unskip", "unfail", "skipTag", "skipClear", "retryClear", "retryTag"},
         torrent : Torrents \cup {NoTorrent}]
Refreshers == {LoopRefresh} \cup Recoveries
Refresh == [pc : {"idle", "replace", "resume"},
            torrent : Torrents \cup {NoTorrent}]

IdleTask == [pc |-> "idle", torrent |-> NoTorrent, chain |-> FALSE]
Idle == [pc |-> "idle", torrent |-> NoTorrent]
IdlePass == [pc |-> "idle", batch |-> {}, cands |-> {}]
Blank == [t \in Torrents |-> [tags |-> {}, paused |-> FALSE]]

TypeOK ==
    /\ remote \in [Torrents -> Row]
    /\ mirror \in [Torrents -> Row]
    /\ inflight \subseteq Torrents
    /\ task \in [Tasks -> Task]
    /\ \A k \in Tasks : task[k].pc # "idle" => task[k].torrent \in Torrents
    /\ pass \in Pass
    /\ seen \in [Torrents -> Row]
    /\ pick \in [Pickers -> Pick]
    /\ \A p \in Pickers : pick[p].pc = "tagging" => pick[p].torrent \in Torrents
    /\ user \in [Users -> User]
    /\ \A u \in Users : user[u].pc # "idle" => user[u].torrent \in Torrents
    /\ refresh \in [Refreshers -> Refresh]
    /\ \A r \in Refreshers : refresh[r].pc # "idle" => refresh[r].torrent \in Torrents
    /\ retries \in [Torrents -> 0..MaxRetryAttempts]
    /\ retried \subseteq Torrents
    /\ requests \in 0..MaxRequests
    /\ restarts \in 0..MaxRestarts

Init ==
    /\ remote = Blank
    /\ mirror = Blank
    /\ inflight = {}
    /\ task = [k \in Tasks |-> IdleTask]
    /\ pass = IdlePass
    /\ seen = Blank
    /\ pick = [p \in Pickers |-> Idle]
    /\ user = [u \in Users |-> Idle]
    /\ refresh = [r \in Refreshers |-> Idle]
    /\ retries = [t \in Torrents |-> 0]
    /\ retried = {}
    /\ requests = 0
    /\ restarts = 0

-----------------------------------------------------------------------------
(* Helpers *)

\* _sync_local_tags: the mirror follows a tag change the daemon has made.
Retag(row, add, remove) == [row EXCEPT !.tags = (@ \ remove) \cup add]

\* A call to qBittorrent that turns remote into after either succeeds or,
\* with faults, fails with or without having been applied.
FailedCall(after) == Faults /\ remote' \in {remote, after}

BlockedTags == {"active", "done", "failed", "skip"}

\* Mutant of Candidate: claims are not looked at.
CandidateClaimed(t, row) == row.tags \cap BlockedTags = {} /\ ~row.paused

\* _candidate_reason on a row of the caller's snapshot.  A paused download is
\* not in STALL_CANDIDATE_STATES.  The remaining gates (age, speed, seeds,
\* reannounce cooldown, queue frontier) may turn any candidate down.
Candidate(t, row) ==
    /\ t \notin inflight
    /\ row.tags \cap BlockedTags = {}
    /\ ~row.paused

LiveTasks == {k \in Tasks : task[k].pc # "idle"}
IdleTasks == Tasks \ LiveTasks
ActiveRefreshes == {r \in Refreshers : refresh[r].pc # "idle"}
Handled(t) == \E k \in LiveTasks : task[k].torrent = t

\* create_task(_handle(t)) for each torrent of a batch, on distinct task slots.
CreateTasks(batch, chain) ==
    \E slot \in Injection(batch, IdleTasks) :
        task' = [k \in Tasks |->
                    IF \E t \in batch : slot[t] = k
                    THEN [pc |-> "queued",
                          torrent |-> CHOOSE t \in batch : slot[t] = k,
                          chain |-> chain]
                    ELSE task[k]]

-----------------------------------------------------------------------------
(* The handler, _handle and _on_failure *)

\* What the call of a stage does to the torrent in qBittorrent.  Its web seeds
\* are left out: no path to a handler looks at them.
CallEffect(s, r) ==
    CASE s = "tagActive" -> [r EXCEPT !.tags = @ \cup {"active"}]
      [] s = "pause" -> [r EXCEPT !.paused = TRUE]
      [] s = "dropCandidate" -> [r EXCEPT !.tags = @ \ {"candidate"}]
      [] s \in {"resolve", "inject", "cleanup"} -> r
      [] s \in {"resume", "resumeKept", "fallback"} -> [r EXCEPT !.paused = FALSE]
      [] s = "tagDone" ->
            [r EXCEPT !.tags = @ \cup IF Delivery = "webseed" THEN {"done", "webseed"} ELSE {"done"}]
      [] s \in {"untagActive", "untagFailed"} -> [r EXCEPT !.tags = @ \ {"active"}]
      [] s = "tagFailed" -> [r EXCEPT !.tags = @ \cup {"failed"}]

\* The _sync_local_tags that follows the call of a stage.
CallMirror(s, row) ==
    CASE s = "dropCandidate" -> Retag(row, {"active"}, {"candidate"})
      [] s = "untagActive" ->
            Retag(row, IF Delivery = "webseed" THEN {"done", "webseed"} ELSE {"done"},
                       {"active", "candidate"})
      [] s = "untagFailed" -> Retag(row, {"failed"}, {"active", "candidate"})
      [] OTHER -> row

\* Mutant of NextStage: the torrent is resumed last, after its active tag is gone.
NextStageResumeLast(s) ==
    CASE s = "tagActive" -> "pause"
      [] s = "pause" -> "dropCandidate"
      [] s = "dropCandidate" -> "resolve"
      [] s = "resolve" -> IF Delivery = "webseed" THEN "inject" ELSE "tagDone"
      [] s = "inject" -> "tagDone"
      [] s = "tagDone" -> "untagActive"
      [] s = "untagActive" -> "resumeKept"
      [] s = "cleanup" -> "tagFailed"
      [] s = "tagFailed" -> "untagFailed"
      [] s = "untagFailed" -> IF Fallback THEN "fallback" ELSE "idle"
      [] s \in {"resume", "resumeKept", "fallback"} -> "idle"

\* The stage after a call that succeeded.
NextStage(s) ==
    CASE s = "tagActive" -> "pause"
      [] s = "pause" -> "dropCandidate"
      [] s = "dropCandidate" -> "resolve"
      [] s = "resolve" -> IF Delivery = "webseed" THEN "inject" ELSE "tagDone"
      [] s = "inject" -> "resume"
      [] s = "resume" -> "tagDone"
      [] s = "tagDone" -> "untagActive"
      [] s = "untagActive" -> IF Delivery = "webseed" THEN "idle" ELSE "resumeKept"
      [] s = "cleanup" -> "tagFailed"
      [] s = "tagFailed" -> "untagFailed"
      [] s = "untagFailed" -> IF Fallback THEN "fallback" ELSE "idle"
      [] s \in {"resumeKept", "fallback"} -> "idle"

\* Mutant of FailStage: an unexpected failure is not marked on the torrent.
FailStageUnmarked(s) ==
    IF s \in {"resume", "tagDone", "untagActive"} THEN "cleanup" ELSE "idle"

\* The stage after a call that raised: webseeds known to be injected are taken
\* back first; an exception inside _on_failure is swallowed.
FailStage(s) ==
    CASE s \in {"resume", "tagDone", "untagActive"} /\ Delivery = "webseed" -> "cleanup"
      [] s \in {"tagFailed", "untagFailed", "fallback"} -> "idle"
      [] OTHER -> "tagFailed"

\* Mutant of Continue: a failed hand-off keeps its claim.
ContinueClaimed(k, s) ==
    IF s # "idle"
    THEN /\ task' = [task EXCEPT ![k].pc = s]
         /\ UNCHANGED <<inflight, pick>>
    ELSE /\ task' = [task EXCEPT ![k] = IdleTask]
         /\ inflight' = IF task[k].pc \in FailureStages THEN inflight
                        ELSE inflight \ {task[k].torrent}
         /\ pick' = IF task[k].chain /\ pick[ChainTask].pc = "idle"
                    THEN [pick EXCEPT ![ChainTask].pc = "scheduled"]
                    ELSE pick

\* Continue at stage s, or run the finally block: release the claim and, for a
\* task of the queue pick, schedule the next pick unless one is under way.
Continue(k, s) ==
    IF s # "idle"
    THEN /\ task' = [task EXCEPT ![k].pc = s]
         /\ UNCHANGED <<inflight, pick>>
    ELSE /\ task' = [task EXCEPT ![k] = IdleTask]
         /\ inflight' = inflight \ {task[k].torrent}
         /\ pick' = IF task[k].chain /\ pick[ChainTask].pc = "idle"
                    THEN [pick EXCEPT ![ChainTask].pc = "scheduled"]
                    ELSE pick

\* The task gets its turn (and, for a batch, the semaphore): claim the torrent.
Begin(k) ==
    /\ task[k].pc = "queued"
    /\ task' = [task EXCEPT ![k].pc = "tagActive"]
    /\ inflight' = inflight \cup {task[k].torrent}
    /\ UNCHANGED <<remote, mirror, pass, seen, pick, user, refresh, bookkeeping>>

\* A call of the handler returns.
CallReturns(k) ==
    LET t == task[k].torrent
        s == task[k].pc
    IN  /\ s \in CallStages
        /\ remote' = [remote EXCEPT ![t] = CallEffect(s, @)]
        /\ mirror' = [mirror EXCEPT ![t] = CallMirror(s, @)]
        /\ retried' = IF s \in {"tagActive", "tagFailed"} THEN retried \ {t} ELSE retried
        /\ Continue(k, NextStage(s))
        /\ UNCHANGED <<pass, seen, user, refresh, retries, requests, restarts>>

\* A call of the handler raises: debrid gives no usable URL, or qBittorrent fails.
CallRaises(k) ==
    LET t == task[k].torrent
        s == task[k].pc
    IN  /\ s \in CallStages
        /\ \/ s \in {"resolve", "inject"} /\ UNCHANGED remote
           \/ FailedCall([remote EXCEPT ![t] = CallEffect(s, @)])
        /\ Continue(k, FailStage(s))
        /\ UNCHANGED <<mirror, pass, seen, user, refresh, bookkeeping>>

-----------------------------------------------------------------------------
(* The policy loop: _run, _poll_sync, _process_torrents *)

EndPass == pass' = IdlePass /\ seen' = Blank

\* Mutant of LoopFree: the loop starts refreshes and goes on.
LoopUnblocked == TRUE

\* The loop awaits the webseed refreshes of its own sweeps.
LoopFree == refresh[LoopRefresh].pc = "idle"

\* qBittorrent answers the sync/maindata request with its current rows ...
PollAnswered ==
    /\ pass.pc = "idle" /\ LoopFree
    /\ pass' = [pass EXCEPT !.pc = "polling"]
    /\ seen' = remote
    /\ UNCHANGED <<remote, mirror, inflight, task, pick, user, refresh, bookkeeping>>

\* ... and the loop patches the mirror when the answer arrives.  The answer has
\* the rows that changed since the one before, or all of them (full_update).
PollApplied ==
    /\ pass.pc = "polling"
    /\ \E patched \in SUBSET Torrents :
        mirror' = [t \in Torrents |-> IF t \in patched THEN seen[t] ELSE mirror[t]]
    /\ EndPass
    /\ UNCHANGED <<remote, inflight, task, pick, user, refresh, bookkeeping>>

\* An event or a health scan starts a pass over the mirror as it is.
PassStarts ==
    /\ pass.pc = "idle" /\ LoopFree
    /\ pass' = [pass EXCEPT !.pc = "sweep"]
    /\ seen' = mirror
    /\ UNCHANGED <<remote, mirror, inflight, task, pick, user, refresh, bookkeeping>>

\* Mutant of RecoverFailed: off by one at the retry limit.
RecoverFailedOnceMore ==
    /\ pass.pc = "sweep" /\ LoopFree
    /\ \E batch \in SUBSET {t \in Torrents : /\ t \notin inflight
                                           /\ "failed" \in seen[t].tags
                                           /\ retries[t] <= MaxRetryAttempts} :
        /\ batch # {}
        /\ pass' = [pass EXCEPT !.pc = "retryClear", !.batch = batch]
        /\ retries' = [t \in Torrents |-> IF t \in batch THEN retries[t] + 1 ELSE retries[t]]
    /\ UNCHANGED <<remote, mirror, inflight, task, seen, pick, user, refresh, retried, requests, restarts>>

\* _recover_failed chooses failed torrents that nobody has claimed and counts
\* the attempt ...
RecoverFailed ==
    /\ pass.pc = "sweep" /\ LoopFree
    /\ \E batch \in SUBSET {t \in Torrents : /\ t \notin inflight
                                           /\ "failed" \in seen[t].tags
                                           /\ retries[t] < MaxRetryAttempts} :
        /\ batch # {}
        /\ pass' = [pass EXCEPT !.pc = "retryClear", !.batch = batch]
        /\ retries' = [t \in Torrents |-> IF t \in batch THEN retries[t] + 1 ELSE retries[t]]
    /\ UNCHANGED <<remote, mirror, inflight, task, seen, pick, user, refresh, retried, requests, restarts>>

\* ... and _clear_failure_tags makes candidates of them.
ClearFailureTags(batch) ==
    [t \in Torrents |-> IF t \in batch
                        THEN [remote[t] EXCEPT !.tags = @ \ {"failed", "skip", "done"}]
                        ELSE remote[t]]
TagCandidates(batch) ==
    [t \in Torrents |-> IF t \in batch
                        THEN [remote[t] EXCEPT !.tags = @ \cup {"candidate"}]
                        ELSE remote[t]]
RetagRetried(batch) ==
    [t \in Torrents |-> IF t \in batch
                        THEN Retag(mirror[t], {"candidate"}, {"failed", "skip", "done"})
                        ELSE mirror[t]]

RecoverClear ==
    /\ pass.pc = "retryClear"
    /\ remote' = ClearFailureTags(pass.batch)
    /\ pass' = [pass EXCEPT !.pc = "retryTag"]
    /\ retried' = retried \cup pass.batch
    /\ UNCHANGED <<mirror, inflight, task, seen, pick, user, refresh, retries, requests, restarts>>

RecoverTag ==
    /\ pass.pc = "retryTag"
    /\ remote' = TagCandidates(pass.batch)
    /\ mirror' = RetagRetried(pass.batch)
    /\ pass' = [pass EXCEPT !.pc = "judge", !.batch = {}]
    /\ UNCHANGED <<inflight, task, seen, pick, user, refresh, bookkeeping>>

\* Evaluate every row of the pass and keep at most MaxPerScan candidates that
\* the queue frontier lets through.  Rows that lost candidacy are untagged.
\* Nothing is claimed yet.
ClearCandidates == {t \in Torrents \ pass.cands : "candidate" \in seen[t].tags}

Judge ==
    /\ pass.pc \in {"sweep", "judge"} /\ LoopFree
    /\ \E cands \in SUBSET {t \in Torrents : Candidate(t, seen[t])} :
        \E batch \in SUBSET cands :
            /\ Cardinality(batch) <= MaxPerScan
            /\ IF cands # {}
               THEN pass' = [pc |-> "tagging", batch |-> batch, cands |-> cands] /\ UNCHANGED seen
               ELSE IF \E t \in Torrents : "candidate" \in seen[t].tags
               THEN pass' = [pc |-> "untagging", batch |-> {}, cands |-> {}] /\ UNCHANGED seen
               ELSE EndPass
    /\ UNCHANGED <<remote, mirror, inflight, task, pick, user, refresh, bookkeeping>>

\* Mutant of Dispatch: the claim is left to the handlers.
DispatchUnclaimed ==
    /\ CreateTasks(pass.batch, FALSE)
    /\ EndPass
    /\ UNCHANGED inflight

\* Claim and dispatch the batch; the pass is over.
Dispatch ==
    /\ inflight' = inflight \cup pass.batch
    /\ CreateTasks(pass.batch, FALSE)
    /\ EndPass

TagPass ==
    /\ pass.pc = "tagging"
    /\ remote' = TagCandidates(pass.cands)
    /\ IF ClearCandidates # {}
       THEN /\ pass' = [pass EXCEPT !.pc = "untagging"]
            /\ UNCHANGED <<inflight, task, seen>>
       ELSE Dispatch
    /\ UNCHANGED <<mirror, pick, user, refresh, bookkeeping>>

UntagCandidates ==
    [t \in Torrents |-> IF t \in ClearCandidates
                        THEN [remote[t] EXCEPT !.tags = @ \ {"candidate"}]
                        ELSE remote[t]]

UntagPass ==
    /\ pass.pc = "untagging"
    /\ remote' = UntagCandidates
    /\ Dispatch
    /\ UNCHANGED <<mirror, pick, user, refresh, bookkeeping>>

\* A qBittorrent call of the pass fails; _run logs it and starts over.
PassFails ==
    /\ \/ pass.pc \in {"polling", "sweep"} /\ LoopFree /\ Faults /\ UNCHANGED remote
       \/ pass.pc = "retryClear" /\ FailedCall(ClearFailureTags(pass.batch))
       \/ pass.pc = "retryTag" /\ FailedCall(TagCandidates(pass.batch))
       \/ pass.pc = "tagging" /\ FailedCall(TagCandidates(pass.cands))
       \/ pass.pc = "untagging" /\ FailedCall(UntagCandidates)
    /\ retried' = IF pass.pc = "retryClear" THEN retried \cup pass.batch ELSE retried
    /\ EndPass
    /\ UNCHANGED <<mirror, inflight, task, pick, user, refresh, retries, requests, restarts>>

-----------------------------------------------------------------------------
(* The queue pick, _process_next_in_queue *)

\* A manual scan or the chain task finds nothing in flight and queues for the
\* lock.  A chain task that finds a claim is over.
ScanStarts(p) ==
    /\ p \in Scans /\ pick[p].pc = "idle"
    /\ inflight = {}
    /\ pick' = [pick EXCEPT ![p].pc = "waiting"]
    /\ UNCHANGED <<remote, mirror, inflight, task, pass, seen, user, refresh, bookkeeping>>

ChainStarts ==
    /\ pick[ChainTask].pc = "scheduled"
    /\ pick' = [pick EXCEPT ![ChainTask].pc = IF inflight = {} THEN "waiting" ELSE "idle"]
    /\ UNCHANGED <<remote, mirror, inflight, task, pass, seen, user, refresh, bookkeeping>>

\* _queue_lock is held exactly while a pick awaits its add_tags call: nothing
\* else inside the lock suspends when the rows come from the mirror.
LockFree == \A p \in Pickers : pick[p].pc # "tagging"

\* Mutant of PickSelects: the claim is taken before the call that may fail.
PickSelectsClaiming(p) ==
    /\ pick[p].pc = "waiting" /\ LockFree
    /\ inflight = {}
    /\ \E t \in Torrents :
        /\ Candidate(t, mirror[t])
        /\ pick' = [pick EXCEPT ![p] = [pc |-> "tagging", torrent |-> t]]
        /\ inflight' = inflight \cup {t}
    /\ UNCHANGED <<remote, mirror, task, pass, seen, user, refresh, bookkeeping>>

PickSelects(p) ==
    /\ pick[p].pc = "waiting" /\ LockFree
    /\ inflight = {}
    /\ \E t \in Torrents :
        /\ Candidate(t, mirror[t])
        /\ pick' = [pick EXCEPT ![p] = [pc |-> "tagging", torrent |-> t]]
    /\ UNCHANGED <<remote, mirror, inflight, task, pass, seen, user, refresh, bookkeeping>>

\* Something is in flight by now, or no row passes all the gates.
PickFindsNone(p) ==
    /\ pick[p].pc = "waiting" /\ LockFree
    /\ pick' = [pick EXCEPT ![p] = Idle]
    /\ UNCHANGED <<remote, mirror, inflight, task, pass, seen, user, refresh, bookkeeping>>

\* Release the lock, claim and dispatch the torrent.
PickDispatches(p) ==
    /\ pick[p].pc = "tagging"
    /\ remote' = TagCandidates({pick[p].torrent})
    /\ inflight' = inflight \cup {pick[p].torrent}
    /\ CreateTasks({pick[p].torrent}, TRUE)
    /\ pick' = [pick EXCEPT ![p] = Idle]
    /\ UNCHANGED <<mirror, pass, seen, user, refresh, bookkeeping>>

\* The torrent is due for a tracker reannounce first: tagged, not dispatched.
PickReannounces(p) ==
    /\ pick[p].pc = "tagging"
    /\ remote' = TagCandidates({pick[p].torrent})
    /\ pick' = [pick EXCEPT ![p] = Idle]
    /\ UNCHANGED <<mirror, inflight, task, pass, seen, user, refresh, bookkeeping>>

PickFails(p) ==
    /\ pick[p].pc = "tagging"
    /\ FailedCall(TagCandidates({pick[p].torrent}))
    /\ pick' = [pick EXCEPT ![p] = Idle]
    /\ UNCHANGED <<mirror, inflight, task, pass, seen, user, refresh, bookkeeping>>

-----------------------------------------------------------------------------
(* User requests: force_intercept, skip_auto, retry_torrent *)

\* force_intercept refuses a claimed torrent, but claims nothing itself.
UserRequests(u) ==
    /\ user[u].pc = "idle"
    /\ requests < MaxRequests /\ requests' = requests + 1
    /\ \E t \in Torrents, op \in UserOps :
        /\ op = "unskip" => t \notin inflight
        /\ user' = [user EXCEPT ![u] = [pc |-> op, torrent |-> t]]
    /\ UNCHANGED <<remote, mirror, inflight, task, pass, seen, pick, refresh, retries, retried, restarts>>

\* What the call a request waits for does to its torrent in qBittorrent.
RequestEffect(u) ==
    [remote EXCEPT ![user[u].torrent].tags =
        CASE user[u].pc = "unskip" -> @ \ {"skip"}
          [] user[u].pc = "unfail" -> @ \ {"failed"}
          [] user[u].pc = "skipTag" -> @ \cup {"skip"}
          [] user[u].pc = "skipClear" -> @ \ {"candidate", "active"}
          [] user[u].pc = "retryClear" -> @ \ {"failed", "skip", "done"}
          [] user[u].pc = "retryTag" -> @ \cup {"candidate"}]

\* The first of the two calls returns; the second one is sent.
RequestAdvances(u) ==
    /\ user[u].pc \in {"unskip", "skipTag", "retryClear"}
    /\ remote' = RequestEffect(u)
    /\ user' = [user EXCEPT ![u].pc = CASE user[u].pc = "unskip" -> "unfail"
                                        [] user[u].pc = "skipTag" -> "skipClear"
                                        [] user[u].pc = "retryClear" -> "retryTag"]
    /\ UNCHANGED <<mirror, inflight, task, pass, seen, pick, refresh, bookkeeping>>

\* Mutant of ForceDispatches: claimed, but the task was not created.
ForceDispatchesNothing(u) ==
    LET t == user[u].torrent
    IN  /\ user[u].pc = "unfail"
        /\ remote' = RequestEffect(u)
        /\ mirror' = [mirror EXCEPT ![t] = Retag(@, {}, {"skip", "failed"})]
        /\ inflight' = inflight \cup {t}
        /\ user' = [user EXCEPT ![u] = Idle]
        /\ UNCHANGED <<task, pass, seen, pick, refresh, bookkeeping>>

\* force_intercept ends by creating a handler task.
ForceDispatches(u) ==
    LET t == user[u].torrent
    IN  /\ user[u].pc = "unfail"
        /\ remote' = RequestEffect(u)
        /\ mirror' = [mirror EXCEPT ![t] = Retag(@, {}, {"skip", "failed"})]
        /\ CreateTasks({t}, TRUE)
        /\ user' = [user EXCEPT ![u] = Idle]
        /\ UNCHANGED <<inflight, pass, seen, pick, refresh, bookkeeping>>

\* skip_auto and retry_torrent end by bringing the mirror up to date.
RequestEnds(u) ==
    LET t == user[u].torrent
    IN  /\ user[u].pc \in {"skipClear", "retryTag"}
        /\ remote' = RequestEffect(u)
        /\ mirror' = [mirror EXCEPT ![t] =
                        IF user[u].pc = "skipClear"
                        THEN Retag(@, {"skip"}, {"candidate", "active"})
                        ELSE Retag(@, {"candidate"}, {"failed", "skip", "done"})]
        /\ user' = [user EXCEPT ![u] = Idle]
        /\ UNCHANGED <<inflight, task, pass, seen, pick, refresh, bookkeeping>>

RequestFails(u) ==
    /\ user[u].pc # "idle"
    /\ FailedCall(RequestEffect(u))
    /\ user' = [user EXCEPT ![u] = Idle]
    /\ UNCHANGED <<mirror, inflight, task, pass, seen, pick, refresh, bookkeeping>>

-----------------------------------------------------------------------------
(* Webseed refresh, _refresh_webseeds *)

\* Mutant of RefreshStarts: claims are not looked at.
RefreshStartsClaimed(r) ==
    /\ refresh[r].pc = "idle"
    /\ \E t \in Torrents :
        /\ \/ r \in Recoveries
           \/ pass.pc = "sweep" /\ "webseed" \in seen[t].tags
           \/ pass.pc = "idle" /\ "webseed" \in mirror[t].tags
        /\ refresh' = [refresh EXCEPT ![r] = [pc |-> "replace", torrent |-> t]]
        /\ inflight' = inflight \cup {t}
    /\ UNCHANGED <<remote, mirror, task, pass, seen, pick, user, bookkeeping>>

\* The loop refreshes torrents that the row of its pass, or of its poll, tags
\* webseed; a recovery task those whose web seeds qBittorrent's log reports
\* dead, which may be web seeds of their own.
RefreshStarts(r) ==
    /\ refresh[r].pc = "idle"
    /\ \E t \in Torrents \ inflight :
        /\ \/ r \in Recoveries
           \/ pass.pc = "sweep" /\ "webseed" \in seen[t].tags
           \/ pass.pc = "idle" /\ "webseed" \in mirror[t].tags
        /\ refresh' = [refresh EXCEPT ![r] = [pc |-> "replace", torrent |-> t]]
        /\ inflight' = inflight \cup {t}
    /\ UNCHANGED <<remote, mirror, task, pass, seen, pick, user, bookkeeping>>

\* Mutant of RefreshEnds: the claim is not given back.
RefreshEndsClaimed(r) ==
    /\ refresh' = [refresh EXCEPT ![r] = Idle]
    /\ UNCHANGED inflight

RefreshEnds(r) ==
    /\ refresh' = [refresh EXCEPT ![r] = Idle]
    /\ inflight' = inflight \ {refresh[r].torrent}

\* The fresh URLs have replaced the stale ones.
RefreshReplaces(r) ==
    /\ refresh[r].pc = "replace"
    /\ refresh' = [refresh EXCEPT ![r].pc = "resume"]
    /\ UNCHANGED <<remote, mirror, inflight, task, pass, seen, pick, user, bookkeeping>>

Resumed(t) == [remote EXCEPT ![t].paused = FALSE]

RefreshResumes(r) ==
    /\ refresh[r].pc = "resume"
    /\ remote' = Resumed(refresh[r].torrent)
    /\ RefreshEnds(r)
    /\ UNCHANGED <<mirror, task, pass, seen, pick, user, bookkeeping>>

\* Debrid has no replacement, or a call fails.
RefreshFails(r) ==
    /\ \/ refresh[r].pc = "replace" /\ UNCHANGED remote
       \/ refresh[r].pc = "resume" /\ FailedCall(Resumed(refresh[r].torrent))
    /\ RefreshEnds(r)
    /\ UNCHANGED <<mirror, task, pass, seen, pick, user, bookkeeping>>

-----------------------------------------------------------------------------
(* The daemon is killed and started again; its first full sync refills the  *)
(* mirror.  Retry counts not yet flushed to the state file are lost.         *)

Restart ==
    /\ restarts < MaxRestarts
    /\ restarts' = restarts + 1
    /\ retries' \in {f \in [Torrents -> 0..MaxRetryAttempts] : \A t \in Torrents : f[t] <= retries[t]}
    /\ mirror' = remote
    /\ inflight' = {}
    /\ task' = [k \in Tasks |-> IdleTask]
    /\ pass' = IdlePass
    /\ seen' = Blank
    /\ pick' = [p \in Pickers |-> Idle]
    /\ user' = [u \in Users |-> Idle]
    /\ refresh' = [r \in Refreshers |-> Idle]
    /\ UNCHANGED <<remote, retried, requests>>

-----------------------------------------------------------------------------

Handle(k) == Begin(k) \/ CallReturns(k) \/ CallRaises(k)

PolicyLoop ==
    \/ PollAnswered \/ PollApplied \/ PassStarts
    \/ RecoverFailed \/ RecoverClear \/ RecoverTag
    \/ Judge \/ TagPass \/ UntagPass \/ PassFails

PickNext(p) ==
    \/ ScanStarts(p) \/ PickSelects(p) \/ PickFindsNone(p)
    \/ PickDispatches(p) \/ PickReannounces(p) \/ PickFails(p)

Request(u) ==
    \/ UserRequests(u) \/ RequestAdvances(u)
    \/ ForceDispatches(u) \/ RequestEnds(u) \/ RequestFails(u)

RefreshWebseeds(r) ==
    RefreshStarts(r) \/ RefreshReplaces(r) \/ RefreshResumes(r) \/ RefreshFails(r)

Next ==
    \/ \E k \in Tasks : Handle(k)
    \/ PolicyLoop
    \/ ChainStarts
    \/ \E p \in Pickers : PickNext(p)
    \/ \E u \in Users : Request(u)
    \/ \E r \in Refreshers : RefreshWebseeds(r)
    \/ Restart

Spec == Init /\ [][Next]_vars

\* asyncio runs every task that is ready, every HTTP call has a timeout and a
\* debrid resolution is given up after max_wait_minutes: what has started goes
\* on.  Nothing makes a user act, a scan start or the daemon crash.
Fairness ==
    /\ \A k \in Tasks : WF_vars(Handle(k))
    /\ WF_vars(PolicyLoop)
    /\ WF_vars(ChainStarts)
    /\ \A p \in Pickers : WF_vars(PickNext(p) /\ pick[p].pc # "idle")
    /\ \A u \in Users : WF_vars(Request(u) /\ user[u].pc # "idle")
    /\ \A r \in Refreshers : WF_vars(RefreshWebseeds(r) /\ refresh[r].pc # "idle")

FairSpec == Spec /\ Fairness

-----------------------------------------------------------------------------
(* Properties *)

\* A claim never outlives its owner: whatever is in _inflight is being handled
\* or refreshed.  (A claim left behind would stop every queue pick for good,
\* because _process_next_in_queue gives up while anything is in flight.)
NoLeakedClaim ==
    inflight \subseteq {task[k].torrent : k \in LiveTasks}
                       \cup {refresh[r].torrent : r \in ActiveRefreshes}

\* No two handlers work on one torrent.
HandleExclusive ==
    \A k, l \in LiveTasks : task[k].torrent = task[l].torrent => k = l

\* From its dispatch to its end a handler holds the claim of its torrent, so
\* sweeps that skip claimed torrents leave it alone.
ClaimHeld == \A k \in LiveTasks : task[k].torrent \in inflight

\* A handler never shares its torrent with a webseed refresh.
RefreshExclusive ==
    \A r \in ActiveRefreshes : ~Handled(refresh[r].torrent)

\* Why the loop, as the only dispatcher, keeps hand-offs exclusive.  The queue
\* chain never wakes up, for only its own picks feed it; the batch the loop is
\* retrying or tagging stays unclaimed until it is dispatched, because in the mean time only
\* the loop itself would claim, and it awaits its own refreshes.
ChainAsleep == pick[ChainTask].pc = "idle" /\ \A k \in LiveTasks : ~task[k].chain
RefreshApart ==
    \A r \in ActiveRefreshes : /\ pass.pc \in {"idle", "sweep"}
                               /\ refresh[r].torrent \in inflight
                               /\ ~Handled(refresh[r].torrent)
BatchUnclaimed ==
    pass.pc \in {"retryClear", "retryTag", "tagging", "untagging"} => pass.batch \cap inflight = {}

SingleDispatcher ==
    ChainAsleep /\ HandleExclusive /\ ClaimHeld /\ RefreshApart /\ BatchUnclaimed

\* _qbx_paused_torrent_items (qbx/attention.py): the operator is shown a paused
\* torrent that carries the tag of an unfinished or failed hand-off, once its last
\* activity was idle_threshold_sec ago ("long", not "recent"); not if qBittorrent
\* knows of none ("unknown").
AttentionRow(t, idle) ==
    /\ remote[t].paused
    /\ PausedState = "pausedDL"
    /\ remote[t].tags \cap {"failed", "active"} # {}
    /\ idle = "long"

\* A torrent that the daemon has paused and that nothing is working on any
\* more gets into the operator's attention queue, also after a crash, as soon as
\* it has been idle for long; the exception are torrents that auto-retry took up:
\* it takes their failed tag, does not resume them and hands off no paused torrent.
NoSilentPause ==
    \A t \in Torrents :
        remote[t].paused /\ ~Handled(t) /\ t \notin retried => AttentionRow(t, "long")

\* The promise behind these properties: one worker per torrent, which alone
\* pauses, resumes and marks it, and never leaves it paused without a mark; only
\* auto-retry takes marks from torrents nobody works on.
Actors == ({"handler"} \X Tasks) \cup ({"refresh"} \X Refreshers)
Workers == [t \in Torrents |->
               {<<"handler", k>> : k \in {k \in LiveTasks : task[k].torrent = t}}
               \cup {<<"refresh", r>> : r \in {r \in ActiveRefreshes : refresh[r].torrent = t}}]
Paused == [t \in Torrents |-> remote[t].paused]
Marked == [t \in Torrents |-> remote[t].tags \cap {"failed", "active"} # {} \/ t \in retried]

Promise == INSTANCE HandoffPromise
           WITH workers <- Workers, paused <- Paused, marked <- Marked
PromiseKept == Promise!Spec

\* The tags exist so that a torrent is never processed twice: no handler starts
\* on a torrent that an earlier hand-off has tagged done.
NeverTwice ==
    [][\A k \in Tasks : Begin(k) => "done" \notin remote[task[k].torrent].tags]_vars

\* Every claim is released, whichever call to debrid or to qBittorrent fails in the
\* handler, in a refresh or in the pass.
ClaimReleased == \A t \in Torrents : t \in inflight ~> t \notin inflight

\* As long as qBittorrent does what it is asked to, every hand-off comes to an end
\* and leaves the torrent marked done or failed, whatever debrid does and although
\* a user skips the torrent meanwhile.
HandoffEnds ==
    \A k \in Tasks, t \in Torrents :
        (task[k].pc # "idle" /\ task[k].torrent = t)
            ~> (~Handled(t) /\ remote[t].tags \cap {"done", "failed"} # {})
=============================================================================
