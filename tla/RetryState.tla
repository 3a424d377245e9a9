----------------------------- MODULE RetryState -----------------------------
(***************************************************************************)
(* What the interceptor remembers of failed torrents: how often each was   *)
(* retried and whether a replacement was asked of Sonarr or Radarr         *)
(* (_torrent_state and interceptor-state.json of                           *)
(* qbx/engine/interceptor.py).                                             *)
(*                                                                         *)
(* The policy loop counts a retry before its calls to qBittorrent and      *)
(* marks the state dirty after them; the file is written by a thread, from *)
(* a snapshot, at the end of an iteration and when the loop is stopped;    *)
(* any observation of a few torrents may forget the others; handlers and   *)
(* queue picks mark and forget at any time.  A step is the code between    *)
(* two awaits.  An entry that is absent is an entry of zeros.              *)
(***************************************************************************)
EXTENDS FiniteSets, Integers

CONSTANTS
    Torrents,         \* torrents whose hand-off may fail
    Replaceable,      \* those whose category has an *arr service, auto_replace_enabled
    MaxRetryAttempts, \* max_retry_attempts
    MaxRetries,       \* max_retries_per_scan
    MaxReplacements,  \* max_replacements_per_scan
    Loop,             \* the policy loop, _run
    Stops,            \* calls of stop() that can be under way at once
    Faults,           \* TRUE if calls to qBittorrent and writes of the file may fail
    MaxCrashes        \* crashes considered (bound)

ASSUME RetryAssumption ==
    /\ IsFiniteSet(Torrents) /\ Replaceable \subseteq Torrents
    /\ MaxRetryAttempts \in Nat
    /\ MaxRetries \in Nat \ {0} /\ MaxReplacements \in Nat \ {0}
    /\ Loop \notin Stops
    /\ Faults \in BOOLEAN
    /\ MaxCrashes \in Nat

VARIABLES
    mem,       \* _torrent_state: retry_count and arr_replacement_triggered
    disk,      \* the same, in interceptor-state.json
    dirty,     \* _state_dirty
    snap,      \* the snapshot being written
    shared,    \* torrents whose entry in it is still the one in memory
    stopping,  \* the _stop event
    known,     \* _task is a task, be it done or not
    orphan,    \* history: the loop ran when a stop() set _task to None, and no
               \* stop() has been asked since it ended
    pc,        \* where the loop and each stop() are
    rows,      \* torrents that the rows of the loop's pass show as failed
    batch,     \* torrents the loop removes, retries or has yet to replace
    status,    \* each torrent's hand-off
    cooling,   \* torrents retried less than retry_backoff_minutes ago
    made,      \* history: automatic retries since the entry was forgotten
    asked,     \* history: replacements asked since the entry was forgotten
    lost,      \* history: a write failed, or a retry raised, since the last snapshot
    crashes    \* crashes so far

file == <<disk, snap, shared>>
task == <<stopping, known, orphan>>
history == <<made, asked, crashes>>
vars == <<mem, dirty, task, pc, rows, batch, status, cooling, lost, file, history>>

-----------------------------------------------------------------------------
Entry == [tries : 0..MaxRetryAttempts, replaced : BOOLEAN]
Zero == [tries |-> 0, replaced |-> FALSE]
Blank == [t \in Torrents |-> Zero]
Writers == {Loop} \cup Stops
LoopPlaces == {"off", "top", "observe", "sweep", "clear", "tag", "replace",
               "flush", "lock", "write"}
StopPlaces == {"idle", "gather", "woken", "stall", "lock", "write"}
Statuses == {"other", "handling", "failing", "failed"}

TypeOK ==
    /\ mem \in [Torrents -> Entry] /\ disk \in [Torrents -> Entry]
    /\ snap \in [Torrents -> Entry] /\ shared \subseteq Torrents
    /\ dirty \in BOOLEAN /\ lost \in BOOLEAN
    /\ stopping \in BOOLEAN /\ known \in BOOLEAN /\ orphan \in BOOLEAN
    /\ pc \in [Writers -> LoopPlaces \cup StopPlaces]
    /\ pc[Loop] \in LoopPlaces /\ \A s \in Stops : pc[s] \in StopPlaces
    /\ rows \subseteq Torrents /\ batch \subseteq Torrents
    /\ status \in [Torrents -> Statuses]
    /\ cooling \subseteq Torrents
    /\ made \in [Torrents -> Nat] /\ asked \in [Torrents -> Nat]
    /\ crashes \in 0..MaxCrashes

Init ==
    /\ mem = Blank /\ disk = Blank
    /\ snap = Blank /\ shared = {}
    /\ dirty = FALSE /\ lost = FALSE
    /\ stopping = FALSE /\ known = TRUE /\ orphan = FALSE
    /\ pc = [w \in Writers |-> IF w = Loop THEN "top" ELSE "idle"]
    /\ rows = {} /\ batch = {}
    /\ status = [t \in Torrents |-> "other"]
    /\ cooling = {}
    /\ made = [t \in Torrents |-> 0]
    /\ asked = [t \in Torrents |-> 0]
    /\ crashes = 0

-----------------------------------------------------------------------------
(* Helpers *)

\* The loop goes on at a place.
LoopAt(place) == pc' = [pc EXCEPT ![Loop] = place]

\* Mutant of Claimed: a failed hand-off keeps its claim.
ClaimedFailed(t) == status[t] # "other"

\* _inflight: a hand-off is under way.
Claimed(t) == status[t] \in {"handling", "failing"}

\* At most cap of the eligible torrents, in the order of the rows: eligible[:cap].
Capped(eligible, cap) ==
    {ts \in SUBSET eligible :
        Cardinality(ts) = IF Cardinality(eligible) < cap THEN Cardinality(eligible) ELSE cap}

\* Entries are dropped from memory.  A snapshot keeps the objects it has.
Drop(old) ==
    /\ mem' = [t \in Torrents |-> IF t \in old THEN Zero ELSE mem[t]]
    /\ shared' = shared \ old
    /\ cooling' = cooling \ old
    /\ made' = [t \in Torrents |-> IF t \in old THEN 0 ELSE made[t]]
    /\ asked' = [t \in Torrents |-> IF t \in old THEN 0 ELSE asked[t]]

\* The torrents of a poll or pass are observed; entries of others that were
\* first seen more than a day ago are forgotten, and the state is marked.
Observe ==
    /\ \E old \in SUBSET Torrents : Drop(old)
    /\ dirty' = TRUE

-----------------------------------------------------------------------------
(* Hand-offs, queue picks and users, next to the loop *)

HandOff(t) ==
    /\ status[t] = "other"
    /\ status' = [status EXCEPT ![t] = "handling"]
    /\ UNCHANGED <<mem, dirty, task, pc, rows, batch, cooling, lost, file, history>>

HandOffEnds(t) ==
    /\ status[t] = "handling"
    /\ status' = [status EXCEPT ![t] = "other"]
    /\ UNCHANGED <<mem, dirty, task, pc, rows, batch, cooling, lost, file, history>>

\* _on_failure notes the reason and marks the state ...
HandOffFails(t) ==
    /\ status[t] = "handling"
    /\ status' = [status EXCEPT ![t] = "failing"]
    /\ dirty' = TRUE
    /\ UNCHANGED <<mem, task, pc, rows, batch, cooling, lost, file, history>>

\* ... and tags the torrent; an exception there is swallowed.
FailTagged(t) ==
    /\ status[t] = "failing"
    /\ \/ status' = [status EXCEPT ![t] = "failed"]
       \/ Faults /\ status' = [status EXCEPT ![t] = "other"]
    /\ UNCHANGED <<mem, dirty, task, pc, rows, batch, cooling, lost, file, history>>

\* A user retries a failed torrent: its count is left alone.
UserRetries(t) ==
    /\ status[t] = "failed"
    /\ status' = [status EXCEPT ![t] = "other"]
    /\ UNCHANGED <<mem, dirty, task, pc, rows, batch, cooling, lost, file, history>>

\* A queue pick of a manual scan or of the chain observes one torrent.
PickObserves ==
    /\ Observe
    /\ UNCHANGED <<task, pc, rows, batch, status, lost, disk, snap, crashes>>

\* Time passes.
BackoffPasses(t) ==
    /\ t \in cooling
    /\ cooling' = cooling \ {t}
    /\ UNCHANGED <<mem, dirty, task, pc, rows, batch, status, lost, file, history>>

-----------------------------------------------------------------------------
(* The policy loop *)

\* qBittorrent answers a poll: entries of removed torrents are dropped.  A
\* torrent that is added again later starts from nothing.
Poll ==
    /\ pc[Loop] = "top" /\ ~stopping
    /\ \E gone \in SUBSET Torrents :
        /\ Drop(gone)
        /\ status' = [t \in Torrents |-> IF t \in gone /\ ~Claimed(t) THEN "other" ELSE status[t]]
        /\ batch' = gone
    /\ LoopAt("observe")
    /\ UNCHANGED <<dirty, task, rows, lost, disk, snap, crashes>>

\* Nothing changed, no pass is due, or a call of the poll failed.
PollQuiet ==
    /\ pc[Loop] = "observe"
    /\ batch = {} \/ Faults
    /\ batch' = {}
    /\ LoopAt("flush")
    /\ UNCHANGED <<mem, dirty, task, rows, status, cooling, lost, file, history>>

\* The changed torrents are observed and the pass is debounced ...
PollObserved ==
    /\ pc[Loop] = "observe"
    /\ Observe
    /\ batch' = {}
    /\ LoopAt("flush")
    /\ UNCHANGED <<task, rows, status, lost, disk, snap, crashes>>

\* ... or a pass begins over the rows as they are now.
PassStarts ==
    /\ pc[Loop] = "observe"
    /\ Observe
    /\ rows' = {t \in Torrents : status[t] = "failed"}
    /\ batch' = {}
    /\ LoopAt("sweep")
    /\ UNCHANGED <<task, status, lost, disk, snap, crashes>>

\* Mutant of Retryable: off by one at the limit.
RetryableOnceMore == {t \in rows : /\ ~Claimed(t)
                                   /\ mem[t].tries <= MaxRetryAttempts
                                   /\ t \notin cooling}

\* _recover_failed: torrents that may be retried now ...
Retryable == {t \in rows : /\ ~Claimed(t)
                           /\ mem[t].tries < MaxRetryAttempts
                           /\ t \notin cooling}

\* ... are counted before they are ...
Counted(ts) == [t \in Torrents |-> IF t \in ts THEN [mem[t] EXCEPT !.tries = @ + 1] ELSE mem[t]]

Retry ==
    /\ pc[Loop] = "sweep"
    /\ Retryable # {}
    /\ \E ts \in Capped(Retryable, MaxRetries) :
        /\ mem' = Counted(ts)
        /\ made' = [t \in Torrents |-> IF t \in ts THEN made[t] + 1 ELSE made[t]]
        /\ cooling' = cooling \cup ts
        /\ batch' = ts
    /\ LoopAt("clear")
    /\ UNCHANGED <<dirty, task, rows, status, lost, file, asked, crashes>>

\* ... cleared of their failed tag ...
Uncleared == [t \in Torrents |-> IF t \in batch /\ status[t] = "failed" THEN "other" ELSE status[t]]

ClearReturns ==
    /\ pc[Loop] = "clear"
    /\ status' = Uncleared
    /\ LoopAt("tag")
    /\ UNCHANGED <<mem, dirty, task, rows, batch, cooling, lost, file, history>>

\* _recover_exhausted_via_arr: torrents with no retry left, by the same rows.
Exhausted == {t \in rows \cap Replaceable : /\ ~Claimed(t)
                                            /\ mem[t].tries >= MaxRetryAttempts
                                            /\ ~mem[t].replaced}

\* Mutant of AskFor: only a replacement that succeeded is remembered.
AskForUnmarked(ts, t) ==
    /\ UNCHANGED mem
    /\ dirty' = TRUE
    /\ asked' = [asked EXCEPT ![t] = @ + 1]
    /\ batch' = ts \ {t}
    /\ LoopAt("replace")

\* Remember that a replacement is asked for a torrent of a batch, then ask.
AskFor(ts, t) ==
    /\ mem' = [mem EXCEPT ![t].replaced = TRUE]
    /\ dirty' = TRUE
    /\ asked' = [asked EXCEPT ![t] = @ + 1]
    /\ batch' = ts \ {t}
    /\ LoopAt("replace")

\* Replace the torrents of a batch one by one; then the pass goes on to the
\* dispatch of candidates, and the iteration ends with a flush.
ReplaceOrFlush(ts) ==
    \/ \E t \in ts : AskFor(ts, t)
    \/ /\ ts = {}
       /\ batch' = {}
       /\ LoopAt("flush")
       /\ UNCHANGED <<mem, asked>>

\* There is nothing to retry: on to the replacements.
NoRetry ==
    /\ pc[Loop] = "sweep"
    /\ Retryable = {}
    /\ \E ts \in Capped(Exhausted, MaxReplacements) : ReplaceOrFlush(ts)
    /\ IF Exhausted = {} THEN UNCHANGED dirty ELSE dirty' = TRUE
    /\ UNCHANGED <<task, rows, status, cooling, lost, file, made, crashes>>

\* ... and tagged as candidates; the state is marked; on to the replacements.
TagReturns ==
    /\ pc[Loop] = "tag"
    /\ \E ts \in Capped(Exhausted, MaxReplacements) : ReplaceOrFlush(ts)
    /\ dirty' = TRUE
    /\ UNCHANGED <<task, rows, status, cooling, lost, file, made, crashes>>

\* A call of the retry raises, applied or not: the loop logs it and ends the
\* iteration.  The count stays, its mark is left out.
RetryRaises ==
    /\ pc[Loop] \in {"clear", "tag"} /\ Faults
    /\ status' \in {status, Uncleared}
    /\ lost' = (lost \/ ~dirty)
    /\ batch' = {}
    /\ LoopAt("flush")
    /\ UNCHANGED <<mem, dirty, task, rows, cooling, file, history>>

\* The service answered or failed: the next torrent.
Replaced ==
    /\ pc[Loop] = "replace"
    /\ ReplaceOrFlush(batch)
    /\ IF batch = {} THEN UNCHANGED dirty ELSE dirty' = TRUE
    /\ UNCHANGED <<task, rows, status, cooling, lost, file, made, crashes>>

-----------------------------------------------------------------------------
(* Saving: _flush_state, called by the loop and by stop() *)

Locked == \E w \in Writers : pc[w] = "write"
Busy == \E w \in Writers : pc[w] \in {"lock", "write"}
AfterFlush(w) == IF w = Loop THEN "top" ELSE "idle"

\* With the lock held: clear the flag, copy the state and start the thread.
Snapshot(w) ==
    /\ snap' = mem /\ shared' = Torrents
    /\ dirty' = FALSE
    /\ lost' = FALSE
    /\ pc' = [pc EXCEPT ![w] = "write"]

\* There is nothing to save, or the flush is put off.
FlushReturns(w) ==
    /\ pc' = [pc EXCEPT ![w] = AfterFlush(w)]
    /\ UNCHANGED <<snap, shared, dirty, lost>>

\* Mutant of MayPutOff: a flush by stop() honours the interval, too.
MayPutOffAll(w) == TRUE

\* The loop saves at most every _STATE_SAVE_MIN_INTERVAL; stop() forces the save.
MayPutOff(w) == w = Loop

\* Mutant of Due: the state is saved by stop() only.
DueWhenStopped(w) == dirty /\ w # Loop

Due(w) == dirty

\* The lock is free for a newcomer if nobody holds it or waits for it.
Flush(w) ==
    /\ pc[w] = IF w = Loop THEN "flush" ELSE "stall"
    /\ \/ (~dirty \/ MayPutOff(w)) /\ FlushReturns(w)
       \/ Due(w) /\ ~Busy /\ Snapshot(w)
       \/ /\ Due(w) /\ Busy
          /\ pc' = [pc EXCEPT ![w] = "lock"]
          /\ UNCHANGED <<snap, shared, dirty, lost>>
    /\ rows' = IF w = Loop THEN {} ELSE rows
    /\ UNCHANGED <<mem, disk, task, batch, status, cooling, history>>

FlushLocked(w) ==
    /\ pc[w] = "lock" /\ ~Locked
    /\ IF dirty THEN Snapshot(w) ELSE FlushReturns(w)
    /\ UNCHANGED <<mem, disk, task, rows, batch, status, cooling, history>>

\* The thread has replaced the file.  A field of an entry that is still shared
\* with memory was written as it was at the snapshot or as it became.
Written ==
    \E tries, marks \in SUBSET shared :
        disk' = [t \in Torrents |->
                    [tries |-> IF t \in tries THEN mem[t].tries ELSE snap[t].tries,
                     replaced |-> IF t \in marks THEN mem[t].replaced ELSE snap[t].replaced]]

\* Mutant of WriteEnds: the flag is cleared when the file is written.
WriteEndsClean(w) ==
    /\ pc[w] = "write"
    /\ \/ Written /\ UNCHANGED lost
       \/ Faults /\ lost' = TRUE /\ UNCHANGED disk
    /\ snap' = Blank /\ shared' = {}
    /\ dirty' = FALSE
    /\ pc' = [pc EXCEPT ![w] = AfterFlush(w)]
    /\ UNCHANGED <<mem, task, rows, batch, status, cooling, history>>

\* The write is over.  A failure is only logged.
WriteEnds(w) ==
    /\ pc[w] = "write"
    /\ \/ Written /\ UNCHANGED lost
       \/ Faults /\ lost' = TRUE /\ UNCHANGED disk
    /\ snap' = Blank /\ shared' = {}
    /\ pc' = [pc EXCEPT ![w] = AfterFlush(w)]
    /\ UNCHANGED <<mem, dirty, task, rows, batch, status, cooling, history>>

-----------------------------------------------------------------------------
(* start(), stop() and the life of the daemon *)

\* Mutant of StartRequested: the event is cleared before the task is looked at.
StartClears ==
    /\ stopping' = FALSE
    /\ IF pc[Loop] = "off" THEN LoopAt("top") ELSE UNCHANGED pc
    /\ known' = TRUE /\ orphan' = FALSE
    /\ UNCHANGED <<mem, dirty, rows, batch, status, cooling, lost, file, history>>

\* start() returns at once when the task is not done.  (If _task is None and the
\* loop still runs, it begins a second loop; what happens then is left out.)
StartRequested ==
    /\ pc[Loop] = "off"
    /\ stopping' = FALSE /\ known' = TRUE /\ orphan' = FALSE
    /\ LoopAt("top")
    /\ UNCHANGED <<mem, dirty, rows, batch, status, cooling, lost, file, history>>

\* Mutant of FirstAwait: the task is not waited for.
FirstAwaitNone == "stall"

\* Where stop() is suspended first: on a task that runs, on one that is done, or
\* only in what follows, the recovery task and the file-stall ledger.
FirstAwait == IF ~known THEN "stall" ELSE IF pc[Loop] = "off" THEN "woken" ELSE "gather"

StopRequested(s) ==
    /\ pc[s] = "idle"
    /\ stopping' = TRUE
    /\ orphan' = (orphan /\ pc[Loop] # "off")
    /\ pc' = [pc EXCEPT ![s] = FirstAwait]
    /\ UNCHANGED <<mem, dirty, known, rows, batch, status, cooling, lost, file, history>>

\* The loop sees the event at the top of an iteration; its end wakes all that
\* wait for its task.
LoopStops ==
    /\ pc[Loop] = "top" /\ stopping
    /\ pc' = [w \in Writers |-> IF w = Loop THEN "off"
                                ELSE IF pc[w] = "gather" THEN "woken" ELSE pc[w]]
    /\ UNCHANGED <<mem, dirty, task, rows, batch, status, cooling, lost, file, history>>

\* Each of them sets _task to None in a turn of its own.  A start() may have come
\* in between, of a request or of an update of the configuration whose stop()
\* had nothing to save: then the new loop is no longer known.
StopResumes(s) ==
    /\ pc[s] = "woken"
    /\ pc' = [pc EXCEPT ![s] = "stall"]
    /\ known' = FALSE
    /\ orphan' = (orphan \/ pc[Loop] # "off")
    /\ UNCHANGED <<mem, dirty, stopping, rows, batch, status, cooling, lost, file, history>>

\* A snapshot or the file has every count and replacement of memory.
Covers(saved) == \A t \in Torrents : /\ saved[t].tries >= mem[t].tries
                                     /\ mem[t].replaced => saved[t].replaced

\* The flag says that everything is in the file.
Clean == /\ ~dirty /\ ~lost /\ ~Locked
         /\ pc[Loop] \notin {"clear", "tag"}

\* The loop was stopped and nobody is stopping it still.
Stopped == pc[Loop] = "off" /\ \A s \in Stops : pc[s] = "idle"

\* A daemon starts and reads the file.  Attempts that are not in it are forgiven
\* only if the daemon before it had no reason to think them saved.
Boots(sure) ==
    /\ mem' = disk
    /\ dirty' = FALSE /\ lost' = FALSE
    /\ snap' = Blank /\ shared' = {}
    /\ stopping' = FALSE /\ known' = TRUE /\ orphan' = FALSE
    /\ pc' = [w \in Writers |-> IF w = Loop THEN "top" ELSE "idle"]
    /\ rows' = {} /\ batch' = {}
    /\ status' = [t \in Torrents |-> IF status[t] = "failed" THEN "failed" ELSE "other"]
    /\ cooling' = {t \in cooling : disk[t].tries >= mem[t].tries}
    /\ IF sure THEN UNCHANGED <<made, asked>>
       ELSE /\ made' = [t \in Torrents |->
                         IF made[t] > disk[t].tries THEN disk[t].tries ELSE made[t]]
            /\ asked' = [t \in Torrents |-> IF disk[t].replaced THEN asked[t] ELSE 0]
    /\ UNCHANGED disk

\* The daemon quits after stop(), and is started again.
Restart ==
    /\ Stopped
    /\ Boots(~lost /\ ~orphan)
    /\ UNCHANGED crashes

\* The daemon dies, and is started again.
Crash ==
    /\ crashes < MaxCrashes
    /\ Boots(Clean)
    /\ crashes' = crashes + 1

-----------------------------------------------------------------------------
HandOffStep(t) == HandOff(t) \/ HandOffEnds(t) \/ HandOffFails(t) \/ FailTagged(t) \/ UserRetries(t)

Sweeps == Retry \/ ClearReturns \/ TagReturns \/ RetryRaises \/ NoRetry \/ Replaced

Saves(w) == Flush(w) \/ FlushLocked(w) \/ WriteEnds(w)

Next ==
    \/ \E t \in Torrents : HandOffStep(t) \/ BackoffPasses(t)
    \/ PickObserves
    \/ Poll \/ PollQuiet \/ PollObserved \/ PassStarts
    \/ Sweeps
    \/ \E w \in Writers : Saves(w)
    \/ StartRequested
    \/ \E s \in Stops : StopRequested(s) \/ StopResumes(s)
    \/ LoopStops
    \/ Restart \/ Crash

LoopGoesOn ==
    \/ Poll \/ LoopStops \/ PollQuiet \/ PollObserved \/ PassStarts
    \/ Sweeps \/ Flush(Loop) \/ WriteEnds(Loop)

StopGoesOn(s) == StopResumes(s) \/ Flush(s) \/ WriteEnds(s)

\* The loop and every stop() go on: calls to qBittorrent and to the services
\* have timeouts, a thread ends, asyncio's lock is first come, first served, and
\* qBittorrent is not away forever.
\* Time passes: health_scan_seconds make a pass begin again and again, and the
\* interval between saves ends.
Fairness ==
    /\ WF_vars(LoopGoesOn) /\ SF_vars(PassStarts) /\ SF_vars(ClearReturns)
    /\ SF_vars(Flush(Loop) /\ dirty /\ pc'[Loop] # "top")
    /\ \A s \in Stops : WF_vars(StopGoesOn(s))
    /\ \A w \in Writers : SF_vars(FlushLocked(w))
    /\ \A t \in Torrents : WF_vars(BackoffPasses(t))

Spec == Init /\ [][Next]_vars /\ Fairness

-----------------------------------------------------------------------------
(* Properties *)

\* However retries, observations, saves, stops and crashes interleave, a torrent
\* gets at most max_retry_attempts automatic retries until its entry is
\* forgotten: a stop, or a crash after a save, takes no attempt back.
RetriesCapped == \A t \in Torrents : made[t] <= MaxRetryAttempts

\* A replacement is asked once: the mark is there before the first await, it
\* survives a restart, and an error of the service does not repeat the request.
ReplacedOnce == \A t \in Torrents : asked[t] <= 1

\* When the state is not marked dirty, nobody writes it and no write failed,
\* the file has every count, although counts precede their mark and handlers,
\* picks and the thread run in between.
CleanMeansSaved == Clean => Covers(disk)

\* Once the loop has ended and every stop() has returned, every count is saved,
\* unless the write failed or the loop was orphaned: a start request may come
\* between the end of the loop and the stop() that waited for it, and handlers
\* and picks go on.  (The theorem StopsSaved covers stops that overlap.)
StopSaves == Stopped /\ ~lost /\ ~orphan => Covers(disk)

\* A count that is not in the file gets there, unless it is forgotten, a crash
\* undoes it or a write fails: no mark is overwritten, the interval only delays.
RetrySaved ==
    \A t \in Torrents :
        mem[t].tries > disk[t].tries ~> mem[t].tries <= disk[t].tries \/ lost \/ Stopped

\* stop() returns, whatever start and stop requests arrive meanwhile, unless a
\* loop is orphaned: a start request then begins a second one and clears the event
\* that a stop() may be waiting for the first to see.
StopEnds == \A s \in Stops : pc[s] # "idle" ~> pc[s] = "idle" \/ orphan

\* A failed torrent with attempts left does not stay failed while the loop runs.
FailedRetried ==
    \A t \in Torrents :
        status[t] = "failed" /\ mem[t].tries < MaxRetryAttempts
            ~> status[t] # "failed" \/ mem[t].tries = MaxRetryAttempts \/ pc[Loop] = "off"

\* A replacement is asked only for a torrent whose last retry has failed.
ReplacedAfterLastTry ==
    [][\A t \in Torrents : asked'[t] > asked[t] => status[t] = "failed"]_vars
=============================================================================
