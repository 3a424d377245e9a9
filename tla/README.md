# Verification of qbx

TLA+ models of qbx, the daemon that hands stalled qBittorrent torrents to debrid
services: what is modelled, what TLC checks on small instances, and what TLAPS
proves for every instance. Paths are relative to `src/`.

## 1. The system

qbx is one Python process: a FastAPI server and background tasks on one asyncio
event loop, and threads for file system work. A coroutine can be interrupted only
where it awaits; a thread can be interrupted anywhere.

| Component | Code | State | Operations | Hard behaviour |
|---|---|---|---|---|
| Interceptor | `qbx/engine/interceptor.py` | `_inflight` claims, mirror of qBittorrent's torrents, handler tasks, queue lock and chain task, retry state in `interceptor_state.json` | policy loop (poll, sweep, judge, tag, dispatch), manual scan, queue chain, force / skip / retry, hand-off of one torrent, webseed refresh | three dispatch paths and refreshes share one set of claims and check it before awaits; qBittorrent calls fail, applied or not; the daemon crashes with a torrent paused |
| Storage service | `qbx/storage.py`, `qbx/engine/content_dedupe.py` | last scan, quarantine index (JSONL), quarantine directories | scan, cancel, apply (link, quarantine), restore, purge | requests run in threads without a lock; other programs change files; crashes and full disks between two file system calls |
| Metadata handoff | `qbx/engine/metadata.py` | per-hash locks | check, fetch a `.torrent`, delete, re-add, recover, restore the magnet | two callers with old rows; peers that deliver meanwhile; a failure or shutdown between delete and re-add |
| Debrid manager, providers | `qbx/debrid/*.py` | provider order | add magnet, select files, poll, unrestrict | failures of some providers, deadlines |
| qBittorrent client | `qbx/qbt/client.py` | session cookie, API dialect | Web API calls | expired sessions, 4.x and 5.x names |
| Matcher, placement | `qbx/engine/matcher.py`, `placement.py`, `disk_index.py`, `hash_index.py` | index and hash cache | match files by size and content, link, recheck | files that change between index, hash and link |
| Automation | `qbx/engine/automation.py` | files seen, saved to disk | scan watch folders, import | crash between import and save |
| File stall, cache-only | `qbx/engine/file_stall.py`, `cache_only.py` | progress per file; hashes delivered only from the cache | observe, decide | stale observations |
| Attention feed | `qbx/attention.py` | none | collect what the operator must look at | must cover every way a torrent can be left behind |
| Event bus, log | `qbx/events.py`, `log_buffer.py` | history, subscribers, id counter saved in batches | emit, subscribe, replay | slow subscribers, ids after a crash |
| Server, configuration | `qbx/server.py`, `config.py`, `security.py` | the services and their configuration | REST, SSE, reload | services are stopped, rebound and started while handlers run |
| Storage page | `qbx/web/matcher/src/components/StoragePanel.tsx` | groups on show, decisions of the user, confirmation, pending requests | mark, choose keepers, hide, confirm, scan | answers and events in any order; other browsers; marks that outlive what they were made in |
| Contract, arr, update, proxy, desktop, CLI, other pages | the remaining files | caches of one answer | probes, requests, user interface | see sections 5 and 6 |

The interceptor calls the client, the debrid manager, metadata, placement and the
attention feed reads the tags it leaves. The server turns requests into coroutines
(interceptor) or threads (storage). Everybody emits events.

What makes the parts correct:

* Interceptor: one hand-off per torrent at a time, never at once with a refresh of
  its webseeds; a claim never outlives its owner; a torrent that was paused is
  resumed or shown to the operator in time; hand-offs end; a torrent is not processed twice.
* Retry state: no more retries than configured, one replacement, and what was counted
  reaches the file although saves, stops, restarts and failures overlap.
* Storage: one copy per group stays, quarantined files can be restored, no content
  is lost without a purge, protected paths are never touched. Its page: what is removed is
  what was confirmed, and never the keeper.
* Metadata: a deleted torrent is added again or reported. Debrid: resolution ends,
  with the first provider that works. Event bus: a browser that connects misses nothing and
  is sent nothing twice; a crash takes back few ids.
  Automation: a file is imported once.

## 2. Modules

| Module | Models | Kind |
|---|---|---|
| `Handoff` | hand-off, claims, loop, queue picks, user requests, refreshes, polls, crash | component |
| `MCHandoff` | instances for TLC | model |
| `HandoffPromise` | what the hand-off promises of each torrent: one worker, which alone pauses and marks it | abstract specification |
| `HandoffProofs` | type correctness, claims, exclusion, marks of paused torrents | proofs |
| `HandoffPromiseProofs` | the loop implements `HandoffPromise`, and what follows from the promise | proofs |
| `RetryState` | retry counts, replacement, pruning, the state file, stop and start | component |
| `MCRetryState` | instances for TLC | model |
| `RetryStateProofs` | type correctness and the four safety properties | proofs |
| `ReclaimPromise` | what duplicate reclaim promises about the copies of one content | abstract specification |
| `Reclaim` | scan, apply, restore, purge over a file system; implements `ReclaimPromise` | component |
| `MCReclaim` | instances for TLC | model |
| `ReclaimProofs` | type correctness, protected paths | proofs |
| `ReclaimPromiseProofs` | index and directories agree, no content is lost, refinement of `ReclaimPromise` | proofs |
| `MetadataHandoff` | delete and re-add of a torrent without metadata, by two callers under one lock | component |
| `MCMetadataHandoff` | instances for TLC | model |
| `MetadataHandoffProofs` | type correctness and the three action properties | proofs |
| `EventBus` | ids, history, queues and event streams, with threads that emit | component |
| `MCEventBus` | instance for TLC | model |
| `EventBusProofs` | type correctness and all three properties | proofs |
| `StorageConsole` | the storage page of one browser over the service and other browsers | component |
| `MCStorageConsole` | instances for TLC | model |
| `StorageConsoleProofs` | type correctness, keepers, one request at a time | proofs |

`Handoff` takes a metadata handoff as part of the call that injects, which may fail;
`MetadataHandoff` opens that call up. `ReadyOnSuccess` and `EveryCallEnds` are what the
former relies on: it goes on only with a torrent whose files qBittorrent has listed, and it
goes on.
`RetryState` opens up the retry counts that `Handoff` only adds to, and takes a hand-off as
a status that comes and goes. `StorageConsole` takes an apply as one request; what it does to
the files, and two of them at once, is `Reclaim`.

### Handoff

State: `remote` is qBittorrent (qbx's tags and whether the torrent is paused),
`mirror` is `_sync_torrents`, `inflight` is `_inflight`; `task`, `pass`, `pick`,
`user` and `refresh` are the coroutines, each with a program counter that names the
qBittorrent or debrid call it is suspended in. A step is the effect of that call and
the code up to the next await, so every interleaving asyncio can produce is there and
no other.

* `Begin`, `CallReturns`, `CallRaises`: `_handle` and `_on_failure`, call by call. A
  call that raises may have been applied (`FailedCall`).
* `PollAnswered`, `PollApplied`: `_poll_sync`. The answer is composed when qBittorrent
  sees the request and applied later, so it can be older than the local mirror.
* `PassStarts` ... `UntagPass`, `PassFails`: `_scan_once` and `_process_torrents`, with
  auto-retry (`_recover_failed`).
* `ScanStarts` ... `PickFails`, `ChainStarts`: `scan_once`, `_process_next_in_queue`
  with its lock, and the chain that every hand-off of a pick schedules.
* `UserRequests` ... `RequestFails`: `force_intercept`, `skip_auto`, `retry_torrent`.
  The scan at the end of `retry_torrent` is one of `Scans`.
* `RefreshStarts` ... `RefreshFails`: `_refresh_webseeds`, by the loop or by a
  background task.
* `Restart`: a crash loses everything but qBittorrent and the retry counts that were
  flushed. A call that is under way when the daemon dies is the crash after the call.

`HandoffPromise` knows only who works on each torrent, whether it is paused and whether it
carries a tag of an unfinished or failed hand-off, or was taken up for a retry. `PromiseKept`
is the refinement under the mapping `Workers`, `Paused`, `Marked`.

`retried` is a history variable: the torrents whose failed tag auto-retry has taken and that no
hand-off has marked since. Nothing reads it but `NoSilentPause` and the mapping.

`AttentionRow(t, idle)` is the attention queue's rule for a paused torrent: its tags, the name
of its state, and how long it has been idle (`qbx/attention.py:180`): `"long"` ago, `"recent"`
(it will be shown later), or `"unknown"`, when `last_activity` is 0 or missing, which hides it
for good. The properties are about `"long"`. Torrents of the local-only and cache-only
categories are hidden as well (176); `Torrents` stands for the others.

Abstractions. Gates that decide *whether* a stalled torrent is due (age, speed,
seeds, frontier, cooldowns, debounce, backoff) are nondeterministic; tags, claims and
state decide as in the code. `stalled_only` is on, so paused rows are no candidates;
`tag_candidates` is on. The semaphore of `max_parallel_downloads` only orders
handlers, and any order is considered. The metadata handoff is part of the step that
injects, `_wanted_files` of the one that resolves. Rows of a poll delta are any
subset. `seen` keeps the rows a pass was given, because `_apply_sync_patch` replaces
the dictionaries of the mirror instead of changing them. Completion, deletion of
torrents, duplicates, placement and cache-only lookups are not modelled.

### RetryState

State: `mem`, `disk` and `snap` are `_torrent_state`, the state file and the snapshot a thread
is writing; `dirty` the flag, `pc` where the loop and each call of `stop()` are suspended,
`status` what qBittorrent shows of each torrent (healthy, claimed, failed, ...), `rows` and
`shared` what a pass was given and which of it is still the mirror's. `made` and `asked` count
retries and replacements since the entry was last forgotten.

* `Poll`, `PollQuiet`, `PollObserved`, `PassStarts`: an iteration of `_run`; `Observe` is
  `_observe_torrents`, which forgets entries.
* `Retry`, `ClearReturns`, `TagReturns`, `RetryRaises`, `NoRetry`: `_recover_failed`, which
  counts, awaits the call that clears the tags, and only then marks the state dirty.
* `Replaced`, `Sweeps`: `_recover_exhausted_via_arr`.
* `HandOffEnds`, `UserRetries`, `PickObserves`, `BackoffPasses`: what runs beside the loop.
* `Flush`, `FlushLocked`, `WriteEnds`: `_flush_state` with its lock and the thread that writes.
* `StopRequested`, `LoopStops`, `StopResumes`, `StartRequested`, `Restart`, `Crash`: `stop`,
  `start`, the end of the daemon with and without its shutdown. The end of the loop wakes every
  `stop()` that waits for it, and each of them sets `_task` to `None` in a turn of its own.

`known` says whether `_task` holds the loop, and the history variable `orphan` that a `stop()`
has set it to `None` while a loop runs: one that a start request began after the loop that this
`stop()` waited for had ended. Properties of stops are about loops that are not orphaned;
section 5 has what happens to the others.

Abstractions. An entry that is absent is an entry of zeros. When an entry is old enough to be
forgotten is open. Asking the arr application to find the release and to replace it is one
step. Loop iterations that `continue` skip the flush at the end; the model also lets a flush
come where the code skips it. Delays before a retry are `BackoffPasses`. A start request while
an orphaned loop runs begins a second loop, which is left out.

### Reclaim and ReclaimPromise

State: `file` maps paths to inodes, `content` inodes to contents; `qfile` and `index`
are the files in the quarantine and the rows of `quarantine.jsonl`; `groups`, `scan`
and `worker` are the scan result, the scan thread and the request threads. A step is
one call on the file system or on the index, with the checks that precede it on the
same file.

* `ScanStarts` ... `ScanFails`: `start_scan`, `find_duplicate_groups`,
  `_supervise_scan`. Inodes are noted in the walk and contents hashed later.
* `ApplyStarts`, `Request`, `Stat`, `LinkMakes`, `LinkReplaces`, `Moves`, `Records`,
  `ApplyEnds` and their failures: `apply`, `apply_reclaim`, `_apply_one`, `store`.
* `RestoreStarts` ... `Writes`, `WriteFails`: `restore` and `purge`.
* `Rewritten`, `Replaced`, `Removed`: other programs. `Restart`: a crash.

`strays` is a history variable: the entries whose row was not appended (the write failed, or a
crash came between the move and the append), whose new state was not written for the same
reasons (`Unwritten`), or whose row was overwritten by a restore or purge that had read the
index before somebody else changed it (`Outdated`). `Undoable` and `Honest` are about all other
entries, and hold at every moment, not only between requests.

`ReclaimPromise` knows only which paths and which quarantine entries hold a copy: a
copy goes to the quarantine while another stays, comes back, or is purged; the promise
lapses when another program touches the files. `KeepsPromise` is the refinement under
the mapping `Live`, `Held`.

Abstractions. The files of a library have one size and start with one content, which at
least one of them has, or with contents of their own, so a scan meets groups and files that
belong to none. They are on one volume, hardlinked in any way, and paths may be free; a link
across volumes is `LinkFails`. The directory walk has a fixed order. Paths that a request does not take up (unknown group or member) are left
out: they change nothing. Entry ids never repeat (`Fresh`). Two writes of the index share one
temporary file; that the later one may fail for it, or be the one that is kept, comes to the
same as `Writes` in either order. The hash cache, the suppress list,
reveal and the audit log are not modelled.

### MetadataHandoff

State: `row` is the torrent in qBittorrent (gone, a magnet, a magnet whose files peers
delivered, added from its file, being deleted), `owner` the lock of its hash, `call` the
callers with the call they are suspended in and the local variable `deleted`, `report` the
last `metadata.handoff.*` event.

* `Calls`, `Acquires`: `ensure_qbt_metadata`, with any row read before.
* `FirstCheck`, `FirstRow`, `Fetches`, `SecondCheck`, `SecondRow`, `Deletes`,
  `WaitsUntilGone`, `AddsFile`, `WaitsForMetadata`, `Refreshes`, `RefreshesByFiles`: the `try`
  block, call by call. `_ready_torrent_row` is two calls, `files()` and then `torrents()`.
* `Recovers`, `RecoversRow`, `Lingers`, `RestoresMagnet`: the `except` branch.
* `Leaves`, `PeersDeliver`, `UserRemoves`, `UserAdds`: qBittorrent and its user.
  `Restarts`: shutdown or crash; the call under way may have been carried out.

`seen` is a history variable: whether qBittorrent has told the handoff in charge of files, and
whether the user has removed the torrent since.

Abstractions. One torrent, since locks of different hashes are independent. A fetch fails
or brings a file that `parseMetadata` confirms; which sources are asked is left out. Waits
may run out of time whenever what they wait for is absent or calls fail. qBittorrent lists
a torrent that is being deleted without files and rejects an add of a listed one. Tags and
category are left out, and so is an answer of `files()` that is not JSON.

### EventBus

State: `nextId`, `saved`, `unsaved` are `_next_id`, the state file and `_unsaved_emits`;
`oldest` says what `_history` holds; `emitter` is what each thread still has to put into
which queues, `stream` the browsers. Storage threads emit (`qbx/storage.py:260` to `344`)
while the event loop does.

* `Emits`: the part of `emit` under the lock. `Puts`: one `put_nowait` after it.
* `Connects`: `snapshot_and_subscribe`, one lock. `Sends`, `Disconnects`: the generator of
  `/api/events`.
* `Flushes`, `Restarts`: the flush at shutdown; the end of the daemon, flushed or not. A
  save may fail, and then `unsaved` is reset all the same.

Abstractions. `replay` and `queue` are sets: the order of a queue is not modelled, and two
threads can swap theirs, so a browser that remembers the last id it saw and reconnects may
be sent an event again on the new connection. The loop's own emits are interleaved with
browsers like a thread's, and a flush may come at any time; both allow more than the code
does. A browser that remembers an id from before a crash is not replayed new events with
smaller ids: it is owed what follows its connection. A state file that cannot be read
(ids start again at 1), listeners, and the log buffer are left out, and so is a queue whose
browser is gone before the generator that unsubscribes it starts: it costs memory only.

### StorageConsole

State: `groups`, `running`, `hidden` are the service's last scan, its scan in progress and the
suppressed digests; `data`, `shown` (`data.running`), `decisions`, `dialog`, `applying`,
`loading` the page's; `news` the events on their way, `asks` its reads and `sent` its apply
requests.

* `Mark`, `Unmark`, `SetKeeper`, `ApplyRule`, `ClearSelection`: `setMemberAction`,
  `setKeeper`, `applyRuleToGroups`, `clearSelection`, with what the rows enable.
* `OpensDialog`, `ClosesDialog`, `Confirms`, `Answered`: the confirmation and `commit`;
  `Ends`: the end of `apply` in its thread, which empties `_groups`, or an exception in it,
  which does not; `Lost`: the connection breaks, `commit` goes to its `catch` and `finally`
  and the thread works on.
* `StartsScan`, `ScanAnswered`, `OtherScans`, `ScanEnds`, `Suppresses`, `SuppressRestored`,
  `OtherClears`: scans, "hide always", and what other browsers do.
* `Hears`, `Serves`, `Arrives`: an event asks for the status or the groups; the service
  answers from what it has; the answer arrives, in any order with the others, or is lost.

Abstractions. Which member a keeper rule picks depends on dates and names, so any member of
the pool may be picked. "link" and "delete" are one mark, and volumes are left out. A request
that reaches the service does so at once; it may fail on its way. One read of each kind is on its way. A group hidden for the
session is still counted and sent, so hiding it is left out; so are filters, the truncation
of long lists and the quarantine list.

## 3. Runs

`tlc -config <cfg> <module>`.

| Run | Instance | Shows |
|---|---|---|
| `handoff_claims` | loop only with auto-retry, one torrent, two handlers, failing calls, one crash, fair | hand-offs are exclusive, claimed from dispatch to end, apart from refreshes; no claim leaks, and every claim is released; a torrent left paused gets into the attention queue unless auto-retry took it up; the invariant of the proof holds; refinement of `HandoffPromise` |
| `handoff_paths` | loop, scan, chain, a forced hand-off or a retry, failing calls, download delivery, no fallback | no path leaks a claim |
| `handoff_live` | loop with auto-retry, a skip by the user, no failing qBittorrent calls, fair | hand-offs end marked |
| `handoff_repick` | loop and scan | **violation**: two handlers on one torrent |
| `retry` | a torrent with two attempts and a replacement, failing calls and writes, stop and start, one crash, fair | attempts are capped, one replacement, clean flags and finished stops mean saved; counts get saved, `stop()` returns, failed torrents are retried; but for orphaned loops |
| `retry_replaced` | the same without faults | **violation**: a replacement is asked in the pass that grants the last retry |
| `reclaim_single` | one request at a time, four requests, one change by others | refinement of the promise, protected paths |
| `reclaim_threads` | two requests at once, four requests, failing index writes, one crash, one file removed by others | index and directories agree but for `strays`; no content leaves the disk without a purge |
| `metadata_all` | handler and resolve request, every fault and change, one shutdown, fair | no handoff undoes another, success means that files were listed and only the user took them away since, known losses are reported, calls end |
| `events` | two threads, two browsers with queues of one event, one restart, failing saves | no gap between history and queue, no overlap, ids run on |
| `console` | one page, one content with two copies, a rescan, two applies, others at will, fair | keepers are never removal targets, applies overlap only after a lost answer, the page comes out of each |
| `console_confirm` | the page with two contents, one of them with a hard link | **violation**: an apply takes a copy the confirmation did not count |

Bounds. Exclusion and retries are about one torrent, so those runs have one; batches of
several torrents are covered by the proofs, which are for any number. Two handler tasks are
the least that can collide. One retry is the first and the last of its torrent. The run `retry`
has one call of `stop()`, enough for a start request to come between the end of the loop and
that call's turn; with two at once (`Stops = {s1, s2}`, 970,000 states) its invariants hold too,
its liveness properties take too long, and `StopsSaved` is proved for any number. One
crash reaches every state that one crash can leave; a second one meets the same states.
For reclaim three paths on two inodes have a hardlinked pair and a copy of its own, so
link, skip and delete all occur, with contents the same or not; four requests are scan,
apply, restore, purge; two entries make an index with a row that somebody else owns. `MaxRequests`, `MaxCalls`,
`MaxChanges` and `MaxRestarts` bound the number of requests, changes and crashes;
`Tasks`, `Entries` and `Workers` the actors. For the metadata handoff two callers are all
the code has, `Attempts` is the code's 4, and three handoffs let one caller meet the results
of two others (`MaxHandoffs`). For the event bus a history of two and a
queue of one are full after three events; a fourth (`MaxEvents`) comes after that, with
`PersistEvery` 2 for 25, and `MaxConnects` 3 lets a browser return. For the storage page one
rescan over a first result makes marks stale (`MaxScans`), and a second apply is the one that
must not overlap the first (`MaxCommits`). `Reclaim`, `MetadataHandoff`, `EventBus` and
`StorageConsole` run without the deadlock check: they stop when their
requests or events are used up.

Symmetry: torrents and task slots in `Handoff` (not in the fair runs), inodes and
entries in `Reclaim`, threads and browsers in `EventBus`.

Fairness (`handoff_claims`, `handoff_live`, `metadata_all`, `retry`, `console`). asyncio runs every ready task; every HTTP call has a timeout;
a debrid resolution is given up after `max_wait_minutes`. So what has started goes on:
weak fairness on each coroutine that is under way, and on the loop. Nobody has to click,
scan or crash. An `asyncio.Lock` wakes its waiters in order, so weak fairness also covers a
caller that waits for the lock of a hash.
In `RetryState` the loop, the saves and a `stop()` that is under way go on (weak fairness).
Strong fairness says that passes start again and again, that the call that clears a tag is
not refused for ever, that the state lock is handed on, and that the loop reaches its flush
again and again: iterations that find nothing new skip it, and qBittorrent's answers change
as long as torrents are active. In `StorageConsole` requests are answered or lost; users and other
browsers may stop at any time.

## 4. Proofs

`tlapm <module>.tla`. No assumption beyond those named in `Handoff`
(`HandoffAssumption`), `Reclaim` (`ReclaimAssumption`), `MetadataHandoff`
(`MetadataAssumption`), `EventBus` (`EventBusAssumption`), `RetryState` (`RetryAssumption`)
and `StorageConsole` (`ConsoleAssumption`).

* `TypeCorrect`, `ReclaimTypeCorrect`, `MetadataTypeCorrect`, `EventBusTypeCorrect`,
  `RetryTypeCorrect`, `ConsoleTypeCorrect`: the type invariants. `Reclaim`'s says more than
  types: what a thread in the middle of something has at hand (`Consistent`) and that
  every row says where its file was.
* `ClaimsNeverLeak`: `NoLeakedClaim` for every set of torrents, tasks, scans, users and
  recoveries. It is inductive together with types: every action that adds a claim starts
  its owner in the same step, and every end of an owner removes it.
* `LoopAlone`, `LoopExclusive`, `LoopHoldsClaims`, `LoopRefreshesApart`: if the loop is the
  only dispatcher, hand-offs are exclusive, claimed throughout and apart from refreshes,
  whatever torrents users skip or retry meanwhile (`LoopDispatches`: no manual scans, no forced
  hand-offs, no webseed recovery tasks). Exclusion alone is not inductive. It needs
  `SingleDispatcher`: the chain never wakes up, the loop does not refresh while a batch
  waits to be dispatched, and that batch stays unclaimed while its tag calls are awaited.
  The run `handoff_repick` shows that the assumption cannot be dropped.
* `PauseIsShown`: `NoSilentPause`, for any number of automatic retries, if nobody but the loop
  and its handlers acts (`LoopOnly`), web seeds are delivered, and qBittorrent names a paused
  download `pausedDL`. Section 5 shows what each premise keeps away. That paused torrents carry
  a mark is not inductive: `PausedMarked` adds what each stage of a handler relies on (tagged
  before it pauses, tagged failed before its active tag goes, resumed before it is done), and
  these hold because nobody else works on the torrent (`HandlerMarked`) and all other calls
  leave the marks alone (`MilderMarked`).
* `LoopKeepsPromise`: under the same premises, except for the name of the paused state, the
  hand-off implements `HandoffPromise`. A step of a handler or refresh is a step of the promise
  on its torrent because it is the only worker there, and a dispatch takes a batch nobody works
  on (`DispatchPromise`). `LoopIsOrderly` carries what follows from the promise back to the code:
  handlers and refreshes together never number two on a torrent, and no torrent is paused
  without a mark or a retry.
* `ProtectedStays`: no step of qbx touches a protected path, whatever runs at once, fails
  or crashes. Protection is asked once, when a request is judged; `Spared` follows what
  was noted then through decisions, the copy at hand, rows and rows read by a restore.
* `QuarantineUndoable`, `QuarantineHonest`: `Undoable` and `Honest` for any number of threads,
  requests, failing writes and crashes. The inductive invariant `Accounted` says of each entry
  outside `strays` where its state is kept (`Booked`): in the index, in the thread about to append
  its row, or in the threads that took its file and will write so; that no two threads append
  the same row (`OwnRows`); and that a restore or purge takes an entry once (`Handled`). No other
  request has to be kept away, because what a stale write overwrites is in `strays` from then on.
* `ContentStays`: `NothingDestroyed` with overlapping requests, failing writes and crashes, as
  long as other programs only remove files. `Settling` says that every path has one content it
  ever holds, and that scans, rows and whatever a request is about to do agree with it (`Fits`);
  so a link, or a restore onto a path that was filled since, covers nothing but the same content.
* `ReclaimKeepsPromise`: requests one at a time (`OneAtATime`) implement `ReclaimPromise` until
  another program touches the files, although index writes fail and the daemon crashes. It
  needs `Settling`, and `Watchful`: what an apply has found of its keeper still holds when the
  next copy goes.

* `ReaddedStays`, `SuccessIsReady`, `LossIsAccounted`: the three action properties of
  `MetadataHandoff` for any number of callers and attempts. They need that only the holder of
  the lock is past it (`Serial`), hence that what a caller saw before its delete or add still
  holds when it makes it (`Undisturbed`), and that a caller that has deleted is past its
  delete (`InCharge`). Every step of a holder keeps all three (`HolderSteps`).
* `NothingMissed`, `NeverTwiceSent`, `IdsContinue`: the properties of `EventBus` for any
  number of threads, browsers and events. `Past` says that nobody knows an event of the
  future; `Once`, on top of it, that two threads never hand out the same event and that an
  event on its way is nowhere else, which is what makes a put safe after the lock;
  `Complete` is `NoGap` stream by stream; `Lags` bounds the distance of the saved counter.

* `AttemptsCapped`, `AskedOnce`, `FlagIsHonest`, `StopsSaved`: the safety properties of
  `RetryState` for any number of torrents, overlapping stops and crashes. The invariant `Sound`
  is one chain: a count in memory is never behind the retries made (`Counts`); what a batch of
  replacements still holds was not asked for (`Pending`); one thread writes at a time
  (`OneWriter`); where the flag is clear, the file has everything or will when the thread that
  holds the lock has written its snapshot (`Settled`), except inside a retry, whose count
  precedes its mark; a loop that was stopped, if it is not orphaned, is awaited by a `stop()`
  (`Awaited`) and is saved or will be by one (`OffSaved`).
* `KeepersStay`, `OneAtATime`: for any contents, groups and number of requests. The first goes
  through each way to change a decision (`MarkingKeeps`); the second says that applies overlap
  only if an answer was lost, and needs that `applying` also covers the reload after an apply
  (`Busy`).

Only model-checked: liveness (TLAPS has no fairness reasoning here). Every invariant, every
action property and both refinements that a passing run checks are theorems; the premises of
those that need some are named above, and each run that checks them satisfies them.

## 5. Where code and documentation disagree

Three disagreements are runs (section 3, listed under `findings` in `PROJECT.json`). Others
were met on the way; each appears with the constants given.

* `NeverTwice` in `Handoff` with two torrents, two tasks, `MaxPerScan = 1`, no faults and the
  loop alone: a poll answer older than the mirror takes the tag of a finished hand-off back,
  and the torrent is handed off again.
* `OneCopyStays` in `Reclaim` with two workers, two paths, two inodes, `Calls = {"scan",
  "apply"}`, no changes: two applies with different keepers quarantine every copy.
* `NotLeftDeleted` in `MetadataHandoff` with one caller, `Attempts = 4`, `Faults =
  {"applied"}`, no changes, `MaxHandoffs = 1`: the torrent is gone, neither restored nor
  reported.
* `RetryState` with `MaxRetryAttempts = 1`, `Faults = FALSE`: retries need not come to an end
  (`<>[][made'[t] <= made[t]]_vars` fails), since `_observe_torrents` forgets the entry of a
  torrent that no delta has mentioned for a day, its count included
  (`qbx/engine/interceptor.py:2829`).
* `StorageConsole`: the status asked on scan progress and the groups asked at the end of a scan
  are answered on separate connections. If the status comes last, the page shows a running
  scan, and offers neither scan nor reclaim, until it is loaded again.
* Storage page: marks are kept across rescans, so a copy whose folder has become a protected
  root in the mean time stays marked and counted ("protected roots can never be selected for
  removal", `StoragePanel.tsx:6`); the service skips it.
* `MatchingPanel.tsx` (not modelled): `WorkspaceTabs.tsx` renders it without a key, so it keeps
  `matches`, `unmatched` and the search path when another torrent is selected. "Skip unmatched"
  (line 262) then sets priority 0 on the files of the new torrent that have the indices of the
  old one's unmatched files, and "Apply renames" (line 217) renames with the old one's matches.
  The button's tooltip says "Set priority to "Do not download" for files with no match on disk".
* `Handoff`, two tasks, `Cardinality(LiveTasks) <= 1`: successive passes put more than
  `max_debrid_per_scan` candidates in flight, unlike R2 of
  `docs/brainstorms/2026-07-29-interceptor-concurrency-and-queue-hygiene-requirements.md:32`.
* Auto-retry, on by default, removes the failed tag of a torrent that is still paused and does
  not resume it; it then is neither a candidate nor shown. `NoSilentPause` excepts these
  torrents (`retried`); without the exception it fails with `MaxRetryAttempts = 1`.
* A paused torrent whose `last_activity` is 0 or missing has been idle for 0 seconds by
  `qbx/attention.py:181`, so the attention queue never shows it; nor one that was moved
  to a local-only or cache-only category while it was handed off.
* `NoSilentPause` with `PausedState = "stoppedDL"`: `_qbx_paused_torrent_items` only knows the
  4.x state names (`qbx/attention.py:171`).
* `NoSilentPause` with a user and `UserOps = {"skipTag"}`: `skip_auto` looks at no claim and
  takes the active tag of a torrent whose failed hand-off left it paused; what remains is the
  skip tag, which the attention queue does not show.
* `NoSilentPause` with `Delivery = "download"` and a crash: the torrent is resumed after its
  active tag is gone.
* `Undoable` and `Honest` without `strays`: a file is moved before its row is appended, and put
  back or purged before its row is rewritten, so a crash or a full disk leaves a file that no row
  restores, or a row without a file. With two requests at once, a row appended while a restore or
  purge holds the rows it has read is overwritten (`qbx/engine/content_dedupe.py:611`), and a
  row that another request has marked restored is offered again.
* `NothingDestroyed` with `Changes = {"rewrite"}`: a copy rewritten in place keeps its inode,
  passes the check and is replaced by a link. With `Changes = {"replace"}`: a restore finds the
  path free, another program puts a file there, and the restore moves the old one over it
  (`qbx/engine/content_dedupe.py:593` checks, 599 replaces).
* `NotLeftDeleted` with `Faults = {}` and a shutdown between delete and re-add: the `except`
  branch catches `Exception`, not `CancelledError`. With `Faults = {"lost"}` and no shutdown
  it holds.
* `EventBus`: the log stream does not do what `snapshot_and_subscribe` was made for. It
  reads its history and subscribes in two steps (`qbx/server.py:1349`), so a line a thread
  logs in between reaches no one.
* `ReadyOnSuccess` without `seen`: after `files()` has listed files, `_ready_torrent_row` asks
  `torrents()` and takes any answer, an empty one included, for success
  (`qbx/engine/metadata.py:123-128`; a failing one as well in the `except` branch). A torrent the
  user removes between the two calls is returned as ready, and by the `except` branch as done.
  `_refresh_torrent` returns a row without a look at its files, so a user who removes the torrent
  and adds the magnet back at that moment gets web seeds on a torrent without files. A torrent
  removed while a handoff runs comes back with it.
* `StopSaves` and `StopEnds` without `orphan`: `stop()` sets `_task` to `None` after its wait,
  whatever it holds by then (`qbx/engine/interceptor.py:738-739`). If a start request, or an update
  of the configuration whose own `stop()` had nothing to save (`qbx/server.py:650-660`), has
  started the loop in between, no later `stop()` waits for that loop, and a later `start()` begins
  a second one beside it (732).
* `OneRequest` without `lost`: when the connection breaks during an apply, `commit` reports an
  error and enables the dialog again (`StoragePanel.tsx:497-501`) with its decisions as they were;
  a second apply then runs beside the thread of the first, as in `Reclaim` with two workers.

## 6. Not modelled

* Interceptor: webseed validation, expiry and the URL cache; completion and recheck;
  duplicates; placement; cache-only lookups, which claim torrents while they start
  (`qbx/engine/interceptor.py:3627`); the order of the queue, a comparison of tuples in which
  values may be missing (3998). What these decide is left open in `Handoff` where it gates
  other steps.
* Debrid manager, qBittorrent client, downloader: inside calls that answer, fail, or fail after
  they took effect. The poll loop of `qbx/debrid/manager.py:147` ends on a final status or a
  deadline and keeps no state after it.
* Matcher, ownership, release names, file stall, cache-only memory: functions of what they are
  given, and gates. Placement links files and has the hazards of `Reclaim`.
* Automation: a sequential scan that saves what it has handled at its end
  (`qbx/engine/automation.py:228`); a crash handles files again.
* Which settings take effect when the server rebinds its services under running handlers;
  `RetryState` has the stop and start.
* Configuration parsing, contract probes, update checks, proxy, desktop and CLI keep no
  protocol state. The other pages of the matcher application show one answer or send one
  request at a time; the WebUI below `qbx/web/qbittorrent` and its translations are vendored
  and make up nearly all TypeScript and JavaScript lines of the repository. The program itself
  is Python, except for the pages of the matcher application.
* `HandoffPromise` with several dispatchers: which part of it survives manual scans, forced
  hand-offs and recovery tasks would be the next step, together with the web seeds themselves.
