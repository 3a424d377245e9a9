-------------------------- MODULE MetadataHandoff --------------------------
(***************************************************************************)
(* The metadata handoff, ensure_qbt_metadata (qbx/engine/metadata.py): a   *)
(* torrent that qBittorrent knows only as a magnet is deleted and added    *)
(* again from a .torrent file, or, failing that, as the magnet it was.     *)
(*                                                                         *)
(* One torrent.  A handler of the interceptor and a resolve request of the *)
(* Control Shell may both call for it, with rows they read earlier; a lock *)
(* per hash serializes them.  A program counter names the call on          *)
(* qBittorrent a caller is suspended in; a step is what that call returns  *)
(* or does, followed by the code up to the next one.                       *)
(***************************************************************************)
EXTENDS Integers

CONSTANTS
    Callers,        \* coroutines that may call for the torrent
    NoCaller,       \* the lock is free
    Attempts,       \* attempts=4 of an add
    Faults,         \* what happened to a call that fails: "lost", "applied"
    Changes,        \* what peers and the user do to the torrent
    MaxHandoffs,    \* calls considered (bound)
    MaxChanges,     \* changes by peers and the user considered (bound)
    MaxRestarts     \* shutdowns of the daemon considered (bound)

ASSUME MetadataAssumption ==
    /\ NoCaller \notin Callers
    /\ Attempts \in Nat \ {0}
    /\ Faults \subseteq {"lost", "applied"}
    /\ Changes \subseteq {"deliver", "remove", "add"}
    /\ MaxHandoffs \in Nat /\ MaxChanges \in Nat /\ MaxRestarts \in Nat

VARIABLES
    row,        \* the torrent in qBittorrent
    owner,      \* who holds the lock of the hash
    call,       \* the callers
    report,     \* the last metadata.handoff event, what it says of the torrent
    seen,       \* history: what the handoff in charge was last told of files
    handoffs,   \* calls so far
    changes,    \* changes so far
    restarts    \* shutdowns so far

vars == <<row, owner, call, report, seen, handoffs, changes, restarts>>
counters == <<handoffs, changes, restarts>>

-----------------------------------------------------------------------------
(* Records *)

\* A magnet without files; one whose files peers have delivered; a torrent
\* added from the file; one being deleted, listed for a while without files.
Rows == {"gone", "magnet", "delivered", "readded", "leaving"}
Listed == row # "gone"
HasFiles == row \in {"delivered", "readded"}

\* _ready_torrent_row asks files() and then torrents(): "checkRow" and its like
\* are its second call.
Stages == {"check", "checkRow", "fetch", "recheck", "recheckRow", "delete", "gone",
           "add", "wait", "refresh", "refreshFiles", "recover", "recoverRow",
           "linger", "restore"}
Call == [pc : {"idle", "lock"} \cup Stages,
         deleted : BOOLEAN,             \* the local variable deleted
         tries : 0..Attempts - 1,       \* failed attempts of the current add
         result : {"none", "ok", "error"}]
Resting == [pc |-> "idle", deleted |-> FALSE, tries |-> 0, result |-> "none"]

\* metadata.handoff.done, and .failed: without a word on the torrent, with
\* deleted and not restored, with lingering, with restored.
Reports == {"none", "done", "failed", "missing", "lingering", "restored"}

\* Told of no files yet; told of files; told of files that the user has removed
\* with their torrent since.
Sightings == {"no", "yes", "undone"}

TypeOK ==
    /\ row \in Rows
    /\ owner \in Callers \cup {NoCaller}
    /\ call \in [Callers -> Call]
    /\ report \in Reports
    /\ seen \in Sightings
    /\ handoffs \in 0..MaxHandoffs
    /\ changes \in 0..MaxChanges
    /\ restarts \in 0..MaxRestarts

Init ==
    /\ row = "magnet"
    /\ owner = NoCaller
    /\ call = [c \in Callers |-> Resting]
    /\ report = "none"
    /\ seen = "no"
    /\ handoffs = 0 /\ changes = 0 /\ restarts = 0

-----------------------------------------------------------------------------
(* Calls on qBittorrent *)

\* A call that only reads may get no answer.
NoAnswer == "lost" \in Faults

\* files() answers with files, or with none for a torrent that has none yet; it
\* raises without an answer and for a torrent that is gone.
FilesListed == HasFiles /\ seen' = "yes"
FilesEmpty == Listed /\ ~HasFiles /\ UNCHANGED seen
FilesRaise == (NoAnswer \/ ~Listed) /\ UNCHANGED seen

\* A call that would make the row after may fail and still be carried out.
FailedCall(after) ==
    \/ "lost" \in Faults /\ row' = row
    \/ "applied" \in Faults /\ row' = after

\* /torrents/delete starts a removal and accepts a hash that is gone.
Removed == IF Listed THEN "leaving" ELSE "gone"

\* /torrents/add rejects a torrent that is listed ("Fails.").
Added(new) == row = "gone" /\ row' = new
AddFails(new) == IF Listed THEN UNCHANGED row ELSE FailedCall(new)

-----------------------------------------------------------------------------
(* The steps of a handoff *)

At(c, stage) == call[c].pc = stage /\ UNCHANGED counters

Goes(c, stage) ==
    /\ call' = [call EXCEPT ![c].pc = stage, ![c].tries = 0]
    /\ UNCHANGED <<owner, report>>

\* Mutant of Ends: the lock is kept.
EndsHolding(c, result, event) ==
    /\ call' = [call EXCEPT ![c].pc = "idle", ![c].tries = 0, ![c].result = result]
    /\ report' = event
    /\ UNCHANGED owner

\* The call returns or raises, and releases the lock.
Ends(c, result, event) ==
    /\ call' = [call EXCEPT ![c].pc = "idle", ![c].tries = 0, ![c].result = result]
    /\ owner' = NoCaller
    /\ report' = event

\* A call with a row that was read while the torrent needed metadata.
Calls(c) ==
    /\ call[c].pc = "idle" /\ handoffs < MaxHandoffs
    /\ call' = [call EXCEPT ![c] = [Resting EXCEPT !.pc = "lock"]]
    /\ handoffs' = handoffs + 1
    /\ UNCHANGED <<row, owner, report, seen, changes, restarts>>

\* Mutant of Acquires: handoffs of one hash are not serialized.
AcquiresAnyway(c) ==
    /\ At(c, "lock")
    /\ owner' = c
    /\ call' = [call EXCEPT ![c].pc = "check"]
    /\ seen' = "no"
    /\ UNCHANGED <<row, report>>

Acquires(c) ==
    /\ At(c, "lock") /\ owner = NoCaller
    /\ owner' = c
    /\ call' = [call EXCEPT ![c].pc = "check"]
    /\ seen' = "no"
    /\ UNCHANGED <<row, report>>

\* Metadata may have arrived since the row was read: files() is asked.
FirstCheck(c) ==
    /\ At(c, "check") /\ UNCHANGED row
    /\ \/ FilesListed /\ Goes(c, "checkRow")
       \/ FilesEmpty /\ Goes(c, "fetch")
       \/ FilesRaise /\ Ends(c, "error", report)

\* torrents(), once files() was not empty: any answer, an empty one included,
\* counts as ready (metadata.py:128).
FirstRow(c) ==
    /\ At(c, "checkRow") /\ UNCHANGED <<row, seen>>
    /\ \/ Ends(c, "ok", report)
       \/ NoAnswer /\ Ends(c, "error", report)

\* A .torrent is fetched from the caches and confirmed by its infohash and
\* by parseMetadata.
Fetches(c) ==
    /\ At(c, "fetch") /\ UNCHANGED <<row, seen>>
    /\ \/ Goes(c, "recheck")
       \/ Ends(c, "error", "failed")

SecondCheck(c) ==
    /\ At(c, "recheck") /\ UNCHANGED row
    /\ \/ FilesListed /\ Goes(c, "recheckRow")
       \/ FilesEmpty /\ Goes(c, "delete")
       \/ FilesRaise /\ Ends(c, "error", "failed")

SecondRow(c) ==
    /\ At(c, "recheckRow") /\ UNCHANGED <<row, seen>>
    /\ \/ Ends(c, "ok", "done")
       \/ NoAnswer /\ Ends(c, "error", "failed")

Deletes(c) ==
    /\ At(c, "delete") /\ UNCHANGED seen
    /\ \/ /\ row' = Removed
          /\ call' = [call EXCEPT ![c].pc = "gone", ![c].deleted = TRUE]
          /\ UNCHANGED <<owner, report>>
       \/ FailedCall(Removed) /\ Ends(c, "error", "failed")

WaitsUntilGone(c) ==
    /\ At(c, "gone") /\ UNCHANGED <<row, seen>>
    /\ \/ ~Listed /\ Goes(c, "add")
       \/ (NoAnswer \/ Listed) /\ Goes(c, "recover")    \* out of time

\* Mutant of TriesAgain: one attempt too many.
TriesOnceMore(c) ==
    /\ call[c].tries < Attempts
    /\ call' = [call EXCEPT ![c].tries = @ + 1]
    /\ UNCHANGED <<owner, report>>

\* An add that fails is tried again, and given up at the last attempt.
TriesAgain(c) ==
    /\ call[c].tries < Attempts - 1
    /\ call' = [call EXCEPT ![c].tries = @ + 1]
    /\ UNCHANGED <<owner, report>>
GivesUp(c) == call[c].tries = Attempts - 1

AddsFile(c) ==
    /\ At(c, "add") /\ UNCHANGED seen
    /\ \/ Added("readded") /\ Goes(c, "wait")
       \/ AddFails("readded") /\ (TriesAgain(c) \/ (GivesUp(c) /\ Goes(c, "recover")))

\* Mutant of WaitsForMetadata: no recovery when time runs out.
WaitsOnly(c) ==
    /\ At(c, "wait") /\ UNCHANGED row
    /\ \/ FilesListed /\ Goes(c, "refresh")
       \/ (FilesEmpty \/ FilesRaise) /\ Ends(c, "error", "failed")

\* files() is asked until it lists files or time runs out.
WaitsForMetadata(c) ==
    /\ At(c, "wait") /\ UNCHANGED row
    /\ \/ FilesListed /\ Goes(c, "refresh")
       \/ (FilesEmpty \/ FilesRaise) /\ Goes(c, "recover")

\* _refresh_torrent asks torrents(), and files() when that shows nothing.
Refreshes(c) ==
    /\ At(c, "refresh") /\ UNCHANGED <<row, seen>>
    /\ \/ Listed /\ Ends(c, "ok", "done")
       \/ (NoAnswer \/ ~Listed) /\ Goes(c, "refreshFiles")

RefreshesByFiles(c) ==
    /\ At(c, "refreshFiles") /\ UNCHANGED row
    /\ \/ FilesListed /\ Ends(c, "ok", "done")
       \/ (FilesEmpty \/ FilesRaise) /\ Goes(c, "recover")

-----------------------------------------------------------------------------
(* The except branch, once the torrent has been deleted *)

\* Mutant of Recovers: being listed counts as ready.
RecoversListed(c) ==
    /\ At(c, "recover") /\ UNCHANGED <<row, seen>>
    /\ \/ Listed /\ Goes(c, "recoverRow")
       \/ (NoAnswer \/ ~Listed) /\ Goes(c, "linger")

Recovers(c) ==
    /\ At(c, "recover") /\ UNCHANGED row
    /\ \/ FilesListed /\ Goes(c, "recoverRow")
       \/ (FilesEmpty \/ FilesRaise) /\ Goes(c, "linger")

\* Here a torrents() that fails counts as ready as well (metadata.py:125-127).
RecoversRow(c) ==
    /\ At(c, "recoverRow") /\ UNCHANGED <<row, seen>>
    /\ Ends(c, "ok", "done")

\* A torrent that is still listed is left alone.
Lingers(c) ==
    /\ At(c, "linger") /\ UNCHANGED <<row, seen>>
    /\ \/ Listed /\ Ends(c, "error", "lingering")
       \/ (NoAnswer \/ ~Listed) /\ Goes(c, "restore")

RestoresMagnet(c) ==
    /\ At(c, "restore") /\ UNCHANGED seen
    /\ \/ Added("magnet") /\ Ends(c, "error", "restored")
       \/ AddFails("magnet") /\ (TriesAgain(c) \/ (GivesUp(c) /\ Ends(c, "error", "missing")))

-----------------------------------------------------------------------------
(* qBittorrent, its user, and the daemon *)

Leaves == row = "leaving" /\ row' = "gone" /\ UNCHANGED <<owner, call, report, seen, counters>>

Changed(kind) ==
    /\ kind \in Changes /\ changes < MaxChanges /\ changes' = changes + 1
    /\ UNCHANGED <<owner, call, report, handoffs, restarts>>

PeersDeliver ==
    Changed("deliver") /\ row = "magnet" /\ row' = "delivered" /\ UNCHANGED seen
UserRemoves ==
    /\ Changed("remove") /\ row \notin {"gone", "leaving"} /\ row' = "gone"
    /\ seen' = IF seen = "yes" THEN "undone" ELSE seen
UserAdds == Changed("add") /\ row = "gone" /\ row' = "magnet" /\ UNCHANGED seen

\* The call that a cancelled caller was suspended in may have been carried out.
Interrupted(c) ==
    CASE call[c].pc = "delete" -> {row, Removed}
      [] call[c].pc = "add" /\ ~Listed -> {row, "readded"}
      [] call[c].pc = "restore" /\ ~Listed -> {row, "magnet"}
      [] OTHER -> {row}

\* The daemon dies, or its event loop ends and cancels every handoff: as
\* CancelledError is not an Exception, the except branch does not run.
Restarts ==
    /\ restarts < MaxRestarts /\ restarts' = restarts + 1
    /\ IF owner = NoCaller THEN UNCHANGED row ELSE row' \in Interrupted(owner)
    /\ owner' = NoCaller
    /\ call' = [c \in Callers |-> Resting]
    /\ seen' = "no"
    /\ UNCHANGED <<report, handoffs, changes>>

-----------------------------------------------------------------------------

Proceeds(c) ==
    \/ Acquires(c) \/ FirstCheck(c) \/ FirstRow(c) \/ Fetches(c)
    \/ SecondCheck(c) \/ SecondRow(c) \/ Deletes(c) \/ WaitsUntilGone(c)
    \/ AddsFile(c) \/ WaitsForMetadata(c) \/ Refreshes(c) \/ RefreshesByFiles(c)
    \/ Recovers(c) \/ RecoversRow(c) \/ Lingers(c) \/ RestoresMagnet(c)

Next ==
    \/ \E c \in Callers : Calls(c) \/ Proceeds(c)
    \/ Leaves \/ PeersDeliver \/ UserRemoves \/ UserAdds \/ Restarts

\* Every wait of a handoff has a deadline, so it always gets on; so does a
\* caller that waits for the lock once the lock is free.
Spec == Init /\ [][Next]_vars /\ \A c \in Callers : WF_vars(Proceeds(c))

-----------------------------------------------------------------------------
(* Properties *)

\* A torrent that a handoff has added from its file is never deleted by
\* another handoff that started from an older row: the lock of the hash and
\* the checks made under it (metadata.py:421-422, 467-469, 499-506).  Only a
\* user removes it.
NeverUndone == [][row = "readded" => row' # "leaving"]_vars

\* A caller that is told to go on and inject web seeds has a torrent with its
\* files, even when it got there by way of an error.  The code does not promise
\* it of the moment it returns: the answer of files() is followed by a call on
\* torrents() whose answer may be empty (metadata.py:104, 123-128, 519-520).  So:
\* this handoff was told of files, and only a user has taken them away since.
ReadyOnSuccess ==
    [][\A c \in Callers :
         call[c].result = "none" /\ call'[c].result = "ok"
           => (HasFiles' /\ seen' = "yes") \/ seen' = "undone"]_vars

\* A handoff that saw its delete return ends with the torrent in qBittorrent,
\* with an event that says it may be missing, or as done after the torrent was
\* back with its files and the user removed it; whatever failed in between.
LossAccounted ==
    [][\A c \in Callers :
         call[c].deleted /\ call[c].result = "none" /\ call'[c].result # "none"
           => \/ Listed' \/ report' = "missing"
              \/ call'[c].result = "ok" /\ seen' = "undone"]_vars

\* No call hangs: every handoff ends, and with it the lock is released.
EveryCallEnds == \A c \in Callers : call[c].pc # "idle" ~> call[c].pc = "idle"

\* What the comment at metadata.py:574-575 is after: no handoff leaves the
\* user with a deleted torrent that no event speaks of.
NotLeftDeleted ==
    (\A c \in Callers : call[c].pc = "idle") /\ ~Listed => report \in {"missing", "lingering"}
=============================================================================
