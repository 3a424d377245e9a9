------------------------------ MODULE Reclaim ------------------------------
(***************************************************************************)
(* Duplicate scan, reclaim and quarantine: StorageService (qbx/storage.py) *)
(* over apply_reclaim and QuarantineStore (qbx/engine/content_dedupe.py).  *)
(*                                                                         *)
(* The server runs every apply, restore and purge request in a thread of   *)
(* its own (asyncio.to_thread) and takes no lock, so a step is one call on *)
(* the file system or on the quarantine index, with the checks before it   *)
(* that look at the same file.  Other programs change files at any time.   *)
(***************************************************************************)
EXTENDS FiniteSets, Integers

CONSTANTS
    Paths,          \* the paths below the configured roots
    Inodes,         \* files
    Protected,      \* the paths below content_dupes.protected_roots
    Entries,        \* quarantine entry ids (bound)
    Workers,        \* storage requests that can run at once
    Calls,          \* kinds of request considered
    Changes,        \* what other programs do to the files
    IndexFails,     \* quarantine.jsonl may fail to be written (disk full)
    None,           \* no file, no path, no entry
    MaxCalls,       \* storage requests considered (bound)
    MaxChanges,     \* changes by other programs considered (bound)
    MaxRestarts     \* daemon crashes considered (bound)

ASSUME ReclaimAssumption ==
    /\ Protected \subseteq Paths
    /\ None \notin Paths \cup Inodes \cup Entries \cup {"same"}
    /\ Calls \subseteq {"scan", "apply", "restore", "purge"}
    /\ Changes \subseteq {"rewrite", "replace", "remove"}
    /\ IndexFails \in BOOLEAN
    /\ MaxCalls \in Nat /\ MaxChanges \in Nat /\ MaxRestarts \in Nat

VARIABLES
    file,       \* the inode each path names
    tmp,        \* the inode <path>.qbx-link-tmp names
    content,    \* the content of each inode
    qfile,      \* the inode of each file in a quarantine directory
    index,      \* quarantine.jsonl, a row per entry
    groups,     \* _groups, the result of the last scan
    scan,       \* the scan thread
    worker,     \* the request threads
    calls,      \* requests so far
    changes,    \* changes by other programs so far
    restarts,   \* crashes so far
    strays      \* history: entries whose row was not written or was overwritten

vars == <<file, tmp, content, qfile, index, groups, scan, worker,
          calls, changes, restarts, strays>>
disk == <<file, tmp, content, qfile, index>>
history == <<calls, changes, restarts, strays>>

-----------------------------------------------------------------------------
(* Records *)

Same == "same"                      \* the content the files start with
Contents == {Same} \cup Inodes      \* a rewritten file has a content of its own
Slots == Inodes \cup {None}

Row == [state : {"absent", "quarantined", "restored", "purged"},
        original : Paths \cup {None}]
NoRow == [state |-> "absent", original |-> None]
Rows == {f \in [Entries -> Row] : \A e \in Entries : f[e].state # "absent" => f[e].original # None}

Member == [path : Paths, ino : Inodes]
NoMember == [path |-> None, ino |-> None]
Group == [digest : Contents, members : SUBSET Member]
Target == [path : Paths, ino : Inodes, action : {"link", "delete"}]

Scan == [pc : {"idle", "index", "hash"},
         todo : SUBSET Paths,
         ino : [Paths -> Slots],
         digest : [Paths -> Contents \cup {None}]]
NoScan == [pc |-> "idle", todo |-> {},
           ino |-> [p \in Paths |-> None], digest |-> [p \in Paths |-> None]]

Worker == [pc : {"idle", "apply", "link", "replace", "move", "record",
                 "restore", "putback", "purge"},
           groups : SUBSET Group,       \* apply: the scan it validates against
           keeper : Member \cup {NoMember},
           todo : SUBSET Target,        \* apply: decisions left to carry out
           path : Paths \cup {None},    \* apply: the copy being reclaimed
           rows : Rows,                 \* restore, purge: the index it has read
           wanted : SUBSET Entries,     \* restore, purge: entries left
           entry : Entries \cup {None},
           changed : BOOLEAN]
Resting == [pc |-> "idle", groups |-> {}, keeper |-> NoMember, todo |-> {}, path |-> None,
            rows |-> [e \in Entries |-> NoRow], wanted |-> {}, entry |-> None,
            changed |-> FALSE]

\* What a thread in the middle of something has at hand.
Consistent(r) ==
    /\ r.todo # {} \/ r.pc \in {"link", "replace", "move"} => r.keeper \in Member
    /\ r.pc \in {"link", "replace", "move", "record"} => r.path # None
    /\ r.pc \in {"record", "putback"} => r.entry # None
    /\ r.pc = "putback" => r.rows[r.entry].state # "absent"
    /\ \A e \in r.wanted : r.rows[e].state # "absent"

TypeOK ==
    /\ file \in [Paths -> Slots]
    /\ tmp \in [Paths -> Slots]
    /\ content \in [Inodes -> Contents]
    /\ qfile \in [Entries -> Slots]
    /\ index \in Rows
    /\ groups \subseteq Group
    /\ scan \in Scan
    /\ worker \in [Workers -> Worker]
    /\ \A w \in Workers : Consistent(worker[w])
    /\ calls \in 0..MaxCalls /\ changes \in 0..MaxChanges /\ restarts \in 0..MaxRestarts
    /\ strays \subseteq Entries

\* A library of files of one size, hardlinked in any way: copies of one content
\* and files of their own content.
Init ==
    /\ content \in {c \in [Inodes -> Contents] : \A i \in Inodes : c[i] \in {Same, i}}
    /\ file \in {f \in [Paths -> Slots] : \E p \in Paths : f[p] # None /\ content[f[p]] = Same}
    /\ tmp = [p \in Paths |-> None]
    /\ qfile = [e \in Entries |-> None]
    /\ index = [e \in Entries |-> NoRow]
    /\ groups = {}
    /\ scan = NoScan
    /\ worker = [w \in Workers |-> Resting]
    /\ calls = 0 /\ changes = 0 /\ restarts = 0 /\ strays = {}

-----------------------------------------------------------------------------
(* The scan: find_duplicate_groups in a thread, _supervise_scan *)

Called(kind) == kind \in Calls /\ calls < MaxCalls /\ calls' = calls + 1

\* One scan at a time.
ScanStarts ==
    /\ scan.pc = "idle" /\ Called("scan")
    /\ scan' = [NoScan EXCEPT !.pc = "index", !.todo = Paths]
    /\ UNCHANGED <<disk, groups, worker, changes, restarts, strays>>

\* scan_roots walks the tree, in the order of its directories, and notes the
\* inode of every path ...
First(S) == CHOOSE p \in S : TRUE

\* What is left to hash once p, the last path, is indexed.
Found(p) == {q \in Paths \ {p} : scan.ino[q] # None} \cup IF file[p] = None THEN {} ELSE {p}

ScanIndexes(p) ==
    /\ scan.pc = "index" /\ scan.todo # {} /\ p = First(scan.todo)
    /\ scan' = [scan EXCEPT !.ino[p] = file[p],
                            !.todo = IF scan.todo = {p} THEN Found(p) ELSE @ \ {p},
                            !.pc = IF scan.todo = {p} THEN "hash" ELSE "index"]
    /\ UNCHANGED <<disk, groups, worker, history>>

\* ... and each of them is hashed later, unless it has vanished.
ScanHashes(p) ==
    /\ scan.pc = "hash" /\ scan.todo # {} /\ p = First(scan.todo)
    /\ scan' = [scan EXCEPT !.digest[p] = IF file[p] = None THEN None ELSE content[file[p]],
                            !.todo = @ \ {p}]
    /\ UNCHANGED <<disk, groups, worker, history>>

MembersOf(d) ==
    {m \in Member : scan.digest[m.path] = d /\ scan.ino[m.path] = m.ino}

\* Groups have two members or more.
ScanEnds ==
    /\ scan.pc = "hash" /\ scan.todo = {}
    /\ groups' = {g \in {[digest |-> d, members |-> MembersOf(d)] : d \in Contents} :
                    Cardinality(g.members) >= 2}
    /\ scan' = NoScan
    /\ UNCHANGED <<disk, worker, history>>

\* Cancelled within the only size bucket: the result is empty.
ScanCancelled ==
    /\ scan.pc = "hash"
    /\ groups' = {}
    /\ scan' = NoScan
    /\ UNCHANGED <<disk, worker, history>>

\* An error of the walk or of the hash index: the last result stands.
ScanFails ==
    /\ scan.pc # "idle"
    /\ scan' = NoScan
    /\ UNCHANGED <<disk, groups, worker, history>>

-----------------------------------------------------------------------------
(* Reclaim: StorageService.apply, apply_reclaim, _apply_one *)

\* Refused while a scan runs and without a scan result.
ApplyStarts(w) ==
    /\ worker[w].pc = "idle" /\ Called("apply")
    /\ scan.pc = "idle" /\ groups # {}
    /\ worker' = [worker EXCEPT ![w] = [Resting EXCEPT !.pc = "apply", !.groups = groups]]
    /\ UNCHANGED <<disk, groups, scan, changes, restarts, strays>>

\* Mutant of KeeperIntact: the keeper is taken from the scan unseen.
KeeperTrusted(keeper) == TRUE

\* The keeper must still exist, with the inode the scan saw.
KeeperIntact(keeper) == file[keeper.path] = keeper.ino

\* Mutant of Removable: protected members are not skipped.
RemovableAnyway(path, keeper) == path # keeper.path

\* Protected members and the keeper are skipped.
Removable(path, keeper) == path \notin Protected /\ path # keeper.path

\* What is done about the members a request names, linking some of them.
Decisions(g, keeper, removed, linked) ==
    {[path |-> m.path, ino |-> m.ino,
      action |-> IF m.path \in linked THEN "link" ELSE "delete"]
        : m \in {m \in g.members : m.path \in removed /\ Removable(m.path, keeper)}}

\* One request of the call: a keeper and what to do with other members.
\* Requests to remove every member are rejected.
Request(w) ==
    /\ worker[w].pc = "apply" /\ worker[w].todo = {}
    /\ \E g \in worker[w].groups, keeper \in Member :
      \E removed \in SUBSET {m.path : m \in g.members} : \E linked \in SUBSET removed :
        /\ keeper \in g.members /\ KeeperIntact(keeper)
        /\ removed # {m.path : m \in g.members}
        /\ worker' = [worker EXCEPT ![w].keeper = keeper,
                                    ![w].todo = Decisions(g, keeper, removed, linked)]
    /\ UNCHANGED <<disk, groups, scan, history>>

\* Stat the next member: it must be the file that was scanned, and linking a
\* copy that already shares the keeper's inode frees nothing.
Stat(w) ==
    /\ worker[w].pc = "apply"
    /\ \E x \in worker[w].todo :
        LET skipped == \/ file[x.path] # x.ino
                       \/ x.action = "link" /\ x.ino = worker[w].keeper.ino
        IN  worker' = [worker EXCEPT
                ![w].todo = @ \ {x},
                ![w].path = IF skipped THEN None ELSE x.path,
                ![w].pc = IF skipped THEN "apply"
                          ELSE IF x.action = "link" THEN "link" ELSE "move"]
    /\ UNCHANGED <<disk, groups, scan, history>>

NextTarget(w) == worker' = [worker EXCEPT ![w].pc = "apply", ![w].path = None, ![w].entry = None]

\* Mutant of LinkMakes: the keeper is moved instead of linked.
LinkMakesMoving(w) ==
    LET from == worker[w].keeper.path
    IN  /\ worker[w].pc = "link"
        /\ file[from] # None
        /\ tmp' = [tmp EXCEPT ![worker[w].path] = file[from]]
        /\ file' = [file EXCEPT ![from] = None]
        /\ worker' = [worker EXCEPT ![w].pc = "replace"]
        /\ UNCHANGED <<content, qfile, index, groups, scan, history>>

\* A fresh link to whatever the keeper's path names by now ...
LinkMakes(w) ==
    /\ worker[w].pc = "link"
    /\ file[worker[w].keeper.path] # None
    /\ tmp' = [tmp EXCEPT ![worker[w].path] = file[worker[w].keeper.path]]
    /\ worker' = [worker EXCEPT ![w].pc = "replace"]
    /\ UNCHANGED <<file, content, qfile, index, groups, scan, history>>

\* ... replaces the copy.  (Renaming one link of an inode onto another is a no-op.)
LinkReplaces(w) ==
    LET p == worker[w].path
    IN  /\ worker[w].pc = "replace"
        /\ tmp[p] # None
        /\ file' = [file EXCEPT ![p] = tmp[p]]
        /\ tmp' = [tmp EXCEPT ![p] = IF file[p] = @ THEN @ ELSE None]
        /\ NextTarget(w)
        /\ UNCHANGED <<content, qfile, index, groups, scan, history>>

\* OSError: another volume, no keeper, no fresh link; the fresh link is removed.
LinkFails(w) ==
    /\ worker[w].pc \in {"link", "replace"}
    /\ tmp' = [tmp EXCEPT ![worker[w].path] = None]
    /\ NextTarget(w)
    /\ UNCHANGED <<file, content, qfile, index, groups, scan, history>>

\* An id is made of the time and the path, and never made twice.
Fresh(e) ==
    /\ qfile[e] = None /\ index[e] = NoRow
    /\ \A v \in Workers : worker[v].entry # e /\ worker[v].rows[e] = NoRow

\* Delete: the copy moves to the quarantine under a fresh entry id ...
Moves(w) ==
    LET p == worker[w].path
    IN  /\ worker[w].pc = "move"
        /\ file[p] # None
        /\ \E e \in {e \in Entries : Fresh(e)} :
            /\ qfile' = [qfile EXCEPT ![e] = file[p]]
            /\ worker' = [worker EXCEPT ![w].pc = "record", ![w].entry = e]
        /\ file' = [file EXCEPT ![p] = None]
        /\ UNCHANGED <<tmp, content, index, groups, scan, history>>

MoveFails(w) ==
    /\ worker[w].pc = "move"
    /\ NextTarget(w)
    /\ UNCHANGED <<disk, groups, scan, history>>

\* Mutant of Records: the row does not say where the copy was.
RecordsNowhere(w) ==
    /\ worker[w].pc = "record"
    /\ index' = [index EXCEPT ![worker[w].entry] =
                    [state |-> "quarantined", original |-> None]]
    /\ NextTarget(w)
    /\ UNCHANGED <<file, tmp, content, qfile, groups, scan, history>>

\* Mutant of Records: the row is forgotten.
RecordsNothing(w) ==
    /\ worker[w].pc = "record"
    /\ NextTarget(w)
    /\ UNCHANGED <<disk, groups, scan, history>>

\* ... and a row is appended to the index.
Records(w) ==
    /\ worker[w].pc = "record"
    /\ index' = [index EXCEPT ![worker[w].entry] =
                    [state |-> "quarantined", original |-> worker[w].path]]
    /\ NextTarget(w)
    /\ UNCHANGED <<file, tmp, content, qfile, groups, scan, history>>

\* A thread is about to append the row of e.
Appending(e) == \E w \in Workers : worker[w].pc = "record" /\ worker[w].entry = e

\* The copy counts as skipped although it has been moved.
RecordFails(w) ==
    /\ IndexFails
    /\ worker[w].pc = "record"
    /\ strays' = strays \cup {worker[w].entry}
    /\ NextTarget(w)
    /\ UNCHANGED <<disk, groups, scan, calls, changes, restarts>>

\* The scan result is dropped once paths may have moved.
ApplyEnds(w) ==
    /\ worker[w].pc = "apply" /\ worker[w].todo = {}
    /\ worker' = [worker EXCEPT ![w] = Resting]
    /\ groups' = {}
    /\ UNCHANGED <<disk, scan, history>>

-----------------------------------------------------------------------------
(* Quarantine: restore and purge *)

\* Read the whole index and pick the quarantined entries that were asked for.
Reads(w, kind) ==
    /\ worker[w].pc = "idle" /\ Called(kind)
    /\ \E ids \in SUBSET {e \in Entries : index[e].state = "quarantined"} :
        /\ ids # {}
        /\ worker' = [worker EXCEPT ![w] = [Resting EXCEPT !.pc = kind, !.rows = index, !.wanted = ids]]
    /\ UNCHANGED <<disk, groups, scan, changes, restarts, strays>>

RestoreStarts(w) == Reads(w, "restore")
PurgeStarts(w) == Reads(w, "purge")

\* The quarantined file must exist and its original path must be free ...
Restorable(w, e) == qfile[e] # None /\ file[worker[w].rows[e].original] = None

RestoreChecks(w) ==
    /\ worker[w].pc = "restore"
    /\ \E e \in worker[w].wanted :
        worker' = [worker EXCEPT
            ![w].wanted = @ \ {e},
            ![w].entry = IF Restorable(w, e) THEN e ELSE None,
            ![w].pc = IF Restorable(w, e) THEN "putback" ELSE "restore"]
    /\ UNCHANGED <<disk, groups, scan, history>>

\* ... and it is moved back over whatever is there by now.
PutsBack(w) ==
    LET e == worker[w].entry
    IN  /\ worker[w].pc = "putback"
        /\ qfile[e] # None
        /\ file' = [file EXCEPT ![worker[w].rows[e].original] = qfile[e]]
        /\ qfile' = [qfile EXCEPT ![e] = None]
        /\ worker' = [worker EXCEPT ![w].pc = "restore",
                                    ![w].entry = None,
                                    ![w].rows = [@ EXCEPT ![e].state = "restored"],
                                    ![w].changed = TRUE]
        /\ UNCHANGED <<tmp, content, index, groups, scan, history>>

PutBackFails(w) ==
    /\ worker[w].pc = "putback"
    /\ worker' = [worker EXCEPT ![w].pc = "restore", ![w].entry = None]
    /\ UNCHANGED <<disk, groups, scan, history>>

\* Purging an entry whose file is gone already counts as purged.
Purges(w) ==
    /\ worker[w].pc = "purge"
    /\ \E e \in worker[w].wanted :
        /\ qfile' = [qfile EXCEPT ![e] = None]
        /\ worker' = [worker EXCEPT ![w].wanted = @ \ {e},
                                    ![w].rows = [@ EXCEPT ![e].state = "purged"],
                                    ![w].changed = TRUE]
    /\ UNCHANGED <<file, tmp, content, index, groups, scan, history>>

PurgeFails(w) ==
    /\ worker[w].pc = "purge"
    /\ \E e \in worker[w].wanted : worker' = [worker EXCEPT ![w].wanted = @ \ {e}]
    /\ UNCHANGED <<disk, groups, scan, history>>

\* An index may be written that knows less than the one it replaces.
Rewriting(r) == r.pc \in {"restore", "putback", "purge"}
Spent(row) == row.state \in {"restored", "purged"}

\* The entries a thread has put back or purged but not yet written about ...
Unwritten(w) ==
    {e \in Entries : /\ Rewriting(worker[w])
                     /\ index[e].state = "quarantined" /\ Spent(worker[w].rows[e])}

\* ... and those whose rows others have changed since the thread read them.
Outdated(w) == {e \in Entries : worker[w].rows[e] # index[e]} \ Unwritten(w)

\* Mutant of Writes: the new states are not written.
WritesNothing(w) ==
    /\ worker[w].pc \in {"restore", "purge"} /\ worker[w].wanted = {}
    /\ groups' = IF worker[w].pc = "restore" THEN {} ELSE groups
    /\ worker' = [worker EXCEPT ![w] = Resting]
    /\ UNCHANGED <<disk, scan, history>>

\* The rows that were read, with their new states, replace the index.
Writes(w) ==
    /\ worker[w].pc \in {"restore", "purge"} /\ worker[w].wanted = {}
    /\ index' = IF worker[w].changed THEN worker[w].rows ELSE index
    /\ strays' = IF worker[w].changed THEN strays \cup Outdated(w) ELSE strays
    /\ groups' = IF worker[w].pc = "restore" THEN {} ELSE groups
    /\ worker' = [worker EXCEPT ![w] = Resting]
    /\ UNCHANGED <<file, tmp, content, qfile, scan, calls, changes, restarts>>

\* The call raises; what it did to the files stays.
WriteFails(w) ==
    /\ IndexFails
    /\ worker[w].pc \in {"restore", "purge"} /\ worker[w].wanted = {} /\ worker[w].changed
    /\ strays' = strays \cup Unwritten(w)
    /\ worker' = [worker EXCEPT ![w] = Resting]
    /\ UNCHANGED <<disk, groups, scan, calls, changes, restarts>>

-----------------------------------------------------------------------------
(* Other programs, and crashes of the daemon *)

Changed(kind) == kind \in Changes /\ changes < MaxChanges /\ changes' = changes + 1

\* A file is written in place and keeps its inode.
Rewritten(i) ==
    /\ Changed("rewrite")
    /\ content' = [content EXCEPT ![i] = i]
    /\ UNCHANGED <<file, tmp, qfile, index, groups, scan, worker, calls, restarts, strays>>

\* A path gets a new file, or the file of another path.
Replaced(p, i) ==
    /\ Changed("replace")
    /\ file' = [file EXCEPT ![p] = i]
    /\ UNCHANGED <<tmp, content, qfile, index, groups, scan, worker, calls, restarts, strays>>

Removed(p) ==
    /\ Changed("remove")
    /\ file' = [file EXCEPT ![p] = None]
    /\ UNCHANGED <<tmp, content, qfile, index, groups, scan, worker, calls, restarts, strays>>

\* The daemon dies; the disk stays as it is.
Restart ==
    /\ restarts < MaxRestarts /\ restarts' = restarts + 1
    /\ groups' = {} /\ scan' = NoScan
    /\ worker' = [w \in Workers |-> Resting]
    /\ strays' = strays \cup {e \in Entries : Appending(e)} \cup UNION {Unwritten(w) : w \in Workers}
    /\ UNCHANGED <<disk, calls, changes>>

-----------------------------------------------------------------------------

ScanSteps ==
    \/ ScanStarts \/ ScanEnds \/ ScanCancelled \/ ScanFails
    \/ \E p \in Paths : ScanIndexes(p) \/ ScanHashes(p)

Apply(w) ==
    \/ ApplyStarts(w) \/ Request(w) \/ Stat(w)
    \/ LinkMakes(w) \/ LinkReplaces(w) \/ LinkFails(w)
    \/ Moves(w) \/ MoveFails(w) \/ Records(w) \/ RecordFails(w)
    \/ ApplyEnds(w)

Quarantine(w) ==
    \/ RestoreStarts(w) \/ RestoreChecks(w) \/ PutsBack(w) \/ PutBackFails(w)
    \/ PurgeStarts(w) \/ Purges(w) \/ PurgeFails(w)
    \/ Writes(w) \/ WriteFails(w)

Others ==
    \/ \E i \in Inodes : Rewritten(i)
    \/ \E p \in Paths, i \in Inodes : Replaced(p, i)
    \/ \E p \in Paths : Removed(p)

Next ==
    \/ ScanSteps
    \/ \E w \in Workers : Apply(w) \/ Quarantine(w)
    \/ Others
    \/ Restart

Spec == Init /\ [][Next]_vars

-----------------------------------------------------------------------------
(* Properties *)

Holds(i) == i # None /\ content[i] = Same
Live == {p \in Paths : Holds(file[p])}
Held == {e \in Entries : Holds(qfile[e])}

\* The promise of docs/ARCHITECTURE.md: at least one copy of a duplicate stays,
\* deletions go to the quarantine, and only a purge removes a copy.
Promise == INSTANCE ReclaimPromise WITH live <- Live, held <- Held, alone <- (changes = 0)
KeepsPromise == Promise!Spec

\* The same promise as an invariant: no request, or requests at once, can take
\* the last copy away from the library.
OneCopyStays == changes = 0 => Live # {}

\* A file that reclaim took away can be restored through its row, or a thread
\* is about to append it, however requests overlap, fail or crash: unless its own
\* append failed or met a crash, or a restore or purge wrote back rows that it had
\* read before the row was there (QuarantineStore.store, restore and purge).
Undoable ==
    \A e \in Entries \ strays :
        qfile[e] # None => index[e].state = "quarantined" \/ Appending(e)

\* A row that is offered for restore has its file, or the thread that took it is
\* about to say so: unless that write failed or met a crash, or another restore
\* or purge wrote back the row as it had read it.
Honest ==
    \A e \in Entries \ strays :
        index[e].state = "quarantined" => qfile[e] # None \/ \E w \in Workers : e \in Unwritten(w)

\* No step of qbx touches a protected path.
ProtectedUntouched ==
    [][changes' = changes => \A p \in Protected : file'[p] = file[p]]_vars

\* Every content on the disk stays there, at a path or in the quarantine, until
\* somebody purges it or another program changes it.
OnDisk(c) ==
    \/ \E p \in Paths : file[p] # None /\ content[file[p]] = c
    \/ \E e \in Entries : qfile[e] # None /\ content[qfile[e]] = c
NothingDestroyed ==
    [][\/ changes' # changes
       \/ \E w \in Workers : Purges(w)
       \/ \A c \in Contents : OnDisk(c) => OnDisk(c)']_vars
=============================================================================
