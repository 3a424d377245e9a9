--------------------------- MODULE ReclaimProofs ---------------------------
(***************************************************************************)
(* Proofs about Reclaim, for every set of paths, files and requests.       *)
(***************************************************************************)
EXTENDS Reclaim, TLAPS

(***************************************************************************)
(* Type correctness.                                                       *)
(***************************************************************************)

LEMMA RestingType == Resting \in Worker /\ Consistent(Resting)
<1>1. [e \in Entries |-> NoRow] \in Rows
  BY DEF Rows, Row, NoRow
<1>2. QED  BY <1>1 DEF Resting, Worker, Consistent

LEMMA NoScanType == NoScan \in Scan
BY DEF NoScan, Scan, Slots

\* A step of one thread that leaves its record in order keeps all of them so.
LEMMA OneThread ==
    ASSUME TypeOK, NEW w \in Workers,
           NEW new, new \in Worker, Consistent(new),
           worker' = [worker EXCEPT ![w] = new]
    PROVE  /\ worker' \in [Workers -> Worker]
           /\ \A v \in Workers : Consistent(worker'[v])
BY DEF TypeOK

LEMMA NextTargetType ==
    ASSUME TypeOK, NEW w \in Workers, NextTarget(w)
    PROVE  /\ worker' \in [Workers -> Worker]
           /\ \A v \in Workers : Consistent(worker'[v])
<1> DEFINE new == [worker[w] EXCEPT !.pc = "apply", !.path = None, !.entry = None]
<1>1. worker[w] \in Worker /\ Consistent(worker[w])
  BY DEF TypeOK
<1>2. new \in Worker
  BY <1>1 DEF Worker
<1>3. Consistent(new)
  BY <1>1 DEF Worker, Consistent
<1>4. worker' = [worker EXCEPT ![w] = new]
  BY DEF NextTarget, TypeOK
<1> HIDE DEF new
<1>5. QED  BY <1>2, <1>3, <1>4, OneThread

LEMMA TypeScan ==
    ASSUME TypeOK, ScanSteps
    PROVE  TypeOK'
<1> USE ReclaimAssumption DEF disk, history, TypeOK
<1>1. CASE ScanStarts
  <2>1. scan' \in Scan
    BY <1>1, NoScanType DEF ScanStarts, Scan
  <2>2. calls' \in 0..MaxCalls
    BY <1>1 DEF ScanStarts, Called
  <2>3. QED  BY <1>1, <2>1, <2>2 DEF ScanStarts
<1>2. ASSUME NEW p \in Paths, ScanIndexes(p)
      PROVE  TypeOK'
  <2>1. scan' \in Scan
    BY <1>2 DEF ScanIndexes, Scan, Found
  <2>2. QED  BY <1>2, <2>1 DEF ScanIndexes
<1>3. ASSUME NEW p \in Paths, ScanHashes(p)
      PROVE  TypeOK'
  <2>1. (IF file[p] = None THEN None ELSE content[file[p]]) \in Contents \cup {None}
    BY DEF Slots
  <2>2. scan' \in Scan
    BY <1>3, <2>1 DEF ScanHashes, Scan
  <2>3. QED  BY <1>3, <2>2 DEF ScanHashes
<1>4. CASE ScanEnds
  <2>1. groups' \subseteq Group
    BY <1>4 DEF ScanEnds, Group, MembersOf
  <2>2. QED  BY <1>4, <2>1, NoScanType DEF ScanEnds
<1>5. CASE ScanCancelled
  BY <1>5, NoScanType DEF ScanCancelled
<1>6. CASE ScanFails
  BY <1>6, NoScanType DEF ScanFails
<1>7. QED  BY <1>1, <1>2, <1>3, <1>4, <1>5, <1>6 DEF ScanSteps

\* Choosing a request yields a keeper that is there and decisions about other
\* members of its group.
LEMMA Requested ==
    ASSUME TypeOK, NEW w \in Workers, Request(w)
    PROVE  \E keeper \in Member, todo \in SUBSET Target :
              /\ worker' = [worker EXCEPT ![w].keeper = keeper, ![w].todo = todo]
              /\ KeeperIntact(keeper)
              /\ \A x \in todo : Removable(x.path, keeper)
              /\ \E g \in worker[w].groups :
                    /\ keeper \in g.members
                    /\ \A x \in todo : \E m \in g.members : m.path = x.path
<1>1. PICK g \in worker[w].groups, keeper \in Member :
        \E removed \in SUBSET {m.path : m \in g.members} : \E linked \in SUBSET removed :
            /\ keeper \in g.members /\ KeeperIntact(keeper)
            /\ removed # {m.path : m \in g.members}
            /\ worker' = [worker EXCEPT ![w].keeper = keeper,
                                        ![w].todo = Decisions(g, keeper, removed, linked)]
  BY Zenon DEF Request
<1>2. PICK removed \in SUBSET {m.path : m \in g.members} :
        \E linked \in SUBSET removed :
            /\ keeper \in g.members /\ KeeperIntact(keeper)
            /\ worker' = [worker EXCEPT ![w].keeper = keeper,
                                        ![w].todo = Decisions(g, keeper, removed, linked)]
  BY <1>1, Zenon
<1>3. PICK linked \in SUBSET removed :
        /\ keeper \in g.members /\ KeeperIntact(keeper)
        /\ worker' = [worker EXCEPT ![w].keeper = keeper,
                                    ![w].todo = Decisions(g, keeper, removed, linked)]
  BY <1>2, Zenon
<1>4. g.members \subseteq Member
  BY DEF TypeOK, Worker, Group
<1> DEFINE todo == Decisions(g, keeper, removed, linked)
<1>5. todo \in SUBSET Target
  BY <1>4 DEF Member, Target, Decisions
<1>6. \A x \in todo : Removable(x.path, keeper) /\ \E m \in g.members : m.path = x.path
  BY DEF Decisions
<1>7. worker' = [worker EXCEPT ![w].keeper = keeper, ![w].todo = todo]
  BY <1>3
<1> HIDE DEF todo
<1>8. WITNESS keeper \in Member, todo \in SUBSET Target
<1>9. QED  BY <1>3, <1>6, <1>7

LEMMA TypeApply ==
    ASSUME TypeOK, NEW w \in Workers, Apply(w)
    PROVE  TypeOK'
<1> USE ReclaimAssumption DEF disk, history
<1> DEFINE Sets(new) == worker' = [worker EXCEPT ![w] = new]
<1>0. worker[w] \in Worker /\ Consistent(worker[w])
  BY DEF TypeOK
<1>1. CASE ApplyStarts(w)
  <2> DEFINE new == [Resting EXCEPT !.pc = "apply", !.groups = groups]
  <2>1. new \in Worker
    BY RestingType DEF Worker, TypeOK
  <2>2. Consistent(new)
    BY RestingType DEF Worker, Resting, Consistent
  <2>3. Sets(new)
    BY <1>1 DEF ApplyStarts
  <2>4. calls' \in 0..MaxCalls
    BY <1>1 DEF ApplyStarts, Called, TypeOK
  <2> HIDE DEF new
  <2>5. QED  BY <1>1, <2>1, <2>2, <2>3, <2>4, OneThread DEF ApplyStarts, TypeOK
<1>2. CASE Request(w)
  <2>1. PICK keeper \in Member, todo \in SUBSET Target :
          worker' = [worker EXCEPT ![w].keeper = keeper, ![w].todo = todo]
    BY <1>2, Requested
  <2> DEFINE new == [worker[w] EXCEPT !.keeper = keeper, !.todo = todo]
  <2>2. new \in Worker
    BY <1>0 DEF Worker
  <2>3. Consistent(new)
    BY <1>0 DEF Worker, Consistent
  <2>4. Sets(new)
    BY <2>1 DEF TypeOK
  <2> HIDE DEF new
  <2>5. QED  BY <1>2, <2>2, <2>3, <2>4, OneThread DEF Request, TypeOK
<1>3. CASE Stat(w)
  <2>0. PICK x \in worker[w].todo :
          LET skipped == \/ file[x.path] # x.ino
                         \/ x.action = "link" /\ x.ino = worker[w].keeper.ino
          IN  worker' = [worker EXCEPT
                ![w].todo = @ \ {x},
                ![w].path = IF skipped THEN None ELSE x.path,
                ![w].pc = IF skipped THEN "apply"
                          ELSE IF x.action = "link" THEN "link" ELSE "move"]
    BY <1>3 DEF Stat
  <2>1. PICK path \in {None, x.path}, pc \in {"apply", "link", "move"} :
          /\ worker' = [worker EXCEPT ![w].todo = @ \ {x}, ![w].path = path, ![w].pc = pc]
          /\ pc # "apply" => path = x.path
    BY <2>0
  <2>2. x \in Target
    BY <1>0 DEF Worker
  <2> DEFINE new == [worker[w] EXCEPT !.todo = @ \ {x}, !.path = path, !.pc = pc]
  <2>3. new \in Worker
    BY <1>0, <2>2 DEF Worker, Target
  <2>4. Consistent(new)
    BY <1>0, <2>1, <2>2 DEF Worker, Consistent, Target
  <2>5. Sets(new)
    BY <2>1 DEF TypeOK
  <2> HIDE DEF new
  <2>6. QED  BY <1>3, <2>3, <2>4, <2>5, OneThread DEF Stat, TypeOK
<1>4. CASE LinkMakes(w)
  <2> DEFINE new == [worker[w] EXCEPT !.pc = "replace"]
  <2>1. new \in Worker
    BY <1>0 DEF Worker
  <2>2. Consistent(new)
    BY <1>0, <1>4 DEF Worker, Consistent, LinkMakes
  <2>3. Sets(new)
    BY <1>4 DEF LinkMakes
  <2>4. worker[w].keeper.path \in Paths
    BY <1>0, <1>4 DEF LinkMakes, Consistent, Member
  <2>5. tmp' \in [Paths -> Slots]
    BY <1>4, <2>4 DEF LinkMakes, TypeOK
  <2> HIDE DEF new
  <2>6. QED  BY <1>4, <2>1, <2>2, <2>3, <2>5, OneThread DEF LinkMakes, TypeOK
<1>5. CASE LinkReplaces(w)
  BY <1>5, NextTargetType DEF LinkReplaces, TypeOK, Slots
<1>6. CASE LinkFails(w)
  BY <1>6, NextTargetType DEF LinkFails, TypeOK, Slots
<1>7. CASE Moves(w)
  <2>1. PICK e \in Entries :
          /\ qfile' = [qfile EXCEPT ![e] = file[worker[w].path]]
          /\ worker' = [worker EXCEPT ![w].pc = "record", ![w].entry = e]
    BY <1>7 DEF Moves
  <2> DEFINE new == [worker[w] EXCEPT !.pc = "record", !.entry = e]
  <2>2. new \in Worker
    BY <1>0 DEF Worker
  <2>3. Consistent(new)
    BY <1>0, <1>7 DEF Worker, Consistent, Moves
  <2>4. Sets(new)
    BY <2>1 DEF TypeOK
  <2>5. worker[w].path \in Paths
    BY <1>0, <1>7 DEF Moves, Consistent, Worker
  <2>6. file' \in [Paths -> Slots] /\ qfile' \in [Entries -> Slots]
    BY <1>7, <2>1, <2>5 DEF Moves, TypeOK, Slots
  <2> HIDE DEF new
  <2>7. QED  BY <1>7, <2>2, <2>3, <2>4, <2>6, OneThread DEF Moves, TypeOK
<1>8. CASE MoveFails(w) \/ RecordFails(w)
  <2>1. strays' \subseteq Entries
    BY <1>0, <1>8 DEF MoveFails, RecordFails, TypeOK, Consistent, Worker
  <2>2. QED  BY <1>8, <2>1, NextTargetType DEF MoveFails, RecordFails, TypeOK
<1>9. CASE Records(w)
  <2>1. worker[w].path \in Paths /\ worker[w].entry \in Entries
    BY <1>0, <1>9 DEF Records, Consistent, Worker
  <2>2. index' \in Rows
    BY <1>9, <2>1 DEF Records, TypeOK, Rows, Row
  <2>3. QED  BY <1>9, <2>2, NextTargetType DEF Records, TypeOK
<1>10. CASE ApplyEnds(w)
  BY <1>10, RestingType, OneThread DEF ApplyEnds, TypeOK
<1>11. QED
  BY <1>1, <1>2, <1>3, <1>4, <1>5, <1>6, <1>7, <1>8, <1>9, <1>10 DEF Apply

\* The threads that restore or purge.
LEMMA TypeReads ==
    ASSUME TypeOK, NEW w \in Workers, NEW kind \in {"restore", "purge"}, Reads(w, kind)
    PROVE  TypeOK'
<1> USE ReclaimAssumption DEF disk, history
<1>1. PICK ids \in SUBSET {e \in Entries : index[e].state = "quarantined"} :
        worker' = [worker EXCEPT ![w] =
                    [Resting EXCEPT !.pc = kind, !.rows = index, !.wanted = ids]]
  BY DEF Reads
<1> DEFINE new == [Resting EXCEPT !.pc = kind, !.rows = index, !.wanted = ids]
<1>2. new \in Worker
  BY RestingType DEF Worker, TypeOK
<1>3. Consistent(new)
  BY DEF Resting, Consistent
<1>4. worker' = [worker EXCEPT ![w] = new]
  BY <1>1
<1>5. calls' \in 0..MaxCalls
  BY DEF Reads, Called, TypeOK
<1> HIDE DEF new
<1>6. QED  BY <1>2, <1>3, <1>4, <1>5, OneThread DEF Reads, TypeOK

LEMMA TypeQuarantine ==
    ASSUME TypeOK, NEW w \in Workers, Quarantine(w)
    PROVE  TypeOK'
<1> USE ReclaimAssumption DEF disk, history
<1> DEFINE Sets(new) == worker' = [worker EXCEPT ![w] = new]
<1>0. worker[w] \in Worker /\ Consistent(worker[w])
  BY DEF TypeOK
<1>1. CASE RestoreStarts(w)
  BY <1>1, TypeReads DEF RestoreStarts
<1>2. CASE PurgeStarts(w)
  BY <1>2, TypeReads DEF PurgeStarts
<1>3. CASE RestoreChecks(w)
  <2>1. PICK e \in worker[w].wanted :
          worker' = [worker EXCEPT
            ![w].wanted = @ \ {e},
            ![w].entry = IF Restorable(w, e) THEN e ELSE None,
            ![w].pc = IF Restorable(w, e) THEN "putback" ELSE "restore"]
    BY <1>3 DEF RestoreChecks
  <2>2. PICK entry \in {None, e}, pc \in {"putback", "restore"} :
          /\ worker' = [worker EXCEPT ![w].wanted = @ \ {e}, ![w].entry = entry, ![w].pc = pc]
          /\ pc = "putback" => entry = e
    BY <2>1
  <2> DEFINE new == [worker[w] EXCEPT !.wanted = @ \ {e}, !.entry = entry, !.pc = pc]
  <2>3. e \in Entries
    BY <1>0 DEF Worker
  <2>4. new \in Worker
    BY <1>0, <2>3 DEF Worker
  <2>5. Consistent(new)
    BY <1>0, <1>3, <2>2, <2>3 DEF Worker, Consistent, RestoreChecks
  <2>6. Sets(new)
    BY <2>2 DEF TypeOK
  <2> HIDE DEF new
  <2>7. QED  BY <1>3, <2>4, <2>5, <2>6, OneThread DEF RestoreChecks, TypeOK
<1>4. CASE PutsBack(w)
  <2> DEFINE e == worker[w].entry
             row == [worker[w].rows[e] EXCEPT !.state = "restored"]
             rows == [worker[w].rows EXCEPT ![e] = row]
             new == [worker[w] EXCEPT !.pc = "restore", !.entry = None,
                                      !.rows = rows, !.changed = TRUE]
  <2>1. e \in Entries
    BY <1>0, <1>4 DEF PutsBack, Consistent, Worker
  <2>2. /\ worker[w].rows \in Rows
        /\ worker[w].rows[e].state # "absent"
        /\ worker[w].rows[e].original \in Paths
    BY <1>0, <1>4, <2>1 DEF PutsBack, Consistent, Worker, Rows, Row
  <2>3. rows \in Rows /\ \A f \in Entries : worker[w].rows[f].state # "absent"
                                              => rows[f].state # "absent"
    BY <2>1, <2>2 DEF Rows, Row
  <2>4. worker' = [worker EXCEPT ![w].pc = "restore", ![w].entry = None,
                                 ![w].rows = [@ EXCEPT ![e].state = "restored"], ![w].changed = TRUE]
    BY <1>4 DEF PutsBack
  <2>5. Sets(new)
    BY <2>4 DEF TypeOK
  <2>6. file' \in [Paths -> Slots] /\ qfile' \in [Entries -> Slots]
    BY <1>4, <2>1, <2>2 DEF PutsBack, TypeOK, Slots
  <2> HIDE DEF rows
  <2>7. new \in Worker
    BY <1>0, <2>3 DEF Worker
  <2>8. Consistent(new)
    BY <1>0, <1>4, <2>3 DEF Worker, Consistent, PutsBack
  <2> HIDE DEF new
  <2>9. QED  BY <1>4, <2>5, <2>6, <2>7, <2>8, OneThread DEF PutsBack, TypeOK
<1>5. CASE PutBackFails(w)
  <2> DEFINE new == [worker[w] EXCEPT !.pc = "restore", !.entry = None]
  <2>1. new \in Worker
    BY <1>0 DEF Worker
  <2>2. Consistent(new)
    BY <1>0, <1>5 DEF Worker, Consistent, PutBackFails
  <2>3. Sets(new)
    BY <1>5 DEF PutBackFails
  <2> HIDE DEF new
  <2>4. QED  BY <1>5, <2>1, <2>2, <2>3, OneThread DEF PutBackFails, TypeOK
<1>6. CASE Purges(w)
  <2>1. PICK e \in worker[w].wanted :
          /\ qfile' = [qfile EXCEPT ![e] = None]
          /\ worker' = [worker EXCEPT ![w].wanted = @ \ {e},
                                      ![w].rows = [@ EXCEPT ![e].state = "purged"],
                                      ![w].changed = TRUE]
    BY <1>6 DEF Purges
  <2> DEFINE row == [worker[w].rows[e] EXCEPT !.state = "purged"]
             rows == [worker[w].rows EXCEPT ![e] = row]
             new == [worker[w] EXCEPT !.wanted = @ \ {e}, !.rows = rows, !.changed = TRUE]
  <2>2. e \in Entries
    BY <1>0 DEF Worker
  <2>3. worker[w].rows \in Rows /\ worker[w].rows[e].state # "absent"
    BY <1>0 DEF Worker, Consistent
  <2>4. rows \in Rows /\ \A f \in Entries : worker[w].rows[f].state # "absent"
                                              => rows[f].state # "absent"
    BY <2>2, <2>3 DEF Rows, Row
  <2>5. Sets(new)
    BY <2>1 DEF TypeOK
  <2>6. qfile' \in [Entries -> Slots]
    BY <2>1, <2>2 DEF TypeOK, Slots
  <2> HIDE DEF rows
  <2>7. new \in Worker
    BY <1>0, <2>4 DEF Worker
  <2>8. Consistent(new)
    BY <1>0, <1>6, <2>4 DEF Worker, Consistent, Purges
  <2> HIDE DEF new
  <2>9. QED  BY <1>6, <2>5, <2>6, <2>7, <2>8, OneThread DEF Purges, TypeOK
<1>7. CASE PurgeFails(w)
  <2>1. PICK e \in worker[w].wanted : worker' = [worker EXCEPT ![w].wanted = @ \ {e}]
    BY <1>7 DEF PurgeFails
  <2> DEFINE new == [worker[w] EXCEPT !.wanted = @ \ {e}]
  <2>2. new \in Worker
    BY <1>0 DEF Worker
  <2>3. Consistent(new)
    BY <1>0, <1>7 DEF Worker, Consistent, PurgeFails
  <2>4. Sets(new)
    BY <2>1 DEF TypeOK
  <2> HIDE DEF new
  <2>5. QED  BY <1>7, <2>2, <2>3, <2>4, OneThread DEF PurgeFails, TypeOK
<1>8. CASE Writes(w)
  <2>1. worker[w].rows \in Rows /\ index \in Rows
    BY <1>0 DEF TypeOK, Worker
  <2>2. index' \in Rows
    BY <1>8, <2>1 DEF Writes
  <2>3. groups' \subseteq Group
    BY <1>8 DEF Writes, TypeOK
  <2>4. Sets(Resting)
    BY <1>8 DEF Writes
  <2>5. strays' \subseteq Entries
    BY <1>8 DEF Writes, Outdated, TypeOK
  <2>6. QED  BY <1>8, <2>2, <2>3, <2>4, <2>5, RestingType, OneThread DEF Writes, TypeOK
<1>9. CASE WriteFails(w)
  <2>1. strays' \subseteq Entries
    BY <1>9 DEF WriteFails, Unwritten, TypeOK
  <2>2. QED  BY <1>9, <2>1, RestingType, OneThread DEF WriteFails, TypeOK
<1>10. QED
  BY <1>1, <1>2, <1>3, <1>4, <1>5, <1>6, <1>7, <1>8, <1>9 DEF Quarantine

LEMMA TypeOthers ==
    ASSUME TypeOK, Others \/ Restart
    PROVE  TypeOK'
<1> USE ReclaimAssumption DEF TypeOK
<1>1. ASSUME NEW i \in Inodes, Rewritten(i)
      PROVE  TypeOK'
  BY <1>1 DEF Rewritten, Changed, Contents
<1>2. ASSUME NEW p \in Paths, NEW i \in Inodes, Replaced(p, i)
      PROVE  TypeOK'
  BY <1>2 DEF Replaced, Changed, Slots
<1>3. ASSUME NEW p \in Paths, Removed(p)
      PROVE  TypeOK'
  BY <1>3 DEF Removed, Changed, Slots
<1>4. CASE Restart
  <2>1. strays' \subseteq Entries
    BY <1>4 DEF Restart, Unwritten
  <2>2. QED  BY <1>4, <2>1, RestingType, NoScanType DEF Restart, disk
<1>5. QED  BY <1>1, <1>2, <1>3, <1>4 DEF Others

\* Every state of the storage service is well typed: a quarantine row always
\* says where its file was (_write, restore and purge keep row["original_path"]),
\* a copy about to be linked has a keeper, and a thread that moves or records a
\* file knows which one.
THEOREM ReclaimTypeCorrect == Spec => []TypeOK
<1>1. Init => TypeOK
  <2>1. [e \in Entries |-> NoRow] \in Rows
    BY DEF Rows, Row, NoRow
  <2>2. QED
    BY <2>1, RestingType, NoScanType, ReclaimAssumption DEF Init, TypeOK, Slots, Contents
<1>2. TypeOK /\ [Next]_vars => TypeOK'
  <2> SUFFICES ASSUME TypeOK, [Next]_vars PROVE TypeOK'
    OBVIOUS
  <2>1. CASE Next
    BY <2>1, TypeScan, TypeApply, TypeQuarantine, TypeOthers DEF Next
  <2>2. CASE UNCHANGED vars
    BY <2>2 DEF TypeOK, vars
  <2>3. QED  BY <2>1, <2>2
<1>3. QED  BY <1>1, <1>2, PTL DEF Spec

(***************************************************************************)
(* Protected paths.  Whether a path is protected is asked once, when a     *)
(* request is judged; everything later works from what was noted then: a   *)
(* decision, the path of the copy at hand, a row of the index, a row read  *)
(* by a restore.  Spared says that none of them ever names one.            *)
(***************************************************************************)

SparedBy(r) ==
    /\ r.path \notin Protected
    /\ \A x \in r.todo : x.path \notin Protected
    /\ \A e \in Entries : r.rows[e].original \notin Protected

Spared ==
    /\ \A e \in Entries : index[e].original \notin Protected
    /\ \A w \in Workers : SparedBy(worker[w])

LEMMA RestingSpared == SparedBy(Resting)
BY ReclaimAssumption DEF SparedBy, Resting, NoRow

\* The steps of a thread either leave its record spared or rest it.
LEMMA OneThreadSpared ==
    ASSUME TypeOK, Spared, NEW w \in Workers, NEW new, SparedBy(new),
           worker' = [worker EXCEPT ![w] = new]
    PROVE  \A v \in Workers : SparedBy(worker'[v])
BY DEF TypeOK, Spared

LEMMA NextTargetSpared ==
    ASSUME TypeOK, Spared, NEW w \in Workers, NextTarget(w)
    PROVE  \A v \in Workers : SparedBy(worker'[v])
<1> DEFINE new == [worker[w] EXCEPT !.pc = "apply", !.path = None, !.entry = None]
<1>1. SparedBy(new)
  BY ReclaimAssumption DEF Spared, SparedBy, TypeOK, Worker
<1>2. worker' = [worker EXCEPT ![w] = new]
  BY DEF NextTarget, TypeOK
<1> HIDE DEF new
<1>3. QED  BY <1>1, <1>2, OneThreadSpared

LEMMA ApplySpares ==
    ASSUME TypeOK, Spared, NEW w \in Workers, Apply(w)
    PROVE  Spared'
<1> USE ReclaimAssumption DEF disk
<1>0. worker[w] \in Worker /\ Consistent(worker[w]) /\ SparedBy(worker[w])
  BY DEF TypeOK, Spared
<1> DEFINE Sets(new) == worker' = [worker EXCEPT ![w] = new]
<1>1. CASE ApplyStarts(w)
  <2> DEFINE new == [Resting EXCEPT !.pc = "apply", !.groups = groups]
  <2>1. SparedBy(new)
    BY RestingSpared DEF SparedBy, Resting
  <2>2. Sets(new)
    BY <1>1 DEF ApplyStarts
  <2> HIDE DEF new
  <2>3. QED  BY <1>1, <2>1, <2>2, OneThreadSpared DEF ApplyStarts, Spared
<1>2. CASE Request(w)
  <2>1. PICK keeper \in Member, todo \in SUBSET Target :
          /\ worker' = [worker EXCEPT ![w].keeper = keeper, ![w].todo = todo]
          /\ KeeperIntact(keeper)
          /\ \A x \in todo : Removable(x.path, keeper)
          /\ \E g \in worker[w].groups :
                /\ keeper \in g.members
                /\ \A x \in todo : \E m \in g.members : m.path = x.path
    BY <1>2, Requested
  <2> DEFINE new == [worker[w] EXCEPT !.keeper = keeper, !.todo = todo]
  <2>2. SparedBy(new)
    BY <1>0, <2>1 DEF SparedBy, Removable, Worker
  <2>3. Sets(new)
    BY <2>1 DEF TypeOK
  <2> HIDE DEF new
  <2>4. QED  BY <1>2, <2>2, <2>3, OneThreadSpared DEF Request, Spared
<1>3. CASE Stat(w)
  <2>1. PICK x \in worker[w].todo : \E path \in {None, x.path}, pc \in {"apply", "link", "move"} :
          worker' = [worker EXCEPT ![w].todo = @ \ {x}, ![w].path = path, ![w].pc = pc]
    BY <1>3 DEF Stat
  <2>2. PICK path \in {None, x.path}, pc \in {"apply", "link", "move"} :
          worker' = [worker EXCEPT ![w].todo = @ \ {x}, ![w].path = path, ![w].pc = pc]
    BY <2>1
  <2> DEFINE new == [worker[w] EXCEPT !.todo = @ \ {x}, !.path = path, !.pc = pc]
  <2>3. SparedBy(new)
    BY <1>0 DEF SparedBy, Worker
  <2>4. Sets(new)
    BY <2>2 DEF TypeOK
  <2> HIDE DEF new
  <2>5. QED  BY <1>3, <2>3, <2>4, OneThreadSpared DEF Stat, Spared
<1>4. CASE LinkMakes(w)
  <2> DEFINE new == [worker[w] EXCEPT !.pc = "replace"]
  <2>1. SparedBy(new)
    BY <1>0 DEF SparedBy, Worker
  <2>2. Sets(new)
    BY <1>4 DEF LinkMakes
  <2> HIDE DEF new
  <2>3. QED  BY <1>4, <2>1, <2>2, OneThreadSpared DEF LinkMakes, Spared
<1>5. CASE LinkReplaces(w) \/ LinkFails(w) \/ MoveFails(w) \/ RecordFails(w)
  <2>1. NextTarget(w) /\ index' = index
    BY <1>5 DEF LinkReplaces, LinkFails, MoveFails, RecordFails
  <2>2. QED  BY <2>1, NextTargetSpared DEF Spared
<1>6. CASE Moves(w)
  <2>1. PICK e \in Entries : worker' = [worker EXCEPT ![w].pc = "record", ![w].entry = e]
    BY <1>6 DEF Moves
  <2> DEFINE new == [worker[w] EXCEPT !.pc = "record", !.entry = e]
  <2>2. SparedBy(new)
    BY <1>0 DEF SparedBy, Worker
  <2>3. Sets(new)
    BY <2>1 DEF TypeOK
  <2> HIDE DEF new
  <2>4. QED  BY <1>6, <2>2, <2>3, OneThreadSpared DEF Moves, Spared
<1>7. CASE Records(w)
  <2>1. \A e \in Entries : index'[e].original \notin Protected
    BY <1>0, <1>7 DEF Records, Spared, SparedBy, TypeOK, Rows
  <2>2. QED  BY <1>7, <2>1, NextTargetSpared DEF Records, Spared
<1>8. CASE ApplyEnds(w)
  BY <1>8, RestingSpared, OneThreadSpared DEF ApplyEnds, Spared
<1>9. QED
  BY <1>1, <1>2, <1>3, <1>4, <1>5, <1>6, <1>7, <1>8 DEF Apply

LEMMA QuarantineSpares ==
    ASSUME TypeOK, Spared, NEW w \in Workers, Quarantine(w)
    PROVE  Spared'
<1> USE ReclaimAssumption DEF disk
<1>0. worker[w] \in Worker /\ Consistent(worker[w]) /\ SparedBy(worker[w])
  BY DEF TypeOK, Spared
<1> DEFINE Sets(new) == worker' = [worker EXCEPT ![w] = new]
<1>1. ASSUME NEW kind \in {"restore", "purge"}, Reads(w, kind)
      PROVE  Spared'
  <2>1. PICK ids \in SUBSET {e \in Entries : index[e].state = "quarantined"} :
          worker' = [worker EXCEPT ![w] =
                      [Resting EXCEPT !.pc = kind, !.rows = index, !.wanted = ids]]
    BY <1>1 DEF Reads
  <2> DEFINE new == [Resting EXCEPT !.pc = kind, !.rows = index, !.wanted = ids]
  <2>2. SparedBy(new)
    BY RestingSpared DEF SparedBy, Resting, Spared
  <2>3. Sets(new)
    BY <2>1
  <2> HIDE DEF new
  <2>4. QED  BY <1>1, <2>2, <2>3, OneThreadSpared DEF Reads, Spared
<1>2. CASE RestoreChecks(w)
  <2>1. PICK e \in worker[w].wanted :
          worker' = [worker EXCEPT
            ![w].wanted = @ \ {e},
            ![w].entry = IF Restorable(w, e) THEN e ELSE None,
            ![w].pc = IF Restorable(w, e) THEN "putback" ELSE "restore"]
    BY <1>2 DEF RestoreChecks
  <2> DEFINE new == [worker[w] EXCEPT
                        !.wanted = @ \ {e},
                        !.entry = IF Restorable(w, e) THEN e ELSE None,
                        !.pc = IF Restorable(w, e) THEN "putback" ELSE "restore"]
  <2>2. SparedBy(new)
    BY <1>0 DEF SparedBy, Worker
  <2>3. Sets(new)
    BY <2>1 DEF TypeOK
  <2> HIDE DEF new
  <2>4. QED  BY <1>2, <2>2, <2>3, OneThreadSpared DEF RestoreChecks, Spared
<1>3. ASSUME NEW e \in Entries, NEW state, NEW new,
             new.path = worker[w].path, new.todo = worker[w].todo,
             new.rows = [worker[w].rows EXCEPT ![e].state = state]
      PROVE  SparedBy(new)
  <2>1. \A f \in Entries : new.rows[f].original = worker[w].rows[f].original
    BY <1>0, <1>3 DEF Worker, Rows, Row
  <2>2. QED  BY <1>0, <1>3, <2>1 DEF SparedBy
<1>4. CASE PutsBack(w)
  <2> DEFINE e == worker[w].entry
             row == [worker[w].rows[e] EXCEPT !.state = "restored"]
             rows == [worker[w].rows EXCEPT ![e] = row]
             new == [worker[w] EXCEPT !.pc = "restore", !.entry = None,
                                      !.rows = rows, !.changed = TRUE]
  <2>1. worker[w].entry \in Entries
    BY <1>0, <1>4 DEF PutsBack, Consistent, Worker
  <2>2. SparedBy(new)
    BY <1>0, <1>3, <2>1 DEF Worker
  <2>3. worker' = [worker EXCEPT ![w].pc = "restore", ![w].entry = None,
                                 ![w].rows = [@ EXCEPT ![e].state = "restored"], ![w].changed = TRUE]
    BY <1>4 DEF PutsBack
  <2>4. Sets(new)
    BY <2>3 DEF TypeOK
  <2> HIDE DEF new
  <2>5. QED  BY <1>4, <2>2, <2>4, OneThreadSpared DEF PutsBack, Spared
<1>5. CASE Purges(w)
  <2>1. PICK e \in worker[w].wanted :
          worker' = [worker EXCEPT ![w].wanted = @ \ {e},
                                   ![w].rows = [@ EXCEPT ![e].state = "purged"],
                                   ![w].changed = TRUE]
    BY <1>5 DEF Purges
  <2> DEFINE row == [worker[w].rows[e] EXCEPT !.state = "purged"]
             rows == [worker[w].rows EXCEPT ![e] = row]
             new == [worker[w] EXCEPT !.wanted = @ \ {e}, !.rows = rows, !.changed = TRUE]
  <2>2. e \in Entries
    BY <1>0 DEF Worker
  <2>3. SparedBy(new)
    BY <1>0, <1>3, <2>2 DEF Worker
  <2>4. Sets(new)
    BY <2>1 DEF TypeOK
  <2> HIDE DEF new
  <2>5. QED  BY <1>5, <2>3, <2>4, OneThreadSpared DEF Purges, Spared
<1>6. CASE PutBackFails(w)
  <2> DEFINE new == [worker[w] EXCEPT !.pc = "restore", !.entry = None]
  <2>1. SparedBy(new)
    BY <1>0 DEF SparedBy, Worker
  <2>2. Sets(new)
    BY <1>6 DEF PutBackFails
  <2> HIDE DEF new
  <2>3. QED  BY <1>6, <2>1, <2>2, OneThreadSpared DEF PutBackFails, Spared
<1>7. CASE PurgeFails(w)
  <2>1. PICK e \in worker[w].wanted : worker' = [worker EXCEPT ![w].wanted = @ \ {e}]
    BY <1>7 DEF PurgeFails
  <2> DEFINE new == [worker[w] EXCEPT !.wanted = @ \ {e}]
  <2>2. SparedBy(new)
    BY <1>0 DEF SparedBy, Worker
  <2>3. Sets(new)
    BY <2>1 DEF TypeOK
  <2> HIDE DEF new
  <2>4. QED  BY <1>7, <2>2, <2>3, OneThreadSpared DEF PurgeFails, Spared
<1>8. CASE Writes(w)
  <2>1. \A e \in Entries : index'[e].original \notin Protected
    BY <1>0, <1>8 DEF Writes, Spared, SparedBy
  <2>2. Sets(Resting)
    BY <1>8 DEF Writes
  <2>3. QED  BY <2>1, <2>2, RestingSpared, OneThreadSpared DEF Spared
<1>9. CASE WriteFails(w)
  BY <1>9, RestingSpared, OneThreadSpared DEF WriteFails, Spared
<1>10. QED
  BY <1>1, <1>2, <1>4, <1>5, <1>6, <1>7, <1>8, <1>9
     DEF Quarantine, RestoreStarts, PurgeStarts

LEMMA SparedHolds == Spec => []Spared
<1>1. Init => Spared
  BY RestingSpared, ReclaimAssumption DEF Init, Spared, NoRow
<1>2. TypeOK /\ Spared /\ [Next]_vars => Spared'
  <2> SUFFICES ASSUME TypeOK, Spared, [Next]_vars PROVE Spared'
    OBVIOUS
  <2>1. CASE ScanSteps
    BY <2>1 DEF ScanSteps, ScanStarts, ScanIndexes, ScanHashes, ScanEnds, ScanCancelled,
                ScanFails, disk, Spared
  <2>2. ASSUME NEW w \in Workers, Apply(w) \/ Quarantine(w)
        PROVE  Spared'
    BY <2>2, ApplySpares, QuarantineSpares
  <2>3. CASE Others
    BY <2>3 DEF Others, Rewritten, Replaced, Removed, Spared
  <2>4. CASE Restart
    BY <2>4, RestingSpared DEF Restart, disk, Spared
  <2>5. CASE UNCHANGED vars
    BY <2>5 DEF vars, Spared
  <2>6. QED  BY <2>1, <2>2, <2>3, <2>4, <2>5 DEF Next
<1>3. QED  BY <1>1, <1>2, ReclaimTypeCorrect, PTL DEF Spec

\* No request, crash, failure or interleaving of requests makes qbx move, link
\* over, restore onto or delete the file at a path below a protected root
\* (content_dupes.protected_roots, apply_reclaim).
THEOREM ProtectedStays == Spec => ProtectedUntouched
<1>1. ASSUME TypeOK, Spared, [Next]_vars, changes' = changes, NEW p \in Protected
      PROVE  file'[p] = file[p]
  <2> USE ReclaimAssumption DEF disk
  <2>1. CASE ScanSteps
    BY <1>1, <2>1 DEF ScanSteps, ScanStarts, ScanIndexes, ScanHashes, ScanEnds, ScanCancelled, ScanFails
  <2>2. ASSUME NEW w \in Workers, Apply(w)
        PROVE  file'[p] = file[p]
    <3>1. worker[w].path # p
      BY <1>1 DEF Spared, SparedBy
    <3>2. CASE LinkReplaces(w) \/ Moves(w)
      BY <1>1, <3>1, <3>2 DEF LinkReplaces, Moves, TypeOK
    <3>3. QED
      BY <2>2, <3>2 DEF Apply, ApplyStarts, Request, Stat, LinkMakes, LinkFails,
                        MoveFails, Records, RecordFails, ApplyEnds
  <2>3. ASSUME NEW w \in Workers, Quarantine(w)
        PROVE  file'[p] = file[p]
    <3>1. CASE PutsBack(w)
      <4>1. worker[w].entry \in Entries
        BY <1>1, <3>1 DEF PutsBack, TypeOK, Consistent, Worker
      <4>2. worker[w].rows[worker[w].entry].original # p
        BY <1>1, <4>1 DEF Spared, SparedBy
      <4>3. QED  BY <1>1, <3>1, <4>2 DEF PutsBack, TypeOK
    <3>2. QED
      BY <2>3, <3>1 DEF Quarantine, RestoreStarts, PurgeStarts, Reads, RestoreChecks,
                        PutBackFails, Purges, PurgeFails, Writes, WriteFails
  <2>4. CASE Others
    <3>1. changes' = changes + 1 /\ changes \in Nat
      BY <1>1, <2>4 DEF Others, Rewritten, Replaced, Removed, Changed, TypeOK
    <3>2. QED  BY <1>1, <3>1
  <2>5. CASE Restart \/ UNCHANGED vars
    BY <2>5 DEF Restart, vars
  <2>6. QED  BY <1>1, <2>1, <2>2, <2>3, <2>4, <2>5 DEF Next
<1>2. TypeOK /\ Spared /\ [Next]_vars =>
        [changes' = changes => \A p \in Protected : file'[p] = file[p]]_vars
  BY <1>1
<1>3. QED  BY <1>2, ReclaimTypeCorrect, SparedHolds, PTL DEF Spec, ProtectedUntouched
=============================================================================
