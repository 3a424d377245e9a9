------------------------ MODULE ReclaimPromiseProofs ------------------------
(***************************************************************************)
(* What the storage service keeps of its promises, and as long as what:    *)
(* that the quarantine can be undone, that no content is destroyed, and    *)
(* that Reclaim implements ReclaimPromise.                                 *)
(***************************************************************************)
EXTENDS ReclaimProofs

(***************************************************************************)
(* The index of the quarantine.  A restore or purge reads all rows at its  *)
(* start and writes them back at its end, and meanwhile other threads      *)
(* append rows and write theirs.  Booked says where the state of a         *)
(* quarantined file is kept: in the index, in a thread that is about to    *)
(* append its row, or in the rows of the threads that took it and have not *)
(* written about it yet.                                                   *)
(***************************************************************************)

\* A thread works on rows that it has read as quarantined, each once.
Handled(r) ==
    /\ \A e \in r.wanted : r.rows[e].state = "quarantined"
    /\ r.pc = "putback" => r.rows[r.entry].state = "quarantined" /\ r.entry \notin r.wanted

\* No two threads append the row of the same file.
OwnRows ==
    \A v, w \in Workers :
        worker[v].pc = "record" /\ worker[w].pc = "record" /\ worker[v].entry = worker[w].entry
            => v = w

Booked(e) ==
    /\ qfile[e] # None <=> \/ /\ index[e].state = "quarantined"
                              /\ \A w \in Workers : e \notin Unwritten(w)
                           \/ Appending(e)
    /\ Appending(e) => index[e].state = "absent"
    /\ \A w \in Workers : Rewriting(worker[w]) =>
          /\ Appending(e) => worker[w].rows[e].state = "absent"
          /\ Spent(worker[w].rows[e]) => worker[w].changed \/ Spent(index[e])

Accounted ==
    /\ \A w \in Workers : Handled(worker[w])
    /\ OwnRows
    /\ \A e \in Entries \ strays : Booked(e)

\* A step that takes no file, writes no row and appends none.
LEMMA AccountedOn ==
    ASSUME TypeOK, Accounted, NEW w \in Workers,
           \A v \in Workers \ {w} : worker'[v] = worker[v],
           Rewriting(worker'[w]) <=> Rewriting(worker[w]),
           Rewriting(worker[w]) => /\ worker'[w].rows = worker[w].rows
                                   /\ worker'[w].changed = worker[w].changed,
           worker[w].pc # "record", worker'[w].pc # "record",
           Handled(worker'[w]),
           UNCHANGED <<qfile, index, strays>>
    PROVE  Accounted'
<1>1. \A e \in Entries : Appending(e)' <=> Appending(e)
  BY DEF Appending
<1>2. \A v \in Workers : Unwritten(v)' = Unwritten(v)
  BY DEF Unwritten
<1>3. \A v \in Workers : Rewriting(worker'[v]) =>
        /\ Rewriting(worker[v])
        /\ worker'[v].rows = worker[v].rows /\ worker'[v].changed = worker[v].changed
  OBVIOUS
<1>4. \A e \in Entries : Booked(e) => Booked(e)'
  BY <1>1, <1>2, <1>3 DEF Booked
<1>5. (\A v \in Workers : Handled(worker[v]))' /\ OwnRows'
  BY DEF Accounted, OwnRows
<1>6. QED  BY <1>4, <1>5 DEF Accounted

\* A thread that does not rewrite the index, before or after its step.
LEMMA AccountedIdly ==
    ASSUME TypeOK, Accounted, NEW w \in Workers,
           \A v \in Workers \ {w} : worker'[v] = worker[v],
           worker[w].pc \in {"idle", "apply", "link", "move", "replace"},
           worker'[w].pc \in {"idle", "apply", "link", "move", "replace"},
           \/ worker'[w].wanted = {}
           \/ worker'[w].wanted = worker[w].wanted /\ worker'[w].rows = worker[w].rows,
           UNCHANGED <<qfile, index, strays>>
    PROVE  Accounted'
<1>1. Handled(worker'[w])
  BY DEF Accounted, Handled
<1>2. QED  BY <1>1, AccountedOn DEF Rewriting

LEMMA ApplyAccounted ==
    ASSUME TypeOK, Accounted, NEW w \in Workers, Apply(w)
    PROVE  Accounted'
<1> USE DEF disk, history
<1>0. worker[w] \in Worker /\ Consistent(worker[w]) /\ Handled(worker[w])
  BY DEF TypeOK, Accounted
<1>1. CASE ApplyStarts(w) \/ Request(w) \/ Stat(w) \/ LinkMakes(w) \/ ApplyEnds(w)
  <2>1. /\ worker[w].pc \in {"idle", "apply", "link"}
        /\ UNCHANGED <<qfile, index, strays>>
    BY <1>1 DEF ApplyStarts, Request, Stat, LinkMakes, ApplyEnds
  <2>2. /\ \A v \in Workers \ {w} : worker'[v] = worker[v]
        /\ worker'[w].pc \in {"idle", "apply", "link", "move", "replace"}
        /\ \/ worker'[w].wanted = {}
           \/ worker'[w].wanted = worker[w].wanted /\ worker'[w].rows = worker[w].rows
    <3>1. CASE Request(w)
      <4>1. PICK keeper \in Member, todo \in SUBSET Target :
              worker' = [worker EXCEPT ![w].keeper = keeper, ![w].todo = todo]
        BY <3>1, Requested
      <4>2. QED  BY <1>0, <2>1, <4>1 DEF TypeOK, Worker, Request
    <3>2. CASE Stat(w)
      BY <3>2 DEF Stat, TypeOK, Worker
    <3>3. CASE ApplyStarts(w) \/ ApplyEnds(w)
      <4> DEFINE new == [Resting EXCEPT !.pc = "apply", !.groups = groups]
      <4>1. new.pc = "apply" /\ Resting.pc = "idle" /\ new.wanted = {} /\ Resting.wanted = {}
        BY DEF Resting
      <4>2. worker' = [worker EXCEPT ![w] = new] \/ worker' = [worker EXCEPT ![w] = Resting]
        BY <3>3 DEF ApplyStarts, ApplyEnds
      <4> HIDE DEF new
      <4>3. QED  BY <4>1, <4>2 DEF TypeOK
    <3>4. CASE LinkMakes(w)
      BY <3>4 DEF LinkMakes, TypeOK, Worker
    <3>5. QED  BY <1>1, <3>1, <3>2, <3>3, <3>4
  <2>3. QED  BY <2>1, <2>2, AccountedIdly
<1>2. CASE LinkReplaces(w) \/ LinkFails(w) \/ MoveFails(w)
  <2>1. /\ worker[w].pc \in {"link", "replace", "move"}
        /\ UNCHANGED <<qfile, index, strays>> /\ NextTarget(w)
    BY <1>2 DEF LinkReplaces, LinkFails, MoveFails
  <2>2. /\ \A v \in Workers \ {w} : worker'[v] = worker[v]
        /\ worker'[w].pc = "apply"
        /\ worker'[w].wanted = worker[w].wanted /\ worker'[w].rows = worker[w].rows
    BY <2>1 DEF NextTarget, TypeOK, Worker
  <2>3. QED  BY <2>1, <2>2, AccountedIdly
<1>3. CASE Moves(w)
  <2>1. PICK e \in Entries :
          /\ Fresh(e) /\ file[worker[w].path] # None
          /\ qfile' = [qfile EXCEPT ![e] = file[worker[w].path]]
          /\ worker' = [worker EXCEPT ![w].pc = "record", ![w].entry = e]
    BY <1>3 DEF Moves
  <2>2. worker[w].pc = "move" /\ UNCHANGED <<index, strays>>
    BY <1>3 DEF Moves
  <2>3. /\ \A v \in Workers \ {w} : worker'[v] = worker[v]
        /\ worker'[w].pc = "record" /\ worker'[w].entry = e
        /\ worker'[w].wanted = worker[w].wanted /\ worker'[w].rows = worker[w].rows
    BY <2>1 DEF TypeOK, Worker
  <2>4. /\ index[e].state = "absent"
        /\ \A v \in Workers : worker[v].entry # e /\ worker[v].rows[e].state = "absent"
    BY <2>1 DEF Fresh, NoRow
  <2>5. \A v \in Workers : Unwritten(v)' = Unwritten(v)
    BY <2>2, <2>3 DEF Unwritten, Rewriting
  <2>6. \A v \in Workers : Rewriting(worker'[v]) => worker'[v] = worker[v]
    BY <2>3 DEF Rewriting
  <2>7. /\ Appending(e)'
        /\ \A f \in Entries \ {e} : Appending(f)' <=> Appending(f)
    BY <2>2, <2>3 DEF Appending
  <2>8. qfile'[e] # None /\ \A f \in Entries \ {e} : qfile'[f] = qfile[f]
    BY <2>1 DEF TypeOK
  <2>9. Booked(e)'
    BY <2>2, <2>4, <2>6, <2>7, <2>8 DEF Booked, Spent
  <2>10. \A f \in Entries \ {e} : Booked(f) => Booked(f)'
    BY <2>2, <2>5, <2>6, <2>7, <2>8 DEF Booked
  <2>11. OwnRows'
    BY <2>2, <2>3, <2>4 DEF OwnRows, Accounted
  <2>12. (\A v \in Workers : Handled(worker[v]))'
    BY <1>0, <2>3 DEF Handled, Accounted
  <2>13. QED  BY <2>2, <2>9, <2>10, <2>11, <2>12 DEF Accounted
<1>4. CASE Records(w) \/ RecordFails(w)
  <2>0. PICK e \in Entries : e = worker[w].entry
    BY <1>0, <1>4 DEF Records, RecordFails, Consistent, Worker
  <2>1. worker[w].pc = "record" /\ worker[w].entry = e /\ qfile' = qfile
    BY <1>4, <2>0 DEF Records, RecordFails
  <2>2. /\ \A v \in Workers \ {w} : worker'[v] = worker[v]
        /\ worker'[w].pc = "apply"
        /\ worker'[w].wanted = worker[w].wanted /\ worker'[w].rows = worker[w].rows
    BY <1>4 DEF Records, RecordFails, NextTarget, TypeOK, Worker
  <2>3. /\ \/ index' = index /\ e \in strays'
           \/ index'[e].state = "quarantined" /\ strays' = strays
        /\ strays \subseteq strays'
        /\ \A f \in Entries \ {e} : index'[f] = index[f]
    BY <1>4, <2>1 DEF Records, RecordFails, TypeOK, Rows
  <2>4. /\ Appending(e) /\ ~Appending(e)'
        /\ \A f \in Entries \ {e} : Appending(f)' <=> Appending(f)
    BY <2>1, <2>2 DEF Appending, OwnRows, Accounted
  <2>5. \A v \in Workers : Rewriting(worker'[v]) => Rewriting(worker[v]) /\ worker'[v] = worker[v]
    BY <2>1, <2>2 DEF Rewriting
  <2>6. \A f \in Entries \ {e}, v \in Workers : f \in Unwritten(v)' <=> f \in Unwritten(v)
    BY <2>1, <2>2, <2>3 DEF Unwritten, Rewriting
  <2>7. ASSUME e \notin strays'
        PROVE  Booked(e)'
    <3>1. Booked(e)
      BY <2>1, <2>3, <2>7 DEF Accounted
    <3>2. \A v \in Workers : Rewriting(worker'[v]) => ~Spent(worker'[v].rows[e])
      BY <2>4, <2>5, <3>1 DEF Booked, Spent
    <3>3. \A v \in Workers : e \notin Unwritten(v)'
      BY <3>2 DEF Unwritten
    <3>4. qfile'[e] # None
      BY <2>1, <2>4, <3>1 DEF Booked
    <3>5. QED  BY <2>3, <2>4, <2>7, <3>2, <3>3, <3>4 DEF Booked
  <2>8. \A f \in Entries \ {e} : Booked(f) => Booked(f)'
    BY <2>1, <2>3, <2>4, <2>5, <2>6 DEF Booked
  <2>9. OwnRows'
    BY <2>2 DEF OwnRows, Accounted
  <2>10. (\A v \in Workers : Handled(worker[v]))'
    BY <1>0, <2>2 DEF Handled, Accounted
  <2>11. QED  BY <2>3, <2>7, <2>8, <2>9, <2>10 DEF Accounted
<1>5. QED
  BY <1>1, <1>2, <1>3, <1>4 DEF Apply

\* A thread takes the file of e, which it read as quarantined.
LEMMA AccountedTaken ==
    ASSUME TypeOK, Accounted, NEW w \in Workers, NEW e \in Entries,
           Rewriting(worker[w]), worker[w].rows[e].state = "quarantined",
           \A v \in Workers \ {w} : worker'[v] = worker[v],
           Rewriting(worker'[w]), worker'[w].changed, Spent(worker'[w].rows[e]),
           \A f \in Entries \ {e} : worker'[w].rows[f] = worker[w].rows[f],
           qfile'[e] = None, \A f \in Entries \ {e} : qfile'[f] = qfile[f],
           Handled(worker'[w]),
           UNCHANGED <<index, strays>>
    PROVE  Accounted'
<1>1. worker[w].pc # "record" /\ worker'[w].pc # "record"
  BY DEF Rewriting
<1>2. \A f \in Entries : Appending(f)' <=> Appending(f)
  BY <1>1 DEF Appending
<1>3. \A f \in Entries \ {e}, v \in Workers : f \in Unwritten(v)' <=> f \in Unwritten(v)
  BY DEF Unwritten
<1>4. ASSUME Booked(e)
      PROVE  Booked(e)'
  <2>1. ~Appending(e)
    BY <1>4 DEF Booked
  <2>2. index[e].state = "quarantined" => e \in Unwritten(w)'
    BY DEF Unwritten
  <2>3. QED  BY <1>2, <1>4, <2>1, <2>2 DEF Booked
<1>5. \A f \in Entries \ {e} : Booked(f) => Booked(f)'
  BY <1>2, <1>3 DEF Booked
<1>6. OwnRows' /\ (\A v \in Workers : Handled(worker[v]))'
  BY <1>1 DEF OwnRows, Accounted
<1>7. QED  BY <1>4, <1>5, <1>6 DEF Accounted

LEMMA QuarantineAccounted ==
    ASSUME TypeOK, Accounted, NEW w \in Workers, Quarantine(w)
    PROVE  Accounted'
<1> USE DEF disk, history
<1>0. /\ worker[w] \in Worker /\ Consistent(worker[w]) /\ Handled(worker[w])
      /\ worker[w].rows \in Rows /\ worker[w].rows \in [Entries -> Row]
  BY DEF TypeOK, Accounted, Worker, Rows
<1>1. ASSUME NEW kind \in {"restore", "purge"}, Reads(w, kind)
      PROVE  Accounted'
  <2>1. PICK ids \in SUBSET {e \in Entries : index[e].state = "quarantined"} :
          worker' = [worker EXCEPT ![w] =
                      [Resting EXCEPT !.pc = kind, !.rows = index, !.wanted = ids]]
    BY <1>1 DEF Reads
  <2>2. worker[w].pc = "idle" /\ UNCHANGED <<qfile, index, strays>>
    BY <1>1 DEF Reads
  <2>3. /\ \A v \in Workers \ {w} : worker'[v] = worker[v]
        /\ worker'[w].pc = kind /\ worker'[w].rows = index /\ worker'[w].wanted = ids
    BY <2>1 DEF TypeOK, Resting
  <2>4. \A e \in Entries : Appending(e)' <=> Appending(e)
    BY <2>2, <2>3 DEF Appending
  <2>5. Unwritten(w)' = {} /\ Unwritten(w) = {}
    BY <2>2, <2>3 DEF Unwritten, Rewriting, Spent
  <2>6. \A v \in Workers : Unwritten(v)' = Unwritten(v)
    BY <2>2, <2>3, <2>5 DEF Unwritten
  <2>7. \A e \in Entries : Booked(e) => Booked(e)'
    BY <2>2, <2>3, <2>4, <2>6 DEF Booked
  <2>8. Handled(worker'[w])
    BY <2>3 DEF Handled
  <2>9. OwnRows' /\ (\A v \in Workers : Handled(worker[v]))'
    BY <2>2, <2>3, <2>8 DEF OwnRows, Accounted
  <2>10. QED  BY <2>2, <2>7, <2>9 DEF Accounted
<1>2. CASE RestoreChecks(w)
  <2>1. PICK e \in worker[w].wanted :
          worker' = [worker EXCEPT
            ![w].wanted = @ \ {e},
            ![w].entry = IF Restorable(w, e) THEN e ELSE None,
            ![w].pc = IF Restorable(w, e) THEN "putback" ELSE "restore"]
    BY <1>2 DEF RestoreChecks
  <2>2. PICK entry \in {None, e}, pc \in {"putback", "restore"} :
          /\ worker' = [worker EXCEPT ![w].wanted = @ \ {e}, ![w].entry = entry, ![w].pc = pc]
          /\ pc = "putback" => entry = e
    BY <2>1
  <2>3. /\ \A v \in Workers \ {w} : worker'[v] = worker[v]
        /\ worker'[w].pc = pc /\ worker'[w].entry = entry /\ worker'[w].wanted = worker[w].wanted \ {e}
        /\ worker'[w].rows = worker[w].rows /\ worker'[w].changed = worker[w].changed
    BY <2>2 DEF TypeOK, Worker
  <2>4. Rewriting(worker[w]) /\ Rewriting(worker'[w]) /\ UNCHANGED <<qfile, index, strays>>
    BY <1>2, <2>3 DEF RestoreChecks, Rewriting
  <2>5. Handled(worker'[w])
    BY <1>0, <2>2, <2>3 DEF Handled
  <2>6. worker[w].pc # "record" /\ worker'[w].pc # "record"
    BY <2>4 DEF Rewriting
  <2>7. QED  BY <2>3, <2>4, <2>5, <2>6, AccountedOn
<1>3. CASE PutBackFails(w) \/ PurgeFails(w)
  <2>1. /\ \A v \in Workers \ {w} : worker'[v] = worker[v]
        /\ worker'[w].pc \in {"restore", "purge"} /\ worker'[w].wanted \subseteq worker[w].wanted
        /\ worker'[w].rows = worker[w].rows /\ worker'[w].changed = worker[w].changed
    BY <1>3 DEF PutBackFails, PurgeFails, TypeOK, Worker
  <2>2. worker[w].pc \in {"putback", "purge"} /\ UNCHANGED <<qfile, index, strays>>
    BY <1>3 DEF PutBackFails, PurgeFails
  <2>3. Handled(worker'[w])
    BY <1>0, <2>1 DEF Handled
  <2>4. QED  BY <2>1, <2>2, <2>3, AccountedOn DEF Rewriting
<1>4. CASE PutsBack(w)
  <2> DEFINE e == worker[w].entry
  <2>1. /\ e \in Entries /\ UNCHANGED <<index, strays>> /\ worker[w].pc = "putback"
        /\ worker[w].rows[e].state = "quarantined" /\ e \notin worker[w].wanted
    BY <1>0, <1>4 DEF PutsBack, Consistent, Worker, Handled
  <2>2. worker' = [worker EXCEPT ![w].pc = "restore", ![w].entry = None,
                                 ![w].rows = [@ EXCEPT ![e].state = "restored"], ![w].changed = TRUE]
    BY <1>4 DEF PutsBack
  <2>3. /\ \A v \in Workers \ {w} : worker'[v] = worker[v]
        /\ worker'[w].pc = "restore" /\ worker'[w].changed
        /\ worker'[w].wanted = worker[w].wanted
        /\ worker'[w].rows[e].state = "restored"
        /\ \A f \in Entries \ {e} : worker'[w].rows[f] = worker[w].rows[f]
    BY <1>0, <2>1, <2>2 DEF TypeOK, Worker, Row
  <2>4. qfile'[e] = None /\ \A f \in Entries \ {e} : qfile'[f] = qfile[f]
    BY <1>4, <2>1 DEF PutsBack, TypeOK
  <2>5. worker[w].wanted \subseteq Entries
    BY <1>0 DEF Worker
  <2> HIDE DEF e
  <2>6. Handled(worker'[w])
    BY <1>0, <2>1, <2>3, <2>5 DEF Handled
  <2>7. QED  BY <2>1, <2>3, <2>4, <2>6, AccountedTaken DEF Rewriting, Spent
<1>5. CASE Purges(w)
  <2>1. PICK e \in worker[w].wanted :
          /\ qfile' = [qfile EXCEPT ![e] = None]
          /\ worker' = [worker EXCEPT ![w].wanted = @ \ {e},
                                      ![w].rows = [@ EXCEPT ![e].state = "purged"],
                                      ![w].changed = TRUE]
    BY <1>5 DEF Purges
  <2>2. /\ e \in Entries /\ worker[w].pc = "purge" /\ UNCHANGED <<index, strays>>
        /\ worker[w].rows[e].state = "quarantined" /\ worker[w].wanted \subseteq Entries
    BY <1>0, <1>5 DEF Purges, Worker, Handled
  <2>3. /\ \A v \in Workers \ {w} : worker'[v] = worker[v]
        /\ worker'[w].pc = "purge" /\ worker'[w].changed
        /\ worker'[w].wanted = worker[w].wanted \ {e}
        /\ worker'[w].rows[e].state = "purged"
        /\ \A f \in Entries \ {e} : worker'[w].rows[f] = worker[w].rows[f]
    BY <1>0, <2>1, <2>2 DEF TypeOK, Worker, Row
  <2>4. qfile'[e] = None /\ \A f \in Entries \ {e} : qfile'[f] = qfile[f]
    BY <2>1, <2>2 DEF TypeOK
  <2>5. Handled(worker'[w])
    BY <1>0, <2>2, <2>3 DEF Handled
  <2>6. QED  BY <2>2, <2>3, <2>4, <2>5, AccountedTaken DEF Rewriting, Spent
<1>6. CASE Writes(w) \/ WriteFails(w)
  <2>1. /\ worker[w].pc \in {"restore", "purge"} /\ qfile' = qfile
        /\ worker' = [worker EXCEPT ![w] = Resting]
    BY <1>6 DEF Writes, WriteFails
  <2>2. /\ \A v \in Workers \ {w} : worker'[v] = worker[v]
        /\ worker'[w].pc = "idle" /\ worker'[w].wanted = {}
    BY <2>1 DEF TypeOK, Resting
  <2>3. \A e \in Entries : Appending(e)' <=> Appending(e)
    BY <2>1, <2>2 DEF Appending
  <2>4. strays \subseteq strays'
    BY <1>6 DEF Writes, WriteFails
  <2>5. ASSUME NEW e \in Entries \ strays', Booked(e)
        PROVE  Booked(e)'
    <3>1. CASE index'[e] = index[e] /\ e \notin Unwritten(w)
      <4>1. e \notin Unwritten(w)'
        BY <2>2 DEF Unwritten, Rewriting
      <4>2. \A v \in Workers \ {w} : e \in Unwritten(v)' <=> e \in Unwritten(v)
        BY <2>2, <3>1 DEF Unwritten
      <4>3. ~Rewriting(worker'[w])
        BY <2>2 DEF Rewriting
      <4>4. QED  BY <2>1, <2>2, <2>3, <2>5, <3>1, <4>1, <4>2, <4>3 DEF Booked
    <3>2. CASE index'[e] = worker[w].rows[e] /\ e \in Unwritten(w)
      <4>1. Spent(index'[e]) /\ index'[e].state # "quarantined" /\ index[e].state = "quarantined"
        BY <3>2 DEF Unwritten, Spent
      <4>2. qfile'[e] = None /\ ~Appending(e)'
        BY <2>1, <2>3, <2>5, <3>2, <4>1 DEF Booked
      <4>3. QED  BY <4>1, <4>2 DEF Booked
    <3>3. e \in Unwritten(w) => worker[w].changed
      BY <2>5 DEF Booked, Unwritten, Spent
    <3>4. QED
      BY <1>6, <2>5, <3>1, <3>2, <3>3 DEF Writes, WriteFails, Outdated
  <2>6. OwnRows' /\ (\A v \in Workers : Handled(worker[v]))'
    BY <2>2 DEF OwnRows, Handled, Accounted
  <2>7. QED  BY <2>4, <2>5, <2>6 DEF Accounted
<1>7. QED
  BY <1>1, <1>2, <1>3, <1>4, <1>5, <1>6 DEF Quarantine, RestoreStarts, PurgeStarts

LEMMA AccountedHolds == Spec => []Accounted
<1>1. Init => Accounted
  BY DEF Init, Accounted, Booked, Handled, OwnRows, Appending, Unwritten, Rewriting, Resting, NoRow
<1>2. TypeOK /\ Accounted /\ [Next]_vars => Accounted'
  <2> SUFFICES ASSUME TypeOK, Accounted, [Next]_vars
               PROVE  Accounted'
    OBVIOUS
  <2>1. CASE ScanSteps \/ Others \/ UNCHANGED vars
    <3>1. UNCHANGED <<qfile, index, worker, strays>>
      BY <2>1 DEF ScanSteps, ScanStarts, ScanIndexes, ScanHashes, ScanEnds, ScanCancelled,
                  ScanFails, Others, Rewritten, Replaced, Removed, disk, history, vars
    <3>2. QED
      BY <3>1 DEF Accounted, Booked, OwnRows, Appending, Unwritten
  <2>2. ASSUME NEW w \in Workers, Apply(w) \/ Quarantine(w)
        PROVE  Accounted'
    BY <2>2, ApplyAccounted, QuarantineAccounted
  <2>3. CASE Restart
    <3>1. /\ \A v \in Workers : worker'[v].pc = "idle" /\ worker'[v].wanted = {}
          /\ UNCHANGED <<qfile, index>> /\ strays \subseteq strays'
      BY <2>3 DEF Restart, Resting, disk
    <3>2. \A e \in Entries \ strays' : ~Appending(e) /\ \A v \in Workers : e \notin Unwritten(v)
      BY <2>3 DEF Restart
    <3>3. \A e \in Entries : ~Appending(e)' /\ \A v \in Workers : e \notin Unwritten(v)'
      BY <3>1 DEF Appending, Unwritten, Rewriting
    <3>4. \A e \in Entries \ strays' : Booked(e) => Booked(e)'
      BY <3>1, <3>2, <3>3 DEF Booked, Rewriting
    <3>5. OwnRows' /\ (\A v \in Workers : Handled(worker[v]))'
      BY <3>1 DEF OwnRows, Handled
    <3>6. QED  BY <3>1, <3>4, <3>5 DEF Accounted
  <2>4. QED  BY <2>1, <2>2, <2>3 DEF Next
<1>3. QED  BY <1>1, <1>2, ReclaimTypeCorrect, PTL DEF Spec

\* However many requests overlap, fail or crash, every file in the quarantine can
\* be restored through its row or has it appended in a moment: but for the files
\* whose append failed or was cut off by a crash, and the rows that a restore or
\* purge overwrote with what it had read before.  (StorageService takes no lock.)
THEOREM QuarantineUndoable == Spec => []Undoable
<1>1. Accounted => Undoable
  BY DEF Accounted, Booked, Undoable
<1>2. QED  BY <1>1, AccountedHolds, PTL

\* Under as little, every row that is offered for restore has its file, or the
\* thread that took the file will say so: but for the rows whose write failed or
\* was cut off by a crash, and those overwritten.
THEOREM QuarantineHonest == Spec => []Honest
<1>1. Accounted => Honest
  BY DEF Accounted, Booked, Honest
<1>2. QED  BY <1>1, AccountedHolds, PTL

(***************************************************************************)
(* Contents.  While nobody else writes files or puts them in place, every  *)
(* path has one content that it ever names (home): whatever is linked,     *)
(* put back or about to be linked there has that content, because scanned  *)
(* members are grouped by it and a row says where its file was.            *)
(***************************************************************************)

SameHome(home, members) == \A m, n \in members : home[m.path] = home[n.path]

\* What a request works on.
Fitting(home, r) ==
    /\ \A g \in r.groups : SameHome(home, g.members)
    /\ \A x \in r.todo : home[x.path] = home[r.keeper.path]
    /\ r.pc \in {"link", "replace", "move"} => home[r.path] = home[r.keeper.path]

\* The files in the quarantine and the rows that speak of them.
Rowed(home, rows) ==
    \A e \in Entries :
        rows[e].state # "absent" /\ qfile[e] # None => content[qfile[e]] = home[rows[e].original]

Fits(home) ==
    /\ \A p \in Paths : file[p] # None => content[file[p]] = home[p]
    /\ \A p \in Paths : tmp[p] # None => content[tmp[p]] = home[p]
    /\ \A p \in Paths : scan.digest[p] # None => scan.digest[p] = home[p]
    /\ \A g \in groups : SameHome(home, g.members)
    /\ Rowed(home, index)
    /\ \A w \in Workers : Rowed(home, worker[w].rows)
    /\ \A w \in Workers :
          worker[w].pc = "record" /\ qfile[worker[w].entry] # None
            => content[qfile[worker[w].entry]] = home[worker[w].path]
    /\ \A w \in Workers : Fitting(home, worker[w])

LEMMA RestingFits == ASSUME NEW home PROVE Fitting(home, Resting)
BY DEF Fitting, Resting

\* A thread that goes on with its request, or rests, and touches no file.
LEMMA FitsOn ==
    ASSUME TypeOK, NEW home, Fits(home), NEW w \in Workers,
           UNCHANGED <<file, tmp, content, qfile, index, scan>>,
           groups' \in {groups, {}},
           \A v \in Workers \ {w} : worker'[v] = worker[v],
           Fitting(home, worker'[w]),
           worker'[w].pc # "record",
           \/ worker'[w].rows \in {worker[w].rows, index}
           \/ \A e \in Entries : worker'[w].rows[e] = NoRow
    PROVE  Fits(home)'
<1>1. Rowed(home, worker'[w].rows)
  BY DEF Fits, Rowed, NoRow
<1>2. Rowed(home, index)' /\ \A v \in Workers : Rowed(home, worker[v].rows)'
  BY <1>1 DEF Fits, Rowed
<1>3. \A v \in Workers : Fitting(home, worker[v])'
  BY DEF Fits
<1>4. QED  BY <1>2, <1>3 DEF Fits

\* Reclaiming a copy ends, whatever was done to the copy.
LEMMA NextTargetFits ==
    ASSUME TypeOK, NEW home, Fits(home), NEW w \in Workers, NextTarget(w)
    PROVE  /\ \A v \in Workers \ {w} : worker'[v] = worker[v]
           /\ worker'[w].pc = "apply" /\ worker'[w].rows = worker[w].rows
           /\ Fitting(home, worker'[w])
<1>1. /\ \A v \in Workers \ {w} : worker'[v] = worker[v]
      /\ worker'[w].pc = "apply" /\ worker'[w].rows = worker[w].rows
      /\ worker'[w].groups = worker[w].groups /\ worker'[w].todo = worker[w].todo
      /\ worker'[w].keeper = worker[w].keeper
  BY DEF NextTarget, TypeOK, Worker
<1>2. QED  BY <1>1 DEF Fits, Fitting

LEMMA ScanFits ==
    ASSUME TypeOK, NEW home \in [Paths -> Contents], Fits(home), ScanSteps
    PROVE  Fits(home)'
<1> USE DEF disk
<1>0. UNCHANGED <<file, tmp, content, qfile, index, worker>>
  BY DEF ScanSteps, ScanStarts, ScanIndexes, ScanHashes, ScanEnds, ScanCancelled, ScanFails
<1>1. /\ \A p \in Paths : scan'.digest[p] # None => scan'.digest[p] = home[p]
      /\ \A g \in groups' : SameHome(home, g.members)
  <2>1. CASE ScanStarts \/ ScanCancelled \/ ScanFails
    <3>1. \A p \in Paths : NoScan.digest[p] = None
      BY DEF NoScan
    <3>2. scan'.digest = NoScan.digest /\ groups' \in {groups, {}}
      BY <2>1 DEF ScanStarts, ScanCancelled, ScanFails, NoScan
    <3>3. QED  BY <3>1, <3>2 DEF Fits
  <2>2. ASSUME NEW p \in Paths, ScanIndexes(p)
        PROVE  scan'.digest = scan.digest /\ groups' = groups
    BY <2>2 DEF ScanIndexes, TypeOK, Scan
  <2>3. ASSUME NEW p \in Paths, ScanHashes(p)
        PROVE  /\ groups' = groups
               /\ \A q \in Paths : scan'.digest[q] # None => scan'.digest[q] = home[q]
    BY <2>3 DEF ScanHashes, TypeOK, Scan, Fits
  <2>4. CASE ScanEnds
    <3>1. ASSUME NEW d \in Contents
          PROVE  SameHome(home, MembersOf(d))
      <4>1. d # None
        BY ReclaimAssumption DEF Contents, Same
      <4>2. \A m \in MembersOf(d) : m.path \in Paths /\ scan.digest[m.path] = d
        BY DEF MembersOf, Member
      <4>3. QED  BY <4>1, <4>2 DEF SameHome, Fits
    <3>2. \A g \in groups' : \E d \in Contents : g.members = MembersOf(d)
      BY <2>4 DEF ScanEnds
    <3>3. QED  BY <2>4, <3>1, <3>2 DEF ScanEnds, NoScan
  <2>5. QED  BY <2>1, <2>2, <2>3, <2>4 DEF ScanSteps, Fits
<1>2. QED  BY <1>0, <1>1 DEF Fits, Rowed

LEMMA ApplyFits ==
    ASSUME TypeOK, NEW home \in [Paths -> Contents], Fits(home), NEW w \in Workers, Apply(w)
    PROVE  Fits(home)'
<1> USE DEF disk, history
<1>0. /\ worker[w] \in Worker /\ Consistent(worker[w]) /\ Fitting(home, worker[w])
      /\ \A v \in Workers : Consistent(worker[v])
  BY DEF TypeOK, Fits
<1>1. CASE ApplyStarts(w)
  <2> DEFINE new == [Resting EXCEPT !.pc = "apply", !.groups = groups]
  <2>1. /\ Fitting(home, new) /\ new.pc = "apply" /\ \A e \in Entries : new.rows[e] = NoRow
    BY DEF Fits, Fitting, Resting
  <2>2. worker' = [worker EXCEPT ![w] = new]
    BY <1>1 DEF ApplyStarts
  <2> HIDE DEF new
  <2>3. worker'[w] = new /\ \A v \in Workers \ {w} : worker'[v] = worker[v]
    BY <2>2 DEF TypeOK
  <2>4. QED  BY <1>1, <2>1, <2>3, FitsOn DEF ApplyStarts
<1>2. CASE Request(w)
  <2>1. PICK keeper \in Member, todo \in SUBSET Target :
          /\ worker' = [worker EXCEPT ![w].keeper = keeper, ![w].todo = todo]
          /\ KeeperIntact(keeper)
          /\ \A x \in todo : Removable(x.path, keeper)
          /\ \E g \in worker[w].groups :
                /\ keeper \in g.members
                /\ \A x \in todo : \E m \in g.members : m.path = x.path
    BY <1>2, Requested
  <2>2. \A x \in todo : home[x.path] = home[keeper.path]
    BY <1>0, <2>1 DEF Fitting, SameHome
  <2>3. /\ \A v \in Workers \ {w} : worker'[v] = worker[v]
        /\ worker'[w].pc = "apply" /\ worker'[w].rows = worker[w].rows
        /\ worker'[w].groups = worker[w].groups
        /\ worker'[w].todo = todo /\ worker'[w].keeper = keeper
    BY <1>2, <2>1 DEF Request, TypeOK, Worker
  <2>4. Fitting(home, worker'[w])
    BY <1>0, <2>2, <2>3 DEF Fitting
  <2>5. QED  BY <1>2, <2>3, <2>4, FitsOn DEF Request
<1>3. CASE Stat(w)
  <2>1. PICK x \in worker[w].todo : \E path \in {None, x.path}, pc \in {"apply", "link", "move"} :
          /\ worker' = [worker EXCEPT ![w].todo = @ \ {x}, ![w].path = path, ![w].pc = pc]
          /\ pc # "apply" => path = x.path
    BY <1>3 DEF Stat
  <2>2. PICK path \in {None, x.path}, pc \in {"apply", "link", "move"} :
          /\ worker' = [worker EXCEPT ![w].todo = @ \ {x}, ![w].path = path, ![w].pc = pc]
          /\ pc # "apply" => path = x.path
    BY <2>1
  <2>3. /\ \A v \in Workers \ {w} : worker'[v] = worker[v]
        /\ worker'[w].pc = pc /\ worker'[w].path = path
        /\ worker'[w].rows = worker[w].rows /\ worker'[w].groups = worker[w].groups
        /\ worker'[w].todo \subseteq worker[w].todo /\ worker'[w].keeper = worker[w].keeper
    BY <2>2 DEF TypeOK, Worker
  <2>4. Fitting(home, worker'[w])
    BY <1>0, <2>2, <2>3 DEF Fitting
  <2>5. QED  BY <1>3, <2>3, <2>4, FitsOn DEF Stat
<1>4. CASE LinkMakes(w)
  <2> DEFINE p == worker[w].path
             k == worker[w].keeper.path
  <2>1. /\ p \in Paths /\ k \in Paths /\ home[p] = home[k]
        /\ worker[w].pc = "link" /\ file[k] # None
    BY <1>0, <1>4 DEF LinkMakes, Consistent, Worker, Member, Fitting
  <2>2. /\ \A v \in Workers \ {w} : worker'[v] = worker[v]
        /\ worker'[w] = [worker[w] EXCEPT !.pc = "replace"]
    BY <1>4 DEF LinkMakes, TypeOK
  <2>3. /\ worker'[w].pc = "replace" /\ worker'[w].rows = worker[w].rows
        /\ Fitting(home, worker'[w])
    BY <1>0, <2>1, <2>2 DEF Fitting, Worker
  <2>4. tmp' = [tmp EXCEPT ![p] = file[k]] /\ UNCHANGED <<file, content, qfile, index, groups, scan>>
    BY <1>4 DEF LinkMakes
  <2>5. \A q \in Paths : tmp'[q] # None => content[tmp'[q]] = home[q]
    BY <2>1, <2>4 DEF Fits, TypeOK
  <2>6. \A v \in Workers : worker'[v].rows = worker[v].rows /\ Fitting(home, worker'[v])
    BY <2>2, <2>3 DEF Fits
  <2>7. Rowed(home, index)' /\ \A v \in Workers : Rowed(home, worker[v].rows)'
    BY <2>4, <2>6 DEF Fits, Rowed
  <2> HIDE DEF p, k
  <2>8. \A v \in Workers :
          worker'[v].pc = "record" /\ qfile'[worker'[v].entry] # None
            => content'[qfile'[worker'[v].entry]] = home[worker'[v].path]
    BY <2>2, <2>3, <2>4 DEF Fits
  <2>9. /\ \A q \in Paths : file'[q] # None => content'[file'[q]] = home[q]
        /\ \A q \in Paths : scan'.digest[q] # None => scan'.digest[q] = home[q]
        /\ \A g \in groups' : SameHome(home, g.members)
    BY <2>4 DEF Fits
  <2>10. content' = content
    BY <2>4
  <2>11. QED  BY <2>5, <2>6, <2>7, <2>8, <2>9, <2>10 DEF Fits
<1>5. CASE LinkReplaces(w) \/ LinkFails(w) \/ MoveFails(w) \/ RecordFails(w)
  <2>1. NextTarget(w) /\ UNCHANGED <<content, qfile, index, groups, scan>>
    BY <1>5 DEF LinkReplaces, LinkFails, MoveFails, RecordFails
  <2>2. \A q \in Paths : file'[q] # None => content[file'[q]] = home[q]
    BY <1>5 DEF LinkReplaces, LinkFails, MoveFails, RecordFails, TypeOK, Fits
  <2>3. \A q \in Paths : tmp'[q] # None => content[tmp'[q]] = home[q]
    BY <1>5 DEF LinkReplaces, LinkFails, MoveFails, RecordFails, TypeOK, Fits
  <2>4. /\ \A v \in Workers \ {w} : worker'[v] = worker[v]
        /\ worker'[w].pc = "apply" /\ worker'[w].rows = worker[w].rows
        /\ Fitting(home, worker'[w])
    BY <2>1, NextTargetFits
  <2>5. \A v \in Workers : Rowed(home, worker[v].rows)' /\ Fitting(home, worker'[v])
    BY <2>1, <2>4 DEF Fits, Rowed
  <2>6. QED  BY <2>1, <2>2, <2>3, <2>4, <2>5 DEF Fits, Rowed
<1>6. CASE Moves(w)
  <2> DEFINE p == worker[w].path
  <2>1. PICK e \in Entries :
          /\ Fresh(e)
          /\ qfile' = [qfile EXCEPT ![e] = file[p]]
          /\ worker' = [worker EXCEPT ![w].pc = "record", ![w].entry = e]
    BY <1>6 DEF Moves
  <2>2. p \in Paths /\ file[p] # None
    BY <1>0, <1>6 DEF Moves, Consistent, Worker
  <2>3. /\ file' = [file EXCEPT ![p] = None]
        /\ UNCHANGED <<tmp, content, index, groups, scan>>
    BY <1>6 DEF Moves
  <2>4. /\ \A v \in Workers \ {w} : worker'[v] = worker[v]
        /\ worker'[w] = [worker[w] EXCEPT !.pc = "record", !.entry = e]
    BY <2>1 DEF TypeOK
  <2>5. /\ worker'[w].pc = "record" /\ worker'[w].entry = e /\ worker'[w].path = p
        /\ worker'[w].rows = worker[w].rows /\ Fitting(home, worker'[w])
    BY <1>0, <2>4 DEF Fitting, Worker
  <2>6. /\ qfile'[e] = file[p] /\ content[file[p]] = home[p]
        /\ \A f \in Entries \ {e} : qfile'[f] = qfile[f]
    BY <2>1, <2>2 DEF TypeOK, Fits
  <2>7. \A q \in Paths : file'[q] # None => content[file'[q]] = home[q]
    BY <2>2, <2>3 DEF TypeOK, Fits
  <2>8. /\ Rowed(home, index)'
        /\ \A v \in Workers : Rowed(home, worker[v].rows)'
    <3>1. /\ index'[e].state = "absent"
          /\ \A v \in Workers : worker'[v].rows = worker[v].rows
                                /\ worker'[v].rows[e].state = "absent"
      <4>1. NoRow.state = "absent"
        BY DEF NoRow
      <4>2. index'[e] = NoRow /\ \A v \in Workers : worker[v].rows[e] = NoRow
        BY <2>1, <2>3 DEF Fresh
      <4>3. \A v \in Workers : worker'[v].rows = worker[v].rows
        BY <2>4, <2>5
      <4>4. QED  BY <4>1, <4>2, <4>3
    <3>2. QED  BY <2>3, <2>6, <3>1 DEF Fits, Rowed
  <2>9. \A v \in Workers : worker[v].entry # e
    BY <2>1 DEF Fresh
  <2>10. ASSUME NEW v \in Workers, worker'[v].pc = "record", qfile'[worker'[v].entry] # None
         PROVE  content[qfile'[worker'[v].entry]] = home[worker'[v].path]
    <3>1. CASE v = w
      BY <2>5, <2>6, <3>1
    <3>2. CASE v # w
      <4>1. worker'[v] = worker[v] /\ worker[v].entry \in Entries
        BY <1>0, <2>4, <2>10, <3>2 DEF Consistent, TypeOK, Worker
      <4>2. qfile'[worker[v].entry] = qfile[worker[v].entry]
        BY <2>6, <2>9, <4>1
      <4>3. QED  BY <2>10, <4>1, <4>2 DEF Fits
    <3>3. QED  BY <3>1, <3>2
  <2>11. \A v \in Workers : Fitting(home, worker'[v])
    BY <2>4, <2>5 DEF Fits
  <2> HIDE DEF p
  <2>12. QED  BY <2>3, <2>7, <2>8, <2>10, <2>11 DEF Fits
<1>7. CASE Records(w)
  <2> DEFINE e == worker[w].entry
  <2>1. e \in Entries /\ worker[w].pc = "record" /\ worker[w].path \in Paths
    BY <1>0, <1>7 DEF Records, Consistent, Worker
  <2>2. /\ index'[e].original = worker[w].path
        /\ \A f \in Entries \ {e} : index'[f] = index[f]
    BY <1>7, <2>1 DEF Records, TypeOK, Rows
  <2>3. NextTarget(w) /\ UNCHANGED <<file, tmp, content, qfile, groups, scan>>
    BY <1>7 DEF Records
  <2>4. /\ \A v \in Workers \ {w} : worker'[v] = worker[v]
        /\ worker'[w].pc = "apply" /\ worker'[w].rows = worker[w].rows
        /\ Fitting(home, worker'[w])
    BY <2>3, NextTargetFits
  <2>5. Rowed(home, index)'
    BY <2>1, <2>2, <2>3 DEF Fits, Rowed
  <2>6. \A v \in Workers : Rowed(home, worker[v].rows)' /\ Fitting(home, worker'[v])
    BY <2>3, <2>4 DEF Fits, Rowed
  <2>7. QED  BY <2>3, <2>4, <2>5, <2>6 DEF Fits
<1>8. CASE ApplyEnds(w)
  <2>1. worker'[w] = Resting /\ \A v \in Workers \ {w} : worker'[v] = worker[v]
    BY <1>8 DEF ApplyEnds, TypeOK
  <2>2. Resting.pc = "idle" /\ \A e \in Entries : Resting.rows[e] = NoRow
    BY DEF Resting
  <2>3. QED  BY <1>8, <2>1, <2>2, RestingFits, FitsOn DEF ApplyEnds
<1>9. QED
  BY <1>1, <1>2, <1>3, <1>4, <1>5, <1>6, <1>7, <1>8 DEF Apply

\* The thread resolves one row, whose file has left the quarantine.
LEMMA FitsResolved ==
    ASSUME TypeOK, NEW home \in [Paths -> Contents], Fits(home), NEW w \in Workers,
           NEW e \in Entries,
           qfile' = [qfile EXCEPT ![e] = None],
           UNCHANGED <<tmp, content, index, groups, scan>>,
           \A p \in Paths : file'[p] # None => content[file'[p]] = home[p],
           \A v \in Workers \ {w} : worker'[v] = worker[v],
           worker'[w].pc # "record",
           \A f \in Entries \ {e} : worker'[w].rows[f] = worker[w].rows[f],
           Fitting(home, worker'[w])
    PROVE  Fits(home)'
<1>1. qfile'[e] = None /\ \A f \in Entries \ {e} : qfile'[f] = qfile[f]
  BY DEF TypeOK
<1>2. Rowed(home, index)' /\ \A v \in Workers : Rowed(home, worker[v].rows)'
  BY <1>1 DEF Fits, Rowed
<1>3. \A v \in Workers : Fitting(home, worker'[v])
  BY DEF Fits
<1>4. ASSUME NEW v \in Workers, worker'[v].pc = "record", qfile'[worker'[v].entry] # None
      PROVE  content[qfile'[worker'[v].entry]] = home[worker'[v].path]
  <2>1. worker'[v] = worker[v] /\ worker[v].entry \in Entries
    BY <1>4 DEF TypeOK, Consistent, Worker
  <2>2. qfile'[worker[v].entry] = qfile[worker[v].entry]
    BY <1>1, <1>4, <2>1
  <2>3. QED  BY <1>4, <2>1, <2>2 DEF Fits
<1>5. QED  BY <1>2, <1>3, <1>4 DEF Fits

LEMMA QuarantineFits ==
    ASSUME TypeOK, NEW home \in [Paths -> Contents], Fits(home), NEW w \in Workers, Quarantine(w)
    PROVE  Fits(home)'
<1> USE DEF disk, history
<1>0. /\ worker[w] \in Worker /\ Consistent(worker[w]) /\ Fitting(home, worker[w])
      /\ worker[w].rows \in Rows /\ worker[w].rows \in [Entries -> Row]
  BY DEF TypeOK, Fits, Worker, Rows
<1>1. ASSUME NEW kind \in {"restore", "purge"}, Reads(w, kind)
      PROVE  Fits(home)'
  <2>1. PICK ids \in SUBSET {e \in Entries : index[e].state = "quarantined"} :
          worker' = [worker EXCEPT ![w] =
                      [Resting EXCEPT !.pc = kind, !.rows = index, !.wanted = ids]]
    BY <1>1 DEF Reads
  <2> DEFINE new == [Resting EXCEPT !.pc = kind, !.rows = index, !.wanted = ids]
  <2>2. Fitting(home, new) /\ new.pc = kind /\ new.rows = index
    BY DEF Fitting, Resting
  <2>3. worker' = [worker EXCEPT ![w] = new]
    BY <2>1
  <2> HIDE DEF new
  <2>4. worker'[w] = new /\ \A v \in Workers \ {w} : worker'[v] = worker[v]
    BY <2>3 DEF TypeOK
  <2>5. QED  BY <1>1, <2>2, <2>4, FitsOn DEF Reads
<1>2. CASE RestoreChecks(w) \/ PutBackFails(w) \/ PurgeFails(w)
  <2>1. /\ \A v \in Workers \ {w} : worker'[v] = worker[v]
        /\ worker'[w].pc \in {"restore", "putback", "purge"}
        /\ worker'[w].rows = worker[w].rows /\ worker'[w].groups = worker[w].groups
        /\ worker'[w].todo = worker[w].todo /\ worker'[w].keeper = worker[w].keeper
    <3>1. CASE RestoreChecks(w)
      BY <3>1 DEF RestoreChecks, TypeOK, Worker
    <3>2. CASE PutBackFails(w)
      BY <3>2 DEF PutBackFails, TypeOK, Worker
    <3>3. CASE PurgeFails(w)
      BY <3>3 DEF PurgeFails, TypeOK, Worker
    <3>4. QED  BY <1>2, <3>1, <3>2, <3>3
  <2>2. Fitting(home, worker'[w])
    BY <1>0, <2>1 DEF Fitting
  <2>3. QED
    BY <1>2, <2>1, <2>2, FitsOn DEF RestoreChecks, PutBackFails, PurgeFails
<1>3. CASE PutsBack(w)
  <2> DEFINE e == worker[w].entry
             p == worker[w].rows[e].original
  <2>1. e \in Entries /\ p \in Paths /\ worker[w].rows[e].state # "absent"
    BY <1>0, <1>3 DEF PutsBack, Consistent, Worker, Rows, Row
  <2>2. /\ qfile[e] # None
        /\ file' = [file EXCEPT ![p] = qfile[e]]
        /\ qfile' = [qfile EXCEPT ![e] = None]
        /\ UNCHANGED <<tmp, content, index, groups, scan>>
    BY <1>3 DEF PutsBack
  <2>3. content[qfile[e]] = home[p]
    BY <2>1, <2>2 DEF Fits, Rowed
  <2>4. \A q \in Paths : file'[q] # None => content[file'[q]] = home[q]
    BY <2>1, <2>2, <2>3 DEF TypeOK, Fits
  <2>5. worker' = [worker EXCEPT ![w].pc = "restore", ![w].entry = None,
                                 ![w].rows = [@ EXCEPT ![e].state = "restored"], ![w].changed = TRUE]
    BY <1>3 DEF PutsBack
  <2>6. /\ \A v \in Workers \ {w} : worker'[v] = worker[v]
        /\ worker'[w].pc = "restore" /\ worker'[w].groups = worker[w].groups
        /\ worker'[w].todo = worker[w].todo /\ worker'[w].keeper = worker[w].keeper
        /\ \A f \in Entries \ {e} : worker'[w].rows[f] = worker[w].rows[f]
    BY <1>0, <2>1, <2>5 DEF TypeOK, Worker
  <2>7. Fitting(home, worker'[w])
    BY <1>0, <2>6 DEF Fitting
  <2> HIDE DEF e, p
  <2>8. QED  BY <2>1, <2>2, <2>4, <2>6, <2>7, FitsResolved
<1>4. CASE Purges(w)
  <2>1. PICK e \in worker[w].wanted :
          /\ qfile' = [qfile EXCEPT ![e] = None]
          /\ worker' = [worker EXCEPT ![w].wanted = @ \ {e},
                                      ![w].rows = [@ EXCEPT ![e].state = "purged"],
                                      ![w].changed = TRUE]
    BY <1>4 DEF Purges
  <2>2. e \in Entries /\ worker[w].pc = "purge" /\ UNCHANGED <<file, tmp, content, index, groups, scan>>
    BY <1>0, <1>4 DEF Purges, Worker
  <2>3. /\ \A v \in Workers \ {w} : worker'[v] = worker[v]
        /\ worker'[w].pc = "purge" /\ worker'[w].groups = worker[w].groups
        /\ worker'[w].todo = worker[w].todo /\ worker'[w].keeper = worker[w].keeper
        /\ \A f \in Entries \ {e} : worker'[w].rows[f] = worker[w].rows[f]
    BY <1>0, <2>1, <2>2 DEF TypeOK, Worker
  <2>4. Fitting(home, worker'[w])
    BY <1>0, <2>3 DEF Fitting
  <2>5. \A q \in Paths : file'[q] # None => content[file'[q]] = home[q]
    BY <2>2 DEF Fits
  <2>6. QED  BY <2>1, <2>2, <2>3, <2>4, <2>5, FitsResolved
<1>5. CASE Writes(w) \/ WriteFails(w)
  <2>1. /\ UNCHANGED <<file, tmp, content, qfile, scan>>
        /\ index' \in {index, worker[w].rows} /\ groups' \in {groups, {}}
        /\ worker'[w] = Resting /\ \A v \in Workers \ {w} : worker'[v] = worker[v]
    BY <1>5 DEF Writes, WriteFails, TypeOK
  <2>2. Resting.pc = "idle" /\ \A e \in Entries : Resting.rows[e] = NoRow
    BY DEF Resting
  <2>3. Rowed(home, index)'
    BY <2>1 DEF Fits, Rowed
  <2>4. Rowed(home, Resting.rows)
    BY <2>2 DEF Rowed, NoRow
  <2>5. \A v \in Workers : Rowed(home, worker[v].rows)' /\ Fitting(home, worker'[v])
    BY <2>1, <2>4, RestingFits DEF Fits, Rowed
  <2>6. QED  BY <2>1, <2>2, <2>3, <2>5 DEF Fits
<1>6. QED
  BY <1>1, <1>2, <1>3, <1>4, <1>5 DEF Quarantine, RestoreStarts, PurgeStarts

\* Removing a file, and a crash, leave nothing where it does not belong.
LEMMA OthersFit ==
    ASSUME TypeOK, NEW home \in [Paths -> Contents], Fits(home),
           Restart \/ \E p \in Paths : Removed(p)
    PROVE  Fits(home)'
<1>1. CASE Restart
  <2>1. /\ UNCHANGED <<file, tmp, content, qfile, index>>
        /\ groups' = {} /\ scan' = NoScan /\ \A v \in Workers : worker'[v] = Resting
    BY <1>1 DEF Restart, disk
  <2>2. /\ Resting.pc = "idle" /\ \A e \in Entries : Resting.rows[e].state = "absent"
        /\ \A p \in Paths : NoScan.digest[p] = None
    BY DEF Resting, NoRow, NoScan
  <2>3. Rowed(home, index)' /\ \A v \in Workers : Rowed(home, worker[v].rows)'
    BY <2>1, <2>2 DEF Fits, Rowed
  <2>4. \A v \in Workers : Fitting(home, worker'[v])
    BY <2>1, RestingFits
  <2>5. QED  BY <2>1, <2>2, <2>3, <2>4 DEF Fits
<1>2. ASSUME NEW p \in Paths, Removed(p)
      PROVE  Fits(home)'
  BY <1>2 DEF Removed, Fits, Rowed, TypeOK
<1>3. QED  BY <1>1, <1>2

\* Only other programs count as changes, one at a time.
LEMMA ChangesCounted ==
    ASSUME TypeOK, [Next]_vars
    PROVE  /\ changes \in Nat
           /\ Others => changes' = changes + 1
           /\ ~Others => changes' = changes
<1>1. changes \in Nat
  BY DEF TypeOK
<1>2. ASSUME Others
      PROVE  changes' = changes + 1
  BY <1>2 DEF Others, Rewritten, Replaced, Removed, Changed
<1>3. ASSUME ~Others
      PROVE  changes' = changes
  BY <1>3 DEF Next, ScanSteps, ScanStarts, ScanIndexes, ScanHashes, ScanEnds, ScanCancelled,
        ScanFails, Apply, ApplyStarts, Request, Stat, LinkMakes, LinkReplaces, LinkFails,
        Moves, MoveFails, Records, RecordFails, ApplyEnds, Quarantine, RestoreStarts,
        PurgeStarts, Reads, RestoreChecks, PutsBack, PutBackFails, Purges, PurgeFails,
        Writes, WriteFails, Restart, disk, history, vars
<1>4. QED  BY <1>1, <1>2, <1>3

\* Nobody else has written files or put them in place.
Undisturbed == changes = 0 \/ Changes \subseteq {"remove"}
Settling == Undisturbed => \E home \in [Paths -> Contents] : Fits(home)

LEMMA SettlingHolds == Spec => []Settling
<1>1. Init => Settling
  <2> SUFFICES ASSUME Init PROVE \E home \in [Paths -> Contents] : Fits(home)
    BY DEF Settling
  <2> DEFINE home == [p \in Paths |-> IF file[p] = None THEN Same ELSE content[file[p]]]
  <2>1. home \in [Paths -> Contents]
    BY DEF Init, Contents, Slots
  <2>2. \A p \in Paths : file[p] # None => home[p] = content[file[p]]
    OBVIOUS
  <2> HIDE DEF home
  <2>3. /\ Resting.pc = "idle" /\ \A e \in Entries : Resting.rows[e].state = "absent"
        /\ \A p \in Paths : NoScan.digest[p] = None
    BY DEF Resting, NoRow, NoScan
  <2>4. Rowed(home, index) /\ \A v \in Workers : Rowed(home, worker[v].rows)
    BY <2>3 DEF Init, Rowed, NoRow
  <2>5. Fits(home)
    BY <2>2, <2>3, <2>4, RestingFits DEF Init, Fits
  <2>6. QED  BY <2>1, <2>5
<1>2. TypeOK /\ Settling /\ [Next]_vars => Settling'
  <2> SUFFICES ASSUME TypeOK, Settling, [Next]_vars, Undisturbed'
               PROVE  \E home \in [Paths -> Contents] : Fits(home)'
    BY DEF Settling
  <2>1. Undisturbed
    BY ChangesCounted DEF Undisturbed
  <2>2. Others => \E p \in Paths : Removed(p)
    BY ChangesCounted DEF Undisturbed, Others, Rewritten, Replaced, Removed, Changed
  <2>3. PICK home \in [Paths -> Contents] : Fits(home)
    BY <2>1 DEF Settling
  <2>4. CASE UNCHANGED vars
    BY <2>3, <2>4 DEF vars, Fits, Rowed
  <2>5. CASE Next
    BY <2>2, <2>3, <2>5, ScanFits, ApplyFits, QuarantineFits, OthersFit DEF Next
  <2>6. QED  BY <2>4, <2>5
<1>3. QED  BY <1>1, <1>2, ReclaimTypeCorrect, PTL DEF Spec

\* A content that a path or an entry had is still somewhere when the files of
\* the paths, and of all entries but those whose file moved to a path, remain.
LEMMA NothingLost ==
    ASSUME TypeOK, NEW home \in [Paths -> Contents], Fits(home), Fits(home)',
           content' = content,
           \A p \in Paths : file[p] # None =>
              file'[p] # None \/ \E e \in Entries : qfile'[e] = file[p],
           \A e \in Entries : qfile[e] # None =>
              qfile'[e] = qfile[e] \/ \E p \in Paths : file'[p] = qfile[e],
           NEW c, OnDisk(c)
    PROVE  OnDisk(c)'
<1>1. CASE \E p \in Paths : file[p] # None /\ content[file[p]] = c
  BY <1>1 DEF OnDisk, Fits
<1>2. CASE \E e \in Entries : qfile[e] # None /\ content[qfile[e]] = c
  BY <1>2 DEF OnDisk
<1>3. QED  BY <1>1, <1>2 DEF OnDisk

\* Requests at once, crashes at any point, index writes that fail and files that
\* are removed by others take no content off the disk: only a purge does.  (A
\* file that another program writes in place, or puts where one is about to be
\* restored, can be lost: the path is looked at first and replaced later.)
THEOREM ContentStays ==
    ASSUME Changes \subseteq {"remove"}
    PROVE  Spec => NothingDestroyed
<1> DEFINE Step == \/ changes' # changes
                   \/ \E w \in Workers : Purges(w)
                   \/ \A c \in Contents : OnDisk(c) => OnDisk(c)'
<1>1. TypeOK /\ Settling /\ [Next]_vars => [Step]_vars
  <2> SUFFICES ASSUME TypeOK, Settling, Next, changes' = changes,
                      ~\E w \in Workers : Purges(w),
                      NEW c \in Contents, OnDisk(c)
               PROVE  OnDisk(c)'
    OBVIOUS
  <2> USE DEF disk
  <2>1. PICK home \in [Paths -> Contents] : Fits(home)
    BY DEF Settling, Undisturbed
  <2>2. ~Others
    BY ChangesCounted
  <2>3. Fits(home)'
    BY <2>1, <2>2, ScanFits, ApplyFits, QuarantineFits, OthersFit DEF Next
  <2>4. CASE UNCHANGED <<file, content, qfile>>
    BY <2>4 DEF OnDisk
  <2>5. ASSUME NEW w \in Workers, LinkReplaces(w) \/ Moves(w) \/ PutsBack(w)
        PROVE  OnDisk(c)'
    <3>0. Consistent(worker[w]) /\ worker[w] \in Worker
      BY DEF TypeOK
    <3>1. CASE LinkReplaces(w)
      <4>1. worker[w].path \in Paths
        BY <3>0, <3>1 DEF LinkReplaces, Consistent, Worker
      <4>2. \A p \in Paths : file[p] # None => file'[p] # None
        BY <3>1, <4>1 DEF LinkReplaces, TypeOK
      <4>3. QED  BY <2>1, <2>3, <3>1, <4>2, NothingLost DEF LinkReplaces
    <3>2. CASE Moves(w)
      <4> DEFINE p == worker[w].path
      <4>1. PICK e \in Entries : Fresh(e) /\ qfile' = [qfile EXCEPT ![e] = file[p]]
        BY <3>2 DEF Moves
      <4>2. p \in Paths /\ file' = [file EXCEPT ![p] = None] /\ content' = content
        BY <3>0, <3>2 DEF Moves, Consistent, Worker
      <4>3. qfile'[e] = file[p] /\ \A f \in Entries : qfile[f] # None => qfile'[f] = qfile[f]
        BY <4>1 DEF Fresh, TypeOK
      <4>4. \A q \in Paths : q # p => file'[q] = file[q]
        BY <4>2 DEF TypeOK
      <4> HIDE DEF p
      <4>5. QED  BY <2>1, <2>3, <4>2, <4>3, <4>4, NothingLost
    <3>3. CASE PutsBack(w)
      <4> DEFINE e == worker[w].entry
                 p == worker[w].rows[e].original
      <4>1. e \in Entries /\ p \in Paths
        BY <3>0, <3>3 DEF PutsBack, Consistent, Worker, Rows, Row
      <4>2. /\ qfile[e] # None /\ content' = content
            /\ file' = [file EXCEPT ![p] = qfile[e]]
            /\ qfile' = [qfile EXCEPT ![e] = None]
        BY <3>3 DEF PutsBack
      <4>3. file'[p] = qfile[e] /\ \A q \in Paths : q # p => file'[q] = file[q]
        BY <4>1, <4>2 DEF TypeOK
      <4>4. \A f \in Entries : f # e => qfile'[f] = qfile[f]
        BY <4>1, <4>2 DEF TypeOK
      <4> HIDE DEF e, p
      <4>5. QED  BY <2>1, <2>3, <4>1, <4>2, <4>3, <4>4, NothingLost
    <3>4. QED  BY <2>5, <3>1, <3>2, <3>3
  <2>6. CASE ScanSteps \/ Restart
    BY <2>4, <2>6 DEF ScanSteps, ScanStarts, ScanIndexes, ScanHashes, ScanEnds, ScanCancelled,
                      ScanFails, Restart
  <2>7. ASSUME NEW w \in Workers, Apply(w)
        PROVE  OnDisk(c)'
    BY <2>4, <2>5, <2>7 DEF Apply, ApplyStarts, Request, Stat, LinkMakes, LinkFails,
                            MoveFails, Records, RecordFails, ApplyEnds
  <2>8. ASSUME NEW w \in Workers, Quarantine(w)
        PROVE  OnDisk(c)'
    BY <2>4, <2>5, <2>8 DEF Quarantine, RestoreStarts, PurgeStarts, Reads, RestoreChecks,
                            PutBackFails, PurgeFails, Writes, WriteFails
  <2>9. QED  BY <2>2, <2>6, <2>7, <2>8 DEF Next
<1>2. QED  BY <1>1, ReclaimTypeCorrect, SettlingHolds, PTL DEF Spec, NothingDestroyed

(***************************************************************************)
(* The promise.  Requests that do not overlap find the files, until they   *)
(* are done, as they found them when they looked: a reclaim its keeper and *)
(* the copy, a restore the free path.  So another copy stays when one goes *)
(* to the quarantine, and none is lost when one comes back.                *)
(***************************************************************************)

OneAtATime ==
    \A v, w \in Workers : worker[v].pc # "idle" /\ worker[w].pc # "idle" => v = w

Ready(r) ==
    /\ r.todo # {} \/ r.pc \in {"link", "replace", "move"} => file[r.keeper.path] # None
    /\ \A x \in r.todo : x.path # r.keeper.path
    /\ r.pc \in {"link", "replace", "move"} => r.path # r.keeper.path
    /\ r.pc \in {"link", "replace"} => file[r.path] # None
    /\ r.pc = "putback" => file[r.rows[r.entry].original] = None
    /\ r.pc \in {"idle", "restore", "putback", "purge"} => r.todo = {}

Watchful == changes = 0 => \A w \in Workers : Ready(worker[w])

LEMMA RestingReady == Ready(Resting) /\ Ready(Resting)'
BY DEF Ready, Resting

\* A step of one request: all others rest, and find nothing amiss.
LEMMA OthersReady ==
    ASSUME TypeOK, \A w \in Workers : Ready(worker[w]), NEW w \in Workers,
           \A v \in Workers \ {w} : worker'[v] = worker[v],
           OneAtATime, OneAtATime', worker[w].pc # "idle" \/ worker'[w].pc # "idle",
           Ready(worker[w])'
    PROVE  \A v \in Workers : Ready(worker[v])'
<1>1. \A v \in Workers \ {w} : worker[v].pc = "idle" /\ worker[v].todo = {}
  BY DEF OneAtATime, Ready
<1>2. \A v \in Workers \ {w} : Ready(worker[v])'
  BY <1>1 DEF Ready
<1>3. QED  BY <1>2

LEMMA ApplyReady ==
    ASSUME TypeOK, \A w \in Workers : Ready(worker[w]), OneAtATime, OneAtATime',
           NEW w \in Workers, Apply(w)
    PROVE  \A v \in Workers : Ready(worker[v])'
<1> USE DEF disk, history
<1>0. /\ worker[w] \in Worker /\ Consistent(worker[w]) /\ Ready(worker[w])
  BY DEF TypeOK
<1>1. CASE ApplyStarts(w)
  <2> DEFINE new == [Resting EXCEPT !.pc = "apply", !.groups = groups]
  <2>1. new.pc = "apply" /\ new.todo = {}
    BY DEF Resting
  <2>2. worker' = [worker EXCEPT ![w] = new]
    BY <1>1 DEF ApplyStarts
  <2> HIDE DEF new
  <2>3. worker'[w] = new /\ \A v \in Workers \ {w} : worker'[v] = worker[v]
    BY <2>2 DEF TypeOK
  <2>4. Ready(worker[w])'
    BY <2>1, <2>3 DEF Ready
  <2>5. QED  BY <2>1, <2>3, <2>4, OthersReady
<1>2. CASE Request(w)
  <2>1. PICK keeper \in Member, todo \in SUBSET Target :
          /\ worker' = [worker EXCEPT ![w].keeper = keeper, ![w].todo = todo]
          /\ KeeperIntact(keeper)
          /\ \A x \in todo : Removable(x.path, keeper)
          /\ \E g \in worker[w].groups :
                /\ keeper \in g.members
                /\ \A x \in todo : \E m \in g.members : m.path = x.path
    BY <1>2, Requested
  <2>2. /\ \A v \in Workers \ {w} : worker'[v] = worker[v]
        /\ worker'[w].pc = "apply" /\ worker'[w].todo = todo /\ worker'[w].keeper = keeper
    BY <1>2, <2>1 DEF Request, TypeOK, Worker
  <2>3. file' = file /\ file[keeper.path] # None
    BY <1>2, <2>1, ReclaimAssumption DEF Request, KeeperIntact, Member
  <2>4. Ready(worker[w])'
    BY <2>1, <2>2, <2>3 DEF Ready, Removable
  <2>5. QED  BY <2>2, <2>4, OthersReady
<1>3. CASE Stat(w)
  <2>1. PICK x \in worker[w].todo :
          LET skipped == \/ file[x.path] # x.ino
                         \/ x.action = "link" /\ x.ino = worker[w].keeper.ino
          IN  worker' = [worker EXCEPT
                ![w].todo = @ \ {x},
                ![w].path = IF skipped THEN None ELSE x.path,
                ![w].pc = IF skipped THEN "apply"
                          ELSE IF x.action = "link" THEN "link" ELSE "move"]
    BY <1>3 DEF Stat
  <2>2. PICK path \in {None, x.path}, pc \in {"apply", "link", "move"} :
          /\ worker' = [worker EXCEPT ![w].todo = @ \ {x}, ![w].path = path, ![w].pc = pc]
          /\ pc # "apply" => path = x.path /\ file[x.path] = x.ino
    BY <2>1
  <2>3. /\ \A v \in Workers \ {w} : worker'[v] = worker[v]
        /\ worker'[w].pc = pc /\ worker'[w].path = path
        /\ worker'[w].todo \subseteq worker[w].todo /\ worker'[w].keeper = worker[w].keeper
    BY <2>2 DEF TypeOK, Worker
  <2>4. /\ file' = file
        /\ pc # "apply" => path = x.path /\ file[path] # None
    BY <1>0, <1>3, <2>2, ReclaimAssumption DEF Stat, Worker, Target
  <2>5. file[worker[w].keeper.path] # None /\ x.path # worker[w].keeper.path
    BY <1>0 DEF Ready
  <2>6. \A y \in worker'[w].todo : y.path # worker[w].keeper.path
    BY <1>0, <2>3 DEF Ready
  <2>7. Ready(worker[w])'
    BY <2>3, <2>4, <2>5, <2>6 DEF Ready
  <2>8. worker[w].pc = "apply"
    BY <1>3 DEF Stat
  <2>9. QED  BY <2>3, <2>7, <2>8, OthersReady
<1>4. CASE LinkMakes(w)
  <2>1. /\ worker[w].pc = "link" /\ file' = file
        /\ \A v \in Workers \ {w} : worker'[v] = worker[v]
        /\ worker'[w] = [worker[w] EXCEPT !.pc = "replace"]
    BY <1>4 DEF LinkMakes, TypeOK
  <2>2. /\ worker'[w].pc = "replace" /\ worker'[w].path = worker[w].path
        /\ worker'[w].todo = worker[w].todo /\ worker'[w].keeper = worker[w].keeper
    BY <1>0, <2>1 DEF Worker
  <2>3. Ready(worker[w])'
    BY <1>0, <2>1, <2>2 DEF Ready
  <2>4. QED  BY <2>1, <2>3, OthersReady
<1>5. CASE NextTarget(w) /\ worker[w].pc # "idle" /\ \A p \in Paths : file[p] # None => file'[p] # None
  <2>1. /\ \A v \in Workers \ {w} : worker'[v] = worker[v]
        /\ worker'[w].pc = "apply"
        /\ worker'[w].todo = worker[w].todo /\ worker'[w].keeper = worker[w].keeper
    BY <1>5 DEF NextTarget, TypeOK, Worker
  <2>2. worker[w].todo # {} => worker[w].keeper.path \in Paths
    BY <1>0 DEF Consistent, Member
  <2>3. Ready(worker[w])'
    BY <1>0, <1>5, <2>1, <2>2 DEF Ready
  <2>4. QED  BY <1>5, <2>1, <2>3, OthersReady
<1>6. CASE LinkReplaces(w)
  <2>1. \A p \in Paths : file[p] # None => file'[p] # None
    BY <1>6 DEF LinkReplaces, TypeOK
  <2>2. QED  BY <1>5, <1>6, <2>1 DEF LinkReplaces
<1>7. CASE LinkFails(w) \/ MoveFails(w) \/ Records(w) \/ RecordFails(w)
  BY <1>5, <1>7 DEF LinkFails, MoveFails, Records, RecordFails
<1>8. CASE Moves(w)
  <2> DEFINE p == worker[w].path
             k == worker[w].keeper.path
  <2>1. /\ worker[w].pc = "move" /\ file' = [file EXCEPT ![p] = None]
        /\ \E e \in Entries : worker' = [worker EXCEPT ![w].pc = "record", ![w].entry = e]
    BY <1>8 DEF Moves
  <2>2. PICK e \in Entries : worker' = [worker EXCEPT ![w].pc = "record", ![w].entry = e]
    BY <2>1
  <2>3. /\ \A v \in Workers \ {w} : worker'[v] = worker[v]
        /\ worker'[w].pc = "record"
        /\ worker'[w].todo = worker[w].todo /\ worker'[w].keeper = worker[w].keeper
    BY <2>2 DEF TypeOK, Worker
  <2>4. k \in Paths /\ k # p /\ file[k] # None
    BY <1>0, <2>1 DEF Consistent, Member, Ready
  <2>5. file'[k] # None
    BY <2>1, <2>4 DEF TypeOK
  <2>6. Ready(worker[w])'
    BY <1>0, <2>3, <2>5 DEF Ready
  <2> HIDE DEF p, k
  <2>7. QED  BY <2>1, <2>3, <2>6, OthersReady
<1>9. CASE ApplyEnds(w)
  <2>1. /\ worker'[w] = Resting /\ \A v \in Workers \ {w} : worker'[v] = worker[v]
        /\ worker[w].pc = "apply"
    BY <1>9 DEF ApplyEnds, TypeOK
  <2>2. QED  BY <2>1, RestingReady, OthersReady DEF Ready
<1>10. QED
  BY <1>1, <1>2, <1>3, <1>4, <1>6, <1>7, <1>8, <1>9 DEF Apply

LEMMA QuarantineReady ==
    ASSUME TypeOK, \A w \in Workers : Ready(worker[w]), OneAtATime, OneAtATime',
           NEW w \in Workers, Quarantine(w)
    PROVE  \A v \in Workers : Ready(worker[v])'
<1> USE DEF disk, history
<1>0. /\ worker[w] \in Worker /\ Consistent(worker[w]) /\ Ready(worker[w])
      /\ worker[w].rows \in Rows /\ worker[w].rows \in [Entries -> Row]
  BY DEF TypeOK, Worker, Rows
<1>1. ASSUME NEW kind \in {"restore", "purge"}, Reads(w, kind)
      PROVE  \A v \in Workers : Ready(worker[v])'
  <2>1. PICK ids \in SUBSET {e \in Entries : index[e].state = "quarantined"} :
          worker' = [worker EXCEPT ![w] =
                      [Resting EXCEPT !.pc = kind, !.rows = index, !.wanted = ids]]
    BY <1>1 DEF Reads
  <2> DEFINE new == [Resting EXCEPT !.pc = kind, !.rows = index, !.wanted = ids]
  <2>2. new.pc = kind /\ new.todo = {}
    BY DEF Resting
  <2>3. worker' = [worker EXCEPT ![w] = new]
    BY <2>1
  <2> HIDE DEF new
  <2>4. worker'[w] = new /\ \A v \in Workers \ {w} : worker'[v] = worker[v]
    BY <2>3 DEF TypeOK
  <2>5. Ready(worker[w])'
    BY <2>2, <2>4 DEF Ready
  <2>6. QED  BY <2>2, <2>4, <2>5, OthersReady
<1>2. CASE RestoreChecks(w)
  <2>1. PICK e \in worker[w].wanted :
          worker' = [worker EXCEPT
            ![w].wanted = @ \ {e},
            ![w].entry = IF Restorable(w, e) THEN e ELSE None,
            ![w].pc = IF Restorable(w, e) THEN "putback" ELSE "restore"]
    BY <1>2 DEF RestoreChecks
  <2>2. PICK entry \in {None, e}, pc \in {"putback", "restore"} :
          /\ worker' = [worker EXCEPT ![w].wanted = @ \ {e}, ![w].entry = entry, ![w].pc = pc]
          /\ pc = "putback" => entry = e /\ Restorable(w, e)
    BY <2>1
  <2>3. /\ \A v \in Workers \ {w} : worker'[v] = worker[v]
        /\ worker'[w].pc = pc /\ worker'[w].entry = entry
        /\ worker'[w].rows = worker[w].rows /\ worker'[w].todo = worker[w].todo
    BY <2>2 DEF TypeOK, Worker
  <2>4. worker[w].pc = "restore" /\ file' = file
    BY <1>2 DEF RestoreChecks
  <2>5. Ready(worker[w])'
    BY <1>0, <2>2, <2>3, <2>4 DEF Ready, Restorable
  <2>6. QED  BY <2>3, <2>4, <2>5, OthersReady
<1>3. ASSUME worker[w].pc \in {"restore", "putback", "purge"},
             \A v \in Workers \ {w} : worker'[v] = worker[v],
             worker'[w].pc \in {"restore", "purge"}, worker'[w].todo = worker[w].todo
      PROVE  \A v \in Workers : Ready(worker[v])'
  <2>1. Ready(worker[w])'
    BY <1>0, <1>3 DEF Ready
  <2>2. QED  BY <1>3, <2>1, OthersReady
<1>4. CASE PutBackFails(w) \/ PurgeFails(w)
  BY <1>3, <1>4 DEF PutBackFails, PurgeFails, TypeOK, Worker
<1>5. CASE PutsBack(w)
  <2> DEFINE e == worker[w].entry
  <2>1. e \in Entries /\ worker[w].pc = "putback"
    BY <1>0, <1>5 DEF PutsBack, Consistent, Worker
  <2>2. worker' = [worker EXCEPT ![w].pc = "restore", ![w].entry = None,
                                 ![w].rows = [@ EXCEPT ![e].state = "restored"], ![w].changed = TRUE]
    BY <1>5 DEF PutsBack
  <2>3. /\ \A v \in Workers \ {w} : worker'[v] = worker[v]
        /\ worker'[w].pc = "restore" /\ worker'[w].todo = worker[w].todo
    BY <1>0, <2>1, <2>2 DEF TypeOK, Worker
  <2>4. QED  BY <1>3, <2>1, <2>3
<1>6. CASE Purges(w)
  <2>1. PICK e \in worker[w].wanted :
          worker' = [worker EXCEPT ![w].wanted = @ \ {e},
                                   ![w].rows = [@ EXCEPT ![e].state = "purged"],
                                   ![w].changed = TRUE]
    BY <1>6 DEF Purges
  <2>2. /\ \A v \in Workers \ {w} : worker'[v] = worker[v]
        /\ worker'[w].pc = "purge" /\ worker'[w].todo = worker[w].todo
    BY <1>0, <1>6, <2>1 DEF TypeOK, Worker, Purges
  <2>3. worker[w].pc = "purge"
    BY <1>6 DEF Purges
  <2>4. QED  BY <1>3, <2>2, <2>3
<1>7. CASE Writes(w) \/ WriteFails(w)
  <2>1. /\ worker'[w] = Resting /\ \A v \in Workers \ {w} : worker'[v] = worker[v]
        /\ worker[w].pc \in {"restore", "purge"}
    BY <1>7 DEF Writes, WriteFails, TypeOK
  <2>2. QED  BY <2>1, RestingReady, OthersReady DEF Ready
<1>8. QED
  BY <1>1, <1>2, <1>4, <1>5, <1>6, <1>7 DEF Quarantine, RestoreStarts, PurgeStarts

LEMMA WatchfulHolds == Spec /\ []OneAtATime => []Watchful
<1>1. Init => Watchful
  BY RestingReady DEF Init, Watchful
<1>2. TypeOK /\ Watchful /\ OneAtATime /\ OneAtATime' /\ [Next]_vars => Watchful'
  <2> SUFFICES ASSUME TypeOK, Watchful, OneAtATime, OneAtATime', [Next]_vars, changes' = 0
               PROVE  \A w \in Workers : Ready(worker[w])'
    BY DEF Watchful
  <2>1. ~Others
    BY ChangesCounted
  <2>2. changes = 0
    BY ChangesCounted
  <2>3. \A w \in Workers : Ready(worker[w])
    BY <2>2 DEF Watchful
  <2>4. CASE ScanSteps \/ UNCHANGED vars
    <3>1. UNCHANGED <<file, worker>>
      BY <2>4 DEF ScanSteps, ScanStarts, ScanIndexes, ScanHashes, ScanEnds, ScanCancelled,
                  ScanFails, disk, vars
    <3>2. QED  BY <2>3, <3>1 DEF Ready
  <2>5. CASE Restart
    <3>1. \A w \in Workers : worker'[w] = Resting
      BY <2>5 DEF Restart
    <3>2. QED  BY <3>1, RestingReady DEF Ready
  <2>6. ASSUME NEW w \in Workers, Apply(w) \/ Quarantine(w)
        PROVE  \A v \in Workers : Ready(worker[v])'
    BY <2>3, <2>6, ApplyReady, QuarantineReady
  <2>7. QED  BY <2>1, <2>4, <2>5, <2>6 DEF Next
<1>3. QED  BY <1>1, <1>2, ReclaimTypeCorrect, PTL DEF Spec

\* What one step does to the copies, while nobody else touches the files.
LEMMA StepKeepsPromise ==
    ASSUME TypeOK, Settling, Watchful, [Next]_vars, changes = 0, changes' = 0
    PROVE  Promise!Quarantine \/ Promise!Restore \/ Promise!Purge \/ UNCHANGED <<Live, Held>>
<1> USE DEF disk
<1>1. ~Others
  BY ChangesCounted
<1>2. PICK home \in [Paths -> Contents] : Fits(home)
  BY DEF Settling, Undisturbed
<1>3. ASSUME UNCHANGED <<file, content, qfile>>
      PROVE  UNCHANGED <<Live, Held>>
  BY <1>3 DEF Live, Held, Holds
<1>4. CASE ScanSteps \/ Restart \/ UNCHANGED vars
  BY <1>3, <1>4 DEF ScanSteps, ScanStarts, ScanIndexes, ScanHashes, ScanEnds, ScanCancelled,
                    ScanFails, Restart, vars
<1>5. ASSUME NEW w \in Workers, LinkReplaces(w)
      PROVE  UNCHANGED <<Live, Held>>
  <2> DEFINE p == worker[w].path
  <2>1. p \in Paths /\ file[p] # None
    BY <1>5 DEF LinkReplaces, Watchful, Ready, TypeOK, Consistent, Worker
  <2>2. /\ file' = [file EXCEPT ![p] = tmp[p]] /\ tmp[p] # None
        /\ UNCHANGED <<content, qfile>>
    BY <1>5 DEF LinkReplaces
  <2>3. content[file[p]] = content[tmp[p]]
    BY <1>2, <2>1, <2>2 DEF Fits
  <2>4. \A q \in Paths : Holds(file[q])' <=> Holds(file[q])
    BY <2>1, <2>2, <2>3 DEF Holds, TypeOK
  <2>5. QED  BY <2>2, <2>4 DEF Live, Held, Holds
<1>6. ASSUME NEW w \in Workers, Moves(w)
      PROVE  Promise!Quarantine \/ UNCHANGED <<Live, Held>>
  <2> DEFINE p == worker[w].path
             k == worker[w].keeper.path
  <2>1. PICK e \in Entries : Fresh(e) /\ qfile' = [qfile EXCEPT ![e] = file[p]]
    BY <1>6 DEF Moves
  <2>2. /\ worker[w].pc = "move" /\ file[p] # None
        /\ file' = [file EXCEPT ![p] = None] /\ content' = content
    BY <1>6 DEF Moves
  <2>3. p \in Paths /\ k \in Paths /\ k # p /\ file[k] # None
    BY <2>2 DEF Watchful, Ready, TypeOK, Consistent, Worker, Member
  <2>4. content[file[p]] = content[file[k]]
    BY <1>2, <2>2, <2>3 DEF Fits, Fitting
  <2>5. qfile[e] = None /\ ~Holds(qfile[e])
    BY <2>1 DEF Fresh, Holds
  <2>6. /\ file'[p] = None /\ \A q \in Paths : q # p => file'[q] = file[q]
        /\ qfile'[e] = file[p] /\ \A f \in Entries : f # e => qfile'[f] = qfile[f]
    BY <2>1, <2>2, <2>3 DEF TypeOK
  <2> HIDE DEF p, k
  <2>7. CASE Holds(file[p])
    <3>1. Live' = Live \ {p} /\ p \in Live
      BY <2>2, <2>3, <2>6, <2>7 DEF Live, Holds
    <3>2. Held' = Held \cup {e} /\ e \notin Held
      BY <2>2, <2>5, <2>6, <2>7 DEF Held, Holds
    <3>3. k \in Live'
      BY <2>2, <2>3, <2>4, <2>6, <2>7 DEF Live, Holds
    <3>4. QED  BY <3>1, <3>2, <3>3 DEF Promise!Quarantine
  <2>8. CASE ~Holds(file[p])
    <3>1. Live' = Live
      BY <2>2, <2>3, <2>6, <2>8 DEF Live, Holds
    <3>2. Held' = Held
      BY <2>2, <2>5, <2>6, <2>8 DEF Held, Holds
    <3>3. QED  BY <3>1, <3>2
  <2>9. QED  BY <2>7, <2>8
<1>7. ASSUME NEW w \in Workers, PutsBack(w)
      PROVE  Promise!Restore \/ UNCHANGED <<Live, Held>>
  <2> DEFINE e == worker[w].entry
             p == worker[w].rows[e].original
  <2>1. e \in Entries /\ p \in Paths
    BY <1>7 DEF PutsBack, TypeOK, Consistent, Worker, Rows, Row
  <2>2. /\ worker[w].pc = "putback" /\ qfile[e] # None
        /\ file' = [file EXCEPT ![p] = qfile[e]]
        /\ qfile' = [qfile EXCEPT ![e] = None] /\ content' = content
    BY <1>7 DEF PutsBack
  <2>3. file[p] = None
    BY <2>2 DEF Watchful, Ready
  <2>4. /\ file'[p] = qfile[e] /\ \A q \in Paths : q # p => file'[q] = file[q]
        /\ qfile'[e] = None /\ \A f \in Entries : f # e => qfile'[f] = qfile[f]
    BY <2>1, <2>2 DEF TypeOK
  <2> HIDE DEF e, p
  <2>5. CASE Holds(qfile[e])
    <3>1. Live' = Live \cup {p} /\ p \notin Live
      BY <2>1, <2>2, <2>3, <2>4, <2>5 DEF Live, Holds
    <3>2. Held' = Held \ {e} /\ e \in Held
      BY <2>1, <2>2, <2>4, <2>5 DEF Held, Holds
    <3>3. QED  BY <2>1, <3>1, <3>2 DEF Promise!Restore
  <2>6. CASE ~Holds(qfile[e])
    <3>1. Live' = Live /\ Held' = Held
      BY <2>1, <2>2, <2>3, <2>4, <2>6 DEF Live, Held, Holds
    <3>2. QED  BY <3>1
  <2>7. QED  BY <2>5, <2>6
<1>8. ASSUME NEW w \in Workers, Purges(w)
      PROVE  Promise!Purge \/ UNCHANGED <<Live, Held>>
  <2>1. PICK e \in worker[w].wanted : qfile' = [qfile EXCEPT ![e] = None]
    BY <1>8 DEF Purges
  <2>2. e \in Entries /\ UNCHANGED <<file, content>>
    BY <1>8 DEF Purges, TypeOK, Worker
  <2>3. Live' = Live
    BY <2>2 DEF Live, Holds
  <2>4. qfile'[e] = None /\ \A f \in Entries : f # e => qfile'[f] = qfile[f]
    BY <2>1, <2>2 DEF TypeOK
  <2>5. Held' = Held \ {e}
    BY <2>2, <2>4 DEF Held, Holds
  <2>6. CASE e \in Held
    BY <2>3, <2>5, <2>6 DEF Promise!Purge
  <2>7. CASE e \notin Held
    BY <2>3, <2>5, <2>7
  <2>8. QED  BY <2>6, <2>7
<1>9. ASSUME NEW w \in Workers, Apply(w)
      PROVE  Promise!Quarantine \/ UNCHANGED <<Live, Held>>
  <2>1. CASE LinkReplaces(w) \/ Moves(w)
    BY <1>5, <1>6, <2>1
  <2>2. CASE ~LinkReplaces(w) /\ ~Moves(w)
    <3>1. UNCHANGED <<file, content, qfile>>
      BY <1>9, <2>2 DEF Apply, ApplyStarts, Request, Stat, LinkMakes, LinkFails,
                        MoveFails, Records, RecordFails, ApplyEnds
    <3>2. QED  BY <1>3, <3>1
  <2>3. QED  BY <2>1, <2>2
<1>10. ASSUME NEW w \in Workers, Quarantine(w)
       PROVE  Promise!Restore \/ Promise!Purge \/ UNCHANGED <<Live, Held>>
  <2>1. CASE PutsBack(w) \/ Purges(w)
    BY <1>7, <1>8, <2>1
  <2>2. CASE ~PutsBack(w) /\ ~Purges(w)
    <3>1. UNCHANGED <<file, content, qfile>>
      BY <1>10, <2>2 DEF Quarantine, RestoreStarts, PurgeStarts, Reads, RestoreChecks,
                         PutBackFails, PurgeFails, Writes, WriteFails
    <3>2. QED  BY <1>3, <3>1
  <2>3. QED  BY <2>1, <2>2
<1>11. QED  BY <1>1, <1>4, <1>9, <1>10 DEF Next

\* Requests that do not overlap implement the promise of docs/ARCHITECTURE.md:
\* a copy leaves the library only for the quarantine and only while another one
\* stays, it can come back, and only a purge removes it; until another program
\* touches the files.  (With two applies at once every copy may leave.)
THEOREM ReclaimKeepsPromise == Spec /\ []OneAtATime => KeepsPromise
<1>1. Init => Promise!Init
  <2> SUFFICES ASSUME Init PROVE Promise!Init
    OBVIOUS
  <2>1. PICK p \in Paths : file[p] # None /\ content[file[p]] = Same
    BY DEF Init
  <2>2. p \in Live /\ Live \subseteq Paths
    BY <2>1 DEF Live, Holds
  <2>3. Held = {}
    BY DEF Init, Held, Holds
  <2>4. changes = 0
    BY DEF Init
  <2>5. QED  BY <2>2, <2>3, <2>4 DEF Promise!Init
<1>2. TypeOK /\ Settling /\ Watchful /\ [Next]_vars => [Promise!Next]_(Promise!vars)
  <2> SUFFICES ASSUME TypeOK, Settling, Watchful, [Next]_vars
               PROVE  Promise!Next \/ UNCHANGED Promise!vars
    OBVIOUS
  <2>1. CASE changes' # 0
    BY <2>1 DEF Promise!Next
  <2>2. CASE changes' = 0
    <3>1. changes = 0
      BY <2>2, ChangesCounted
    <3>2. QED
      BY <2>2, <3>1, StepKeepsPromise DEF Promise!Next, Promise!vars
  <2>3. QED  BY <2>1, <2>2
<1>3. QED
  BY <1>1, <1>2, ReclaimTypeCorrect, SettlingHolds, WatchfulHolds, PTL
     DEF Spec, KeepsPromise, Promise!Spec
=============================================================================
