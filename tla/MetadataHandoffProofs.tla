----------------------- MODULE MetadataHandoffProofs -----------------------
(***************************************************************************)
(* Proofs about MetadataHandoff, for every set of callers, number of       *)
(* attempts, combination of faults and changes, and every bound.           *)
(***************************************************************************)
EXTENDS MetadataHandoff, TLAPS

\* Only the holder of the lock is past it.
Serial == \A c \in Callers : call[c].pc \in Stages => owner = c

Readding == {"add", "wait", "refresh", "refreshFiles"}

\* What was seen before a delete or an add still holds when it is made: no
\* other caller can have added the torrent from its file, or deleted it.
Undisturbed == \A c \in Callers :
    /\ call[c].pc = "delete" => row # "readded"
    /\ call[c].pc \in Readding => row # "leaving"

\* A caller that has deleted the torrent and not returned is past the delete.
AfterDelete == {"gone", "add", "wait", "refresh", "refreshFiles", "recover",
                "recoverRow", "linger", "restore"}
InCharge == \A c \in Callers :
    call[c].deleted /\ call[c].result = "none" => call[c].pc \in AfterDelete

\* Files the handoff in charge was told of are there until a user removes them;
\* it has been told of some when it asks for the row, and of none when it deletes.
Told == {"checkRow", "recheckRow", "recoverRow", "refresh"}
Sighted ==
    /\ seen = "yes" => HasFiles
    /\ \A c \in Callers : /\ call[c].pc \in Told => seen # "no"
                          /\ call[c].pc = "delete" => seen # "yes"

IInv == TypeOK /\ Serial /\ Undisturbed /\ InCharge /\ Sighted

THEOREM InitHolds == Init => IInv
BY MetadataAssumption
   DEF Init, IInv, TypeOK, Serial, Undisturbed, InCharge, Sighted, HasFiles,
       Rows, Call, Resting, Stages, Readding, Told, Reports, Sightings

-----------------------------------------------------------------------------
(* What the building blocks of the steps do to the records                 *)

LEMMA GoesTo ==
    ASSUME TypeOK, NEW c \in Callers, NEW s \in Stages, Goes(c, s)
    PROVE  /\ call' \in [Callers -> Call]
           /\ \A d \in Callers \ {c} : call'[d] = call[d]
           /\ call'[c].pc = s
           /\ call'[c].deleted = call[c].deleted
           /\ call'[c].result = call[c].result
           /\ owner' = owner /\ report' = report
<1> DEFINE new == [call[c] EXCEPT !.pc = s, !.tries = 0]
<1>1. call[c] \in Call
  BY DEF TypeOK
<1>2. 0 \in 0..Attempts - 1
  BY MetadataAssumption
<1>3. /\ new \in Call
      /\ new.pc = s /\ new.deleted = call[c].deleted /\ new.result = call[c].result
  BY <1>1, <1>2 DEF Call
<1>4. call' = [call EXCEPT ![c] = new]
  BY DEF Goes
<1> HIDE DEF new
<1> QED
  BY <1>3, <1>4 DEF Goes, TypeOK

LEMMA EndsWith ==
    ASSUME TypeOK, NEW c \in Callers, NEW result \in {"ok", "error"},
           NEW event \in Reports, Ends(c, result, event)
    PROVE  /\ call' \in [Callers -> Call]
           /\ \A d \in Callers \ {c} : call'[d] = call[d]
           /\ call'[c].pc = "idle"
           /\ call'[c].deleted = call[c].deleted
           /\ call'[c].result = result
           /\ owner' = NoCaller /\ report' = event
<1> DEFINE new == [call[c] EXCEPT !.pc = "idle", !.tries = 0, !.result = result]
<1>1. call[c] \in Call
  BY DEF TypeOK
<1>2. 0 \in 0..Attempts - 1
  BY MetadataAssumption
<1>3. /\ new \in Call
      /\ new.pc = "idle" /\ new.deleted = call[c].deleted /\ new.result = result
  BY <1>1, <1>2 DEF Call
<1>4. call' = [call EXCEPT ![c] = new]
  BY DEF Ends
<1> HIDE DEF new
<1> QED
  BY <1>3, <1>4 DEF Ends, TypeOK

LEMMA TriesAgainThere ==
    ASSUME TypeOK, NEW c \in Callers, TriesAgain(c)
    PROVE  /\ call' \in [Callers -> Call]
           /\ \A d \in Callers \ {c} : call'[d] = call[d]
           /\ call'[c].pc = call[c].pc
           /\ call'[c].deleted = call[c].deleted
           /\ call'[c].result = call[c].result
           /\ owner' = owner /\ report' = report
<1> DEFINE new == [call[c] EXCEPT !.tries = @ + 1]
<1>1. call[c] \in Call
  BY DEF TypeOK
<1>2. call[c].tries + 1 \in 0..Attempts - 1
  BY <1>1, MetadataAssumption DEF Call, TriesAgain
<1>3. /\ new \in Call
      /\ new.pc = call[c].pc /\ new.deleted = call[c].deleted
      /\ new.result = call[c].result
  BY <1>1, <1>2 DEF Call
<1>4. call' = [call EXCEPT ![c] = new]
  BY DEF TriesAgain
<1> HIDE DEF new
<1> QED
  BY <1>3, <1>4 DEF TriesAgain, TypeOK

\* While one caller is past the lock, no other is: a step of it that keeps its
\* own part of the invariant keeps the invariant.
LEMMA HolderSteps ==
    ASSUME IInv, NEW c \in Callers,
           call[c].pc \in Stages,
           call' \in [Callers -> Call],
           \A d \in Callers \ {c} : call'[d] = call[d],
           row' \in Rows, report' \in Reports, UNCHANGED counters,
           owner' = NoCaller \/ owner' = owner,
           call'[c].pc \in Stages => owner' = owner,
           call'[c].pc = "delete" => row' # "readded",
           call'[c].pc \in Readding => row' # "leaving",
           seen' \in Sightings,
           seen' = "yes" => HasFiles',
           call'[c].pc \in Told => seen' # "no",
           call'[c].pc = "delete" => seen' # "yes",
           call'[c].deleted /\ call'[c].result = "none" => call'[c].pc \in AfterDelete
    PROVE  IInv'
<1>1. \A d \in Callers \ {c} : call'[d].pc \notin Stages
  BY DEF IInv, Serial
<1>2. owner = c
  BY DEF IInv, Serial
<1>3. TypeOK'
  BY DEF IInv, TypeOK, counters
<1>4. Serial'
  BY <1>1, <1>2 DEF Serial
<1>5. Undisturbed' /\ Sighted'
  BY <1>1 DEF Undisturbed, Sighted, Stages, Readding, Told
<1>6. InCharge'
  BY DEF IInv, InCharge
<1> QED
  BY <1>3, <1>4, <1>5, <1>6 DEF IInv

-----------------------------------------------------------------------------
(* Every step keeps the invariant                                          *)

LEMMA ProceedsKeeps ==
    ASSUME IInv, NEW c \in Callers, Proceeds(c)
    PROVE  IInv'
<1> USE DEF AfterDelete, Stages, Readding, Told, At, Sightings
<1>0. /\ TypeOK /\ row \in Rows /\ report \in Reports /\ seen \in Sightings
      /\ call[c] \in Call
  BY DEF IInv, TypeOK
<1>seen. /\ seen = "yes" => HasFiles
         /\ UNCHANGED row => (HasFiles' <=> HasFiles)
         /\ FilesListed => seen' = "yes" /\ HasFiles
         /\ FilesEmpty \/ FilesRaise => UNCHANGED seen
         /\ FilesEmpty => ~HasFiles
  BY DEF IInv, Sighted, HasFiles, FilesListed, FilesEmpty, FilesRaise
<1>1. CASE Acquires(c)
  <2>1. /\ owner = NoCaller /\ owner' = c /\ call[c].pc = "lock"
        /\ call' = [call EXCEPT ![c].pc = "check"] /\ seen' = "no"
        /\ UNCHANGED <<row, report, counters>>
    BY <1>1 DEF Acquires
  <2> DEFINE new == [call[c] EXCEPT !.pc = "check"]
  <2>2. /\ new \in Call /\ new.pc = "check"
        /\ new.deleted = call[c].deleted /\ new.result = call[c].result
    BY <1>0 DEF Call
  <2>3. call' = [call EXCEPT ![c] = new]
    BY <2>1
  <2> HIDE DEF new
  <2>4. /\ call' \in [Callers -> Call] /\ call'[c] = new
        /\ \A d \in Callers \ {c} : call'[d] = call[d]
    BY <1>0, <2>2, <2>3 DEF TypeOK
  <2>5. \A d \in Callers : call[d].pc \notin Stages
    BY <2>1, MetadataAssumption DEF IInv, Serial
  <2>6. TypeOK'
    BY <2>1, <2>4 DEF IInv, TypeOK, counters
  <2>7. Serial' /\ Undisturbed' /\ Sighted'
    BY <2>1, <2>2, <2>4, <2>5 DEF Serial, Undisturbed, Sighted
  <2>8. InCharge'
    BY <2>1, <2>2, <2>4 DEF IInv, InCharge
  <2> QED
    BY <2>6, <2>7, <2>8 DEF IInv
<1>2. CASE FirstCheck(c)
  <2>0. call[c].pc = "check" /\ UNCHANGED <<row, counters>>
    BY <1>2 DEF FirstCheck
  <2>1. CASE FilesRaise /\ Ends(c, "error", report)
    BY <1>0, <1>seen, <2>0, <2>1, EndsWith, HolderSteps DEF Reports
  <2>2. CASE FilesListed /\ Goes(c, "checkRow")
    BY <1>0, <1>seen, <2>0, <2>2, GoesTo, HolderSteps DEF IInv, InCharge
  <2>3. CASE FilesEmpty /\ Goes(c, "fetch")
    BY <1>0, <1>seen, <2>0, <2>3, GoesTo, HolderSteps DEF IInv, InCharge
  <2> QED
    BY <1>2, <2>1, <2>2, <2>3 DEF FirstCheck
<1>3. CASE FirstRow(c)
  <2>0. call[c].pc = "checkRow" /\ UNCHANGED <<row, seen, counters>>
    BY <1>3 DEF FirstRow
  <2>1. CASE Ends(c, "ok", report) \/ Ends(c, "error", report)
    BY <1>0, <1>seen, <2>0, <2>1, EndsWith, HolderSteps DEF Reports
  <2> QED
    BY <1>3, <2>1 DEF FirstRow
<1>4. CASE Fetches(c)
  <2>0. call[c].pc = "fetch" /\ UNCHANGED <<row, seen, counters>>
    BY <1>4 DEF Fetches
  <2>1. CASE Ends(c, "error", "failed")
    BY <1>0, <1>seen, <2>0, <2>1, EndsWith, HolderSteps DEF Reports
  <2>2. CASE Goes(c, "recheck")
    BY <1>0, <1>seen, <2>0, <2>2, GoesTo, HolderSteps DEF IInv, InCharge
  <2> QED
    BY <1>4, <2>1, <2>2 DEF Fetches
<1>5. CASE SecondCheck(c)
  <2>0. call[c].pc = "recheck" /\ UNCHANGED <<row, counters>>
    BY <1>5 DEF SecondCheck
  <2>1. CASE FilesRaise /\ Ends(c, "error", "failed")
    BY <1>0, <1>seen, <2>0, <2>1, EndsWith, HolderSteps DEF Reports
  <2>2. CASE FilesListed /\ Goes(c, "recheckRow")
    BY <1>0, <1>seen, <2>0, <2>2, GoesTo, HolderSteps DEF IInv, InCharge
  <2>3. CASE FilesEmpty /\ Goes(c, "delete")
    BY <1>0, <1>seen, <2>0, <2>3, GoesTo, HolderSteps DEF IInv, InCharge, HasFiles
  <2> QED
    BY <1>5, <2>1, <2>2, <2>3 DEF SecondCheck
<1>6. CASE SecondRow(c)
  <2>0. call[c].pc = "recheckRow" /\ UNCHANGED <<row, seen, counters>>
    BY <1>6 DEF SecondRow
  <2>1. CASE Ends(c, "ok", "done") \/ Ends(c, "error", "failed")
    BY <1>0, <1>seen, <2>0, <2>1, EndsWith, HolderSteps DEF Reports
  <2> QED
    BY <1>6, <2>1 DEF SecondRow
<1>7. CASE Deletes(c)
  <2>0. call[c].pc = "delete" /\ UNCHANGED <<seen, counters>> /\ seen # "yes"
    BY <1>7 DEF Deletes, IInv, Sighted
  <2>1. Removed \in Rows
    BY DEF Removed, Rows
  <2>2. CASE FailedCall(Removed) /\ Ends(c, "error", "failed")
    <3>1. row' \in Rows
      BY <1>0, <2>1, <2>2 DEF FailedCall
    <3> QED
      BY <1>0, <2>0, <2>2, <3>1, EndsWith, HolderSteps DEF Reports
  <2>3. CASE /\ row' = Removed
             /\ call' = [call EXCEPT ![c].pc = "gone", ![c].deleted = TRUE]
             /\ UNCHANGED <<owner, report>>
    <3> DEFINE new == [call[c] EXCEPT !.pc = "gone", !.deleted = TRUE]
    <3>1. new \in Call /\ new.pc = "gone"
      BY <1>0 DEF Call
    <3>2. call' = [call EXCEPT ![c] = new]
      BY <2>3
    <3> HIDE DEF new
    <3>3. /\ call' \in [Callers -> Call] /\ call'[c] = new
          /\ \A d \in Callers \ {c} : call'[d] = call[d]
      BY <1>0, <3>1, <3>2 DEF TypeOK
    <3> QED
      BY <1>0, <2>0, <2>1, <2>3, <3>1, <3>3, HolderSteps
  <2> QED
    BY <1>7, <2>2, <2>3 DEF Deletes
<1>8. CASE WaitsUntilGone(c)
  <2>0. call[c].pc = "gone" /\ UNCHANGED <<row, seen, counters>>
    BY <1>8 DEF WaitsUntilGone
  <2>1. CASE ~Listed /\ Goes(c, "add")
    BY <1>0, <1>seen, <2>0, <2>1, GoesTo, HolderSteps DEF Listed
  <2>2. CASE Goes(c, "recover")
    BY <1>0, <1>seen, <2>0, <2>2, GoesTo, HolderSteps
  <2> QED
    BY <1>8, <2>1, <2>2 DEF WaitsUntilGone
<1>9. CASE AddsFile(c)
  <2>0. call[c].pc = "add" /\ UNCHANGED <<seen, counters>> /\ row # "leaving"
    BY <1>9 DEF AddsFile, IInv, Undisturbed
  <2>1. row' \in Rows /\ row' # "leaving" /\ (seen' = "yes" => HasFiles')
    BY <1>0, <1>seen, <1>9, <2>0
       DEF AddsFile, Added, AddFails, FailedCall, Rows, HasFiles
  <2>2. CASE Goes(c, "wait") \/ Goes(c, "recover")
    BY <1>0, <2>0, <2>1, <2>2, GoesTo, HolderSteps
  <2>3. CASE TriesAgain(c)
    BY <1>0, <2>0, <2>1, <2>3, TriesAgainThere, HolderSteps
  <2> QED
    BY <1>9, <2>2, <2>3 DEF AddsFile
<1>10. CASE WaitsForMetadata(c)
  <2>0. call[c].pc = "wait" /\ UNCHANGED <<row, counters>> /\ row # "leaving"
    BY <1>10 DEF WaitsForMetadata, IInv, Undisturbed
  <2>1. CASE FilesListed /\ Goes(c, "refresh")
    BY <1>0, <1>seen, <2>0, <2>1, GoesTo, HolderSteps
  <2>2. CASE UNCHANGED seen /\ Goes(c, "recover")
    BY <1>0, <1>seen, <2>0, <2>2, GoesTo, HolderSteps
  <2> QED
    BY <1>seen, <1>10, <2>1, <2>2 DEF WaitsForMetadata
<1>11. CASE Refreshes(c)
  <2>0. call[c].pc = "refresh" /\ UNCHANGED <<row, seen, counters>> /\ row # "leaving"
    BY <1>11 DEF Refreshes, IInv, Undisturbed
  <2>1. CASE Ends(c, "ok", "done")
    BY <1>0, <1>seen, <2>0, <2>1, EndsWith, HolderSteps DEF Reports
  <2>2. CASE Goes(c, "refreshFiles")
    BY <1>0, <1>seen, <2>0, <2>2, GoesTo, HolderSteps
  <2> QED
    BY <1>11, <2>1, <2>2 DEF Refreshes
<1>12. CASE RefreshesByFiles(c)
  <2>0. call[c].pc = "refreshFiles" /\ UNCHANGED <<row, counters>>
    BY <1>12 DEF RefreshesByFiles
  <2>1. CASE FilesListed /\ Ends(c, "ok", "done")
    BY <1>0, <1>seen, <2>0, <2>1, EndsWith, HolderSteps DEF Reports
  <2>2. CASE UNCHANGED seen /\ Goes(c, "recover")
    BY <1>0, <1>seen, <2>0, <2>2, GoesTo, HolderSteps
  <2> QED
    BY <1>12, <1>seen, <2>1, <2>2 DEF RefreshesByFiles
<1>13. CASE Recovers(c)
  <2>0. call[c].pc = "recover" /\ UNCHANGED <<row, counters>>
    BY <1>13 DEF Recovers
  <2>1. CASE FilesListed /\ Goes(c, "recoverRow")
    BY <1>0, <1>seen, <2>0, <2>1, GoesTo, HolderSteps
  <2>2. CASE UNCHANGED seen /\ Goes(c, "linger")
    BY <1>0, <1>seen, <2>0, <2>2, GoesTo, HolderSteps
  <2> QED
    BY <1>13, <1>seen, <2>1, <2>2 DEF Recovers
<1>14. CASE RecoversRow(c)
  <2>0. call[c].pc = "recoverRow" /\ UNCHANGED <<row, seen, counters>>
    BY <1>14 DEF RecoversRow
  <2>1. CASE Ends(c, "ok", "done")
    BY <1>0, <1>seen, <2>0, <2>1, EndsWith, HolderSteps DEF Reports
  <2> QED
    BY <1>14, <2>1 DEF RecoversRow
<1>15. CASE Lingers(c)
  <2>0. call[c].pc = "linger" /\ UNCHANGED <<row, seen, counters>>
    BY <1>15 DEF Lingers
  <2>1. CASE Ends(c, "error", "lingering")
    BY <1>0, <1>seen, <2>0, <2>1, EndsWith, HolderSteps DEF Reports
  <2>2. CASE Goes(c, "restore")
    BY <1>0, <1>seen, <2>0, <2>2, GoesTo, HolderSteps
  <2> QED
    BY <1>15, <2>1, <2>2 DEF Lingers
<1>16. CASE RestoresMagnet(c)
  <2>0. call[c].pc = "restore" /\ UNCHANGED <<seen, counters>>
    BY <1>16 DEF RestoresMagnet
  <2>1. row' \in Rows /\ (seen' = "yes" => HasFiles')
    BY <1>0, <1>seen, <1>16, <2>0
       DEF RestoresMagnet, Added, AddFails, FailedCall, Listed, Rows, HasFiles
  <2>2. CASE Ends(c, "error", "restored") \/ Ends(c, "error", "missing")
    BY <1>0, <2>0, <2>1, <2>2, EndsWith, HolderSteps DEF Reports
  <2>3. CASE TriesAgain(c)
    BY <1>0, <2>0, <2>1, <2>3, TriesAgainThere, HolderSteps
  <2> QED
    BY <1>16, <2>2, <2>3 DEF RestoresMagnet
<1> QED
  BY <1>1, <1>2, <1>3, <1>4, <1>5, <1>6, <1>7, <1>8, <1>9, <1>10, <1>11, <1>12,
     <1>13, <1>14, <1>15, <1>16
     DEF Proceeds

LEMMA OthersKeep ==
    ASSUME IInv,
           Leaves \/ PeersDeliver \/ UserRemoves \/ UserAdds
    PROVE  IInv'
<1>1. /\ row' \in Rows /\ row' \notin {"readded", "leaving"}
      /\ UNCHANGED <<owner, call, report, handoffs, restarts>>
      /\ changes' \in 0..MaxChanges /\ seen' \in Sightings
  BY MetadataAssumption
     DEF IInv, TypeOK, Leaves, PeersDeliver, UserRemoves, UserAdds, Changed, Rows, Sightings, counters
<1>2. TypeOK'
  BY <1>1 DEF IInv, TypeOK
<1>3. Serial' /\ Undisturbed' /\ InCharge'
  BY <1>1 DEF IInv, Serial, Undisturbed, InCharge
<1>4. Sighted'
  BY <1>1 DEF IInv, Sighted, HasFiles, Leaves, PeersDeliver, UserRemoves, UserAdds
<1> QED
  BY <1>2, <1>3, <1>4 DEF IInv

LEMMA CallsKeep ==
    ASSUME IInv, NEW c \in Callers, Calls(c)
    PROVE  IInv'
<1> DEFINE new == [Resting EXCEPT !.pc = "lock"]
<1>0. Resting \in Call
  BY MetadataAssumption DEF Call, Resting
<1>1. /\ new \in Call /\ new.pc = "lock" /\ ~new.deleted
  BY <1>0 DEF Call, Resting
<1>2. /\ call' = [call EXCEPT ![c] = new]
      /\ UNCHANGED <<row, owner, report, seen, changes, restarts>>
      /\ handoffs' = handoffs + 1 /\ handoffs < MaxHandoffs
  BY DEF Calls
<1> HIDE DEF new
<1>3. /\ call' \in [Callers -> Call] /\ call'[c] = new
      /\ \A d \in Callers \ {c} : call'[d] = call[d]
  BY <1>1, <1>2 DEF IInv, TypeOK
<1>4. TypeOK'
  BY <1>2, <1>3, MetadataAssumption DEF IInv, TypeOK
<1>5. Serial' /\ Undisturbed' /\ InCharge' /\ Sighted'
  BY <1>1, <1>2, <1>3
     DEF IInv, Serial, Undisturbed, InCharge, Sighted, HasFiles, Stages, Readding, Told
<1> QED
  BY <1>4, <1>5 DEF IInv

LEMMA RestartsKeep ==
    ASSUME IInv, Restarts
    PROVE  IInv'
<1>1. row' \in Rows
  BY DEF IInv, TypeOK, Restarts, Interrupted, Removed, Rows
<1>2. Resting \in Call
  BY MetadataAssumption DEF Call, Resting
<1>3. TypeOK'
  BY <1>1, <1>2, MetadataAssumption DEF IInv, TypeOK, Restarts, Sightings
<1>4. seen' = "no" /\ \A c \in Callers : call'[c] = Resting
  BY DEF Restarts
<1>5. Serial' /\ Undisturbed' /\ InCharge' /\ Sighted'
  BY <1>4 DEF Serial, Undisturbed, InCharge, Sighted, Resting, Stages, Readding, Told
<1> QED
  BY <1>3, <1>5 DEF IInv

THEOREM StepKeeps == IInv /\ [Next]_vars => IInv'
<1> SUFFICES ASSUME IInv, [Next]_vars PROVE IInv'
  OBVIOUS
<1>1. CASE UNCHANGED vars
  BY <1>1 DEF vars, IInv, TypeOK, Serial, Undisturbed, InCharge, Sighted, HasFiles
<1>2. CASE \E c \in Callers : Calls(c) \/ Proceeds(c)
  BY <1>2, CallsKeep, ProceedsKeeps
<1>3. CASE Leaves \/ PeersDeliver \/ UserRemoves \/ UserAdds
  BY <1>3, OthersKeep
<1>4. CASE Restarts
  BY <1>4, RestartsKeep
<1> QED
  BY <1>1, <1>2, <1>3, <1>4 DEF Next

\* The type invariant of the handoffs.
THEOREM MetadataTypeCorrect == Spec => []TypeOK
<1>1. IInv => TypeOK
  BY DEF IInv
<1> QED
  BY <1>1, InitHolds, StepKeeps, PTL DEF Spec

-----------------------------------------------------------------------------
(* The action properties                                                   *)

\* Only a caller's own step that ends it gives it a result.
LEMMA ResultByOwnStep ==
    ASSUME IInv, [Next]_vars, NEW c \in Callers,
           call[c].result = "none", call'[c].result # "none"
    PROVE  /\ Proceeds(c)
           /\ \A s \in Stages : ~Goes(c, s)
           /\ ~TriesAgain(c)
<1>0. TypeOK /\ call[c] \in Call
  BY DEF IInv, TypeOK
<1>1. call'[c] # call[c] /\ call'[c] # Resting
  BY DEF Resting
<1>2. PICK d \in Callers : Calls(d) \/ Proceeds(d)
  BY <1>1 DEF Next, vars, Leaves, PeersDeliver, UserRemoves, UserAdds, Changed, Restarts
<1>3. ~Calls(d)
  <2>1. SUFFICES ASSUME Calls(d) PROVE FALSE
    OBVIOUS
  <2>2. call'[c] \in {call[c], [Resting EXCEPT !.pc = "lock"]}
    BY <1>0, <2>1 DEF Calls, TypeOK
  <2> QED
    BY <1>1, <2>2 DEF Resting
<1>4. \E r : call' = [call EXCEPT ![d] = r]
  BY <1>2, <1>3, Zenon
     DEF Proceeds, Acquires, FirstCheck, FirstRow, Fetches, SecondCheck, SecondRow,
         Deletes, WaitsUntilGone, AddsFile, WaitsForMetadata, Refreshes,
         RefreshesByFiles, Recovers, RecoversRow, Lingers, RestoresMagnet,
         Goes, Ends, TriesAgain
<1>5. d = c
  BY <1>0, <1>1, <1>4 DEF TypeOK
<1>6. \A s \in Stages : ~Goes(c, s)
  BY <1>0, GoesTo
<1>7. ~TriesAgain(c)
  BY <1>0, TriesAgainThere
<1> QED
  BY <1>2, <1>3, <1>5, <1>6, <1>7

\* However many callers there are and whatever fails, a torrent added from its
\* file is not deleted again by a handoff: ensure_qbt_metadata's lock and the
\* checks under it suffice.
THEOREM ReaddedStays == Spec => NeverUndone
<1>1. ASSUME IInv, [Next]_vars, row = "readded" PROVE row' # "leaving"
  <2>1. \A c \in Callers : call[c].pc # "delete"
    BY <1>1 DEF IInv, Undisturbed
  <2>2. CASE \E c \in Callers : Calls(c) \/ Proceeds(c)
    <3>1. PICK c \in Callers : Calls(c) \/ Proceeds(c)
      BY <2>2
    <3>2. CASE AddsFile(c) \/ RestoresMagnet(c)
      BY <1>1, <3>2 DEF AddsFile, RestoresMagnet, Added, AddFails, Listed
    <3>3. CASE Deletes(c)
      BY <2>1, <3>3 DEF Deletes, At
    <3> QED
      BY <1>1, <3>1, <3>2, <3>3
         DEF Calls, Proceeds, Acquires, FirstCheck, FirstRow, Fetches, SecondCheck,
             SecondRow, WaitsUntilGone, WaitsForMetadata, Refreshes,
             RefreshesByFiles, Recovers, RecoversRow, Lingers
  <2>3. CASE Restarts
    <3>1. owner \in Callers => row' \in {row, "readded", "magnet"}
      BY <1>1, <2>1, <2>3, MetadataAssumption DEF Restarts, Interrupted
    <3>2. owner \notin Callers => row' = row
      BY <1>1, <2>3 DEF Restarts, IInv, TypeOK
    <3> QED
      BY <1>1, <3>1, <3>2
  <2> QED
    BY <1>1, <2>2, <2>3
       DEF Next, vars, Leaves, PeersDeliver, UserRemoves, UserAdds
<1>2. IInv /\ [Next]_vars => [row = "readded" => row' # "leaving"]_vars
  BY <1>1
<1> QED
  BY <1>2, InitHolds, StepKeeps, PTL DEF Spec, NeverUndone

\* Every path to a successful return, the recovery after an error included,
\* returns after this handoff was told of files, which only a user takes away.
THEOREM SuccessIsReady == Spec => ReadyOnSuccess
<1> DEFINE Ready == (HasFiles' /\ seen' = "yes") \/ seen' = "undone"
<1>1. ASSUME IInv, [Next]_vars, NEW c \in Callers,
             call[c].result = "none", call'[c].result = "ok"
      PROVE  Ready
  <2>0. TypeOK /\ call[c] \in Call /\ seen \in Sightings
    BY <1>1 DEF IInv, TypeOK
  <2>1. Proceeds(c) /\ ~TriesAgain(c)
    BY <1>1, ResultByOwnStep
  <2>2. \A s \in Stages : ~Goes(c, s)
    BY <1>1, ResultByOwnStep
  <2>3. CASE FirstRow(c) \/ SecondRow(c) \/ RecoversRow(c) \/ Refreshes(c)
    <3>1. UNCHANGED <<row, seen>> /\ call[c].pc \in Told
      BY <2>3 DEF FirstRow, SecondRow, RecoversRow, Refreshes, At, Told
    <3>2. seen # "no" /\ (seen = "yes" => HasFiles)
      BY <1>1, <3>1 DEF IInv, Sighted
    <3> QED
      BY <2>0, <3>1, <3>2 DEF HasFiles, Sightings
  <2>4. CASE RefreshesByFiles(c)
    <3>1. UNCHANGED row /\ FilesListed
      BY <2>2, <2>4 DEF RefreshesByFiles, Stages
    <3> QED
      BY <3>1 DEF FilesListed, HasFiles
  <2>5. ~Acquires(c) /\ ~Deletes(c)
    <3>1. ~Ends(c, "error", "failed")
      BY <1>1, <2>0, EndsWith DEF Reports
    <3>2. call' # [call EXCEPT ![c].pc = "check"]
      BY <1>1, <2>0 DEF TypeOK, Call
    <3>3. call' # [call EXCEPT ![c].pc = "gone", ![c].deleted = TRUE]
      BY <1>1, <2>0 DEF TypeOK, Call
    <3> QED
      BY <3>1, <3>2, <3>3 DEF Acquires, Deletes
  <2>6. ~(FirstCheck(c) \/ Fetches(c) \/ SecondCheck(c) \/ WaitsUntilGone(c)
          \/ AddsFile(c) \/ WaitsForMetadata(c) \/ Recovers(c)
          \/ Lingers(c) \/ RestoresMagnet(c))
    <3>1. \A event \in Reports : ~Ends(c, "error", event)
      BY <1>1, <2>0, EndsWith
    <3> QED
      BY <2>0, <2>1, <2>2, <3>1
         DEF FirstCheck, Fetches, SecondCheck, WaitsUntilGone, AddsFile,
             WaitsForMetadata, Recovers, Lingers, RestoresMagnet, Reports, Stages, TypeOK
  <2> QED
    BY <2>1, <2>3, <2>4, <2>5, <2>6 DEF Proceeds
<1>2. IInv /\ [Next]_vars =>
        [\A c \in Callers :
           call[c].result = "none" /\ call'[c].result = "ok" => Ready]_vars
  BY <1>1
<1> QED
  BY <1>2, InitHolds, StepKeeps, PTL DEF Spec, ReadyOnSuccess

\* A caller that is past its delete returns with the torrent listed, after the
\* event that says it may be missing, or with success undone by the user.
THEOREM LossIsAccounted == Spec => LossAccounted
<1> DEFINE Accounted(c) == \/ Listed' \/ report' = "missing"
                           \/ call'[c].result = "ok" /\ seen' = "undone"
<1>1. ASSUME IInv, [Next]_vars, NEW c \in Callers,
             call[c].deleted, call[c].result = "none", call'[c].result # "none"
      PROVE  Accounted(c)
  <2>0. TypeOK /\ call[c] \in Call /\ call[c].pc \in AfterDelete /\ seen \in Sightings
    BY <1>1 DEF IInv, TypeOK, InCharge
  <2>1. Proceeds(c) /\ ~TriesAgain(c)
    BY <1>1, ResultByOwnStep
  <2>2. \A s \in Stages : ~Goes(c, s)
    BY <1>1, ResultByOwnStep
  <2>3. CASE Refreshes(c) \/ RefreshesByFiles(c) \/ Lingers(c)
    <3>1. UNCHANGED row
      BY <2>3 DEF Refreshes, RefreshesByFiles, Lingers
    <3>2. Listed
      BY <2>2, <2>3
         DEF Refreshes, RefreshesByFiles, Lingers, FilesListed, HasFiles, Listed, Stages
    <3> QED
      BY <3>1, <3>2 DEF Listed
  <2>4. CASE RecoversRow(c)
    <3>1. UNCHANGED <<row, seen>> /\ call[c].pc \in Told /\ Ends(c, "ok", "done")
      BY <2>4 DEF RecoversRow, At, Told
    <3>2. seen # "no" /\ (seen = "yes" => HasFiles)
      BY <1>1, <3>1 DEF IInv, Sighted
    <3>3. call'[c].result = "ok"
      BY <2>0, <3>1, EndsWith DEF Reports
    <3> QED
      BY <2>0, <3>1, <3>2, <3>3 DEF HasFiles, Listed, Sightings
  <2>5. CASE RestoresMagnet(c)
    BY <2>1, <2>5 DEF RestoresMagnet, Ends, Added, Listed
  <2>6. ~(WaitsUntilGone(c) \/ AddsFile(c) \/ WaitsForMetadata(c) \/ Recovers(c))
    BY <2>1, <2>2 DEF WaitsUntilGone, AddsFile, WaitsForMetadata, Recovers, Stages
  <2>7. ~(\/ Acquires(c) \/ FirstCheck(c) \/ FirstRow(c) \/ Fetches(c)
          \/ SecondCheck(c) \/ SecondRow(c) \/ Deletes(c))
    BY <2>0 DEF AfterDelete, Acquires, FirstCheck, FirstRow, Fetches, SecondCheck,
                SecondRow, Deletes, At
  <2> QED
    BY <2>1, <2>3, <2>4, <2>5, <2>6, <2>7 DEF Proceeds
<1>2. IInv /\ [Next]_vars =>
        [\A c \in Callers :
           call[c].deleted /\ call[c].result = "none" /\ call'[c].result # "none"
             => Accounted(c)]_vars
  BY <1>1
<1> QED
  BY <1>2, InitHolds, StepKeeps, PTL DEF Spec, LossAccounted
=============================================================================
