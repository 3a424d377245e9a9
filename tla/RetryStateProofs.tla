-------------------------- MODULE RetryStateProofs --------------------------
(***************************************************************************)
(* Proofs about RetryState, for any number of torrents and of calls of     *)
(* stop(), any limit of attempts and any batch sizes.                      *)
(***************************************************************************)
EXTENDS RetryState, TLAPS

\* The count in memory is never behind the retries made, and a replacement
\* that was asked for is marked.
Counts ==
    \A t \in Torrents :
        /\ made[t] <= mem[t].tries
        /\ asked[t] <= 1
        /\ asked[t] = 1 => mem[t].replaced

\* Nothing was asked yet for what a batch of replacements still holds.
Pending == pc[Loop] = "replace" => \A t \in batch : ~mem[t].replaced

\* One writer at a time.
OneWriter == \A v, w \in Writers : pc[v] = "write" /\ pc[w] = "write" => v = w

\* Where the file stands, or will when the thread has written it.
Safe == IF Locked THEN Covers(snap) ELSE Covers(disk)

\* A cleared flag can be relied on outside the calls of a retry ...
Settled == ~dirty /\ ~lost /\ pc[Loop] \notin {"clear", "tag"} => Safe

\* ... and unless a stop() has orphaned it, a loop that runs is known, one that is
\* to stop has a stop() waiting for it, and one that stopped is saved or has a
\* stop() that will save it.
Known == pc[Loop] # "off" /\ ~orphan => known
Awaited == stopping /\ pc[Loop] # "off" /\ ~orphan => \E s \in Stops : pc[s] = "gather"
OffSaved ==
    pc[Loop] = "off" /\ ~lost /\ ~orphan =>
        Safe \/ \E s \in Stops : pc[s] \in {"woken", "stall", "lock"}

Sound ==
    /\ TypeOK /\ Counts /\ Pending /\ OneWriter
    /\ Settled /\ Known /\ Awaited /\ OffSaved

-----------------------------------------------------------------------------
LEMMA ZeroType == Zero \in Entry /\ Blank \in [Torrents -> Entry]
BY RetryAssumption DEF Zero, Entry, Blank

LEMMA InitSound == Init => Sound
<1> SUFFICES ASSUME Init PROVE Sound
  OBVIOUS
<1> USE RetryAssumption, ZeroType DEF Init
<1>1. TypeOK
  <2>1. /\ pc \in [Writers -> LoopPlaces \cup StopPlaces]
        /\ pc[Loop] \in LoopPlaces /\ \A s \in Stops : pc[s] \in StopPlaces
    BY DEF Writers, LoopPlaces, StopPlaces
  <2>2. /\ status \in [Torrents -> Statuses]
        /\ made \in [Torrents -> Nat] /\ asked \in [Torrents -> Nat]
    BY DEF Statuses
  <2>3. /\ mem \in [Torrents -> Entry] /\ disk \in [Torrents -> Entry]
        /\ snap \in [Torrents -> Entry] /\ shared \subseteq Torrents
    OBVIOUS
  <2>4. rows \subseteq Torrents /\ batch \subseteq Torrents /\ cooling \subseteq Torrents
    OBVIOUS
  <2>5. crashes \in 0..MaxCrashes
    OBVIOUS
  <2>6. /\ dirty \in BOOLEAN /\ lost \in BOOLEAN
        /\ stopping \in BOOLEAN /\ known \in BOOLEAN /\ orphan \in BOOLEAN
    OBVIOUS
  <2> HIDE DEF Init
  <2>7. QED  BY <2>1, <2>2, <2>3, <2>4, <2>5, <2>6 DEF TypeOK
<1>2. Counts
  BY DEF Counts, Blank, Zero
<1>3. ~Locked
  BY DEF Locked, Writers
<1>4. Covers(disk)
  BY DEF Covers, Blank, Zero
<1>5. OneWriter
  BY DEF OneWriter, Writers
<1>6. QED
  BY <1>1, <1>2, <1>3, <1>4, <1>5 DEF Sound, Pending, Settled, Known, Awaited, task, OffSaved, Safe, Writers

-----------------------------------------------------------------------------
(* Steps that leave memory and file alone. *)

LEMMA Untouched ==
    ASSUME Sound, TypeOK', dirty' \in {dirty, TRUE},
           UNCHANGED <<mem, disk, snap, made, asked, pc, batch, task, lost>>
    PROVE  Sound'
<1>1. Counts' /\ Pending' /\ OneWriter' /\ Known' /\ Awaited'
  BY DEF Sound, Counts, Pending, OneWriter, Known, Awaited, task
<1>2. Safe' = Safe
  BY DEF Safe, Locked, Covers
<1>3. Settled' /\ OffSaved'
  BY <1>2 DEF Sound, TypeOK, Settled, OffSaved, task
<1>4. QED  BY <1>1, <1>3 DEF Sound

\* A step of the loop between places outside of saving keeps the lock.
LEMMA LoopMoves ==
    ASSUME Sound, NEW place \in LoopPlaces \ {"write"},
           pc[Loop] \notin {"write", "off"}, place # "off", LoopAt(place)
    PROVE  /\ pc' \in [Writers -> LoopPlaces \cup StopPlaces]
           /\ pc'[Loop] = place
           /\ \A s \in Stops : pc'[s] = pc[s] /\ pc'[s] \in StopPlaces
           /\ Locked' = Locked
           /\ OneWriter'
           /\ UNCHANGED task => Known' /\ Awaited'
           /\ OffSaved'
<1> USE RetryAssumption DEF Sound, TypeOK, LoopAt, Writers
<1>1. /\ pc' \in [Writers -> LoopPlaces \cup StopPlaces]
      /\ pc'[Loop] = place
      /\ \A s \in Stops : pc'[s] = pc[s] /\ pc'[s] \in StopPlaces
  OBVIOUS
<1>2. Locked' = Locked
  BY <1>1 DEF Locked
<1>3. OneWriter'
  BY <1>1 DEF OneWriter
<1>4. UNCHANGED task => Known' /\ Awaited'
  BY <1>1 DEF Known, Awaited, task
<1>5. OffSaved'
  BY <1>1 DEF OffSaved
<1>6. QED  BY <1>1, <1>2, <1>3, <1>4, <1>5

\* Dropping entries keeps types, counts and what is saved.
LEMMA Drops ==
    ASSUME Sound, NEW old \in SUBSET Torrents, Drop(old)
    PROVE  /\ mem' \in [Torrents -> Entry] /\ shared' \subseteq Torrents
           /\ cooling' \subseteq Torrents
           /\ made' \in [Torrents -> Nat] /\ asked' \in [Torrents -> Nat]
           /\ Counts'
           /\ \A t \in Torrents : mem'[t].tries <= mem[t].tries
           /\ \A t \in Torrents : mem'[t].replaced => mem[t].replaced
<1> USE RetryAssumption, ZeroType DEF Sound, TypeOK, Drop
<1>1. /\ mem' \in [Torrents -> Entry] /\ shared' \subseteq Torrents
      /\ cooling' \subseteq Torrents
      /\ made' \in [Torrents -> Nat] /\ asked' \in [Torrents -> Nat]
  OBVIOUS
<1>2. \A t \in Torrents : /\ mem[t].tries \in Nat /\ mem[t].replaced \in BOOLEAN
                          /\ Zero.tries = 0 /\ Zero.replaced = FALSE
  BY DEF Entry, Zero
<1>3. Counts'
  BY <1>1, <1>2 DEF Counts
<1>4. /\ \A t \in Torrents : mem'[t].tries <= mem[t].tries
      /\ \A t \in Torrents : mem'[t].replaced => mem[t].replaced
  BY <1>2
<1>5. QED  BY <1>1, <1>3, <1>4

\* What covered memory covers it after entries were dropped.
LEMMA DropsCovered ==
    ASSUME Sound, NEW old \in SUBSET Torrents, Drop(old), Locked' = Locked,
           disk' = disk, snap' = snap
    PROVE  Safe => Safe'
<1>1. \A t \in Torrents : /\ mem'[t].tries <= mem[t].tries
                          /\ mem'[t].replaced => mem[t].replaced
  BY Drops
<1>2. \A t \in Torrents : /\ mem[t].tries \in Int /\ mem'[t].tries \in Int
                          /\ disk[t].tries \in Int /\ snap[t].tries \in Int
  BY Drops, RetryAssumption DEF Sound, TypeOK, Entry
<1>3. Covers(disk) => Covers(disk)'
  BY <1>1, <1>2 DEF Covers
<1>4. Covers(snap) => Covers(snap)'
  BY <1>1, <1>2 DEF Covers
<1>5. QED  BY <1>3, <1>4 DEF Safe

\* A step of the loop outside of saving, put together.
LEMMA LoopStep ==
    ASSUME Sound, NEW place \in LoopPlaces \ {"write", "off"},
           pc[Loop] \notin {"write", "off"}, LoopAt(place),
           UNCHANGED task, lost' \in BOOLEAN, dirty' \in BOOLEAN,
           rows' \subseteq Torrents, batch' \subseteq Torrents,
           status' \in [Torrents -> Statuses], cooling' \subseteq Torrents,
           mem' \in [Torrents -> Entry], made' \in [Torrents -> Nat],
           asked' \in [Torrents -> Nat], shared' \subseteq Torrents,
           UNCHANGED <<disk, snap, crashes>>, Counts', Settled',
           place = "replace" => \A t \in batch' : ~mem'[t].replaced
    PROVE  Sound'
<1>1. /\ pc' \in [Writers -> LoopPlaces \cup StopPlaces]
      /\ pc'[Loop] = place /\ \A s \in Stops : pc'[s] \in StopPlaces
      /\ OneWriter' /\ Known' /\ Awaited' /\ OffSaved'
  BY LoopMoves
<1>2. TypeOK'
  BY <1>1 DEF Sound, TypeOK, task
<1>3. Pending'
  BY <1>1 DEF Pending
<1>4. QED  BY <1>1, <1>2, <1>3 DEF Sound

\* The same, where memory is as it was and no retry is under way.
LEMMA LoopSettles ==
    ASSUME Sound, NEW place \in LoopPlaces \ {"write", "off"},
           pc[Loop] \notin {"write", "off", "clear", "tag"}, LoopAt(place),
           UNCHANGED <<mem, disk, snap>>, lost' = lost, dirty' \in {dirty, TRUE}
    PROVE  Settled'
<1>1. Locked' = Locked
  BY LoopMoves
<1>2. Safe' = Safe
  BY <1>1 DEF Safe, Covers
<1>3. QED  BY <1>2 DEF Sound, TypeOK, Settled

-----------------------------------------------------------------------------
(* One lemma per action. *)

LEMMA SoundHandOff == ASSUME Sound, NEW t \in Torrents, HandOffStep(t) PROVE Sound'
<1> USE DEF file, history
<1>1. status' \in [Torrents -> Statuses]
  BY DEF Sound, TypeOK, Statuses, HandOffStep, HandOff, HandOffEnds, HandOffFails,
         FailTagged, UserRetries
<1>2. /\ dirty' \in {dirty, TRUE}
      /\ UNCHANGED <<mem, disk, snap, shared, made, asked, pc, task, lost, rows,
                     batch, cooling, crashes>>
  BY DEF HandOffStep, HandOff, HandOffEnds, HandOffFails, FailTagged, UserRetries
<1>3. TypeOK'
  BY <1>1, <1>2 DEF Sound, TypeOK, task
<1>4. QED  BY <1>2, <1>3, Untouched

LEMMA SoundBackoff == ASSUME Sound, NEW t \in Torrents, BackoffPasses(t) PROVE Sound'
<1>1. TypeOK'
  BY DEF Sound, TypeOK, BackoffPasses, file, history, task
<1>2. QED  BY <1>1, Untouched DEF BackoffPasses, file, history

LEMMA SoundPick == ASSUME Sound, PickObserves PROVE Sound'
<1>1. PICK old \in SUBSET Torrents : Drop(old)
  BY DEF PickObserves, Observe
<1>2. /\ dirty' = TRUE
      /\ UNCHANGED <<task, pc, rows, batch, status, lost, disk, snap, crashes>>
  BY DEF PickObserves, Observe
<1>3. TypeOK' /\ Counts'
  BY <1>1, <1>2, Drops DEF Sound, TypeOK, task
<1>4. Locked' = Locked
  BY <1>2 DEF Locked
<1>5. Safe => Safe'
  BY <1>1, <1>2, <1>4, DropsCovered
<1>6. OneWriter' /\ Known' /\ Awaited' /\ Settled' /\ OffSaved'
  BY <1>2, <1>5 DEF Sound, OneWriter, Known, Awaited, task, Settled, OffSaved
<1>7. Pending'
  BY <1>1, <1>2, Drops DEF Sound, TypeOK, Pending
<1>8. QED  BY <1>3, <1>6, <1>7 DEF Sound

LEMMA SoundPoll == ASSUME Sound, Poll PROVE Sound'
<1>1. PICK gone \in SUBSET Torrents :
        /\ Drop(gone)
        /\ status' = [t \in Torrents |-> IF t \in gone /\ ~Claimed(t) THEN "other" ELSE status[t]]
        /\ batch' = gone
  BY DEF Poll
<1>2. /\ pc[Loop] = "top" /\ LoopAt("observe")
      /\ UNCHANGED <<dirty, task, rows, lost, disk, snap, crashes>>
  BY DEF Poll
<1>3. "observe" \in LoopPlaces \ {"write", "off"}
  BY DEF LoopPlaces
<1>4. Locked' = Locked /\ pc'[Loop] = "observe"
  BY <1>2, <1>3, LoopMoves
<1>5. Safe => Safe'
  BY <1>1, <1>2, <1>4, DropsCovered
<1>6. Settled'
  BY <1>2, <1>5 DEF Sound, Settled
<1>7. status' \in [Torrents -> Statuses]
  BY <1>1 DEF Sound, TypeOK, Statuses
<1>8. /\ dirty' \in BOOLEAN /\ lost' \in BOOLEAN
      /\ rows' \subseteq Torrents /\ batch' \subseteq Torrents
  BY <1>1, <1>2 DEF Sound, TypeOK
<1>9. QED  BY <1>1, <1>2, <1>3, <1>6, <1>7, <1>8, Drops, LoopStep

LEMMA SoundPollQuiet == ASSUME Sound, PollQuiet PROVE Sound'
<1>1. "flush" \in LoopPlaces \ {"write", "off"}
  BY DEF LoopPlaces
<1>2. /\ pc[Loop] = "observe" /\ LoopAt("flush") /\ batch' = {}
      /\ UNCHANGED <<mem, dirty, task, rows, status, cooling, lost, disk, snap,
                     shared, made, asked, crashes>>
  BY DEF PollQuiet, file, history
<1>3. Settled'
  BY <1>1, <1>2, LoopSettles
<1>4. Counts'
  BY <1>2 DEF Sound, Counts
<1>5. QED  BY <1>1, <1>2, <1>3, <1>4, LoopStep DEF Sound, TypeOK

\* PollObserved and PassStarts.
LEMMA SoundObserve ==
    ASSUME Sound, PollObserved \/ PassStarts
    PROVE  Sound'
<1>1. PICK old \in SUBSET Torrents : Drop(old)
  BY DEF PollObserved, PassStarts, Observe
<1>2. PICK place \in {"flush", "sweep"} : LoopAt(place)
  BY DEF PollObserved, PassStarts
<1>3. place \in LoopPlaces \ {"write", "off"}
  BY DEF LoopPlaces
<1>4. /\ pc[Loop] = "observe" /\ dirty' = TRUE /\ batch' = {} /\ rows' \subseteq Torrents
      /\ UNCHANGED <<task, status, lost, disk, snap, crashes>>
  BY DEF PollObserved, PassStarts, Observe, Sound, TypeOK
<1>5. Settled'
  BY <1>4 DEF Settled
<1>6. lost' \in BOOLEAN /\ status' \in [Torrents -> Statuses]
  BY <1>4 DEF Sound, TypeOK
<1>7. QED  BY <1>1, <1>2, <1>3, <1>4, <1>5, <1>6, Drops, LoopStep

\* The retries of a batch are counted in memory and in the history alike.
LEMMA SoundRetry == ASSUME Sound, Retry PROVE Sound'
<1> USE RetryAssumption
<1>1. PICK ts \in Capped(Retryable, MaxRetries) :
        /\ mem' = Counted(ts)
        /\ made' = [t \in Torrents |-> IF t \in ts THEN made[t] + 1 ELSE made[t]]
        /\ cooling' = cooling \cup ts
        /\ batch' = ts
  BY DEF Retry
<1>2. /\ pc[Loop] = "sweep" /\ LoopAt("clear")
      /\ UNCHANGED <<dirty, task, rows, status, lost, disk, snap, shared, asked, crashes>>
  BY DEF Retry, file
<1>3. /\ ts \subseteq Torrents
      /\ \A t \in ts : mem[t].tries < MaxRetryAttempts
  BY DEF Capped, Retryable, Sound, TypeOK
<1>4. \A t \in Torrents : /\ mem[t] \in Entry /\ mem[t].tries \in 0..MaxRetryAttempts
                          /\ mem[t].replaced \in BOOLEAN /\ made[t] \in Nat
  BY DEF Sound, TypeOK, Entry
<1>5. \A t \in ts : /\ mem'[t] = [tries |-> mem[t].tries + 1, replaced |-> mem[t].replaced]
                   /\ mem'[t] \in Entry
  <2> SUFFICES ASSUME NEW t \in ts
               PROVE  /\ mem'[t] = [tries |-> mem[t].tries + 1, replaced |-> mem[t].replaced]
                      /\ mem'[t] \in Entry
    OBVIOUS
  <2>1. mem'[t] = [mem[t] EXCEPT !.tries = @ + 1]
    BY <1>1, <1>3 DEF Counted
  <2>2. mem'[t] = [tries |-> mem[t].tries + 1, replaced |-> mem[t].replaced]
    BY <2>1, <1>3, <1>4 DEF Entry
  <2>3. mem[t].tries + 1 \in 0..MaxRetryAttempts
    BY <1>3, <1>4
  <2>4. QED  BY <2>2, <2>3, <1>3, <1>4 DEF Entry
<1>6. \A t \in Torrents \ ts : mem'[t] = mem[t]
  BY <1>1 DEF Counted
<1>7. mem' \in [Torrents -> Entry]
  <2>1. mem' = [t \in Torrents |-> mem'[t]]
    BY <1>1 DEF Counted
  <2>2. QED  BY <2>1, <1>4, <1>5, <1>6
<1>8. made' \in [Torrents -> Nat]
  BY <1>1, <1>4
<1>9. Counts'
  <2>1. \A t \in ts : made'[t] = made[t] + 1 /\ mem'[t].tries = mem[t].tries + 1
                     /\ mem'[t].replaced = mem[t].replaced
    <3>1. \A t \in ts : made'[t] = made[t] + 1
      BY <1>1, <1>3
    <3>2. ASSUME NEW t \in ts
          PROVE  mem'[t].tries = mem[t].tries + 1 /\ mem'[t].replaced = mem[t].replaced
      <4> DEFINE new == [tries |-> mem[t].tries + 1, replaced |-> mem[t].replaced]
      <4>1. mem'[t] = new
        BY <1>5
      <4>2. new.tries = mem[t].tries + 1 /\ new.replaced = mem[t].replaced
        OBVIOUS
      <4> HIDE DEF new
      <4>3. QED  BY <4>1, <4>2
    <3>3. QED  BY <3>1, <3>2
  <2>2. \A t \in Torrents \ ts : made'[t] = made[t] /\ mem'[t] = mem[t]
    BY <1>1, <1>6
  <2>3. \A t \in Torrents : made[t] <= mem[t].tries /\ asked'[t] = asked[t]
    BY <1>2 DEF Sound, Counts
  <2>4. \A t \in Torrents : made'[t] <= mem'[t].tries
    BY <2>1, <2>2, <2>3, <1>3, <1>4
  <2>5. \A t \in Torrents : mem'[t].replaced = mem[t].replaced
    BY <2>1, <2>2
  <2>6. QED  BY <2>3, <2>4, <2>5 DEF Sound, Counts
<1>10. "clear" \in LoopPlaces \ {"write", "off"}
  BY DEF LoopPlaces
<1>11. Settled'
  BY <1>2, <1>10, LoopMoves DEF Settled
<1>12. QED  BY <1>1, <1>2, <1>3, <1>7, <1>8, <1>9, <1>10, <1>11, LoopStep DEF Sound, TypeOK

LEMMA SoundClear == ASSUME Sound, ClearReturns PROVE Sound'
<1>1. "tag" \in LoopPlaces \ {"write", "off"}
  BY DEF LoopPlaces
<1>2. /\ pc[Loop] = "clear" /\ LoopAt("tag") /\ status' = Uncleared
      /\ UNCHANGED <<mem, dirty, task, rows, batch, cooling, lost, disk, snap,
                     shared, made, asked, crashes>>
  BY DEF ClearReturns, file, history
<1>3. status' \in [Torrents -> Statuses]
  BY <1>2 DEF Sound, TypeOK, Uncleared, Statuses
<1>4. Settled'
  BY <1>1, <1>2, LoopMoves DEF Settled
<1>5. Counts'
  BY <1>2 DEF Sound, Counts
<1>6. QED  BY <1>1, <1>2, <1>3, <1>4, <1>5, LoopStep DEF Sound, TypeOK

LEMMA SoundRaises == ASSUME Sound, RetryRaises PROVE Sound'
<1>1. "flush" \in LoopPlaces \ {"write", "off"}
  BY DEF LoopPlaces
<1>2. /\ pc[Loop] \in {"clear", "tag"} /\ LoopAt("flush") /\ status' \in {status, Uncleared}
      /\ lost' = (lost \/ ~dirty) /\ batch' = {}
      /\ UNCHANGED <<mem, dirty, task, rows, cooling, disk, snap,
                     shared, made, asked, crashes>>
  BY DEF RetryRaises, file, history
<1>3. status' \in [Torrents -> Statuses]
  BY <1>2 DEF Sound, TypeOK, Uncleared, Statuses
<1>4. Settled'
  BY <1>2 DEF Settled, Sound, TypeOK
<1>5. Counts'
  BY <1>2 DEF Sound, Counts
<1>6. QED  BY <1>1, <1>2, <1>3, <1>4, <1>5, LoopStep DEF Sound, TypeOK

LEMMA Marked ==
    \A e \in Entry : LET m == [e EXCEPT !.replaced = TRUE]
                    IN  m \in Entry /\ m.replaced = TRUE /\ m.tries = e.tries
BY DEF Entry

\* Asking for a replacement, or ending the pass, from a place in a pass.
LEMMA Replaces ==
    ASSUME Sound, NEW ts \in SUBSET Torrents, ReplaceOrFlush(ts),
           \A t \in ts : ~mem[t].replaced
    PROVE  /\ mem' \in [Torrents -> Entry] /\ asked' \in [Torrents -> Nat]
           /\ batch' \subseteq Torrents
           /\ \E place \in {"replace", "flush"} : LoopAt(place)
           /\ made' = made => Counts'
           /\ \A t \in batch' : ~mem'[t].replaced
           /\ ts = {} => mem' = mem
<1>1. CASE ts = {}
  BY <1>1 DEF ReplaceOrFlush, Sound, TypeOK, Counts
<1>2. ASSUME NEW t \in ts, AskFor(ts, t)
      PROVE  /\ mem' \in [Torrents -> Entry] /\ asked' \in [Torrents -> Nat]
             /\ batch' \subseteq Torrents
             /\ LoopAt("replace")
             /\ made' = made => Counts'
             /\ \A u \in batch' : ~mem'[u].replaced
  <2> DEFINE new == [mem[t] EXCEPT !.replaced = TRUE]
  <2>1. /\ mem \in [Torrents -> Entry] /\ asked \in [Torrents -> Nat]
        /\ mem[t] \in Entry /\ asked[t] \in Nat
    BY DEF Sound, TypeOK
  <2>2. mem' = [mem EXCEPT ![t] = new]
    BY <1>2 DEF AskFor
  <2>3. new \in Entry /\ new.tries = mem[t].tries /\ new.replaced = TRUE
    BY <2>1, Marked
  <2> HIDE DEF new
  <2>4. asked' = [asked EXCEPT ![t] = asked[t] + 1] /\ batch' = ts \ {t} /\ LoopAt("replace")
    BY <1>2 DEF AskFor
  <2>5. mem' \in [Torrents -> Entry] /\ asked' \in [Torrents -> Nat]
    BY <2>1, <2>2, <2>3, <2>4
  <2>6. asked[t] = 0
    BY <2>1 DEF Sound, Counts
  <2>7. ASSUME made' = made
        PROVE  Counts'
    <3>1. mem'[t] = new /\ asked'[t] = 1
      BY <2>1, <2>2, <2>4, <2>6
    <3>2. \A u \in Torrents \ {t} : mem'[u] = mem[u] /\ asked'[u] = asked[u]
      BY <2>1, <2>2, <2>4
    <3>3. made[t] <= mem'[t].tries /\ mem'[t].replaced
      BY <3>1, <2>3 DEF Sound, Counts
    <3>4. QED  BY <2>7, <3>1, <3>2, <3>3 DEF Sound, Counts
  <2>8. \A u \in batch' : ~mem'[u].replaced
    BY <2>1, <2>2, <2>4
  <2>9. QED  BY <2>4, <2>5, <2>7, <2>8
<1>3. QED  BY <1>1, <1>2 DEF ReplaceOrFlush

\* NoRetry, TagReturns and Replaced.
LEMMA SoundReplacing ==
    ASSUME Sound, NEW ts \in SUBSET Torrents, ReplaceOrFlush(ts),
           \A t \in ts : ~mem[t].replaced,
           pc[Loop] \in {"sweep", "tag", "replace"},
           dirty' = TRUE \/ (ts = {} /\ dirty' = dirty /\ pc[Loop] # "tag"),
           UNCHANGED <<task, rows, status, cooling, lost, file, made, crashes>>
    PROVE  Sound'
<1>1. PICK place \in {"replace", "flush"} : LoopAt(place)
  BY Replaces
<1>2. place \in LoopPlaces \ {"write", "off"}
  BY DEF LoopPlaces
<1>3. Settled'
  <2>1. CASE dirty' = TRUE
    BY <2>1 DEF Settled
  <2>2. CASE ts = {} /\ dirty' = dirty /\ pc[Loop] # "tag"
    <3>1. UNCHANGED <<mem, disk, snap>> /\ lost' = lost
      BY <2>2, Replaces DEF file
    <3>2. QED  BY <1>1, <1>2, <2>2, <3>1, LoopSettles
  <2>3. QED  BY <2>1, <2>2
<1>4. /\ dirty' \in BOOLEAN /\ lost' \in BOOLEAN /\ rows' \subseteq Torrents
      /\ status' \in [Torrents -> Statuses] /\ cooling' \subseteq Torrents
      /\ made' \in [Torrents -> Nat] /\ shared' \subseteq Torrents
      /\ UNCHANGED <<disk, snap, crashes, task, made>>
  BY DEF Sound, TypeOK, file
<1>5. QED  BY <1>1, <1>2, <1>3, <1>4, Replaces, LoopStep

LEMMA SoundReplace == ASSUME Sound, NoRetry \/ TagReturns \/ Replaced PROVE Sound'
<1>1. CASE NoRetry
  <2>1. PICK ts \in Capped(Exhausted, MaxReplacements) : ReplaceOrFlush(ts)
    BY <1>1 DEF NoRetry
  <2>2. ts \subseteq Exhausted /\ ts \subseteq Torrents /\ \A t \in ts : ~mem[t].replaced
    BY <2>1 DEF Capped, Exhausted, Sound, TypeOK
  <2>3. Exhausted = {} => ts = {}
    BY <2>2
  <2>4. QED  BY <1>1, <2>1, <2>2, <2>3, SoundReplacing DEF NoRetry
<1>2. CASE TagReturns
  <2>1. PICK ts \in Capped(Exhausted, MaxReplacements) : ReplaceOrFlush(ts)
    BY <1>2 DEF TagReturns
  <2>2. ts \subseteq Torrents /\ \A t \in ts : ~mem[t].replaced
    BY <2>1 DEF Capped, Exhausted, Sound, TypeOK
  <2>3. QED  BY <1>2, <2>1, <2>2, SoundReplacing DEF TagReturns
<1>3. CASE Replaced
  <2>1. batch \subseteq Torrents /\ \A t \in batch : ~mem[t].replaced
    BY <1>3 DEF Sound, TypeOK, Pending, Replaced
  <2>2. QED  BY <1>3, <2>1, SoundReplacing DEF Replaced
<1>4. QED  BY <1>1, <1>2, <1>3

-----------------------------------------------------------------------------
(* Saving *)

LEMMA SoundSnapshot ==
    ASSUME Sound, NEW w \in Writers, ~Locked, Snapshot(w),
           pc[w] \in {"flush", "stall", "lock"}, rows' \subseteq Torrents,
           UNCHANGED <<mem, disk, task, batch, status, cooling, history>>
    PROVE  Sound'
<1> USE RetryAssumption
<1>1. /\ snap' = mem /\ shared' = Torrents /\ dirty' = FALSE /\ lost' = FALSE
      /\ pc' = [pc EXCEPT ![w] = "write"]
  BY DEF Snapshot
<1>2. /\ pc' \in [Writers -> LoopPlaces \cup StopPlaces]
      /\ pc'[Loop] \in LoopPlaces /\ \A s \in Stops : pc'[s] \in StopPlaces
  BY <1>1 DEF Sound, TypeOK, Writers, LoopPlaces, StopPlaces
<1>3. TypeOK'
  BY <1>1, <1>2 DEF Sound, TypeOK, history, task
<1>4. pc'[w] = "write" /\ \A v \in Writers \ {w} : pc'[v] = pc[v] /\ pc'[v] # "write"
  BY <1>1 DEF Sound, TypeOK, Locked
<1>5. Locked' /\ OneWriter'
  BY <1>4 DEF Locked, OneWriter
<1>6. Covers(snap)'
  BY <1>1 DEF Covers, Sound, TypeOK, Entry
<1>7. Safe'
  BY <1>5, <1>6 DEF Safe
<1>8. Known' /\ Awaited'
  BY <1>4 DEF Sound, Known, Awaited, task, Writers
<1>9. Counts' /\ Pending'
  BY <1>4 DEF Sound, Counts, Pending, Writers, history
<1>10. QED  BY <1>3, <1>5, <1>7, <1>8, <1>9 DEF Sound, Settled, OffSaved

LEMMA SoundReturns ==
    ASSUME Sound, NEW w \in Writers, FlushReturns(w),
           pc[w] \in {"flush", "stall", "lock"}, rows' \subseteq Torrents,
           w # Loop => ~dirty,
           UNCHANGED <<mem, disk, task, batch, status, cooling, history>>
    PROVE  Sound'
<1> USE RetryAssumption
<1>1. /\ pc' = [pc EXCEPT ![w] = AfterFlush(w)]
      /\ UNCHANGED <<snap, shared, dirty, lost>>
  BY DEF FlushReturns
<1>2. /\ pc' \in [Writers -> LoopPlaces \cup StopPlaces]
      /\ pc'[Loop] \in LoopPlaces /\ \A s \in Stops : pc'[s] \in StopPlaces
  BY <1>1 DEF Sound, TypeOK, Writers, LoopPlaces, StopPlaces, AfterFlush
<1>3. TypeOK'
  BY <1>1, <1>2 DEF Sound, TypeOK, history, task
<1>4. /\ pc'[w] = AfterFlush(w) /\ pc'[w] # "write" /\ pc[w] # "write"
      /\ \A v \in Writers \ {w} : pc'[v] = pc[v]
  BY <1>1 DEF Sound, TypeOK, AfterFlush
<1>5. Locked' = Locked /\ OneWriter'
  BY <1>4 DEF Sound, Locked, OneWriter
<1>6. Safe' = Safe
  BY <1>1, <1>5 DEF Safe, Covers
<1>7. Counts' /\ Pending'
  BY <1>4 DEF Sound, Counts, Pending, Writers, AfterFlush, history
<1>8. Known' /\ Awaited'
  BY <1>4 DEF Sound, Known, Awaited, task, Writers, AfterFlush
<1>9. CASE w = Loop
  <2>1. pc'[Loop] = "top" /\ pc[Loop] \in {"flush", "stall", "lock"}
    BY <1>4, <1>9 DEF AfterFlush
  <2>2. QED  BY <1>1, <1>3, <1>5, <1>6, <1>7, <1>8, <2>1 DEF Sound, Settled, OffSaved
<1>10. CASE w # Loop
  <2>1. pc'[Loop] = pc[Loop]
    BY <1>4, <1>10 DEF Writers
  <2>2. Settled'
    BY <1>1, <1>6, <2>1 DEF Sound, Settled
  <2>3. pc'[Loop] = "off" /\ ~lost' => Safe'
    BY <1>1, <1>6, <1>10, <2>1 DEF Sound, Settled
  <2>4. OffSaved'
    BY <2>3 DEF OffSaved
  <2>5. QED  BY <1>3, <1>5, <1>7, <1>8, <2>2, <2>4 DEF Sound
<1>11. QED  BY <1>9, <1>10

LEMMA SoundWriteEnds == ASSUME Sound, NEW w \in Writers, WriteEnds(w) PROVE Sound'
<1> USE RetryAssumption, ZeroType
<1>1. /\ pc[w] = "write" /\ pc' = [pc EXCEPT ![w] = AfterFlush(w)]
      /\ snap' = Blank /\ shared' = {}
      /\ UNCHANGED <<mem, dirty, task, rows, batch, status, cooling, made, asked, crashes>>
  BY DEF WriteEnds, history
<1>2. \/ Written /\ lost' = lost
      \/ lost' = TRUE /\ disk' = disk
  BY DEF WriteEnds
<1>3. /\ pc' \in [Writers -> LoopPlaces \cup StopPlaces]
      /\ pc'[Loop] \in LoopPlaces /\ \A s \in Stops : pc'[s] \in StopPlaces
  BY <1>1 DEF Sound, TypeOK, Writers, LoopPlaces, StopPlaces, AfterFlush
<1>4. /\ pc'[w] = AfterFlush(w) /\ pc'[w] # "write"
      /\ \A v \in Writers \ {w} : pc'[v] = pc[v] /\ pc'[v] # "write"
  BY <1>1 DEF Sound, TypeOK, OneWriter, AfterFlush
<1>5. Locked /\ ~Locked'
  BY <1>1, <1>4 DEF Locked
<1>6. \A t \in Torrents : /\ mem[t].tries \in 0..MaxRetryAttempts /\ mem[t].replaced \in BOOLEAN
                          /\ snap[t].tries \in 0..MaxRetryAttempts /\ snap[t].replaced \in BOOLEAN
  BY DEF Sound, TypeOK, Entry
<1>7. ASSUME Written
      PROVE  disk' \in [Torrents -> Entry] /\ (Safe => Covers(disk)')
  <2>1. PICK tries \in SUBSET shared, marks \in SUBSET shared :
            disk' = [t \in Torrents |->
                        [tries |-> IF t \in tries THEN mem[t].tries ELSE snap[t].tries,
                         replaced |-> IF t \in marks THEN mem[t].replaced ELSE snap[t].replaced]]
    BY <1>7 DEF Written
  <2>2. \A t \in Torrents :
            /\ disk'[t].tries = IF t \in tries THEN mem[t].tries ELSE snap[t].tries
            /\ disk'[t].replaced = IF t \in marks THEN mem[t].replaced ELSE snap[t].replaced
    BY <2>1
  <2>3. disk' \in [Torrents -> Entry]
    BY <2>1, <1>6 DEF Entry
  <2>4. Safe => Covers(snap)
    BY <1>5 DEF Safe
  <2>5. Covers(snap) => Covers(disk)'
    BY <2>2, <1>1, <1>6 DEF Covers
  <2>6. QED  BY <2>3, <2>4, <2>5
<1>8. TypeOK'
  <2>1. disk' \in [Torrents -> Entry] /\ lost' \in BOOLEAN
    BY <1>2, <1>7 DEF Sound, TypeOK
  <2>2. QED  BY <1>1, <1>3, <2>1 DEF Sound, TypeOK, task
<1>9. ~lost' => ~lost /\ (Safe => Safe')
  BY <1>2, <1>5, <1>7 DEF Safe, Sound, TypeOK
<1>10. OneWriter'
  BY <1>4 DEF OneWriter
<1>11. Counts' /\ Pending'
  BY <1>1, <1>4 DEF Sound, Counts, Pending, Writers, AfterFlush
<1>12. Known' /\ Awaited'
  BY <1>1, <1>4 DEF Sound, Known, Awaited, task, Writers, AfterFlush
<1>13. CASE w = Loop
  <2>1. pc'[Loop] = "top" /\ pc[Loop] = "write"
    BY <1>1, <1>4, <1>13 DEF AfterFlush
  <2>2. QED  BY <1>1, <1>8, <1>9, <1>10, <1>11, <1>12, <2>1 DEF Sound, Settled, OffSaved
<1>14. CASE w # Loop
  <2>1. pc'[Loop] = pc[Loop]
    BY <1>4, <1>14 DEF Writers
  <2>2. Settled'
    BY <1>1, <1>9, <2>1 DEF Sound, Settled
  <2>3. ASSUME NEW s \in Stops, pc[s] \in {"woken", "stall", "lock"}
        PROVE  pc'[s] \in {"woken", "stall", "lock"}
    BY <1>1, <1>4, <2>3 DEF Writers
  <2>4. OffSaved'
    BY <1>1, <1>9, <2>1, <2>3 DEF Sound, OffSaved, task
  <2>5. QED  BY <1>8, <1>10, <1>11, <1>12, <2>2, <2>4 DEF Sound
<1>15. QED  BY <1>13, <1>14

LEMMA SoundSaves == ASSUME Sound, NEW w \in Writers, Saves(w) PROVE Sound'
<1> USE RetryAssumption DEF Sound, TypeOK
<1>1. CASE Flush(w)
  <2>1. /\ pc[w] \in {"flush", "stall", "lock"} /\ rows' \subseteq Torrents
        /\ UNCHANGED <<mem, disk, task, batch, status, cooling, history>>
    BY <1>1 DEF Flush
  <2>2. CASE (~dirty \/ MayPutOff(w)) /\ FlushReturns(w)
    BY <2>1, <2>2, SoundReturns DEF MayPutOff
  <2>3. CASE ~Busy /\ Snapshot(w)
    BY <2>1, <2>3, SoundSnapshot DEF Busy, Locked
  <2>4. CASE /\ pc' = [pc EXCEPT ![w] = "lock"]
             /\ UNCHANGED <<snap, shared, dirty, lost>>
    <3>1. /\ pc' \in [Writers -> LoopPlaces \cup StopPlaces]
          /\ pc'[Loop] \in LoopPlaces /\ \A s \in Stops : pc'[s] \in StopPlaces
      BY <2>4 DEF Writers, LoopPlaces, StopPlaces
    <3>2. /\ pc'[w] = "lock" /\ pc[w] \notin {"write", "gather", "off", "clear", "tag"}
          /\ \A v \in Writers \ {w} : pc'[v] = pc[v]
      BY <2>1, <2>4
    <3>3. TypeOK'
      BY <2>1, <2>4, <3>1 DEF history, task
    <3>4. Locked' = Locked /\ OneWriter'
      BY <3>2 DEF Locked, OneWriter
    <3>5. Safe' = Safe
      BY <2>1, <2>4, <3>4 DEF Safe, Covers
    <3>6. Counts' /\ Pending' /\ Known' /\ Awaited'
      BY <2>1, <3>2 DEF Counts, Pending, Known, Awaited, task, Writers, history
    <3>7. Settled'
      BY <2>4, <3>2, <3>5 DEF Settled, Writers
    <3>8. OffSaved'
      BY <2>4, <3>2, <3>5 DEF OffSaved, Writers
    <3>9. QED  BY <3>3, <3>4, <3>6, <3>7, <3>8
  <2>5. QED  BY <1>1, <2>2, <2>3, <2>4 DEF Flush
<1>2. CASE FlushLocked(w)
  <2>1. /\ pc[w] = "lock" /\ ~Locked /\ rows' \subseteq Torrents
        /\ UNCHANGED <<mem, disk, task, batch, status, cooling, history>>
    BY <1>2 DEF FlushLocked
  <2>2. CASE dirty
    BY <1>2, <2>1, <2>2, SoundSnapshot DEF FlushLocked
  <2>3. CASE ~dirty
    BY <1>2, <2>1, <2>3, SoundReturns DEF FlushLocked
  <2>4. QED  BY <2>2, <2>3
<1>3. CASE WriteEnds(w)
  BY <1>3, SoundWriteEnds
<1>4. QED  BY <1>1, <1>2, <1>3 DEF Saves

-----------------------------------------------------------------------------
(* The life of the loop and of the daemon *)

LEMMA SoundStart == ASSUME Sound, StartRequested PROVE Sound'
<1> USE RetryAssumption
<1>1. /\ pc[Loop] = "off" /\ pc' = [pc EXCEPT ![Loop] = "top"]
      /\ stopping' = FALSE /\ known' = TRUE /\ orphan' = FALSE
      /\ UNCHANGED <<mem, dirty, rows, batch, status, cooling, lost, disk, snap, shared,
                     made, asked, crashes>>
  BY DEF StartRequested, LoopAt, file, history
<1>2. /\ pc'[Loop] = "top" /\ \A s \in Stops : pc'[s] = pc[s]
      /\ pc' \in [Writers -> LoopPlaces \cup StopPlaces]
  BY <1>1 DEF Sound, TypeOK, Writers, LoopPlaces
<1>3. TypeOK'
  BY <1>1, <1>2 DEF Sound, TypeOK, LoopPlaces
<1>4. Locked' = Locked /\ OneWriter'
  BY <1>1, <1>2 DEF Sound, Locked, OneWriter, Writers
<1>5. Safe' = Safe
  BY <1>1, <1>4 DEF Safe, Covers
<1>6. QED
  BY <1>1, <1>2, <1>3, <1>4, <1>5 DEF Sound, Counts, Pending, Settled, Known, Awaited, task, OffSaved

LEMMA SoundStop == ASSUME Sound, NEW s \in Stops, StopRequested(s) PROVE Sound'
<1> USE RetryAssumption
<1>1. /\ pc[s] = "idle" /\ pc' = [pc EXCEPT ![s] = FirstAwait]
      /\ stopping' = TRUE /\ known' = known /\ orphan' = (orphan /\ pc[Loop] # "off")
      /\ UNCHANGED <<mem, dirty, rows, batch, status, cooling, lost, disk, snap, shared,
                     made, asked, crashes>>
  BY DEF StopRequested, file, history
<1>2. FirstAwait \in {"stall", "woken", "gather"}
  BY DEF FirstAwait
<1>3. /\ pc'[s] = FirstAwait /\ s # Loop
      /\ \A v \in Writers \ {s} : pc'[v] = pc[v]
      /\ pc' \in [Writers -> LoopPlaces \cup StopPlaces]
  BY <1>1, <1>2 DEF Sound, TypeOK, Writers, StopPlaces
<1>4. pc'[Loop] = pc[Loop] /\ \A r \in Stops \ {s} : pc'[r] = pc[r]
  BY <1>3 DEF Writers
<1>5. TypeOK'
  BY <1>1, <1>2, <1>3, <1>4 DEF Sound, TypeOK, StopPlaces
<1>6. Locked' = Locked /\ OneWriter'
  BY <1>1, <1>2, <1>3 DEF Sound, Locked, OneWriter, Writers
<1>7. Safe' = Safe
  BY <1>1, <1>6 DEF Safe, Covers
<1>8. Known' /\ Awaited'
  BY <1>1, <1>3, <1>4 DEF Sound, TypeOK, Known, Awaited, FirstAwait
<1>9. OffSaved'
  BY <1>3, <1>4 DEF OffSaved, FirstAwait
<1>10. Counts' /\ Pending' /\ Settled'
  BY <1>1, <1>4, <1>7 DEF Sound, Counts, Pending, Settled
<1>11. QED  BY <1>5, <1>6, <1>8, <1>9, <1>10 DEF Sound

LEMMA SoundLoopStops == ASSUME Sound, LoopStops PROVE Sound'
<1> USE RetryAssumption
<1>1. /\ pc[Loop] = "top" /\ stopping
      /\ pc' = [w \in Writers |-> IF w = Loop THEN "off"
                                  ELSE IF pc[w] = "gather" THEN "woken" ELSE pc[w]]
      /\ UNCHANGED <<mem, dirty, stopping, known, orphan, rows, batch, status, cooling, lost,
                     disk, snap, shared, made, asked, crashes>>
  BY DEF LoopStops, file, history, task
<1>2. /\ pc'[Loop] = "off"
      /\ \A s \in Stops : pc'[s] = IF pc[s] = "gather" THEN "woken" ELSE pc[s]
      /\ pc' \in [Writers -> LoopPlaces \cup StopPlaces]
  BY <1>1 DEF Sound, TypeOK, Writers, StopPlaces, LoopPlaces
<1>3. TypeOK'
  BY <1>1, <1>2 DEF Sound, TypeOK, LoopPlaces, StopPlaces
<1>4. \A w \in Writers : pc'[w] = "write" <=> pc[w] = "write"
  BY <1>1
<1>5. Locked' = Locked /\ OneWriter'
  BY <1>4 DEF Sound, Locked, OneWriter
<1>6. Safe' = Safe
  BY <1>1, <1>5 DEF Safe, Covers
<1>7. ~orphan => \E s \in Stops : pc'[s] = "woken"
  BY <1>1, <1>2 DEF Sound, Awaited
<1>8. Known' /\ Awaited' /\ OffSaved'
  BY <1>1, <1>2, <1>7 DEF Known, Awaited, OffSaved
<1>9. Counts' /\ Pending' /\ Settled'
  BY <1>1, <1>2, <1>6 DEF Sound, Counts, Pending, Settled
<1>10. QED  BY <1>3, <1>5, <1>8, <1>9 DEF Sound

\* A loop that was started in the meantime is an orphan from now on.
LEMMA SoundResumes == ASSUME Sound, NEW s \in Stops, StopResumes(s) PROVE Sound'
<1> USE RetryAssumption
<1>1. /\ pc[s] = "woken" /\ pc' = [pc EXCEPT ![s] = "stall"]
      /\ known' = FALSE /\ orphan' = (orphan \/ pc[Loop] # "off") /\ stopping' = stopping
      /\ UNCHANGED <<mem, dirty, rows, batch, status, cooling, lost, disk, snap, shared,
                     made, asked, crashes>>
  BY DEF StopResumes, file, history
<1>2. /\ pc'[s] = "stall" /\ s # Loop
      /\ \A v \in Writers \ {s} : pc'[v] = pc[v]
      /\ pc' \in [Writers -> LoopPlaces \cup StopPlaces]
  BY <1>1 DEF Sound, TypeOK, Writers, StopPlaces
<1>3. pc'[Loop] = pc[Loop] /\ \A r \in Stops \ {s} : pc'[r] = pc[r]
  BY <1>2 DEF Writers
<1>4. TypeOK'
  BY <1>1, <1>2, <1>3 DEF Sound, TypeOK, StopPlaces
<1>5. Locked' = Locked /\ OneWriter'
  BY <1>1, <1>2 DEF Sound, Locked, OneWriter, Writers
<1>6. Safe' = Safe
  BY <1>1, <1>5 DEF Safe, Covers
<1>7. Known' /\ Awaited' /\ OffSaved'
  BY <1>1, <1>2, <1>3 DEF Known, Awaited, OffSaved
<1>8. Counts' /\ Pending' /\ Settled'
  BY <1>1, <1>3, <1>6 DEF Sound, Counts, Pending, Settled
<1>9. QED  BY <1>4, <1>5, <1>7, <1>8 DEF Sound

\* A restart is sound if what it relies on covers memory.
LEMMA SoundBoots ==
    ASSUME Sound, NEW sure \in BOOLEAN, sure => Covers(disk), Boots(sure),
           crashes' \in 0..MaxCrashes
    PROVE  Sound'
<1> USE RetryAssumption, ZeroType
<1>1. /\ mem' = disk /\ disk' = disk /\ dirty' = FALSE /\ lost' = FALSE
      /\ snap' = Blank /\ shared' = {}
      /\ stopping' = FALSE /\ known' = TRUE /\ orphan' = FALSE
      /\ pc' = [w \in Writers |-> IF w = Loop THEN "top" ELSE "idle"]
      /\ rows' = {} /\ batch' = {}
      /\ status' = [t \in Torrents |-> IF status[t] = "failed" THEN "failed" ELSE "other"]
      /\ cooling' \subseteq Torrents
  BY DEF Boots, Sound, TypeOK
<1>2. \A t \in Torrents : /\ mem[t].tries \in Nat /\ disk[t].tries \in Nat
                          /\ disk[t].replaced \in BOOLEAN
                          /\ made[t] \in Nat /\ asked[t] \in Nat
  BY DEF Sound, TypeOK, Entry
<1>3. made' \in [Torrents -> Nat] /\ asked' \in [Torrents -> Nat] /\ Counts'
  <2>1. CASE sure
    <3>1. made' = made /\ asked' = asked
      BY <2>1 DEF Boots
    <3>2. Counts'
      BY <1>1, <1>2, <2>1, <3>1 DEF Sound, Counts, Covers
    <3>3. QED  BY <3>1, <3>2 DEF Sound, TypeOK
  <2>2. CASE ~sure
    <3>1. /\ made' = [t \in Torrents |->
                        IF made[t] > disk[t].tries THEN disk[t].tries ELSE made[t]]
          /\ asked' = [t \in Torrents |-> IF disk[t].replaced THEN asked[t] ELSE 0]
      BY <2>2 DEF Boots
    <3>2. \A t \in Torrents : /\ made'[t] \in Nat /\ made'[t] <= disk[t].tries
                              /\ asked'[t] \in Nat /\ asked'[t] <= 1
                              /\ asked'[t] = 1 => disk[t].replaced
      BY <1>2, <3>1 DEF Sound, Counts
    <3>3. made' \in [Torrents -> Nat] /\ asked' \in [Torrents -> Nat]
      BY <3>1, <1>2
    <3>4. Counts'
      BY <1>1, <3>2 DEF Counts
    <3>5. QED  BY <3>3, <3>4
  <2>3. QED  BY <2>1, <2>2
<1>4. /\ pc' \in [Writers -> LoopPlaces \cup StopPlaces]
      /\ pc'[Loop] = "top" /\ pc'[Loop] \in LoopPlaces
      /\ \A s \in Stops : pc'[s] \in StopPlaces
      /\ \A w \in Writers : pc'[w] # "write"
  BY <1>1 DEF Writers, LoopPlaces, StopPlaces
<1>5. TypeOK'
  <2>1. status' \in [Torrents -> Statuses]
    BY <1>1 DEF Statuses
  <2>2. QED  BY <1>1, <1>3, <1>4, <2>1 DEF Sound, TypeOK
<1>6. ~Locked' /\ OneWriter'
  BY <1>4 DEF Locked, OneWriter
<1>7. Covers(disk)'
  BY <1>1, <1>2 DEF Covers
<1>8. Settled' /\ Known' /\ Awaited' /\ OffSaved' /\ Pending'
  BY <1>1, <1>4, <1>6, <1>7 DEF Settled, Known, Awaited, task, OffSaved, Pending, Safe
<1>9. QED  BY <1>3, <1>5, <1>6, <1>8 DEF Sound

\* What a stopped or a clean daemon can rely on.
LEMMA StoppedCovers == Sound /\ Stopped /\ ~lost /\ ~orphan => Covers(disk)
<1> SUFFICES ASSUME Sound, Stopped, ~lost, ~orphan PROVE Covers(disk)
  OBVIOUS
<1>1. ~Locked
  BY DEF Stopped, Locked, Writers
<1>2. QED  BY <1>1 DEF Sound, OffSaved, Stopped, Safe

LEMMA CleanCovers == Sound /\ Clean => Covers(disk)
BY DEF Sound, Settled, Clean, Safe

LEMMA SoundRestart == ASSUME Sound, Restart \/ Crash PROVE Sound'
<1>1. CASE Restart
  <2>1. ~lost /\ ~orphan => Covers(disk)
    BY <1>1, StoppedCovers DEF Restart
  <2>2. QED  BY <1>1, <2>1, SoundBoots DEF Restart, Sound, TypeOK
<1>2. CASE Crash
  <2>1. Clean => Covers(disk)
    BY CleanCovers
  <2>2. crashes' \in 0..MaxCrashes
    BY <1>2, RetryAssumption DEF Crash, Sound, TypeOK
  <2>3. Boots(Clean) /\ Clean \in BOOLEAN
    BY <1>2 DEF Crash, Clean
  <2>4. QED  BY <2>1, <2>2, <2>3, SoundBoots
<1>3. QED  BY <1>1, <1>2

-----------------------------------------------------------------------------
THEOREM SoundAlways == Spec => []Sound
<1>1. Sound /\ [Next]_vars => Sound'
  <2> SUFFICES ASSUME Sound, [Next]_vars PROVE Sound'
    OBVIOUS
  <2>1. ASSUME NEW t \in Torrents, HandOffStep(t) \/ BackoffPasses(t) PROVE Sound'
    BY <2>1, SoundHandOff, SoundBackoff
  <2>2. CASE PickObserves
    BY <2>2, SoundPick
  <2>3. CASE Poll \/ PollQuiet \/ PollObserved \/ PassStarts
    BY <2>3, SoundPoll, SoundPollQuiet, SoundObserve
  <2>4. CASE Sweeps
    BY <2>4, SoundRetry, SoundClear, SoundRaises, SoundReplace DEF Sweeps
  <2>5. ASSUME NEW w \in Writers, Saves(w) PROVE Sound'
    BY <2>5, SoundSaves
  <2>6. CASE StartRequested \/ LoopStops
    BY <2>6, SoundStart, SoundLoopStops
  <2>7. ASSUME NEW s \in Stops, StopRequested(s) \/ StopResumes(s) PROVE Sound'
    BY <2>7, SoundStop, SoundResumes
  <2>8. CASE Restart \/ Crash
    BY <2>8, SoundRestart
  <2>9. CASE UNCHANGED vars
    <3>1. TypeOK'
      BY <2>9 DEF vars, file, history, Sound, TypeOK, task
    <3>2. QED  BY <2>9, <3>1, Untouched DEF vars, file, history
  <2>10. QED
    BY <2>1, <2>2, <2>3, <2>4, <2>5, <2>6, <2>7, <2>8, <2>9 DEF Next
<1>2. QED  BY InitSound, <1>1, PTL DEF Spec

\* Every variable keeps its type, in the loop and in every stop().
THEOREM RetryTypeCorrect == Spec => []TypeOK
<1>1. Sound => TypeOK
  BY DEF Sound
<1>2. QED  BY SoundAlways, <1>1, PTL

\* max_retry_attempts holds until the entry is forgotten, through saves, stops
\* and crashes: memory is never behind what was done, and a file that memory
\* believes up to date is.
THEOREM AttemptsCapped == Spec => []RetriesCapped
<1>1. Sound => RetriesCapped
  BY RetryAssumption DEF Sound, TypeOK, Counts, Entry, RetriesCapped
<1>2. QED  BY SoundAlways, <1>1, PTL

\* At most one replacement is asked of Sonarr or Radarr per entry.
THEOREM AskedOnce == Spec => []ReplacedOnce
<1>1. Sound => ReplacedOnce
  BY DEF Sound, Counts, ReplacedOnce
<1>2. QED  BY SoundAlways, <1>1, PTL

\* A cleared dirty flag means that the file has every count.
THEOREM FlagIsHonest == Spec => []CleanMeansSaved
<1>1. Sound => CleanMeansSaved
  BY CleanCovers DEF CleanMeansSaved
<1>2. QED  BY SoundAlways, <1>1, PTL

\* Once the loop is stopped and every stop() has returned, the file has every
\* count, unless a write failed or the loop was orphaned: stops may overlap and
\* start requests come at any time.
THEOREM StopsSaved == Spec => []StopSaves
<1>1. Sound => StopSaves
  BY StoppedCovers DEF StopSaves
<1>2. QED  BY SoundAlways, <1>1, PTL
=============================================================================
