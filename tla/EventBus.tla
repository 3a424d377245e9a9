------------------------------ MODULE EventBus ------------------------------
(***************************************************************************)
(* The event bus (qbx/events.py) and the event stream the server feeds     *)
(* from it (/api/events in qbx/server.py).                                 *)
(*                                                                         *)
(* Coroutines and storage threads emit.  An event gets its id and enters   *)
(* the history under a lock, but is put into the queues of the subscribers *)
(* one by one after the lock is released, while other threads emit and     *)
(* browsers connect and disconnect.                                        *)
(***************************************************************************)
EXTENDS FiniteSets, Integers

CONSTANTS
    Threads,        \* threads that emit at once, the event loop among them
    Streams,        \* browsers that may hold an event stream
    MaxHistory,     \* _max_history
    QueueSize,      \* maxsize of a subscriber's queue
    PersistEvery,   \* _persist_every
    MaxEvents,      \* ids considered (bound)
    MaxConnects,    \* connections considered (bound)
    MaxRestarts,    \* restarts of the daemon considered (bound)
    MaxFailures     \* saves in a row that may fail (bound)

ASSUME EventBusAssumption ==
    /\ IsFiniteSet(Threads)
    /\ MaxHistory \in Nat \ {0} /\ QueueSize \in Nat \ {0} /\ PersistEvery \in Nat \ {0}
    /\ MaxEvents \in Nat /\ MaxConnects \in Nat /\ MaxRestarts \in Nat /\ MaxFailures \in Nat

VARIABLES
    nextId,     \* _next_id
    oldest,     \* the first id _history still holds
    saved,      \* next_id in the state file
    unsaved,    \* _unsaved_emits
    failures,   \* saves that have failed since the last that did not
    emitter,    \* the event each thread hands out, and to whom
    stream,     \* the event streams
    connects,   \* connections so far
    restarts    \* restarts so far

vars == <<nextId, oldest, saved, unsaved, failures, emitter, stream, connects, restarts>>
ids == <<nextId, oldest, saved, unsaved, failures>>

-----------------------------------------------------------------------------
(* Records *)

Id == Nat \ {0}

Emitter == [event : Nat, to : SUBSET Streams]
Resting == [event |-> 0, to |-> {}]

Stream == [on : BOOLEAN,
           from : Id,               \* the first event it is owed
           replay : SUBSET Id,      \* history still to be sent
           queue : SUBSET Id,       \* its queue; the order does not matter here
           sent : SUBSET Id,
           dropped : SUBSET Id]     \* events its full queue refused
Off == [on |-> FALSE, from |-> 1, replay |-> {}, queue |-> {}, sent |-> {}, dropped |-> {}]

TypeOK ==
    /\ nextId \in Id /\ oldest \in Id /\ saved \in Id
    /\ unsaved \in 0..PersistEvery - 1 /\ failures \in 0..MaxFailures
    /\ emitter \in [Threads -> Emitter]
    /\ stream \in [Streams -> Stream]
    /\ connects \in 0..MaxConnects /\ restarts \in 0..MaxRestarts

Init ==
    /\ nextId = 1 /\ oldest = 1 /\ saved = 1 /\ unsaved = 0 /\ failures = 0
    /\ emitter = [t \in Threads |-> Resting]
    /\ stream = [c \in Streams |-> Off]
    /\ connects = 0 /\ restarts = 0

-----------------------------------------------------------------------------
(* Emitting *)

Subscribers == {c \in Streams : stream[c].on}

\* The id counter reaches the disk, or it does not: _save_next_id swallows it.
Saves(id) ==
    \/ saved' = id /\ failures' = 0
    \/ saved' = saved /\ failures < MaxFailures /\ failures' = failures + 1

\* Mutant of Numbered: one event too many before the counter is saved.
NumberedLate ==
    /\ nextId' = nextId + 1
    /\ IF unsaved + 1 > PersistEvery
       THEN unsaved' = 0 /\ Saves(nextId + 1)
       ELSE unsaved' = unsaved + 1 /\ UNCHANGED <<saved, failures>>

\* Mutant of Numbered: the counter is saved before it is increased.
NumberedShort ==
    /\ nextId' = nextId + 1
    /\ IF unsaved + 1 >= PersistEvery
       THEN unsaved' = 0 /\ Saves(nextId)
       ELSE unsaved' = unsaved + 1 /\ UNCHANGED <<saved, failures>>

\* The id counter goes to disk with every PersistEvery-th event; unsaved
\* starts again even when that fails.
Numbered ==
    /\ nextId' = nextId + 1
    /\ IF unsaved + 1 >= PersistEvery
       THEN unsaved' = 0 /\ Saves(nextId + 1)
       ELSE unsaved' = unsaved + 1 /\ UNCHANGED <<saved, failures>>

\* The history keeps the last MaxHistory events.
Remembered == oldest' = IF nextId - oldest < MaxHistory THEN oldest ELSE nextId - MaxHistory + 1

\* The part of emit under the lock; the subscribers are those of this moment.
Emits(t) ==
    /\ emitter[t].to = {} /\ nextId <= MaxEvents
    /\ Numbered /\ Remembered
    /\ emitter' = [emitter EXCEPT ![t] = [event |-> nextId, to |-> Subscribers]]
    /\ UNCHANGED <<stream, connects, restarts>>

Room(c) == Cardinality(stream[c].queue) < QueueSize

\* Mutant of Puts: a full queue ends the loop over the subscribers.
PutsUntilFull(t) == \E c \in emitter[t].to :
    /\ stream' = IF Room(c) THEN [stream EXCEPT ![c].queue = @ \cup {emitter[t].event}]
                 ELSE [stream EXCEPT ![c].dropped = @ \cup {emitter[t].event}]
    /\ emitter' = [emitter EXCEPT ![t].to = IF Room(c) THEN @ \ {c} ELSE {}]
    /\ UNCHANGED <<ids, connects, restarts>>

\* put_nowait, subscriber by subscriber, without the lock; QueueFull is
\* swallowed.
Puts(t) == \E c \in emitter[t].to :
    /\ stream' = IF Room(c) THEN [stream EXCEPT ![c].queue = @ \cup {emitter[t].event}]
                 ELSE [stream EXCEPT ![c].dropped = @ \cup {emitter[t].event}]
    /\ emitter' = [emitter EXCEPT ![t].to = @ \ {c}]
    /\ UNCHANGED <<ids, connects, restarts>>

-----------------------------------------------------------------------------
(* The event stream of a browser *)

\* What the history holds of the events after since.
History(since) == {e \in oldest..nextId - 1 : e > since}

\* The first event such a browser is owed.
First(since) ==
    CASE since < oldest -> oldest
      [] since \in oldest..nextId - 1 -> since + 1
      [] OTHER -> nextId

\* A browser connects, with the last id it knows, if any, which may be one of
\* before a restart: snapshot_and_subscribe.
Connects(c) ==
    /\ ~stream[c].on /\ connects < MaxConnects
    /\ \E since \in 0..MaxEvents :
         stream' = [stream EXCEPT ![c] = [Off EXCEPT !.on = TRUE, !.from = First(since),
                                                     !.replay = History(since)]]
    /\ connects' = connects + 1
    /\ UNCHANGED <<ids, emitter, restarts>>

\* The history is sent first, then what the queue holds.
Sends(c) ==
    /\ stream[c].on
    /\ \/ \E e \in stream[c].replay :
            stream' = [stream EXCEPT ![c].replay = @ \ {e}, ![c].sent = @ \cup {e}]
       \/ \E e \in stream[c].queue :
            /\ stream[c].replay = {}
            /\ stream' = [stream EXCEPT ![c].queue = @ \ {e}, ![c].sent = @ \cup {e}]
    /\ UNCHANGED <<ids, emitter, connects, restarts>>

\* Mutant of Disconnects: a browser that returns gets its old queue back.
DisconnectsQueued(c) ==
    /\ stream[c].on
    /\ stream' = [stream EXCEPT ![c] = Off]
    /\ UNCHANGED <<ids, emitter, connects, restarts>>

\* The queue is unsubscribed; what threads still put into it is never read.
Disconnects(c) ==
    /\ stream[c].on
    /\ stream' = [stream EXCEPT ![c] = Off]
    /\ emitter' = [t \in Threads |-> [emitter[t] EXCEPT !.to = @ \ {c}]]
    /\ UNCHANGED <<ids, connects, restarts>>

-----------------------------------------------------------------------------
(* The daemon *)

\* Shutdown flushes the counter, if flush thinks it has to.  Threads that
\* cannot be cancelled go on emitting.
Flushes ==
    /\ unsaved > 0 /\ unsaved' = 0
    /\ Saves(nextId)
    /\ UNCHANGED <<nextId, oldest, emitter, stream, connects, restarts>>

\* The daemon ends, after a flush or in a crash, and starts with the counter
\* of the file.
Restarts ==
    /\ restarts < MaxRestarts /\ restarts' = restarts + 1
    /\ nextId' = saved /\ oldest' = saved /\ unsaved' = 0 /\ failures' = 0
    /\ emitter' = [t \in Threads |-> Resting]
    /\ stream' = [c \in Streams |-> Off]
    /\ UNCHANGED <<saved, connects>>

Next ==
    \/ \E t \in Threads : Emits(t) \/ Puts(t)
    \/ \E c \in Streams : Connects(c) \/ Sends(c) \/ Disconnects(c)
    \/ Flushes \/ Restarts

Spec == Init /\ [][Next]_vars

-----------------------------------------------------------------------------
(* Properties *)

\* The threads that still have to put event e into the queue of c.
Pending(c, e) == {t \in Threads : emitter[t].event = e /\ c \in emitter[t].to}

\* Between the history a browser is sent and its queue there is no gap: every
\* event it is owed has been sent, waits to be sent, or was refused because
\* its queue was full.
NoGap == \A c \in Subscribers : \A e \in stream[c].from..nextId - 1 :
    \/ e \in stream[c].sent \cup stream[c].replay \cup stream[c].queue \cup stream[c].dropped
    \/ Pending(c, e) # {}

\* Nor is there an overlap: on one connection no event is sent twice, however
\* emits, puts and the connection interleave.
NoRepeat == \A c \in Subscribers : \A e \in stream[c].sent :
    e \notin stream[c].replay \cup stream[c].queue /\ Pending(c, e) = {}

\* Ids run on over restarts: a restart, even after a crash, takes back fewer
\* than PersistEvery of them, and PersistEvery more for every save in a row
\* that failed unseen.
IdsRunOn == [][nextId' > nextId - PersistEvery * (1 + failures)]_vars
=============================================================================
