--------------------------- MODULE EventBusProofs ---------------------------
(***************************************************************************)
(* Proofs about EventBus, for any number of threads, browsers and events.  *)
(***************************************************************************)
EXTENDS EventBus, TLAPS

(***************************************************************************)
(* Type correctness, and what lies in the past.                            *)
(***************************************************************************)

\* The events a stream knows have been emitted, and so has what it is owed
\* begun.
Known(s) ==
    /\ s.replay \cup s.queue \cup s.sent \cup s.dropped \subseteq 1..nextId - 1
    /\ s.from <= nextId

\* Nobody has seen an event of the future, and an event is handed out only to
\* streams that are on.
Past ==
    /\ oldest <= nextId
    /\ \A c \in Streams : Known(stream[c])
    /\ \A t \in Threads : emitter[t].to # {} => emitter[t].event \in 1..nextId - 1
    /\ \A t \in Threads : \A c \in emitter[t].to : stream[c].on

\* The counter in the file lags by what is unsaved and what failed saves lost.
Lags == nextId - saved <= unsaved + PersistEvery * failures

Sound == TypeOK /\ Past /\ Lags

LEMMA OffType == Off \in Stream
BY DEF Off, Stream, Id

LEMMA RestingType == Resting \in Emitter
BY DEF Resting, Emitter

LEMMA InitSound == Init => Sound
<1> SUFFICES ASSUME Init PROVE Sound
  OBVIOUS
<1> USE EventBusAssumption, OffType, RestingType DEF Init
<1>1. TypeOK
  BY DEF TypeOK, Id
<1>2. Past
  BY DEF Past, Known, Off, Resting
<1>3. Lags
  BY DEF Lags
<1>4. QED  BY <1>1, <1>2, <1>3 DEF Sound

LEMMA Products == \A k, n \in Nat : k * n \in Nat /\ k * (n + 1) = k * n + k /\ k * (1 + n) = k * n + k
OBVIOUS

LEMMA SoundEmits ==
    ASSUME Sound, NEW t \in Threads, Emits(t)
    PROVE  Sound'
<1> USE EventBusAssumption DEF Sound
<1> DEFINE new == [event |-> nextId, to |-> Subscribers]
<1>1. /\ nextId \in Id /\ oldest \in Id /\ saved \in Id /\ oldest <= nextId
      /\ unsaved \in Nat /\ unsaved <= PersistEvery - 1 /\ failures \in 0..MaxFailures
  BY DEF TypeOK, Past, Id
<1>2. nextId' = nextId + 1 /\ nextId' \in Id /\ nextId < nextId'
  BY <1>1 DEF Emits, Numbered, Id
<1>3. new \in Emitter
  BY <1>1 DEF Emitter, Subscribers, Id
<1>4. emitter' = [emitter EXCEPT ![t] = new] /\ stream' = stream
  BY DEF Emits
<1>5. emitter' \in [Threads -> Emitter]
  BY <1>3, <1>4 DEF TypeOK
<1>6. oldest' \in Id /\ oldest' <= nextId'
  BY <1>1, <1>2 DEF Emits, Remembered, Id
<1>7. saved' \in Id /\ unsaved' \in 0..PersistEvery - 1 /\ failures' \in 0..MaxFailures /\ Lags'
  <2>1. CASE unsaved + 1 >= PersistEvery /\ saved' = nextId + 1 /\ failures' = 0
    BY <1>1, <1>2, <2>1, Products DEF Emits, Numbered, Lags, Id
  <2>2. CASE /\ unsaved + 1 >= PersistEvery /\ saved' = saved
             /\ failures < MaxFailures /\ failures' = failures + 1
    <3>1. PersistEvery * failures' = PersistEvery * failures + PersistEvery
      BY <1>1, <2>2, Products
    <3>2. PersistEvery * failures \in Nat
      BY <1>1, Products
    <3>3. unsaved + 1 = PersistEvery /\ unsaved' = 0
      BY <1>1, <2>2 DEF Emits, Numbered
    <3> HIDE DEF Emits
    <3>4. nextId' - saved' <= unsaved' + PersistEvery * failures'
      BY <1>1, <1>2, <2>2, <3>1, <3>2, <3>3 DEF Lags, Id
    <3>5. QED  BY <1>1, <2>2, <3>3, <3>4 DEF Lags
  <2>3. CASE ~(unsaved + 1 >= PersistEvery)
    BY <1>1, <1>2, <2>3, Products DEF Emits, Numbered, Lags, Id
  <2>4. QED  BY <2>1, <2>2, <2>3 DEF Emits, Numbered, Saves
<1>8. \A c \in Streams : Known(stream[c])'
  <2> SUFFICES ASSUME NEW c \in Streams PROVE Known(stream[c])'
    OBVIOUS
  <2>1. Known(stream[c]) /\ stream[c] \in Stream
    BY DEF Past, TypeOK
  <2>2. QED  BY <1>1, <1>2, <1>4, <2>1 DEF Known, Stream, Id
<1>9. \A u \in Threads : emitter'[u].to # {} => emitter'[u].event \in 1..nextId' - 1
  BY <1>1, <1>2, <1>4 DEF Past, TypeOK, Emitter, Id
<1>10. \A u \in Threads : \A c \in emitter'[u].to : stream'[c].on
  BY <1>4 DEF Past, TypeOK, Subscribers
<1>11. TypeOK'
  BY <1>2, <1>4, <1>5, <1>6, <1>7 DEF TypeOK, Emits
<1>12. Past'
  BY <1>6, <1>8, <1>9, <1>10 DEF Past
<1>13. QED  BY <1>7, <1>11, <1>12

\* A step that changes one stream, which stays as it should be, and takes
\* receivers from events that are handed out.
LEMMA OneStream ==
    ASSUME Sound, NEW c \in Streams, NEW new, new \in Stream, Known(new),
           stream' = [stream EXCEPT ![c] = new], UNCHANGED ids,
           emitter' \in [Threads -> Emitter],
           \A t \in Threads : /\ emitter'[t].event = emitter[t].event
                              /\ emitter'[t].to \subseteq emitter[t].to
                              /\ c \in emitter'[t].to => new.on,
           connects' \in 0..MaxConnects, restarts' \in 0..MaxRestarts
    PROVE  Sound'
<1>1. nextId' = nextId
  BY DEF ids
<1>2. stream' \in [Streams -> Stream]
  BY DEF Sound, TypeOK
<1>3. \A d \in Streams : Known(stream[d])'
  <2> SUFFICES ASSUME NEW d \in Streams PROVE Known(stream[d])'
    OBVIOUS
  <2>1. CASE d = c
    <3>1. stream'[d] = new
      BY <2>1 DEF Sound, TypeOK
    <3>2. QED  BY <1>1, <3>1 DEF Known
  <2>2. CASE d # c
    <3>1. stream'[d] = stream[d]
      BY <2>2 DEF Sound, TypeOK
    <3>2. QED  BY <1>1, <3>1 DEF Known, Sound, Past
  <2>3. QED  BY <2>1, <2>2
<1>4. \A t \in Threads : \A d \in emitter'[t].to : stream'[d].on
  <2> SUFFICES ASSUME NEW t \in Threads, NEW d \in emitter'[t].to PROVE stream'[d].on
    OBVIOUS
  <2>1. d \in emitter[t].to /\ d \in Streams /\ stream[d].on
    BY DEF Sound, Past, TypeOK, Emitter
  <2>2. QED  BY <2>1 DEF Sound, TypeOK
<1>5. \A t \in Threads : emitter'[t].to # {} => emitter'[t].event \in 1..nextId' - 1
  BY <1>1 DEF Sound, Past
<1>6. TypeOK' /\ Lags'
  BY <1>2 DEF Sound, TypeOK, Lags, ids
<1>7. Past'
  BY <1>3, <1>4, <1>5 DEF Sound, Past, ids
<1>8. QED  BY <1>6, <1>7 DEF Sound

LEMMA SoundPuts ==
    ASSUME Sound, NEW t \in Threads, Puts(t)
    PROVE  Sound'
<1>1. PICK c \in emitter[t].to :
        /\ stream' = IF Room(c) THEN [stream EXCEPT ![c].queue = @ \cup {emitter[t].event}]
                     ELSE [stream EXCEPT ![c].dropped = @ \cup {emitter[t].event}]
        /\ emitter' = [emitter EXCEPT ![t].to = @ \ {c}]
        /\ UNCHANGED <<ids, connects, restarts>>
  BY DEF Puts
<1>2. c \in Streams /\ stream[c] \in Stream /\ stream[c].on /\ emitter[t] \in Emitter
  BY DEF Sound, TypeOK, Past, Emitter
<1>3. emitter[t].event \in 1..nextId - 1 /\ emitter[t].event \in Id
  BY DEF Sound, Past, Id
<1> DEFINE new == IF Room(c) THEN [stream[c] EXCEPT !.queue = @ \cup {emitter[t].event}]
                  ELSE [stream[c] EXCEPT !.dropped = @ \cup {emitter[t].event}]
<1>4. new \in Stream /\ new.on
  BY <1>2, <1>3 DEF Stream
<1>5. Known(new)
  <2>1. Known(stream[c])
    BY <1>2 DEF Sound, Past
  <2>2. QED  BY <1>2, <1>3, <2>1 DEF Known, Stream
<1>6. stream' = [stream EXCEPT ![c] = new]
  BY <1>1, <1>2 DEF Sound, TypeOK
<1>7. emitter' \in [Threads -> Emitter]
  BY <1>1, <1>2 DEF Sound, TypeOK, Emitter
<1>8. \A u \in Threads : /\ emitter'[u].event = emitter[u].event
                         /\ emitter'[u].to \subseteq emitter[u].to
  BY <1>1, <1>2 DEF Sound, TypeOK, Emitter
<1>9. connects' \in 0..MaxConnects /\ restarts' \in 0..MaxRestarts /\ UNCHANGED ids
  BY <1>1 DEF Sound, TypeOK
<1> HIDE DEF new
<1>10. QED  BY <1>2, <1>4, <1>5, <1>6, <1>7, <1>8, <1>9, OneStream

LEMMA SoundConnects ==
    ASSUME Sound, NEW c \in Streams, Connects(c)
    PROVE  Sound'
<1> USE EventBusAssumption
<1>1. PICK since \in 0..MaxEvents :
        stream' = [stream EXCEPT ![c] = [Off EXCEPT !.on = TRUE, !.from = First(since),
                                                    !.replay = History(since)]]
  BY DEF Connects
<1>2. nextId \in Id /\ oldest \in Id /\ oldest <= nextId /\ since \in Nat
  BY DEF Sound, TypeOK, Past, Id
<1>3. First(since) \in Id /\ First(since) <= nextId
  BY <1>2 DEF First, Id
<1>4. History(since) \subseteq 1..nextId - 1
  BY <1>2 DEF History, Id
<1> DEFINE new == [Off EXCEPT !.on = TRUE, !.from = First(since), !.replay = History(since)]
<1>5. new \in Stream /\ new.on
  <2>1. {} \subseteq Id /\ History(since) \subseteq Id
    BY <1>2, <1>4 DEF Id
  <2>2. QED  BY <1>3, <2>1 DEF Stream, Off
<1>6. Known(new)
  BY <1>3, <1>4 DEF Known, Off
<1>7. /\ emitter' = emitter /\ UNCHANGED ids /\ emitter' \in [Threads -> Emitter]
      /\ connects' \in 0..MaxConnects /\ restarts' \in 0..MaxRestarts
  BY DEF Connects, Sound, TypeOK
<1> HIDE DEF new
<1>8. QED  BY <1>1, <1>5, <1>6, <1>7, OneStream DEF new

LEMMA SoundSends ==
    ASSUME Sound, NEW c \in Streams, Sends(c)
    PROVE  Sound'
<1>1. stream[c] \in Stream /\ stream[c].on /\ Known(stream[c])
  BY DEF Sends, Sound, TypeOK, Past
<1> DEFINE Sets(new) == new \in Stream /\ new.on /\ Known(new) /\ stream' = [stream EXCEPT ![c] = new]
<1>2. \E new : Sets(new)
  <2>1. ASSUME NEW e \in stream[c].replay,
               stream' = [stream EXCEPT ![c].replay = @ \ {e}, ![c].sent = @ \cup {e}]
        PROVE  \E new : Sets(new)
    <3> DEFINE new == [stream[c] EXCEPT !.replay = @ \ {e}, !.sent = @ \cup {e}]
    <3>1. new \in Stream /\ new.on /\ Known(new)
      BY <1>1, <2>1 DEF Stream, Known
    <3>2. stream' = [stream EXCEPT ![c] = new]
      BY <1>1, <2>1 DEF Sound, TypeOK
    <3>3. QED  BY <3>1, <3>2
  <2>2. ASSUME NEW e \in stream[c].queue,
               stream' = [stream EXCEPT ![c].queue = @ \ {e}, ![c].sent = @ \cup {e}]
        PROVE  \E new : Sets(new)
    <3> DEFINE new == [stream[c] EXCEPT !.queue = @ \ {e}, !.sent = @ \cup {e}]
    <3>1. new \in Stream /\ new.on /\ Known(new)
      BY <1>1, <2>2 DEF Stream, Known
    <3>2. stream' = [stream EXCEPT ![c] = new]
      BY <1>1, <2>2 DEF Sound, TypeOK
    <3>3. QED  BY <3>1, <3>2
  <2>3. QED  BY <2>1, <2>2 DEF Sends
<1>3. /\ emitter' = emitter /\ UNCHANGED ids /\ emitter' \in [Threads -> Emitter]
      /\ connects' \in 0..MaxConnects /\ restarts' \in 0..MaxRestarts
  BY DEF Sends, Sound, TypeOK
<1>4. QED  BY <1>2, <1>3, OneStream

LEMMA SoundDisconnects ==
    ASSUME Sound, NEW c \in Streams, Disconnects(c)
    PROVE  Sound'
<1>1. Known(Off)
  BY DEF Known, Off, Sound, TypeOK, Id
<1>2. emitter' \in [Threads -> Emitter]
  BY DEF Disconnects, Sound, TypeOK, Emitter
<1>3. \A t \in Threads : /\ emitter'[t].event = emitter[t].event
                         /\ emitter'[t].to \subseteq emitter[t].to
                         /\ c \notin emitter'[t].to
  BY DEF Disconnects, Sound, TypeOK, Emitter
<1>4. stream' = [stream EXCEPT ![c] = Off] /\ UNCHANGED ids
  BY DEF Disconnects
<1>5. connects' \in 0..MaxConnects /\ restarts' \in 0..MaxRestarts
  BY DEF Disconnects, Sound, TypeOK
<1>6. QED  BY <1>1, <1>2, <1>3, <1>4, <1>5, OffType, OneStream

LEMMA SoundFlushes ==
    ASSUME Sound, Flushes
    PROVE  Sound'
<1> USE EventBusAssumption
<1>1. /\ nextId \in Id /\ saved \in Id /\ unsaved \in Nat /\ unsaved <= PersistEvery - 1
      /\ failures \in Nat /\ nextId - saved <= unsaved + PersistEvery * failures
  BY DEF Sound, TypeOK, Lags
<1>2. nextId' = nextId /\ unsaved' = 0
  BY DEF Flushes
<1>3. saved' \in Id /\ failures' \in 0..MaxFailures
  BY <1>1 DEF Flushes, Saves, Sound, TypeOK
<1>4. Lags'
  <2>1. CASE saved' = nextId /\ failures' = 0
    <3>1. PersistEvery * failures' = 0
      BY <2>1
    <3>2. QED  BY <1>1, <1>2, <2>1, <3>1 DEF Lags, Id
  <2>2. CASE saved' = saved /\ failures' = failures + 1
    <3>1. /\ PersistEvery * failures \in Nat
          /\ PersistEvery * failures' = PersistEvery * failures + PersistEvery
      BY <1>1, <2>2, Products
    <3>2. QED  BY <1>1, <1>2, <2>2, <3>1 DEF Lags, Id
  <2>3. QED  BY <2>1, <2>2 DEF Flushes, Saves
<1>5. TypeOK'
  BY <1>2, <1>3 DEF Flushes, Sound, TypeOK
<1>6. Past'
  BY DEF Flushes, Sound, Past, Known
<1>7. QED  BY <1>4, <1>5, <1>6 DEF Sound

LEMMA SoundRestarts ==
    ASSUME Sound, Restarts
    PROVE  Sound'
<1>1. saved \in Id
  BY DEF Sound, TypeOK
<1>2. TypeOK'
  BY <1>1, EventBusAssumption, OffType, RestingType DEF Restarts, Sound, TypeOK, Id
<1>3. Past'
  BY <1>1, OffType, RestingType DEF Restarts, Past, Known, Off, Resting, Id
<1>4. Lags'
  <2>1. nextId' = saved /\ saved' = saved /\ unsaved' = 0 /\ failures' = 0 /\ saved \in Int
    BY <1>1 DEF Restarts, Id
  <2>2. PersistEvery * failures' = 0
    BY <2>1, EventBusAssumption
  <2>3. nextId' - saved' <= 0
    BY <2>1
  <2>4. QED  BY <2>1, <2>2, <2>3 DEF Lags
<1>5. QED  BY <1>2, <1>3, <1>4 DEF Sound

LEMMA SoundStep == Sound /\ [Next]_vars => Sound'
<1> SUFFICES ASSUME Sound, [Next]_vars PROVE Sound'
  OBVIOUS
<1>1. CASE UNCHANGED vars
  BY <1>1 DEF vars, Sound, TypeOK, Past, Known, Lags
<1>2. CASE Next
  BY <1>2, SoundEmits, SoundPuts, SoundConnects, SoundSends, SoundDisconnects, SoundFlushes,
          SoundRestarts DEF Next
<1>3. QED  BY <1>1, <1>2

\* Every variable keeps to the values the code gives it: the counter is saved
\* before PersistEvery events are unsaved, and the history never runs ahead.
THEOREM EventBusTypeCorrect == Spec => []TypeOK
<1>1. Sound => TypeOK
  BY DEF Sound
<1>2. QED  BY <1>1, InitSound, SoundStep, PTL DEF Spec

(***************************************************************************)
(* Ids over restarts.                                                      *)
(***************************************************************************)

\* A restart, after a crash or not, takes back fewer than PersistEvery ids,
\* and as many more for every save in a row that failed.
THEOREM IdsContinue == Spec => IdsRunOn
<1>1. Sound /\ [Next]_vars => [nextId' > nextId - PersistEvery * (1 + failures)]_vars
  <2> SUFFICES ASSUME Sound, Next
               PROVE  nextId' > nextId - PersistEvery * (1 + failures)
    BY DEF vars
  <2> USE EventBusAssumption
  <2>1. /\ nextId \in Id /\ saved \in Id /\ unsaved \in 0..PersistEvery - 1 /\ failures \in Nat
        /\ nextId - saved <= unsaved + PersistEvery * failures
    BY DEF Sound, TypeOK, Lags
  <2>2. /\ PersistEvery * failures \in Nat
        /\ PersistEvery * (1 + failures) = PersistEvery * failures + PersistEvery
    BY <2>1, Products
  <2>3. CASE nextId' \in {nextId, nextId + 1}
    BY <2>1, <2>2, <2>3 DEF Id
  <2>4. CASE nextId' = saved
    BY <2>1, <2>2, <2>4 DEF Id
  <2>5. nextId' \in {nextId, nextId + 1, saved}
    BY DEF Next, Emits, Numbered, Puts, Connects, Sends, Disconnects, Flushes, Restarts, ids
  <2>6. QED  BY <2>3, <2>4, <2>5
<1>2. QED  BY <1>1, InitSound, SoundStep, PTL DEF Spec, IdsRunOn

(***************************************************************************)
(* What reaches a browser.                                                 *)
(***************************************************************************)

\* The events that wait for c or have reached it.
Met(c) == stream[c].replay \cup stream[c].queue \cup stream[c].sent

\* An event is in one place only, and two threads never hand out the same.
Once ==
    /\ \A c \in Streams : /\ stream[c].sent \cap (stream[c].replay \cup stream[c].queue) = {}
                          /\ stream[c].replay \cap stream[c].queue = {}
    /\ \A t \in Threads : \A c \in emitter[t].to : emitter[t].event \notin Met(c)
    /\ \A t, u \in Threads :
         t # u /\ emitter[t].to # {} /\ emitter[u].to # {} => emitter[t].event # emitter[u].event

LEMMA OnceEmits ==
    ASSUME Sound, Once, NEW t \in Threads, Emits(t)
    PROVE  Once'
<1>1. /\ emitter' = [emitter EXCEPT ![t] = [event |-> nextId, to |-> Subscribers]]
      /\ stream' = stream
  BY DEF Emits
<1>2. /\ emitter'[t] = [event |-> nextId, to |-> Subscribers]
      /\ \A u \in Threads \ {t} : emitter'[u] = emitter[u]
  BY <1>1 DEF Sound, TypeOK
<1>3. nextId \in Nat /\ nextId \notin 1..nextId - 1
  BY DEF Sound, TypeOK, Id
<1>4. \A c \in Streams : nextId \notin Met(c)
  BY <1>3 DEF Sound, Past, Known, Met
<1>5. \A u \in Threads : emitter[u].to # {} => emitter[u].event # nextId
  BY <1>3 DEF Sound, Past
<1>6. \A u \in Threads : \A c \in emitter'[u].to : emitter'[u].event \notin Met(c)
  BY <1>2, <1>4 DEF Once, Subscribers
<1>7. QED  BY <1>1, <1>2, <1>5, <1>6 DEF Once, Met

LEMMA OncePuts ==
    ASSUME Sound, Once, NEW t \in Threads, Puts(t)
    PROVE  Once'
<1>1. PICK c \in emitter[t].to :
        /\ stream' = IF Room(c) THEN [stream EXCEPT ![c].queue = @ \cup {emitter[t].event}]
                     ELSE [stream EXCEPT ![c].dropped = @ \cup {emitter[t].event}]
        /\ emitter' = [emitter EXCEPT ![t].to = @ \ {c}]
  BY DEF Puts
<1> DEFINE e == emitter[t].event
<1>2. c \in Streams /\ stream[c] \in Stream /\ e \notin Met(c)
  BY DEF Sound, TypeOK, Emitter, Once
<1>3. \A d \in Streams \ {c} : stream'[d] = stream[d]
  BY <1>1, <1>2 DEF Sound, TypeOK
<1>4. /\ stream'[c].replay = stream[c].replay /\ stream'[c].sent = stream[c].sent
      /\ stream'[c].queue \in {stream[c].queue, stream[c].queue \cup {e}}
  BY <1>1, <1>2 DEF Sound, TypeOK, Stream
<1>5. /\ emitter'[t].event = e /\ emitter'[t].to = emitter[t].to \ {c}
      /\ \A u \in Threads \ {t} : emitter'[u] = emitter[u]
  BY <1>1 DEF Sound, TypeOK, Emitter
<1>6. \A u \in Threads \ {t} : emitter[u].to # {} => emitter[u].event # e
  BY <1>1 DEF Once
<1>7. \A d \in Streams : /\ stream'[d].sent \cap (stream'[d].replay \cup stream'[d].queue) = {}
                         /\ stream'[d].replay \cap stream'[d].queue = {}
  BY <1>2, <1>3, <1>4 DEF Once, Met
<1>8. \A u \in Threads : \A d \in emitter'[u].to : emitter'[u].event \notin Met(d)'
  <2> SUFFICES ASSUME NEW u \in Threads, NEW d \in emitter'[u].to
               PROVE  emitter'[u].event \notin Met(d)'
    OBVIOUS
  <2>1. d \in emitter[u].to /\ d \in Streams /\ emitter'[u].event = emitter[u].event
    BY <1>5 DEF Sound, TypeOK, Emitter
  <2>2. emitter[u].event \notin Met(d)
    BY <2>1 DEF Once
  <2>3. CASE d # c
    BY <1>3, <2>1, <2>2, <2>3 DEF Met
  <2>4. CASE d = c
    <3>1. u # t
      BY <1>5, <2>4
    <3>2. emitter[u].event # e
      BY <1>6, <2>1, <3>1
    <3>3. QED  BY <1>4, <2>1, <2>2, <2>4, <3>2 DEF Met
  <2>5. QED  BY <2>3, <2>4
<1>9. \A u, v \in Threads :
        u # v /\ emitter'[u].to # {} /\ emitter'[v].to # {} => emitter'[u].event # emitter'[v].event
  BY <1>5 DEF Once
<1>10. QED  BY <1>7, <1>8, <1>9 DEF Once

\* A step that changes one stream only, and lets no thread hand out more.
LEMMA OnceStream ==
    ASSUME Sound, Once, NEW c \in Streams, NEW new \in Stream,
           stream' = [stream EXCEPT ![c] = new],
           new.sent \cap (new.replay \cup new.queue) = {}, new.replay \cap new.queue = {},
           \A t \in Threads :
              /\ emitter'[t].event = emitter[t].event
              /\ emitter'[t].to \subseteq emitter[t].to
              /\ c \in emitter'[t].to => new.replay \cup new.queue \cup new.sent \subseteq Met(c)
    PROVE  Once'
<1>1. stream'[c] = new /\ \A d \in Streams \ {c} : stream'[d] = stream[d]
  BY DEF Sound, TypeOK
<1>2. \A d \in Streams : /\ stream'[d].sent \cap (stream'[d].replay \cup stream'[d].queue) = {}
                         /\ stream'[d].replay \cap stream'[d].queue = {}
  BY <1>1 DEF Once
<1>3. \A t \in Threads : \A d \in emitter'[t].to : emitter'[t].event \notin Met(d)'
  <2> SUFFICES ASSUME NEW t \in Threads, NEW d \in emitter'[t].to
               PROVE  emitter'[t].event \notin Met(d)'
    OBVIOUS
  <2>1. /\ d \in emitter[t].to /\ d \in Streams
        /\ emitter'[t].event = emitter[t].event /\ emitter[t].event \notin Met(d)
    BY DEF Sound, TypeOK, Emitter, Once
  <2>2. Met(d)' \subseteq Met(d)
    BY <1>1, <2>1 DEF Met
  <2>3. QED  BY <2>1, <2>2
<1>4. \A t, u \in Threads :
        t # u /\ emitter'[t].to # {} /\ emitter'[u].to # {} => emitter'[t].event # emitter'[u].event
  BY DEF Once
<1>5. QED  BY <1>2, <1>3, <1>4 DEF Once

LEMMA OnceConnects ==
    ASSUME Sound, Once, NEW c \in Streams, Connects(c), Sound'
    PROVE  Once'
<1>1. \A t \in Threads : c \notin emitter'[t].to
  BY DEF Connects, Sound, Past
<1>2. PICK since \in 0..MaxEvents :
        stream' = [stream EXCEPT ![c] = [Off EXCEPT !.on = TRUE, !.from = First(since),
                                                    !.replay = History(since)]]
  BY DEF Connects
<1> DEFINE new == [Off EXCEPT !.on = TRUE, !.from = First(since), !.replay = History(since)]
<1>3. new \in Stream
  <2>1. stream'[c] = new /\ stream'[c] \in Stream
    BY <1>2 DEF Sound, TypeOK
  <2>2. QED  BY <2>1
<1>4. new.sent = {} /\ new.queue = {}
  BY DEF Off
<1>5. emitter' = emitter
  BY DEF Connects
<1> HIDE DEF new
<1>6. QED  BY <1>1, <1>2, <1>3, <1>4, <1>5, OnceStream DEF new

LEMMA OnceSends ==
    ASSUME Sound, Once, NEW c \in Streams, Sends(c)
    PROVE  Once'
<1>1. stream[c] \in Stream
  BY DEF Sound, TypeOK
<1>2. emitter' = emitter
  BY DEF Sends
<1>3. ASSUME NEW e \in stream[c].replay,
             stream' = [stream EXCEPT ![c].replay = @ \ {e}, ![c].sent = @ \cup {e}]
      PROVE  Once'
  <2> DEFINE new == [stream[c] EXCEPT !.replay = @ \ {e}, !.sent = @ \cup {e}]
  <2>1. new \in Stream /\ stream' = [stream EXCEPT ![c] = new]
    BY <1>1, <1>3 DEF Stream, Sound, TypeOK
  <2>2. /\ new.sent = stream[c].sent \cup {e} /\ new.replay = stream[c].replay \ {e}
        /\ new.queue = stream[c].queue
    BY <1>1 DEF Stream
  <2> HIDE DEF new
  <2>3. new.sent \cap (new.replay \cup new.queue) = {} /\ new.replay \cap new.queue = {}
    BY <2>2 DEF Once
  <2>4. new.replay \cup new.queue \cup new.sent \subseteq Met(c)
    BY <2>2 DEF Met
  <2>5. QED  BY <1>2, <2>1, <2>3, <2>4, OnceStream
<1>4. ASSUME NEW e \in stream[c].queue,
             stream' = [stream EXCEPT ![c].queue = @ \ {e}, ![c].sent = @ \cup {e}]
      PROVE  Once'
  <2> DEFINE new == [stream[c] EXCEPT !.queue = @ \ {e}, !.sent = @ \cup {e}]
  <2>1. new \in Stream /\ stream' = [stream EXCEPT ![c] = new]
    BY <1>1, <1>4 DEF Stream, Sound, TypeOK
  <2>2. /\ new.sent = stream[c].sent \cup {e} /\ new.replay = stream[c].replay
        /\ new.queue = stream[c].queue \ {e}
    BY <1>1 DEF Stream
  <2> HIDE DEF new
  <2>3. new.sent \cap (new.replay \cup new.queue) = {} /\ new.replay \cap new.queue = {}
    BY <2>2 DEF Once
  <2>4. new.replay \cup new.queue \cup new.sent \subseteq Met(c)
    BY <2>2 DEF Met
  <2>5. QED  BY <1>2, <2>1, <2>3, <2>4, OnceStream
<1>5. QED  BY <1>3, <1>4 DEF Sends

LEMMA OnceDisconnects ==
    ASSUME Sound, Once, NEW c \in Streams, Disconnects(c)
    PROVE  Once'
<1>1. \A t \in Threads : /\ emitter'[t].event = emitter[t].event
                         /\ emitter'[t].to \subseteq emitter[t].to
                         /\ c \notin emitter'[t].to
  BY DEF Disconnects, Sound, TypeOK, Emitter
<1>2. stream' = [stream EXCEPT ![c] = Off]
  BY DEF Disconnects
<1>3. Off.sent = {} /\ Off.queue = {}
  BY DEF Off
<1>4. QED  BY <1>1, <1>2, <1>3, OffType, OnceStream

LEMMA OnceRestarts ==
    ASSUME Restarts
    PROVE  Once'
BY DEF Restarts, Once, Met, Off, Resting

LEMMA OnceStep == Sound /\ Once /\ [Next]_vars => Once'
<1> SUFFICES ASSUME Sound, Once, [Next]_vars PROVE Once'
  OBVIOUS
<1>1. CASE UNCHANGED vars
  BY <1>1 DEF vars, Once, Met
<1>2. CASE Flushes
  BY <1>2 DEF Flushes, Once, Met
<1>3. CASE Next
  <2>1. Sound'
    BY <1>3, SoundStep
  <2>2. QED  BY <1>3, <2>1, OnceEmits, OncePuts, OnceConnects, OnceSends, OnceDisconnects,
                OnceRestarts, <1>2 DEF Next
<1>4. QED  BY <1>1, <1>3

\* No browser is sent an event twice on one connection, however many threads
\* emit while it connects.
THEOREM NeverTwiceSent == Spec => []NoRepeat
<1>1. Init => Once
  BY DEF Init, Once, Met, Off, Resting
<1>2. Once => NoRepeat
  BY DEF Once, NoRepeat, Subscribers, Pending, Met
<1>3. QED  BY <1>1, <1>2, InitSound, SoundStep, OnceStep, PTL DEF Spec

\* What c has been sent, waits for or was refused, or what is on its way.
Accounted(c, e) ==
    \/ e \in Met(c) \cup stream[c].dropped
    \/ \E t \in Threads : emitter[t].event = e /\ c \in emitter[t].to

Complete == \A c \in Streams : stream[c].on =>
    \A e \in stream[c].from..nextId - 1 : Accounted(c, e)

LEMMA CompleteStep == Sound /\ Complete /\ [Next]_vars => Complete'
<1> SUFFICES ASSUME Sound, Complete, [Next]_vars,
                    NEW c \in Streams, stream'[c].on,
                    NEW e \in stream'[c].from..nextId' - 1
             PROVE  Accounted(c, e)'
  BY DEF Complete
<1> USE DEF Accounted, Met
<1>1. CASE UNCHANGED vars
  BY <1>1 DEF vars, Complete
<1>2. ASSUME NEW t \in Threads, Emits(t)
      PROVE  Accounted(c, e)'
  <2>1. /\ stream' = stream /\ nextId' = nextId + 1 /\ emitter[t].to = {}
        /\ emitter'[t] = [event |-> nextId, to |-> Subscribers]
        /\ \A u \in Threads \ {t} : emitter'[u] = emitter[u]
    BY <1>2 DEF Emits, Numbered, Sound, TypeOK
  <2>2. nextId \in Nat /\ stream[c].from \in Nat
    BY DEF Sound, TypeOK, Id, Stream
  <2>3. CASE e = nextId
    <3>1. c \in emitter'[t].to /\ emitter'[t].event = e
      BY <2>1, <2>3 DEF Subscribers
    <3>2. QED  BY <3>1
  <2>4. CASE e \in stream[c].from..nextId - 1
    <3>1. Accounted(c, e)
      BY <2>1, <2>4 DEF Complete
    <3>2. QED  BY <2>1, <3>1
  <2>5. QED  BY <2>1, <2>2, <2>3, <2>4
<1>3. ASSUME NEW t \in Threads, Puts(t)
      PROVE  Accounted(c, e)'
  <2>1. PICK d \in emitter[t].to :
          /\ stream' = IF Room(d) THEN [stream EXCEPT ![d].queue = @ \cup {emitter[t].event}]
                       ELSE [stream EXCEPT ![d].dropped = @ \cup {emitter[t].event}]
          /\ emitter' = [emitter EXCEPT ![t].to = @ \ {d}]
    BY <1>3 DEF Puts
  <2>2. d \in Streams /\ \A b \in Streams : stream[b] \in Stream
    BY DEF Sound, TypeOK, Emitter
  <2>3. /\ stream'[c].on = stream[c].on /\ stream'[c].from = stream[c].from
        /\ stream'[c].replay = stream[c].replay /\ stream'[c].sent = stream[c].sent
        /\ stream[c].queue \subseteq stream'[c].queue
        /\ stream[c].dropped \subseteq stream'[c].dropped
        /\ c = d => emitter[t].event \in stream'[c].queue \cup stream'[c].dropped
    BY <2>1, <2>2 DEF Sound, TypeOK, Stream
  <2>4. /\ \A u \in Threads : emitter'[u].event = emitter[u].event
        /\ \A u \in Threads : emitter[u].to \ {d} \subseteq emitter'[u].to
        /\ \A u \in Threads \ {t} : emitter'[u] = emitter[u]
    BY <2>1 DEF Sound, TypeOK, Emitter
  <2>5. Accounted(c, e)
    BY <1>3, <2>3 DEF Complete, Puts, ids
  <2>6. CASE e \in Met(c) \cup stream[c].dropped
    BY <2>3, <2>6
  <2>7. ASSUME NEW u \in Threads, emitter[u].event = e, c \in emitter[u].to
        PROVE  Accounted(c, e)'
    <3>1. CASE c = d /\ u = t
      BY <2>3, <2>7, <3>1
    <3>2. CASE c # d \/ u # t
      <4>1. emitter'[u].event = e /\ c \in emitter'[u].to
        BY <2>4, <2>7, <3>2
      <4>2. QED  BY <4>1
    <3>3. QED  BY <3>1, <3>2
  <2>8. QED  BY <2>5, <2>6, <2>7
<1>4. ASSUME NEW d \in Streams, Connects(d)
      PROVE  Accounted(c, e)'
  <2>1. PICK since \in 0..MaxEvents :
          stream' = [stream EXCEPT ![d] = [Off EXCEPT !.on = TRUE, !.from = First(since),
                                                      !.replay = History(since)]]
    BY <1>4 DEF Connects
  <2>2. UNCHANGED <<ids, emitter>>
    BY <1>4 DEF Connects
  <2>3. CASE c = d
    <3>1. stream'[c].from = First(since) /\ stream'[c].replay = History(since)
      BY <2>1, <2>3 DEF Sound, TypeOK, Off
    <3>2. nextId \in Nat /\ oldest \in Nat /\ since \in Nat /\ nextId' = nextId
      BY <2>2, EventBusAssumption DEF Sound, TypeOK, Id, ids
    <3>3. e \in First(since)..nextId - 1
      BY <3>1, <3>2
    <3>4. e \in History(since)
      BY <3>2, <3>3 DEF First, History
    <3>5. QED  BY <3>1, <3>4
  <2>4. CASE c # d
    <3>1. stream'[c] = stream[c]
      BY <2>1, <2>4 DEF Sound, TypeOK
    <3>2. QED  BY <2>2, <3>1 DEF Complete, ids
  <2>5. QED  BY <2>3, <2>4
<1>5. ASSUME NEW d \in Streams, Sends(d)
      PROVE  Accounted(c, e)'
  <2>1. UNCHANGED <<ids, emitter>>
    BY <1>5 DEF Sends
  <2> DEFINE Kept ==
        /\ stream'[c].on = stream[c].on /\ stream'[c].from = stream[c].from
        /\ stream'[c].dropped = stream[c].dropped /\ Met(c) \subseteq Met(c)'
  <2>2. Kept
    <3>1. \A b \in Streams : stream[b] \in Stream
      BY DEF Sound, TypeOK
    <3>2. stream \in [Streams -> Stream]
      BY DEF Sound, TypeOK
    <3>3. ASSUME NEW x \in stream[d].replay,
                 stream' = [stream EXCEPT ![d].replay = @ \ {x}, ![d].sent = @ \cup {x}]
          PROVE  Kept
      BY <3>1, <3>2, <3>3 DEF Stream
    <3>4. ASSUME NEW x \in stream[d].queue,
                 stream' = [stream EXCEPT ![d].queue = @ \ {x}, ![d].sent = @ \cup {x}]
          PROVE  Kept
      BY <3>1, <3>2, <3>4 DEF Stream
    <3>5. QED  BY <1>5, <3>3, <3>4 DEF Sends
  <2>3. QED  BY <2>1, <2>2 DEF Complete, ids
<1>6. ASSUME NEW d \in Streams, Disconnects(d)
      PROVE  Accounted(c, e)'
  <2>1. /\ stream' = [stream EXCEPT ![d] = Off] /\ nextId' = nextId
        /\ emitter' = [t \in Threads |-> [emitter[t] EXCEPT !.to = @ \ {d}]]
    BY <1>6 DEF Disconnects, ids
  <2>2. c # d /\ stream'[c] = stream[c]
    BY <2>1 DEF Off, Sound, TypeOK
  <2>3. \A t \in Threads : /\ emitter'[t].event = emitter[t].event
                           /\ emitter'[t].to = emitter[t].to \ {d}
    BY <2>1 DEF Sound, TypeOK, Emitter
  <2>4. QED  BY <2>1, <2>2, <2>3 DEF Complete
<1>7. CASE Flushes
  BY <1>7 DEF Flushes, Complete
<1>8. CASE Restarts
  BY <1>8 DEF Restarts, Off
<1>9. QED  BY <1>1, <1>2, <1>3, <1>4, <1>5, <1>6, <1>7, <1>8 DEF Next

\* Every event that a connected browser is owed has been sent, waits for it,
\* is being handed out, or was refused by its full queue: history and queue
\* leave no gap.
THEOREM NothingMissed == Spec => []NoGap
<1>1. Init => Complete
  BY DEF Init, Complete, Off
<1>2. Complete => NoGap
  <2> SUFFICES ASSUME Complete, NEW c \in Subscribers, NEW e \in stream[c].from..nextId - 1
               PROVE  \/ e \in stream[c].sent \cup stream[c].replay \cup stream[c].queue
                                 \cup stream[c].dropped
                      \/ Pending(c, e) # {}
    BY DEF NoGap
  <2>1. Accounted(c, e)
    BY DEF Complete, Subscribers
  <2>2. QED  BY <2>1 DEF Accounted, Met, Pending
<1>3. QED  BY <1>1, <1>2, InitSound, SoundStep, CompleteStep, PTL DEF Spec
=============================================================================
