--------------------------- MODULE HandoffPromise ---------------------------
(***************************************************************************)
(* What the debrid hand-off (qbx/engine/interceptor.py) promises of each   *)
(* torrent: at most one handler or webseed refresh works on it at a time,  *)
(* nobody else pauses or resumes it or changes the tags that tell how far  *)
(* its hand-off came, but that a failed torrent is taken up for a retry;   *)
(* and whatever is paused carries such a tag or was taken up, so that it   *)
(* is never forgotten, not even by a crash.                                *)
(***************************************************************************)
EXTENDS Functions

CONSTANTS
    Torrents,
    Actors      \* handlers and webseed refreshes

VARIABLES
    workers,    \* who works on each torrent
    paused,     \* whether the daemon holds it paused
    marked      \* whether it is tagged as an unfinished or failed hand-off, or was
                \* taken up for a retry and not handed off since

vars == <<workers, paused, marked>>

Init ==
    /\ workers = [t \in Torrents |-> {}]
    /\ paused = [t \in Torrents |-> FALSE]
    /\ marked = [t \in Torrents |-> FALSE]

Free == {t \in Torrents : workers[t] = {}}

\* Some torrents that nobody works on are each given to an actor of their own.
Takes ==
    \E batch \in SUBSET Free : \E actor \in Injection(batch, Actors) :
        /\ workers' = [t \in Torrents |-> IF t \in batch THEN {actor[t]} ELSE workers[t]]
        /\ UNCHANGED <<paused, marked>>

\* Work on a torrent: it may be paused, resumed and tagged, as long as it is
\* not left paused without a mark, and it may be given up.
Works(t) ==
    \E p, m \in BOOLEAN, w \in {workers[t], {}} :
        /\ workers[t] # {}
        /\ p => m
        /\ paused' = [paused EXCEPT ![t] = p]
        /\ marked' = [marked EXCEPT ![t] = m]
        /\ workers' = [workers EXCEPT ![t] = w]

\* Torrents that nobody works on are taken up for a retry.
Retries ==
    \E batch \in SUBSET Free :
        /\ marked' = [t \in Torrents |-> t \in batch \/ marked[t]]
        /\ UNCHANGED <<workers, paused>>

\* The daemon dies; qBittorrent keeps what it has.
Crashes ==
    /\ workers' = [t \in Torrents |-> {}]
    /\ UNCHANGED <<paused, marked>>

Next == Takes \/ (\E t \in Torrents : Works(t)) \/ Retries \/ Crashes

Spec == Init /\ [][Next]_vars

\* What a user of the promise has from it: one worker per torrent, and a mark
\* on every torrent that is paused.
Orderly ==
    \A t \in Torrents : /\ \A a, b \in workers[t] : a = b
                        /\ paused[t] => marked[t]
=============================================================================
