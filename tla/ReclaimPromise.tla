--------------------------- MODULE ReclaimPromise ---------------------------
(***************************************************************************)
(* What duplicate reclaim (qbx/storage.py, qbx/engine/content_dedupe.py)   *)
(* promises about the copies of one content: a copy leaves its path only   *)
(* for the quarantine and only while another copy stays, it comes back on  *)
(* restore, and nothing but a purge removes it from the disk.  The promise *)
(* lapses once another program touches the files.                          *)
(***************************************************************************)
EXTENDS FiniteSets

CONSTANTS
    Paths,      \* paths that may hold a copy
    Entries     \* quarantine entries

VARIABLES
    live,       \* the paths that hold a copy
    held,       \* the quarantine entries that hold a copy
    alone       \* nobody else has touched the files

vars == <<live, held, alone>>

Init == live \in (SUBSET Paths) \ {{}} /\ held = {} /\ alone = TRUE

\* One copy moves to the quarantine, and another copy stays at its path.
Quarantine ==
    \E p \in live, e \in Entries \ held :
        /\ live' = live \ {p} /\ live' # {}
        /\ held' = held \cup {e}

\* A quarantined copy is moved back.
Restore ==
    \E e \in held, p \in Paths \ live :
        /\ held' = held \ {e}
        /\ live' = live \cup {p}

\* A quarantined copy is removed for good.
Purge ==
    \E e \in held : held' = held \ {e} /\ UNCHANGED live

Next ==
    \/ alone /\ alone' = TRUE /\ (Quarantine \/ Restore \/ Purge)
    \/ alone' = FALSE

Spec == Init /\ [][Next]_vars
=============================================================================
