--------------------------- MODULE StorageConsole ---------------------------
(***************************************************************************)
(* The storage page of one browser (web/matcher/src/components/            *)
(* StoragePanel.tsx) over the storage service (qbx/storage.py): what the   *)
(* page shows, what its user has marked, and what an apply request does    *)
(* with it.  Answers to the page's requests arrive in any order; other     *)
(* browsers scan, hide, apply and restore at any time.  What the service   *)
(* does to the files of a group is in Reclaim.                             *)
(***************************************************************************)
EXTENDS FiniteSets, Integers

CONSTANTS
    Digests,        \* contents that may have duplicate copies
    Paths,          \* paths of the copies
    Results,        \* what a scan may find of one content, see Found
    None,           \* no decision
    MaxScans,       \* scans considered (bound)
    MaxCommits      \* apply requests of this page considered (bound)

\* A group: the inode of each of its members, and the protected members.
Found == [inode : UNION {[S -> Paths] : S \in SUBSET Paths}, protected : SUBSET Paths]
Absent == [inode |-> <<>>, protected |-> {}]

ASSUME ConsoleAssumption ==
    /\ Results \subseteq Found
    /\ \A g \in Results : g.protected \subseteq DOMAIN g.inode
    /\ None \notin Paths
    /\ MaxScans \in Nat /\ MaxCommits \in Nat

VARIABLES
    groups,     \* the service: _groups, the result of the last scan
    running,    \* the service: a scan is in progress
    hidden,     \* the service: suppressed digests
    data,       \* the page: the groups it shows
    shown,      \* the page: data.running
    decisions,  \* the page: the user's decision on each digest
    dialog,     \* the page: confirmOpen
    applying,   \* the page: applying
    loading,    \* the page: its scan request, if one is on the way
    news,       \* storage.* events on the way to the page
    asks,       \* the page's reads: on the way, or answered
    sent,       \* the page's apply requests
    scans       \* scans so far

service == <<groups, running, hidden>>
page == <<data, shown, decisions, dialog, applying, loading>>
vars == <<groups, running, hidden, data, shown, decisions, dialog, applying,
          loading, news, asks, sent, scans>>

-----------------------------------------------------------------------------
(* Groups and decisions *)

Members(g) == DOMAIN g.inode
Listing == [Digests -> Results \cup {Absent}]

Decision == [keeper : Paths, marked : SUBSET Paths]
Decisions == [Digests -> Decision \cup {None}]
NoDecisions == [d \in Digests |-> None]

\* What an apply request asks for.
Marks(ds) == {m \in Digests \X Paths : ds[m[1]] # None /\ m[2] \in ds[m[1]].marked}

\* selection: what the page counts, the marked copies of the groups it shows.
Selection == {m \in Marks(decisions) : m[2] \in Members(data[m[1]])}

\* pickKeeper: some keeper rule names each of these, protected copies first.
Picks(g) == IF g.protected = {} THEN Members(g) ELSE g.protected

\* Mutant of Keepers: no keeper until the user picks one.
KeepersChosen(d) == IF decisions[d] = None THEN {None} ELSE {decisions[d].keeper}

\* The keeper a row shows: the user's, or the one the rule picks.
Keepers(d) == IF decisions[d] = None THEN Picks(data[d]) ELSE {decisions[d].keeper}

SharesInode(g, p, k) == k \in Members(g) /\ g.inode[p] = g.inode[k]
Losers(g, k) == {p \in Members(g) \ ({k} \cup g.protected) : ~SharesInode(g, p, k)}

-----------------------------------------------------------------------------
(* Requests *)

Reads == {"event", "status", "commit"}      \* one of each on the way (bound)
Read == [stage : {"no", "asked", "answered"}, listing : Listing, running : BOOLEAN]
NoRead == [stage |-> "no", listing |-> [d \in Digests |-> Absent], running |-> FALSE]
Asked == [NoRead EXCEPT !.stage = "asked"]

Request == [stage : {"none", "running", "done", "refused", "over"},
            lost : BOOLEAN, \* the page waits no more, though the service is at work
            items : Decisions, stated : SUBSET (Digests \X Paths), base : Listing]
NoRequest == [stage |-> "none", lost |-> FALSE, items |-> NoDecisions, stated |-> {},
              base |-> [d \in Digests |-> Absent]]
Commits == 1..MaxCommits
Open(r) == sent[r].stage \in {"running", "done", "refused"}

Init ==
    /\ groups \in Listing /\ running = FALSE /\ hidden = {}
    /\ data = [d \in Digests |-> Absent] /\ shown = FALSE
    /\ decisions = NoDecisions /\ dialog = FALSE /\ applying = FALSE
    /\ loading = "no" /\ news = {}
    /\ asks = [w \in Reads |-> IF w = "event" THEN Asked ELSE NoRead]
    /\ sent = [r \in Commits |-> NoRequest] /\ scans = 0

-----------------------------------------------------------------------------
(* The user, on the page behind the dialog *)

Mark ==
    \E d \in Digests : \E k \in Keepers(d) : \E p \in Losers(data[d], k) :
        decisions' = [decisions EXCEPT ![d] =
            [keeper |-> k, marked |-> (IF @ = None THEN {} ELSE @.marked) \cup {p}]]

Unmark ==
    \E d \in Digests : decisions[d] # None /\
        \E p \in Losers(data[d], decisions[d].keeper) \cap decisions[d].marked :
            decisions' = [decisions EXCEPT ![d] =
                IF @.marked = {p} THEN None
                ELSE [keeper |-> @.keeper, marked |-> @.marked \ {p}]]

\* Mutant of SetKeeper: the new keeper stays marked for removal.
SetKeeperOnly ==
    \E d \in Digests : \E k \in Keepers(d) : \E p \in Members(data[d]) \ {k} :
        decisions' = [decisions EXCEPT ![d] =
            [keeper |-> p, marked |-> IF @ = None THEN {} ELSE @.marked]]

SetKeeper ==
    \E d \in Digests : \E k \in Keepers(d) : \E p \in Members(data[d]) \ {k} :
        decisions' = [decisions EXCEPT ![d] =
            [keeper |-> p, marked |-> (IF @ = None THEN {} ELSE @.marked) \ {p}]]

\* "Select redundant copies" in the expanded groups: a fresh decision on each.
ApplyRule ==
    /\ ~shown
    /\ \E T \in SUBSET {d \in Digests : Members(data[d]) # {}} :
       \E k \in [T -> Paths] :
          /\ T # {} /\ \A d \in T : k[d] \in Picks(data[d])
          /\ decisions' = [d \in Digests |->
                IF d \notin T THEN decisions[d]
                ELSE IF Losers(data[d], k[d]) = {} THEN None
                ELSE [keeper |-> k[d], marked |-> Losers(data[d], k[d])]]

ClearSelection == Selection # {} /\ decisions' = NoDecisions

Marking ==
    /\ ~dialog
    /\ Mark \/ Unmark \/ SetKeeper \/ ApplyRule \/ ClearSelection
    /\ UNCHANGED <<service, data, shown, dialog, applying, loading, news, asks, sent, scans>>

OpensDialog ==
    /\ ~dialog /\ dialog' = TRUE
    /\ Selection # {} /\ ~shown
    /\ UNCHANGED <<service, data, shown, decisions, applying, loading, news, asks, sent, scans>>

\* "Keep all", or the Escape key, which works during an apply too.
ClosesDialog ==
    /\ dialog /\ dialog' = FALSE
    /\ UNCHANGED <<service, data, shown, decisions, applying, loading, news, asks, sent, scans>>

-----------------------------------------------------------------------------
(* Apply: commit, and StorageService.apply in a thread *)

\* Mutant of MayConfirm: the button is not disabled while an apply is pending.
MayAlwaysConfirm == dialog

MayConfirm == dialog /\ ~applying

\* The service refuses during a scan, without scan results, and when nothing
\* is marked; else a thread works on the groups of the last scan.  Any request
\* may also fail on its way there.
Confirms ==
    /\ MayConfirm
    /\ \E r \in Commits :
        /\ sent[r].stage = "none" /\ \A q \in Commits : q < r => sent[q].stage # "none"
        /\ \/ sent' = [sent EXCEPT ![r].stage = "refused"]
           \/ /\ ~running /\ Marks(decisions) # {}
              /\ \E d \in Digests : groups[d] # Absent
              /\ sent' = [sent EXCEPT ![r] =
                    [stage |-> "running", lost |-> FALSE, items |-> decisions,
                     stated |-> Selection, base |-> groups]]
    /\ applying' = TRUE
    /\ UNCHANGED <<service, data, shown, decisions, dialog, loading, news, asks, scans>>

\* The copies a request takes, unless the files have changed: the service
\* checks it against its own last scan, and does not look at what is hidden.
Taken(r) ==
    {m \in Marks(sent[r].items) :
        LET g == sent[r].base[m[1]]  k == sent[r].items[m[1]].keeper IN
        /\ k \in Members(g)
        /\ ~ Members(g) \subseteq sent[r].items[m[1]].marked
        /\ m[2] \in Members(g) \ ({k} \cup g.protected)}

\* The thread has worked through the request, or an exception has ended it; then
\* the groups stay, and the page gets an error.  Nobody may wait for the answer.
Ends(r) ==
    /\ sent[r].stage = "running"
    /\ \E outcome \in {"done", "refused"} :
        /\ sent' = [sent EXCEPT ![r] =
               [NoRequest EXCEPT !.stage = IF sent[r].lost THEN "over" ELSE outcome]]
        /\ groups' = IF outcome = "done" THEN [d \in Digests |-> Absent] ELSE groups
    /\ UNCHANGED <<running, hidden, page, news, asks, scans>>

\* Mutant of Answered: a refused request leaves applying set.
AnsweredOnSuccess(r) ==
    /\ sent[r].stage \in {"done", "refused"}
    /\ sent' = [sent EXCEPT ![r] = [NoRequest EXCEPT !.stage = "over"]]
    /\ IF sent[r].stage = "refused" THEN UNCHANGED <<decisions, dialog, applying, asks>>
       ELSE /\ decisions' = NoDecisions /\ dialog' = FALSE
            /\ asks' = [asks EXCEPT !["commit"] = Asked] /\ UNCHANGED applying
    /\ UNCHANGED <<service, data, shown, loading, news, scans>>

\* Success clears the decisions, those made since included, and reloads;
\* applying lasts until the reload is answered.
Answered(r) ==
    /\ sent[r].stage \in {"done", "refused"}
    /\ sent' = [sent EXCEPT ![r] = [NoRequest EXCEPT !.stage = "over"]]
    /\ IF sent[r].stage = "refused" THEN applying' = FALSE /\ UNCHANGED <<decisions, dialog, asks>>
       ELSE /\ decisions' = NoDecisions /\ dialog' = FALSE
            /\ asks' = [asks EXCEPT !["commit"] = Asked] /\ UNCHANGED applying
    /\ UNCHANGED <<service, data, shown, loading, news, scans>>

\* The connection breaks: the page reports an error and can confirm again, with
\* its decisions and its dialog as they were, while the thread works on.  What the
\* request asks for does not change any more and is left out from here.
Lost(r) ==
    /\ Open(r) /\ ~sent[r].lost
    /\ sent' = [sent EXCEPT ![r] = IF @.stage = "running"
                                   THEN [NoRequest EXCEPT !.stage = "running", !.lost = TRUE]
                                   ELSE [NoRequest EXCEPT !.stage = "over"]]
    /\ applying' = FALSE
    /\ UNCHANGED <<service, data, shown, decisions, dialog, loading, news, asks, scans>>

-----------------------------------------------------------------------------
(* Scans *)

\* startScan: the request is served, and its answer clears the decisions.
StartsScan ==
    /\ loading = "no" /\ ~shown /\ ~dialog /\ scans < MaxScans
    /\ IF running
       THEN loading' = "refused" /\ UNCHANGED <<running, news, scans>>
       ELSE loading' = "accepted" /\ running' = TRUE /\ scans' = scans + 1
            /\ news' = news \cup {"progress"}
    /\ UNCHANGED <<groups, hidden, data, shown, decisions, dialog, applying, asks, sent>>

ScanAnswered ==
    /\ loading # "no" /\ loading' = "no"
    /\ decisions' = IF loading = "accepted" THEN NoDecisions ELSE decisions
    /\ UNCHANGED <<service, data, shown, dialog, applying, news, asks, sent, scans>>

OtherScans ==
    /\ ~running /\ scans < MaxScans
    /\ running' = TRUE /\ scans' = scans + 1 /\ news' = news \cup {"progress"}
    /\ UNCHANGED <<groups, hidden, page, asks, sent>>

\* storage.scan.done, of a scan that ended or was cancelled, or storage.scan.failed.
ScanEnds ==
    /\ running /\ running' = FALSE
    /\ groups' \in {groups} \cup Listing
    /\ news' = news \cup {"listing"}
    /\ UNCHANGED <<hidden, page, asks, sent, scans>>

\* "hide always", here or in another browser.
Suppresses(d) ==
    /\ groups[d] # Absent /\ d \notin hidden
    /\ hidden' = hidden \cup {d} /\ news' = news \cup {"listing"}
    /\ UNCHANGED <<groups, running, page, asks, sent, scans>>

SuppressRestored(d) ==
    /\ d \in hidden
    /\ hidden' = hidden \ {d} /\ news' = news \cup {"listing"}
    /\ UNCHANGED <<groups, running, page, asks, sent, scans>>

\* An apply or a restore by somebody else; the page only rereads the quarantine.
OtherClears ==
    /\ \E d \in Digests : groups[d] # Absent
    /\ groups' = [d \in Digests |-> Absent]
    /\ UNCHANGED <<running, hidden, page, news, asks, sent, scans>>

-----------------------------------------------------------------------------
(* What the page reads *)

\* An event makes the page read the status (scan progress) or the groups.
Hears(e, w) ==
    /\ e \in news /\ asks[w] = NoRead
    /\ news' = news \ {e} /\ asks' = [asks EXCEPT ![w] = Asked]
    /\ UNCHANGED <<service, page, sent, scans>>

Serves(w) ==
    /\ asks[w] = Asked
    /\ asks' = [asks EXCEPT ![w] =
           [stage |-> "answered",
            listing |-> [d \in Digests |-> IF w = "status" \/ d \in hidden THEN Absent ELSE groups[d]],
            running |-> running]]
    /\ UNCHANGED <<service, page, news, sent, scans>>

\* A read that fails is logged and changes nothing shown.
Arrives(w, failed) ==
    /\ asks[w].stage = "answered"
    /\ asks' = [asks EXCEPT ![w] = NoRead]
    /\ IF failed THEN UNCHANGED <<data, shown>>
       ELSE /\ data' = IF w = "status" THEN data ELSE asks[w].listing
            /\ shown' = asks[w].running
    /\ applying' = (applying /\ w # "commit")
    /\ UNCHANGED <<service, decisions, dialog, loading, news, sent, scans>>

Pages ==
    \/ Hears("progress", "status") \/ Hears("listing", "event")
    \/ \E w \in Reads : Serves(w) \/ \E failed \in BOOLEAN : Arrives(w, failed)

Applies(r) == Ends(r) \/ Answered(r)

Next ==
    \/ Marking \/ OpensDialog \/ ClosesDialog \/ Confirms
    \/ \E r \in Commits : Applies(r) \/ Lost(r)
    \/ StartsScan \/ ScanAnswered
    \/ OtherScans \/ ScanEnds \/ OtherClears
    \/ \E d \in Digests : Suppresses(d) \/ SuppressRestored(d)
    \/ Pages

\* Requests are served and answered, or lost; users and other browsers may stop.
Fairness ==
    /\ \A r \in Commits : WF_vars(Applies(r))
    /\ \A w \in Reads : WF_vars(Serves(w) \/ Arrives(w, FALSE))

Spec == Init /\ [][Next]_vars /\ Fairness

-----------------------------------------------------------------------------
(* Properties *)

\* Type invariant of the page (StoragePanel.tsx:126-140) and of the service
\* (storage.py:55-84).
TypeOK ==
    /\ groups \in Listing /\ running \in BOOLEAN /\ hidden \subseteq Digests
    /\ data \in Listing /\ shown \in BOOLEAN /\ decisions \in Decisions
    /\ dialog \in BOOLEAN /\ applying \in BOOLEAN
    /\ loading \in {"no", "accepted", "refused"}
    /\ news \subseteq {"progress", "listing"}
    /\ asks \in [Reads -> Read] /\ sent \in [Commits -> Request]
    /\ scans \in 0..MaxScans

\* The keeper can never also be a removal target (StoragePanel.tsx:382),
\* whatever rescans, rules and keepers the marks have been through, on the page
\* and in every request it sends.
KeeperStays ==
    \A ds \in {decisions} \cup {sent[r].items : r \in Commits} :
        \A d \in Digests : ds[d] # None => ds[d].keeper \notin ds[d].marked

\* Two apply requests of one browser are pending at once only if the page gave up
\* the answer of one (StoragePanel.tsx:497-501); closing the dialog and opening
\* it again while one is pending (929) does not suffice, nor does the reload after it.
OneRequest ==
    \A r, q \in Commits : Open(r) /\ Open(q) /\ r # q => sent[r].lost \/ sent[q].lost

\* A confirmed apply comes to an end on the page, refused, lost or not, and with it
\* the state in which nothing more can be confirmed (StoragePanel.tsx:500).
CommitEnds == applying ~> ~applying

\* "A confirm step states exactly what will happen" (StoragePanel.tsx:4-5): the
\* service takes no copy that the dialog did not count.
ConfirmedOnly == \A r \in Commits : sent[r].stage = "running" => Taken(r) \subseteq sent[r].stated
=============================================================================
