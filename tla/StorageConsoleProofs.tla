------------------------ MODULE StorageConsoleProofs ------------------------
(***************************************************************************)
(* Proofs about StorageConsole, for any contents, copies and scan results  *)
(* and any number of scans and apply requests.                             *)
(***************************************************************************)
EXTENDS StorageConsole, TLAPS

KeeperKept(ds) == \A d \in Digests : ds[d] # None => ds[d].keeper \notin ds[d].marked

\* While the page waits for the answer to a request, or for the reload after it,
\* nothing can be confirmed.
Waits(r) == Open(r) /\ ~sent[r].lost
Busy ==
    /\ \A r \in Commits : Waits(r) => applying /\ asks["commit"] = NoRead
    /\ asks["commit"] # NoRead => applying
    /\ \A r \in Commits : sent[r].lost => sent[r].stage = "running"

PageInv == TypeOK /\ KeeperStays
RequestInv == OneRequest /\ Busy

-----------------------------------------------------------------------------
(* Groups and decisions *)

\* The members and the keepers of a group are paths.
LEMMA GroupType ==
    ASSUME NEW g \in Results \cup {Absent}
    PROVE  Members(g) \subseteq Paths /\ Picks(g) \subseteq Members(g)
<1>1. CASE g \in Results
  <2>1. g \in Found /\ g.protected \subseteq DOMAIN g.inode
    BY <1>1, ConsoleAssumption
  <2>2. PICK S \in SUBSET Paths : g.inode \in [S -> Paths]
    BY <2>1 DEF Found
  <2>3. QED  BY <2>1, <2>2 DEF Members, Picks
<1>2. CASE g = Absent
  <2>1. Members(g) = {} /\ g.protected = {}
    BY <1>2 DEF Members, Absent
  <2>2. QED  BY <2>1 DEF Picks
<1>3. QED  BY <1>1, <1>2

LEMMA EmptyTypes ==
    /\ NoDecisions \in Decisions /\ KeeperKept(NoDecisions)
    /\ [d \in Digests |-> Absent] \in Listing
    /\ NoRead \in Read /\ Asked \in Read /\ Asked # NoRead
    /\ NoRequest \in Request /\ NoRequest.items = NoDecisions
<1>1. NoDecisions \in Decisions /\ KeeperKept(NoDecisions)
  BY DEF NoDecisions, Decisions, KeeperKept
<1>2. [d \in Digests |-> Absent] \in Listing
  BY DEF Listing
<1>3. NoRead \in Read /\ Asked \in Read /\ Asked # NoRead
  BY <1>2 DEF NoRead, Read, Asked
<1>4. NoRequest \in Request /\ NoRequest.items = NoDecisions
  BY <1>1, <1>2 DEF NoRequest, Request
<1>5. QED  BY <1>1, <1>2, <1>3, <1>4

\* Whatever the user marks, the decisions stay decisions and keepers are kept.
LEMMA MarkingKeeps ==
    ASSUME TypeOK, KeeperKept(decisions), Marking
    PROVE  decisions' \in Decisions /\ KeeperKept(decisions')
<1>1. ASSUME NEW d \in Digests
      PROVE  /\ data[d] \in Results \cup {Absent}
             /\ Members(data[d]) \subseteq Paths /\ Picks(data[d]) \subseteq Paths
             /\ decisions[d] \in Decision \cup {None}
             /\ Keepers(d) \subseteq Paths
             /\ decisions[d] # None => Keepers(d) = {decisions[d].keeper}
  <2>1. data[d] \in Results \cup {Absent} /\ decisions[d] \in Decision \cup {None}
    BY DEF TypeOK, Listing, Decisions
  <2>2. Members(data[d]) \subseteq Paths /\ Picks(data[d]) \subseteq Paths
    BY <2>1, GroupType
  <2>3. QED  BY <2>1, <2>2 DEF Keepers, Decision
<1>2. CASE Mark
  <2> DEFINE old(d) == IF decisions[d] = None THEN {} ELSE decisions[d].marked
  <2>1. PICK d \in Digests : \E k \in Keepers(d) : \E p \in Losers(data[d], k) :
          decisions' = [decisions EXCEPT ![d] = [keeper |-> k, marked |-> old(d) \cup {p}]]
    BY <1>2 DEF Mark
  <2>2. PICK k \in Keepers(d) : \E p \in Losers(data[d], k) :
          decisions' = [decisions EXCEPT ![d] = [keeper |-> k, marked |-> old(d) \cup {p}]]
    BY <2>1
  <2>3. PICK p \in Losers(data[d], k) :
          decisions' = [decisions EXCEPT ![d] = [keeper |-> k, marked |-> old(d) \cup {p}]]
    BY <2>2
  <2>4. old(d) \in SUBSET Paths /\ k \notin old(d)
    BY <1>1 DEF KeeperKept, Decision
  <2>5. p \in Paths /\ p # k
    BY <1>1 DEF Losers
  <2>6. [keeper |-> k, marked |-> old(d) \cup {p}] \in Decision
    BY <1>1, <2>4, <2>5 DEF Decision
  <2> HIDE DEF old
  <2>7. QED  BY <2>3, <2>4, <2>5, <2>6 DEF TypeOK, Decisions, KeeperKept
<1>3. CASE Unmark
  <2> DEFINE left(d, p) == IF decisions[d].marked = {p} THEN None
                           ELSE [keeper |-> decisions[d].keeper,
                                 marked |-> decisions[d].marked \ {p}]
  <2>1. PICK d \in Digests : decisions[d] # None /\
          \E p \in Losers(data[d], decisions[d].keeper) \cap decisions[d].marked :
            decisions' = [decisions EXCEPT ![d] =
                IF @.marked = {p} THEN None
                ELSE [keeper |-> @.keeper, marked |-> @.marked \ {p}]]
    BY <1>3 DEF Unmark
  <2>2. PICK p \in Losers(data[d], decisions[d].keeper) \cap decisions[d].marked :
          decisions' = [decisions EXCEPT ![d] = left(d, p)]
    BY <2>1
  <2>3. decisions[d] \in Decision /\ decisions[d].keeper \notin decisions[d].marked
    BY <1>1, <2>1 DEF KeeperKept
  <2>4. left(d, p) # None => /\ left(d, p) \in Decision
                             /\ left(d, p).keeper \notin left(d, p).marked
    BY <2>3 DEF Decision
  <2> HIDE DEF left
  <2>5. QED  BY <2>2, <2>4 DEF TypeOK, Decisions, KeeperKept
<1>4. CASE SetKeeper
  <2> DEFINE old(d) == IF decisions[d] = None THEN {} ELSE decisions[d].marked
  <2>1. PICK d \in Digests : \E p \in Members(data[d]) :
          decisions' = [decisions EXCEPT ![d] = [keeper |-> p, marked |-> old(d) \ {p}]]
    BY <1>4 DEF SetKeeper
  <2>2. PICK p \in Members(data[d]) :
          decisions' = [decisions EXCEPT ![d] = [keeper |-> p, marked |-> old(d) \ {p}]]
    BY <2>1
  <2>3. old(d) \in SUBSET Paths
    BY <1>1 DEF Decision
  <2>4. [keeper |-> p, marked |-> old(d) \ {p}] \in Decision
    BY <1>1, <2>3 DEF Decision
  <2> HIDE DEF old
  <2>5. QED  BY <2>2, <2>4 DEF TypeOK, Decisions, KeeperKept
<1>5. CASE ApplyRule
  <2>1. PICK T \in SUBSET Digests : \E k \in [T -> Paths] :
          decisions' = [d \in Digests |->
                IF d \notin T THEN decisions[d]
                ELSE IF Losers(data[d], k[d]) = {} THEN None
                ELSE [keeper |-> k[d], marked |-> Losers(data[d], k[d])]]
    BY <1>5 DEF ApplyRule
  <2>2. PICK k \in [T -> Paths] :
          decisions' = [d \in Digests |->
                IF d \notin T THEN decisions[d]
                ELSE IF Losers(data[d], k[d]) = {} THEN None
                ELSE [keeper |-> k[d], marked |-> Losers(data[d], k[d])]]
    BY <2>1
  <2>3. ASSUME NEW d \in T
        PROVE  /\ Losers(data[d], k[d]) \subseteq Paths \ {k[d]}
               /\ [keeper |-> k[d], marked |-> Losers(data[d], k[d])] \in Decision
    BY <1>1 DEF Losers, Decision
  <2>4. ASSUME NEW d \in Digests
        PROVE  /\ decisions'[d] \in Decision \cup {None}
               /\ decisions'[d] # None => decisions'[d].keeper \notin decisions'[d].marked
    <3>1. CASE d \notin T  BY <3>1, <2>2, <1>1 DEF KeeperKept
    <3>2. CASE d \in T  BY <3>2, <2>2, <2>3
    <3>3. QED  BY <3>1, <3>2
  <2>5. QED  BY <2>2, <2>4 DEF Decisions, KeeperKept
<1>6. CASE ClearSelection
  BY <1>6, EmptyTypes DEF ClearSelection
<1>7. QED  BY <1>2, <1>3, <1>4, <1>5, <1>6 DEF Marking

-----------------------------------------------------------------------------
(* Type correctness and the keepers *)

LEMMA InitPage == Init => PageInv
<1> SUFFICES ASSUME Init PROVE PageInv
  OBVIOUS
<1>1. TypeOK
  <2>1. asks \in [Reads -> Read] /\ sent \in [Commits -> Request]
    BY EmptyTypes DEF Init
  <2>2. groups \in Listing /\ data \in Listing /\ decisions \in Decisions
    BY EmptyTypes DEF Init
  <2>3. scans \in 0..MaxScans /\ hidden \subseteq Digests
    BY ConsoleAssumption DEF Init
  <2>4. news = {} /\ loading = "no" /\ running = FALSE /\ shown = FALSE
        /\ dialog = FALSE /\ applying = FALSE
    BY DEF Init
  <2>5. QED  BY <2>1, <2>2, <2>3, <2>4 DEF TypeOK
<1>2. \A r \in Commits : sent[r].items = NoDecisions
  BY EmptyTypes DEF Init
<1>3. QED  BY <1>1, <1>2, EmptyTypes DEF Init, PageInv, KeeperStays, KeeperKept

LEMMA StepPage == PageInv /\ [Next]_vars => PageInv'
<1> SUFFICES ASSUME PageInv, [Next]_vars PROVE PageInv'
  OBVIOUS
<1> USE ConsoleAssumption, EmptyTypes
<1>0. /\ TypeOK
      /\ KeeperKept(decisions) /\ \A r \in Commits : KeeperKept(sent[r].items)
  BY DEF PageInv, KeeperStays, KeeperKept
<1>a. ASSUME TypeOK', KeeperKept(decisions'), \A r \in Commits : KeeperKept(sent'[r].items)
      PROVE  PageInv'
  BY <1>a DEF PageInv, KeeperStays, KeeperKept
<1> DEFINE Same == UNCHANGED <<decisions, sent>>
<1>b. ASSUME TypeOK', Same PROVE PageInv'
  BY <1>0, <1>a, <1>b
<1> HIDE DEF Same
<1>1. CASE Marking
  <2>1. decisions' \in Decisions /\ KeeperKept(decisions')
    BY <1>0, <1>1, MarkingKeeps
  <2>2. UNCHANGED <<service, data, shown, dialog, applying, loading, news, asks, sent, scans>>
    BY <1>1 DEF Marking
  <2>3. QED  BY <1>0, <1>a, <2>1, <2>2 DEF TypeOK, service
<1>2. CASE OpensDialog
  BY <1>0, <1>2, <1>b DEF OpensDialog, TypeOK, service, Same
<1>3. CASE ClosesDialog
  BY <1>0, <1>3, <1>b DEF ClosesDialog, TypeOK, service, Same
<1>4. CASE Confirms
  <2> DEFINE new == [stage |-> "running", lost |-> FALSE, items |-> decisions,
                     stated |-> Selection, base |-> groups]
  <2>1. PICK r \in Commits :
          \/ sent' = [sent EXCEPT ![r] = [sent[r] EXCEPT !.stage = "refused"]]
          \/ sent' = [sent EXCEPT ![r] = new]
    BY <1>4 DEF Confirms
  <2>2. Selection \subseteq Digests \X Paths
    BY DEF Selection, Marks
  <2>3. new \in Request /\ KeeperKept(new.items)
    BY <1>0, <2>2 DEF Request, TypeOK
  <2>4. /\ [sent[r] EXCEPT !.stage = "refused"] \in Request
        /\ [sent[r] EXCEPT !.stage = "refused"].items = sent[r].items
    BY <1>0 DEF Request, TypeOK
  <2> HIDE DEF new
  <2>5. /\ sent' \in [Commits -> Request]
        /\ \A q \in Commits : KeeperKept(sent'[q].items)
    BY <1>0, <2>1, <2>3, <2>4 DEF TypeOK
  <2>6. /\ applying' = TRUE
        /\ UNCHANGED <<service, data, shown, decisions, dialog, loading, news, asks, scans>>
    BY <1>4 DEF Confirms
  <2>7. TypeOK'
    BY <1>0, <2>5, <2>6 DEF TypeOK, service
  <2>8. KeeperKept(decisions')
    BY <1>0, <2>6
  <2>9. QED  BY <1>a, <2>5, <2>7, <2>8
<1>5. ASSUME NEW r \in Commits, Applies(r) PROVE PageInv'
  <2>1. CASE Ends(r)
    <3>1. /\ sent' \in [Commits -> Request]
          /\ \A q \in Commits : KeeperKept(sent'[q].items)
      <4>1. ASSUME NEW stage \in {"done", "refused", "over"}
            PROVE  /\ [NoRequest EXCEPT !.stage = stage] \in Request
                   /\ [NoRequest EXCEPT !.stage = stage].items = NoDecisions
        BY <4>1 DEF Request, NoRequest
      <4>2. PICK stage \in {"done", "refused", "over"} :
              sent' = [sent EXCEPT ![r] = [NoRequest EXCEPT !.stage = stage]]
        BY <2>1 DEF Ends
      <4>3. QED  BY <1>0, <4>1, <4>2 DEF TypeOK
    <3>2. TypeOK'
      BY <1>0, <2>1, <3>1 DEF Ends, TypeOK, page
    <3>3. KeeperKept(decisions')
      BY <1>0, <2>1 DEF Ends, page
    <3>4. QED  BY <1>a, <3>1, <3>2, <3>3
  <2>2. CASE Answered(r)
    <3>1. /\ sent' \in [Commits -> Request]
          /\ \A q \in Commits : KeeperKept(sent'[q].items)
      <4>1. /\ [NoRequest EXCEPT !.stage = "over"] \in Request
            /\ [NoRequest EXCEPT !.stage = "over"].items = NoDecisions
        BY DEF Request, NoRequest
      <4>2. QED  BY <1>0, <2>2, <4>1 DEF Answered, TypeOK
    <3>2. decisions' \in {decisions, NoDecisions} /\ applying' \in BOOLEAN /\ dialog' \in BOOLEAN
      BY <1>0, <2>2 DEF Answered, TypeOK
    <3>3. asks' \in [Reads -> Read]
      BY <1>0, <2>2 DEF Answered, TypeOK
    <3>4. UNCHANGED <<service, data, shown, loading, news, scans>>
      BY <2>2 DEF Answered
    <3>5. TypeOK' /\ KeeperKept(decisions')
      BY <1>0, <3>1, <3>2, <3>3, <3>4 DEF TypeOK, service
    <3>6. QED  BY <1>a, <3>1, <3>5
  <2>3. QED  BY <1>5, <2>1, <2>2 DEF Applies
<1>lost. ASSUME NEW r \in Commits, Lost(r) PROVE PageInv'
  <2>1. PICK new \in {[NoRequest EXCEPT !.stage = "running", !.lost = TRUE],
                      [NoRequest EXCEPT !.stage = "over"]} : sent' = [sent EXCEPT ![r] = new]
    BY <1>lost DEF Lost
  <2>2. new \in Request /\ new.items = NoDecisions
    BY DEF Request, NoRequest
  <2>3. sent' \in [Commits -> Request] /\ \A q \in Commits : KeeperKept(sent'[q].items)
    BY <1>0, <2>1, <2>2 DEF TypeOK
  <2>4. /\ applying' = FALSE
        /\ UNCHANGED <<service, data, shown, decisions, dialog, loading, news, asks, scans>>
    BY <1>lost DEF Lost
  <2>5. QED  BY <1>0, <1>a, <2>3, <2>4 DEF TypeOK, service
<1>6. CASE StartsScan
  <2>1. scans' \in 0..MaxScans
    BY <1>0, <1>6 DEF StartsScan, TypeOK
  <2>2. loading' \in {"no", "accepted", "refused"} /\ running' \in BOOLEAN
        /\ news' \subseteq {"progress", "listing"}
    BY <1>0, <1>6 DEF StartsScan, TypeOK
  <2>3. UNCHANGED <<groups, hidden, data, shown, decisions, dialog, applying, asks, sent>>
    BY <1>6 DEF StartsScan
  <2>4. QED  BY <1>0, <1>b, <2>1, <2>2, <2>3 DEF TypeOK, Same
<1>7. CASE ScanAnswered
  <2>1. decisions' \in {decisions, NoDecisions}
    BY <1>7 DEF ScanAnswered
  <2>2. QED  BY <1>0, <1>7, <1>a, <2>1 DEF ScanAnswered, TypeOK, service
<1>8. CASE OtherScans
  BY <1>0, <1>8, <1>b DEF OtherScans, TypeOK, page, Same
<1>9. CASE ScanEnds
  BY <1>0, <1>9, <1>b DEF ScanEnds, TypeOK, page, Same
<1>10. CASE OtherClears
  BY <1>0, <1>10, <1>b DEF OtherClears, TypeOK, page, Same
<1>11. ASSUME NEW d \in Digests, Suppresses(d) \/ SuppressRestored(d) PROVE PageInv'
  BY <1>0, <1>11, <1>b DEF Suppresses, SuppressRestored, TypeOK, page, Same
<1>12. CASE Pages
  <2>1. ASSUME NEW e \in {"progress", "listing"}, NEW w \in Reads, Hears(e, w) PROVE PageInv'
    BY <1>0, <1>b, <2>1 DEF Hears, TypeOK, page, service, Same
  <2>2. ASSUME NEW w \in Reads, Serves(w) PROVE PageInv'
    <3> DEFINE seen == [d \in Digests |-> IF w = "status" \/ d \in hidden THEN Absent ELSE groups[d]]
    <3>1. seen \in Listing
      BY <1>0 DEF TypeOK, Listing
    <3>2. [stage |-> "answered", listing |-> seen, running |-> running] \in Read
      BY <1>0, <3>1 DEF TypeOK, Read
    <3>3. asks' = [asks EXCEPT ![w] = [stage |-> "answered", listing |-> seen, running |-> running]]
      BY <2>2 DEF Serves
    <3> HIDE DEF seen
    <3>4. QED  BY <1>0, <1>b, <2>2, <3>2, <3>3 DEF Serves, TypeOK, page, service, Same
  <2>3. ASSUME NEW w \in Reads, NEW failed \in BOOLEAN, Arrives(w, failed) PROVE PageInv'
    <3>1. asks[w].listing \in Listing /\ asks[w].running \in BOOLEAN
      BY <1>0 DEF TypeOK, Read
    <3>2. data' \in Listing /\ shown' \in BOOLEAN
      BY <1>0, <2>3, <3>1 DEF Arrives, TypeOK
    <3>3. applying' \in BOOLEAN
      BY <1>0, <2>3 DEF Arrives, TypeOK
    <3>4. asks' \in [Reads -> Read]
      BY <1>0, <2>3 DEF Arrives, TypeOK
    <3>5. UNCHANGED <<service, decisions, dialog, loading, news, sent, scans>>
      BY <2>3 DEF Arrives
    <3>6. QED  BY <1>0, <1>b, <3>2, <3>3, <3>4, <3>5 DEF TypeOK, service, Same
  <2>4. QED  BY <1>12, <2>1, <2>2, <2>3 DEF Pages, Reads
<1>13. CASE UNCHANGED vars
  BY <1>0, <1>13, <1>b DEF vars, TypeOK, Same
<1>14. QED
  BY <1>1, <1>2, <1>3, <1>4, <1>5, <1>6, <1>7, <1>8, <1>9, <1>10, <1>11, <1>12, <1>13, <1>lost
  DEF Next

-----------------------------------------------------------------------------
(* One apply request *)

\* OneRequest says that the page waits for one request at a time.
LEMMA OneWaits ==
    /\ OneRequest <=> \A r, q \in Commits : Waits(r) /\ Waits(q) => r = q
    /\ OneRequest' <=> \A r, q \in Commits : Waits(r)' /\ Waits(q)' => r = q
BY DEF OneRequest, Waits

LEMMA InitRequests == Init => RequestInv
<1> SUFFICES ASSUME Init PROVE RequestInv
  OBVIOUS
<1>1. \A r \in Commits : ~Waits(r) /\ ~sent[r].lost
  BY DEF Init, Waits, Open, NoRequest
<1>2. asks["commit"] = NoRead
  BY DEF Init, Reads
<1>3. QED  BY <1>1, <1>2, OneWaits DEF RequestInv, Busy

LEMMA StepRequests == PageInv /\ RequestInv /\ [Next]_vars => RequestInv'
<1> SUFFICES ASSUME PageInv, RequestInv, [Next]_vars PROVE RequestInv'
  OBVIOUS
<1> USE EmptyTypes
<1>0. /\ TypeOK /\ Busy
      /\ \A r, q \in Commits : Waits(r) /\ Waits(q) => r = q
  BY OneWaits DEF PageInv, RequestInv
<1>b. ASSUME \A r, q \in Commits : Waits(r)' /\ Waits(q)' => r = q, Busy'
      PROVE  RequestInv'
  BY <1>b, OneWaits DEF RequestInv
<1> DEFINE Same == UNCHANGED <<sent, applying>> /\ (asks["commit"])' = asks["commit"]
<1>a. ASSUME Same PROVE RequestInv'
  BY <1>0, <1>a, <1>b DEF Busy, Waits, Open
<1> HIDE DEF Same
<1>1. CASE Confirms
  <2>1. PICK r \in Commits :
          /\ sent[r].stage = "none"
          /\ sent' = [sent EXCEPT ![r] = sent'[r]]
          /\ sent'[r].lost = sent[r].lost \/ sent'[r].lost = FALSE
    BY <1>0, <1>1 DEF Confirms, TypeOK, Request
  <2>2. ~applying /\ applying' = TRUE /\ asks' = asks
    BY <1>1 DEF Confirms, MayConfirm
  <2>3. asks["commit"] = NoRead /\ \A q \in Commits : ~Waits(q)
    BY <1>0, <2>2 DEF Busy
  <2>4. \A q \in Commits : q # r => sent'[q] = sent[q]
    BY <1>0, <2>1 DEF TypeOK
  <2>5. \A q \in Commits : q # r => ~Waits(q)'
    BY <2>3, <2>4 DEF Waits, Open
  <2>6. \A q \in Commits : sent'[q].lost => sent'[q].stage = "running"
    <3>1. ~sent'[r].lost
      BY <1>0, <2>1 DEF Busy, TypeOK, Request
    <3>2. QED  BY <1>0, <2>4, <3>1 DEF Busy
  <2>7. QED  BY <1>b, <2>2, <2>3, <2>5, <2>6 DEF Busy
<1>2. ASSUME NEW r \in Commits, Ends(r) PROVE RequestInv'
  <2>1. PICK stage \in {"done", "refused", "over"} :
          /\ sent' = [sent EXCEPT ![r] = [NoRequest EXCEPT !.stage = stage]]
          /\ sent[r].lost => stage = "over"
    BY <1>2 DEF Ends
  <2>2. /\ \A q \in Commits : q # r => sent'[q] = sent[q]
        /\ sent'[r].stage = stage /\ sent'[r].lost = FALSE
    BY <1>0, <2>1 DEF TypeOK, NoRequest
  <2>3. \A q \in Commits : Waits(q)' => Waits(q)
    BY <1>2, <2>1, <2>2 DEF Ends, Waits, Open
  <2>4. UNCHANGED <<asks, applying>>
    BY <1>2 DEF Ends, page
  <2>5. Busy'
    BY <1>0, <2>2, <2>3, <2>4 DEF Busy
  <2>6. QED  BY <1>0, <1>b, <2>3, <2>5
<1>3. ASSUME NEW r \in Commits, Answered(r) PROVE RequestInv'
  <2>1. Waits(r) /\ \A q \in Commits : q # r => ~Waits(q)
    BY <1>0, <1>3 DEF Answered, Waits, Open, Busy
  <2>2. sent' = [sent EXCEPT ![r] = [NoRequest EXCEPT !.stage = "over"]]
    BY <1>3 DEF Answered
  <2>3. \A q \in Commits : ~Waits(q)' /\ (sent'[q].lost => sent'[q].stage = "running")
    BY <1>0, <2>1, <2>2 DEF Waits, Open, TypeOK, NoRequest, Busy
  <2>4. applying /\ asks["commit"] = NoRead
    BY <1>0, <2>1 DEF Busy
  <2>5. (asks["commit"])' # NoRead => applying'
    BY <1>3, <2>4 DEF Answered
  <2>6. QED  BY <1>b, <2>3, <2>5 DEF Busy
<1>lost. ASSUME NEW r \in Commits, Lost(r) PROVE RequestInv'
  <2>1. Waits(r) /\ \A q \in Commits : q # r => ~Waits(q)
    BY <1>0, <1>lost DEF Lost, Waits
  <2>2. PICK new \in {[NoRequest EXCEPT !.stage = "running", !.lost = TRUE],
                      [NoRequest EXCEPT !.stage = "over"]} : sent' = [sent EXCEPT ![r] = new]
    BY <1>lost DEF Lost
  <2>3. /\ new.lost \/ new.stage = "over"
        /\ new.lost => new.stage = "running"
    BY DEF NoRequest
  <2>4. \A q \in Commits : ~Waits(q)' /\ (sent'[q].lost => sent'[q].stage = "running")
    BY <1>0, <2>1, <2>2, <2>3 DEF Waits, Open, TypeOK, Busy
  <2>5. asks' = asks /\ asks["commit"] = NoRead
    BY <1>0, <1>lost, <2>1 DEF Lost, Busy
  <2>6. QED  BY <1>b, <2>4, <2>5 DEF Busy
<1>4. CASE Pages
  <2>1. CASE Hears("progress", "status") \/ Hears("listing", "event")
    <3>1. UNCHANGED <<sent, applying>>
      BY <2>1 DEF Hears, page
    <3>2. (asks["commit"])' = asks["commit"]
      BY <1>0, <2>1 DEF Hears, TypeOK, Reads
    <3>3. QED  BY <1>a, <3>1, <3>2 DEF Same
  <2>2. ASSUME NEW w \in Reads, Serves(w) PROVE RequestInv'
    <3>1. sent' = sent /\ applying' = applying
      BY <2>2 DEF Serves, page
    <3>2. asks[w] # NoRead
      BY <2>2 DEF Serves
    <3>3. (asks["commit"])' # NoRead => asks["commit"] # NoRead
      BY <1>0, <2>2, <3>2 DEF Serves, TypeOK
    <3>4. asks["commit"] = NoRead => (asks["commit"])' = NoRead
      BY <3>3
    <3>5. \A r \in Commits : Waits(r)' <=> Waits(r)
      BY <3>1 DEF Waits, Open
    <3>6. Busy'
      BY <1>0, <3>1, <3>3, <3>4, <3>5 DEF Busy
    <3>7. QED  BY <1>0, <1>b, <3>5, <3>6
  <2>3. ASSUME NEW w \in Reads, NEW failed \in BOOLEAN, Arrives(w, failed) PROVE RequestInv'
    <3>1. sent' = sent /\ asks' = [asks EXCEPT ![w] = NoRead] /\ applying' = (applying /\ w # "commit")
      BY <2>3 DEF Arrives
    <3>2. CASE w = "commit"
      <4>1. asks["commit"] # NoRead
        BY <2>3, <3>2 DEF Arrives, NoRead
      <4>2. \A q \in Commits : ~Waits(q)'
        BY <1>0, <4>1, <3>1 DEF Busy, Waits, Open
      <4>3. (asks["commit"])' = NoRead
        BY <1>0, <3>1, <3>2 DEF TypeOK, Reads
      <4>4. QED  BY <1>0, <1>b, <3>1, <4>2, <4>3 DEF Busy
    <3>3. CASE w # "commit"
      <4>1. (asks["commit"])' = asks["commit"]
        BY <1>0, <3>1, <3>3 DEF TypeOK, Reads
      <4>2. QED  BY <1>0, <1>a, <3>1, <3>3, <4>1 DEF Same, TypeOK
    <3>4. QED  BY <3>2, <3>3
  <2>4. QED  BY <1>4, <2>1, <2>2, <2>3 DEF Pages
<1>5. CASE Marking \/ OpensDialog \/ ClosesDialog
  BY <1>5, <1>a DEF Marking, OpensDialog, ClosesDialog, Same
<1>6. CASE StartsScan \/ ScanAnswered \/ OtherScans \/ ScanEnds \/ OtherClears
  BY <1>6, <1>a DEF StartsScan, ScanAnswered, OtherScans, ScanEnds, OtherClears, page, Same
<1>7. ASSUME NEW d \in Digests, Suppresses(d) \/ SuppressRestored(d) PROVE RequestInv'
  BY <1>7, <1>a DEF Suppresses, SuppressRestored, page, Same
<1>8. CASE UNCHANGED vars
  BY <1>8, <1>a DEF vars, Same
<1>9. QED
  BY <1>1, <1>2, <1>3, <1>4, <1>5, <1>6, <1>7, <1>8, <1>lost DEF Next, Applies

-----------------------------------------------------------------------------
(* Theorems *)

\* The page and the service keep their types, for any contents and copies.
THEOREM ConsoleTypeCorrect == Spec => []TypeOK
<1>1. PageInv => TypeOK
  BY DEF PageInv
<1>2. QED  BY <1>1, InitPage, StepPage, PTL DEF Spec

\* The keeper of a group is never also marked for removal (StoragePanel.tsx:382),
\* whatever scans, keeper rules and answers come in between.
THEOREM KeepersStay == Spec => []KeeperStays
<1>1. PageInv => KeeperStays
  BY DEF PageInv
<1>2. QED  BY <1>1, InitPage, StepPage, PTL DEF Spec

\* One browser has a second apply request pending only if the page gave up the
\* answer to the first (StoragePanel.tsx:463-502).
THEOREM OneAtATime == Spec => []OneRequest
<1>1. RequestInv => OneRequest
  BY DEF RequestInv
<1>2. QED  BY <1>1, InitPage, StepPage, InitRequests, StepRequests, PTL DEF Spec
=============================================================================
