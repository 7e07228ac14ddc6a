---------------------------- MODULE UploadProofs ----------------------------
(***************************************************************************)
(* Proofs about Upload, for any queue and any batch size.                  *)
(*                                                                         *)
(* 1. IInv: types, and that one upload never reports one case as created   *)
(*    for two rows.  What keeps it so: between batches nothing is on the   *)
(*    wire; what the server has made for the batch on the wire is new      *)
(*    (NewOnWire); and what was reported exists (ReportedExist).  A batch  *)
(*    that was lost adds the ids reconcile_pairs gives out, which are one  *)
(*    per create (PairsInjective) and none of those already reported.      *)
(*                                                                         *)
(* 2. AInv == IInv /\ AParts: no two rows come to carry one case.  While   *)
(*    an upload runs, every id anyone was told of is older than its        *)
(*    beginning and everything it makes is newer (SinceBegun); a Check     *)
(*    takes along every id the queue has at its click (CheckApart), and    *)
(*    no upload gives out another before it is answered.  A step keeps     *)
(*    AInv unless it crosses (KeepsApart); UploadHistory remembers what    *)
(*    has crossed, so the theorem speaks of every behaviour of Upload, up  *)
(*    to its first crossing.                                               *)
(*                                                                         *)
(* 3. DInv == CInv /\ DParts: nothing is forgotten.  CInv extends AInv     *)
(*    with the books of an upload: what a request did, what an id in the   *)
(*    results means.  The heart of DParts is Balanced: under each title,   *)
(*    the cases nobody was told of and no result or answer has, and the    *)
(*    requests that may still make one, are at most the entries of the     *)
(*    hold, those in the history, the creates reported as unknown and, in  *)
(*    a batch whose deadline passed, the creates the server has not run.   *)
(*    Every step moves a case from one side's term to another's, unless    *)
(*    something crosses (NothingCrosses).                                  *)
(***************************************************************************)
EXTENDS UploadHistory, ReconcileProofs

\* The batch under way is all the loop has put on the wire.
WireIdle == loop \in {"none", "sending"} => wire = {} /\ got = [p \in {} |-> 0]

\* The loop runs only while the screen shows an upload.
LoopShown == stage # "uploading" => loop = "none"

\* Every id reported as created is a case.
ReportedExist == \A p \in Did("created") : results[p].id \in DOMAIN cases

\* What the server made for the batch under way is a case that no row has
\* been told of yet, and a different one for each create.
NewOnWire ==
  \A o \in DOMAIN got :
    got[o] # 0 /\ sent[o].uid = 0 =>
      /\ got[o] \in DOMAIN cases
      /\ \A p \in Did("created") : results[p].id # got[o]
      /\ \A p \in DOMAIN got : p # o /\ sent[p].uid = 0 => got[p] # got[o]

IInv ==
  /\ TypeOK
  /\ WireIdle
  /\ LoopShown
  /\ ReportedExist
  /\ NewOnWire
  /\ NoIdReportedTwice

-----------------------------------------------------------------------------
\* The values nobody has filled in yet are of their types.
LEMMA EmptyTypes ==
  /\ NoHold \in Hold
  /\ NoCheck \in Check
  /\ Failed \in Result /\ Unknown \in Result
BY DEF NoHold, Hold, NoCheck, Check, Failed, Unknown, Result

\* The chunk's rows are finitely many.
LEMMA ChunkCount ==
  ASSUME TypeOK
  PROVE  Cardinality(Chunk) \in Nat
<1>1. Chunk \subseteq 1..Len(sent) /\ Len(sent) \in Nat
  BY DEF Chunk, TypeOK
<1>2. IsFiniteSet(1..Len(sent))
  <2>1. 1 \in Int /\ Len(sent) \in Int
    BY <1>1
  <2> QED BY <2>1, FS_Interval
<1>3. IsFiniteSet(Chunk)
  BY <1>1, <1>2, FS_Subset
<1> QED BY <1>3, FS_CardinalityType

\* What the loop reports is a sequence of results that goes on where it was,
\* and the id of a row reported as created is the one its outcome named.
LEMMA ReportType ==
  ASSUME TypeOK, NEW outcome, Report(outcome),
         \A p \in wire : outcome[p] \in Result
  PROVE  /\ results' \in Seq(Result)
         /\ Len(results') = Len(results) + Cardinality(Chunk)
         /\ \A k \in 1..Len(results) : results'[k] = results[k]
         /\ \A k \in (Len(results) + 1)..Len(results') :
              results'[k] = IF k \in wire THEN outcome[k] ELSE Failed
<1> DEFINE n == Cardinality(Chunk)
           more == [k \in 1..n |-> LET p == Len(results) + k
                                   IN  IF p \in wire THEN outcome[p] ELSE Failed]
<1>1. n \in Nat
  BY ChunkCount
<1>2. results \in Seq(Result) /\ Len(results) \in Nat
  BY DEF TypeOK
<1>3. more \in Seq(Result) /\ Len(more) = n
  <2>1. \A k \in 1..n : more[k] \in Result
    BY EmptyTypes
  <2> HIDE DEF n
  <2>2. more \in [1..n -> Result]
    BY <2>1
  <2> HIDE DEF more
  <2> QED BY <1>1, <2>2
<1>4. results' = results \o more
  BY DEF Report
<1>5. \A k \in 1..n : more[k] = IF Len(results) + k \in wire THEN outcome[Len(results) + k] ELSE Failed
  OBVIOUS
<1> HIDE DEF n, more
<1>6. results' \in Seq(Result) /\ Len(results') = Len(results) + n
  <2>1. results \o more \in Seq(Result)
    BY <1>2, <1>3
  <2>2. Len(results \o more) = Len(results) + Len(more)
    BY <1>2, <1>3
  <2> QED BY <1>3, <1>4, <2>1, <2>2
<1>7. \A k \in 1..Len(results) : results'[k] = results[k]
  BY <1>1, <1>2, <1>3, <1>4
<1>8. ASSUME NEW k \in (Len(results) + 1)..Len(results')
      PROVE  results'[k] = IF k \in wire THEN outcome[k] ELSE Failed
  <2>1. k - Len(results) \in 1..n /\ Len(results) + (k - Len(results)) = k
    BY <1>1, <1>2, <1>6
  <2>2. results'[k] = more[k - Len(results)]
    BY <1>1, <1>2, <1>3, <1>4, <2>1
  <2> QED BY <1>5, <2>1, <2>2
<1> QED BY <1>6, <1>7, <1>8 DEF n

-----------------------------------------------------------------------------
LEMMA StampedType ==
  ASSUME NEW q \in [Rows -> Row], NEW made, \A m \in made : m.id \in Nat
  PROVE  Stamped(q, made) \in [Rows -> Row]
<1>1. ASSUME NEW r \in Rows, NEW mine, mine \subseteq made, mine # {}
      PROVE  [q[r] EXCEPT !.uid = (CHOOSE m \in mine : TRUE).id] \in Row
  <2>1. (CHOOSE m \in mine : TRUE).id \in Nat
    BY <1>1
  <2> HIDE <1>1
  <2> QED BY <2>1 DEF Row
<1> QED BY <1>1 DEF Stamped

LEMMA NarrowedType ==
  ASSUME NEW h \in Hold, NEW ambiguous, NEW claimed, claimed \subseteq Nat
  PROVE  Narrowed(h, ambiguous, claimed) \in Hold
<1> DEFINE keep == {e \in h.entries : e.title \in ambiguous}
<1>1. keep \subseteq Entry /\ h.cut \in Nat /\ h.ids \cup claimed \subseteq Nat
  BY DEF Hold
<1>2. {e.title : e \in keep} \subseteq Titles
  BY <1>1 DEF Entry
<1> QED BY <1>1, <1>2, EmptyTypes DEF Narrowed, Hold

LEMMA SlotsType ==
  ASSUME NEW q \in [Rows -> Row], NEW h
  PROVE  Slots(q, h) \subseteq Slot
<1>1. ASSUME NEW r \in Rows, NEW R, R \subseteq Rows
      PROVE  RankIn(Titled(q, R, q[r].title), r) \in Nat
  <2>1. Titled(q, R, q[r].title) \subseteq Rows
    BY <1>1 DEF Titled
  <2>2. IsFiniteSet(Titled(q, R, q[r].title))
    BY <2>1, RowsAssumption, FS_Subset
  <2> QED BY <2>2, RankType
<1>2. Creates(q) \subseteq Rows /\ Held(q, h) \subseteq Rows
  BY DEF Creates, Live, Held, Marked
<1>3. \A r \in Held(q, h) : q[r].title \in Titles
  BY <1>2 DEF Row
<1> QED BY <1>1, <1>2, <1>3 DEF Slots, Slot

LEMMA HeldTitlesType ==
  ASSUME NEW h \in Hold, NEW r \in DOMAIN HeldTitles(h)
  PROVE  HeldTitles(h)[r] \in Titles
<1>1. \E e \in h.entries : e.row = r
  BY DEF HeldTitles
<1>2. (CHOOSE e \in h.entries : e.row = r) \in h.entries
  BY <1>1
<1>3. h.entries \subseteq Entry
  BY DEF Hold
<1>4. HeldTitles(h)[r] = (CHOOSE e \in h.entries : e.row = r).title
  BY DEF HeldTitles
<1> HIDE <1>1
<1> QED BY <1>2, <1>3, <1>4 DEF Entry

-----------------------------------------------------------------------------
\* Types, action by action.

LEMMA TypeInit ==
  ASSUME Init
  PROVE  TypeOK
<1>1. queue \in [Rows -> Row]
  BY DEF Init, Row
<1>2. cases \in Seq(Case) /\ known \in Seq(Titles) /\ sent \in Seq(Request) /\ results \in Seq(Result)
  BY DEF Init
<1>3. got \in [DOMAIN got -> Nat] /\ DOMAIN got \subseteq wire /\ wire \subseteq (Len(results) + 1)..Len(sent)
  BY DEF Init
<1>4. hold \in Hold /\ check \in [Checkers -> Check]
  BY EmptyTypes DEF Init
<1>5. /\ late \subseteq Request /\ shown \subseteq Titles /\ accepted \subseteq Titles
      /\ told \subseteq Nat /\ dropped \subseteq Entry \X Nat
  BY DEF Init
<1>6. /\ stage = "idle" /\ loop = "none" /\ timedOut = FALSE
      /\ cut = 0 /\ known0 = 0 /\ uploads = 0 /\ edits = 0 /\ strangers = 0
  BY DEF Init
<1>7. {uploads, edits, strangers} \subseteq Nat /\ cut \in Nat /\ known0 \in Nat
  BY <1>6
<1> QED BY <1>1, <1>2, <1>3, <1>4, <1>5, <1>6, <1>7 DEF TypeOK

LEMMA TypeEdit ==
  ASSUME TypeOK, NEW r \in Rows, NEW row \in Row, Edit(r, row)
  PROVE  TypeOK'
BY DEF TypeOK, Edit, server, rust, held

LEMMA TypeQueueEdits ==
  ASSUME TypeOK, NEW r \in Rows, AddRow(r) \/ RemoveRow(r) \/ \E t \in Titles : Rename(r, t)
  PROVE  TypeOK'
<1>1. /\ [queue[r] EXCEPT !.at = "in"] \in Row
      /\ [queue[r] EXCEPT !.at = "gone", !.uid = 0] \in Row
      /\ \A t \in Titles : [queue[r] EXCEPT !.title = t] \in Row
  BY DEF TypeOK, Row
<1> QED BY <1>1, TypeEdit DEF AddRow, RemoveRow, Rename

LEMMA TypeClicks ==
  ASSUME TypeOK, AcceptDups \/ Confirm
  PROVE  TypeOK'
<1>1. CreateTitles(queue) \subseteq Titles
  BY DEF CreateTitles, Creates, Live, TypeOK, Row
<1>2. CASE AcceptDups
  BY <1>1, <1>2 DEF AcceptDups, DupsPending, TypeOK, server, rust, held
<1>3. CASE Confirm
  BY <1>1, <1>3 DEF Confirm, TypeOK, server, rust, held
<1> QED BY <1>2, <1>3

LEMMA TypeReadTitles ==
  ASSUME TypeOK, ReadTitles
  PROVE  known' \in Seq(Titles)
<1>1. [i \in DOMAIN cases |-> cases[i].title] \in Seq(Titles)
  <2>1. cases \in Seq(Case)
    BY DEF TypeOK
  <2>2. DOMAIN cases = 1..Len(cases) /\ Len(cases) \in Nat
    BY <2>1
  <2>3. \A i \in DOMAIN cases : cases[i] \in Case
    BY <2>1
  <2>4. \A i \in DOMAIN cases : cases[i].title \in Titles
    BY <2>3 DEF Case
  <2> QED BY <2>2, <2>4
<1> QED BY <1>1 DEF ReadTitles, TypeOK

LEMMA TypeStopped ==
  ASSUME TypeOK, Stopped
  PROVE  TypeOK'
<1>1. known' \in Seq(Titles)
  BY TypeReadTitles DEF Stopped
<1> QED BY <1>1 DEF Stopped, TypeOK, server, rust, held

LEMMA TypeStart ==
  ASSUME TypeOK, WireIdle, LoopShown, NEW R \in SUBSET Rows, Start(R)
  PROVE  TypeOK'
<1>1. known' \in Seq(Titles)
  BY TypeReadTitles DEF Start
<1>2. Cardinality(R) \in Nat
  BY RowsAssumption, FS_Subset, FS_CardinalityType
<1>3. sent' \in Seq(Request)
  <2>1. PICK nth \in [1..Cardinality(R) -> R] :
          sent' = [k \in 1..Cardinality(R) |->
                    [row |-> nth[k], title |-> queue[nth[k]].title, uid |-> queue[nth[k]].uid]]
    BY DEF Start, AsSent
  <2>2. \A k \in 1..Cardinality(R) :
          [row |-> nth[k], title |-> queue[nth[k]].title, uid |-> queue[nth[k]].uid] \in Request
    BY DEF TypeOK, Row, Request
  <2> QED BY <1>2, <2>1, <2>2
<1>4. cut' \in Nat /\ known0' \in Nat
  BY <1>1 DEF Start
<1>5. wire = {} /\ got = [p \in {} |-> 0]
  BY DEF Start, WireIdle, LoopShown
<1> QED BY <1>1, <1>3, <1>4, <1>5 DEF Start, TypeOK, server, held
LEMMA TypeChunkNotSent ==
  ASSUME TypeOK, WireIdle, ChunkNotSent
  PROVE  TypeOK'
<1>1. wire = {}
  BY DEF ChunkNotSent, WireIdle
<1>2. results' \in Seq(Result)
  BY <1>1, ReportType DEF ChunkNotSent
<1> QED BY <1>1, <1>2 DEF ChunkNotSent, TypeOK, server, screen, held

LEMMA TypeSendChunk ==
  ASSUME TypeOK, WireIdle, NEW P, SendChunk(P)
  PROVE  TypeOK'
<1>1. wire' \subseteq (Len(results) + 1)..Len(sent)
  <2>1. DOMAIN sent = 1..Len(sent) /\ Len(sent) \in Nat /\ Len(results) \in Nat
    BY DEF TypeOK
  <2>2. \A p \in Chunk : p \in (Len(results) + 1)..Len(sent)
    BY <2>1 DEF Chunk
  <2> QED BY <2>2 DEF SendChunk
<1>2. got = [p \in {} |-> 0]
  BY DEF SendChunk, WireIdle
<1> QED BY <1>1, <1>2 DEF SendChunk, TypeOK, server, screen, held

\* What Azure DevOps makes of a request: one more case, or the same cases.
LEMMA RunsType ==
  ASSUME cases \in Seq(Case), NEW req \in Request, NEW id, Runs(req, id)
  PROVE  /\ cases' \in Seq(Case)
         /\ DOMAIN cases \subseteq DOMAIN cases'
         /\ id \in Nat
         /\ id # 0 => id \in DOMAIN cases'
         /\ id # 0 /\ req.uid = 0 => id \notin DOMAIN cases
<1>1. Len(cases) \in Nat /\ DOMAIN cases = 1..Len(cases)
  OBVIOUS
<1>2. CASE req.uid = 0 /\ id = Len(cases) + 1 /\ cases' = Append(cases, [title |-> req.title, by |-> req.row])
  <2>1. [title |-> req.title, by |-> req.row] \in Case
    BY DEF Request, Case
  <2> QED BY <1>1, <1>2, <2>1
<1>3. CASE req.uid # 0 /\ req.uid \in DOMAIN cases /\ id = req.uid /\ cases' = [cases EXCEPT ![id].title = req.title]
  <2>1. cases[id] \in Case /\ req.title \in Titles
    BY <1>3 DEF Request
  <2>2. [cases[id] EXCEPT !.title = req.title] \in Case
    BY <2>1 DEF Case
  <2>3. cases' \in Seq(Case) /\ Len(cases') = Len(cases) /\ DOMAIN cases' = DOMAIN cases
    BY <1>1, <1>3, <2>2
  <2> QED BY <1>1, <1>3, <2>3
<1>4. CASE id = 0 /\ cases' = cases
  BY <1>4
<1> QED BY <1>2, <1>3, <1>4 DEF Runs

LEMMA TypeServerRuns ==
  ASSUME TypeOK, NEW p \in wire, NEW id, ServerRuns(p, id)
  PROVE  TypeOK'
<1>1. sent[p] \in Request
  BY DEF TypeOK
<1>2. cases' \in Seq(Case) /\ id \in Nat
  BY <1>1, RunsType DEF ServerRuns, TypeOK
<1>3. got' \in [DOMAIN got' -> Nat] /\ DOMAIN got' \subseteq wire'
  BY <1>2 DEF ServerRuns, TypeOK
<1> QED BY <1>2, <1>3 DEF ServerRuns, TypeOK, screen, held

LEMMA TypeLateRuns ==
  ASSUME TypeOK, NEW req \in late, LateRuns(req)
  PROVE  TypeOK'
<1>1. cases' \in Seq(Case)
  BY RunsType DEF LateRuns, TypeOK
<1> QED BY <1>1 DEF LateRuns, TypeOK, screen, held, rust

LEMMA TypeColleague ==
  ASSUME TypeOK, NEW t \in Titles, ColleagueCreates(t)
  PROVE  TypeOK'
<1>1. [title |-> t, by |-> Nobody] \in Case
  BY DEF Case
<1>2. cases' \in Seq(Case)
  BY <1>1 DEF ColleagueCreates, TypeOK
<1>3. late' \subseteq Request /\ strangers' \in Nat
  BY DEF ColleagueCreates, TypeOK
<1>4. check' \in [Checkers -> Check] /\ hold' \in Hold /\ told' \subseteq Nat /\ dropped' \subseteq Entry \X Nat
  BY DEF ColleagueCreates, TypeOK, held
<1> QED BY <1>2, <1>3, <1>4 DEF ColleagueCreates, TypeOK, screen, rust, held

LEMMA TypeBatchAnswered ==
  ASSUME TypeOK, BatchAnswered
  PROVE  TypeOK'
<1>1. \A p \in wire : Outcome(p) \in Result
  BY DEF TypeOK, BatchAnswered, Outcome, Failed, Result
<1>2. results' \in Seq(Result)
  <2> DEFINE outcome == [p \in wire |-> Outcome(p)]
  <2>1. Report(outcome) /\ \A p \in wire : outcome[p] \in Result
    BY <1>1 DEF BatchAnswered
  <2> HIDE DEF outcome
  <2> QED BY <2>1, ReportType
<1> QED BY <1>2 DEF BatchAnswered, TypeOK, server, screen, held

LEMMA TypeBatchLost ==
  ASSUME TypeOK, NEW byDeadline \in BOOLEAN, BatchLost(byDeadline)
  PROVE  TypeOK'
<1>1. \A p \in wire : sent[p] \in Request
  BY DEF TypeOK
<1>2. \/ late' = late \cup {sent[p] : p \in wire \ DOMAIN got}
      \/ late' = late
  BY DEF BatchLost
<1>3. late' \subseteq Request
  BY <1>1, <1>2 DEF TypeOK
<1> QED BY <1>3 DEF BatchLost, TypeOK, screen, held
\* What a lost create is reported as: a result, and when that is "created",
\* its id is one reconcile_pairs paired it with.
LEMMA LostCreateType ==
  ASSUME TypeOK, NEW p, NEW found
  PROVE  /\ LostCreate(p, found) \in Result
         /\ LostCreate(p, found).did = "created" =>
              /\ LostCreate(p, found).id \in DOMAIN cases
              /\ <<p, LostCreate(p, found).id>> \in Pairs(LostCreates, found)
<1> DEFINE pairs == Pairs(LostCreates, found)
           chosen == CHOOSE id \in DOMAIN cases : <<p, id>> \in pairs
<1>1. CASE \E id \in DOMAIN cases : <<p, id>> \in pairs
  <2>1. chosen \in DOMAIN cases /\ <<p, chosen>> \in pairs
    BY <1>1
  <2>2. LostCreate(p, found) = [did |-> "created", id |-> chosen]
    BY <1>1 DEF LostCreate
  <2>3. DOMAIN cases \subseteq Nat
    BY DEF TypeOK
  <2> HIDE DEF chosen, pairs
  <2>4. [did |-> "created", id |-> chosen] \in Result
    BY <2>1, <2>3 DEF Result
  <2> QED BY <2>1, <2>2, <2>4 DEF pairs
<1>2. CASE ~\E id \in DOMAIN cases : <<p, id>> \in pairs
  <2>1. LostCreate(p, found) \in {Unknown, Failed}
    BY <1>2 DEF LostCreate
  <2> QED BY <2>1, EmptyTypes DEF Unknown, Failed
<1> QED BY <1>1, <1>2

\* What a lost update is reported as.
LEMMA LostUpdateType ==
  ASSUME TypeOK, NEW p \in wire, NEW landed
  PROVE  LostUpdate(p, landed) \in Result /\ LostUpdate(p, landed).did # "created"
<1>1. sent[p].uid \in Nat
  <2>1. sent[p] \in Request
    BY DEF TypeOK
  <2> QED BY <2>1 DEF Request
<1>2. LostUpdate(p, landed) \in {[did |-> "updated", id |-> sent[p].uid], Failed}
  BY DEF LostUpdate
<1> QED BY <1>1, <1>2, EmptyTypes DEF Failed, Result

\* Resolve, seen as the report it makes.
ResolveOutcome(outcome) ==
  /\ Report(outcome)
  /\ \A p \in wire :
       /\ outcome[p] \in Result
       /\ outcome[p].did = "created" =>
            /\ sent[p].uid = 0
            /\ outcome[p].id \in DOMAIN cases
            /\ <<p, outcome[p].id>> \in Pairs(LostCreates, Candidates)

LEMMA ResolveReports ==
  ASSUME TypeOK, NEW landed, Resolve(landed)
  PROVE  \E outcome : ResolveOutcome(outcome)
<1> DEFINE looked == [p \in wire |-> IF sent[p].uid = 0 THEN LostCreate(p, Candidates)
                                     ELSE LostUpdate(p, landed)]
           blind == [p \in wire |-> IF sent[p].uid = 0 THEN Unknown ELSE LostUpdate(p, landed)]
<1>1. CASE Report(looked)
  <2>1. ASSUME NEW p \in wire
        PROVE  /\ looked[p] \in Result
               /\ looked[p].did = "created" =>
                    /\ sent[p].uid = 0
                    /\ looked[p].id \in DOMAIN cases
                    /\ <<p, looked[p].id>> \in Pairs(LostCreates, Candidates)
    <3>1. CASE sent[p].uid = 0
      <4>1. looked[p] = LostCreate(p, Candidates)
        BY <3>1
      <4> QED BY <3>1, <4>1, LostCreateType
    <3>2. CASE sent[p].uid # 0
      <4>1. looked[p] = LostUpdate(p, landed)
        BY <3>2
      <4> QED BY <4>1, LostUpdateType
    <3> QED BY <3>1, <3>2
  <2> HIDE DEF looked
  <2> QED BY <1>1, <2>1 DEF ResolveOutcome
<1>2. CASE Report(blind)
  <2>1. ASSUME NEW p \in wire
        PROVE  blind[p] \in Result /\ blind[p].did # "created"
    <3>1. Unknown \in Result /\ Unknown.did # "created"
      BY EmptyTypes DEF Unknown
    <3> QED BY <3>1, LostUpdateType
  <2> HIDE DEF blind
  <2> QED BY <1>2, <2>1 DEF ResolveOutcome
<1> QED BY <1>1, <1>2 DEF Resolve

LEMMA TypeResolve ==
  ASSUME TypeOK, NEW landed, Resolve(landed)
  PROVE  TypeOK'
<1>1. results' \in Seq(Result)
  BY ResolveReports, ReportType DEF ResolveOutcome
<1> QED BY <1>1 DEF Resolve, TypeOK, server, screen, held

LEMMA TypeUploadDone ==
  ASSUME TypeOK, WireIdle, UploadDone
  PROVE  TypeOK'
<1>1. \A p \in DOMAIN results : results[p].id \in Nat
  <2>1. \A p \in DOMAIN results : results[p] \in Result
    BY DEF TypeOK
  <2> QED BY <2>1 DEF Result
<1>2. \A m \in MadeByUpload : m.id \in Nat
  BY <1>1 DEF MadeByUpload, Did
<1>3. queue' \in [Rows -> Row]
  BY <1>2, StampedType DEF UploadDone, TypeOK
<1>4. HoldLeft \in Hold
  <2> DEFINE E == {[row |-> sent[p].row, title |-> sent[p].title] : p \in Did("unknown")}
             I == (1..known0) \cup {results[p].id : p \in Did("created") \cup Did("updated")}
  <2>1. E \subseteq Entry
    <3>1. DOMAIN results = DOMAIN sent
      BY DEF UploadDone, TypeOK
    <3>2. \A p \in DOMAIN sent : sent[p] \in Request
      BY DEF TypeOK
    <3> QED BY <3>1, <3>2 DEF Did, Request, Entry
  <2>2. I \subseteq Nat /\ cut \in Nat
    BY <1>1 DEF Did, TypeOK
  <2> HIDE DEF E, I
  <2>3. HoldOf(cut, E, I) \in Hold
    BY <2>1, <2>2, EmptyTypes DEF HoldOf, Hold
  <2> QED BY <2>3 DEF HoldLeft, E, I
<1>5. hold' \in Hold /\ dropped' \subseteq Entry \X Nat /\ told' \subseteq Nat
  BY <1>2, <1>4 DEF UploadDone, TypeOK, Hold
<1>6. wire = {} /\ got = [p \in {} |-> 0]
  BY DEF UploadDone, WireIdle
<1> QED BY <1>3, <1>5, <1>6 DEF UploadDone, TypeOK, server

LEMMA TypeCheckAsked ==
  ASSUME TypeOK, NEW c \in Checkers, CheckAsked(c)
  PROVE  TypeOK'
<1>1. Slots(queue, hold) \subseteq Slot
  BY SlotsType DEF TypeOK
<1>2. Excluded(queue, hold) \subseteq Nat
  BY DEF TypeOK, Excluded, Hold, Live, Row
<1>3. [NoCheck EXCEPT !.at = "asked", !.hold = hold, !.slots = Slots(queue, hold),
                      !.exclude = Excluded(queue, hold)] \in Check
  BY <1>1, <1>2, EmptyTypes DEF Check, TypeOK
<1> QED BY <1>3 DEF CheckAsked, TypeOK, server, screen, rust, held

LEMMA TypeCheckAnswered ==
  ASSUME TypeOK, NEW c \in Checkers, CheckAnswered(c)
  PROVE  TypeOK'
<1> DEFINE h == check[c].hold
           wanted == HeldTitles(h)
           titles == {wanted[r] : r \in DOMAIN wanted}
           found == {f \in CreatedSince(h.cut, titles) : f.id \notin check[c].exclude}
           paired == {f \in found : \E r \in DOMAIN wanted : <<r, f.id>> \in Pairs(wanted, found)}
<1>1. check[c] \in Check /\ h \in Hold
  BY DEF TypeOK, Check
<1>2. titles \subseteq Titles
  BY <1>1, HeldTitlesType
<1>3. DOMAIN cases \subseteq Nat
  BY DEF TypeOK
<1>4. found \subseteq Found
  <2> HIDE DEF titles, h
  <2> QED BY <1>2, <1>3 DEF CreatedSince, Found
<1>5. Ambiguous(wanted, found) \subseteq Titles
  <2> HIDE DEF found, wanted
  <2> QED BY <1>4 DEF Ambiguous, Found
<1>6. check' = [check EXCEPT ![c].at = "answered", ![c].exclude = {},
                             ![c].found = paired, ![c].ambiguous = Ambiguous(wanted, found)]
  BY DEF CheckAnswered
<1>7. paired \subseteq Found
  <2> HIDE DEF found, wanted
  <2> QED BY <1>4
<1> HIDE DEF paired, found, wanted, h
<1>8. check' \in [Checkers -> Check]
  <2>1. [check[c] EXCEPT !.at = "answered", !.exclude = {}, !.found = paired,
                         !.ambiguous = Ambiguous(wanted, found)] \in Check
    BY <1>1, <1>5, <1>7 DEF Check
  <2> QED BY <1>6, <2>1 DEF TypeOK
<1> QED BY <1>8 DEF CheckAnswered, TypeOK, server, screen, rust, held

LEMMA TypeCheckFailed ==
  ASSUME TypeOK, NEW c \in Checkers, CheckFailed(c)
  PROVE  TypeOK'
BY EmptyTypes DEF CheckFailed, TypeOK, server, screen, rust, held

LEMMA TypeCheckApplied ==
  ASSUME TypeOK, NEW c \in Checkers, CheckApplied(c)
  PROVE  TypeOK'
<1>1. check[c] \in Check
  BY DEF TypeOK
<1>2. \A f \in check[c].found : f.id \in Nat
  BY <1>1 DEF Check, Found
<1> DEFINE ids == {f.id : f \in check[c].found}
<1>3. ids \subseteq Nat
  BY <1>2
<1>4. \A m \in MadeByCheck(check[c].slots, check[c].found) : m.id \in Nat
  BY <1>2 DEF MadeByCheck
<1>5. queue' \in [Rows -> Row]
  BY <1>4, StampedType DEF CheckApplied, TypeOK
<1>6. check[c].hold \in Hold
  BY <1>1 DEF Check
<1>7. hold' \in Hold
  BY <1>3, <1>6, NarrowedType DEF CheckApplied
<1>8. dropped' \subseteq Entry \X Nat
  BY DEF CheckApplied, TypeOK, Hold
<1>9. told' \subseteq Nat
  BY <1>3 DEF CheckApplied, TypeOK
<1>10. check' \in [Checkers -> Check]
  BY EmptyTypes DEF CheckApplied, TypeOK
<1> QED BY <1>5, <1>7, <1>8, <1>9, <1>10 DEF CheckApplied, TypeOK, server, rust

LEMMA TypeRelease ==
  ASSUME TypeOK, Release
  PROVE  TypeOK'
<1>1. DOMAIN cases \subseteq Nat
  BY DEF TypeOK
<1> QED BY <1>1, EmptyTypes DEF Release, TypeOK, server, screen, rust
LEMMA TypeNext ==
  ASSUME TypeOK, WireIdle, LoopShown, Next
  PROVE  TypeOK'
<1>1. CASE User
  BY <1>1, TypeQueueEdits, TypeClicks, TypeRelease, TypeCheckAsked DEF User
<1>2. CASE App
  BY <1>2, TypeStopped, TypeStart, TypeChunkNotSent, TypeSendChunk, TypeBatchAnswered,
     TypeResolve, TypeUploadDone, TypeCheckApplied DEF App
<1>3. CASE Network
  BY <1>3, TypeBatchLost, TypeCheckAnswered, TypeCheckFailed DEF Network
<1>4. CASE Server
  BY <1>4, TypeServerRuns, TypeLateRuns, TypeColleague DEF Server
<1> QED BY <1>1, <1>2, <1>3, <1>4 DEF Next

LEMMA TypeStutter ==
  ASSUME TypeOK, UNCHANGED vars
  PROVE  TypeOK'
BY DEF TypeOK, vars, server, screen, rust, held

-----------------------------------------------------------------------------
\* One loop, and nothing on the wire between batches.
LEMMA LoopStep ==
  ASSUME TypeOK, WireIdle, LoopShown, [Next]_vars
  PROVE  WireIdle' /\ LoopShown'
<1> USE DEF WireIdle, LoopShown, server, screen, rust, held
<1>1. CASE User
  BY <1>1 DEF User, AddRow, RemoveRow, Rename, Edit, AcceptDups, Confirm, Release, CheckAsked
<1>2. CASE App
  <2>1. CASE Stopped
    BY <2>1 DEF Stopped
  <2>2. ASSUME NEW R, Start(R) PROVE WireIdle' /\ LoopShown'
    BY <2>2 DEF Start
  <2>3. CASE ChunkNotSent
    BY <2>3 DEF ChunkNotSent
  <2>4. ASSUME NEW P, SendChunk(P) PROVE WireIdle' /\ LoopShown'
    BY <2>4 DEF SendChunk
  <2>5. CASE BatchAnswered
    BY <2>5 DEF BatchAnswered
  <2>6. ASSUME NEW landed, Resolve(landed) PROVE WireIdle' /\ LoopShown'
    BY <2>6 DEF Resolve
  <2>7. CASE UploadDone
    BY <2>7 DEF UploadDone
  <2>8. ASSUME NEW c, CheckApplied(c) PROVE WireIdle' /\ LoopShown'
    BY <2>8 DEF CheckApplied
  <2> QED BY <1>2, <2>1, <2>2, <2>3, <2>4, <2>5, <2>6, <2>7, <2>8 DEF App
<1>3. CASE Network
  BY <1>3 DEF Network, BatchLost, CheckAnswered, CheckFailed
<1>4. CASE Server
  BY <1>4 DEF Server, ServerRuns, LateRuns, ColleagueCreates
<1>5. CASE UNCHANGED vars
  BY <1>5 DEF vars
<1> QED BY <1>1, <1>2, <1>3, <1>4, <1>5 DEF Next
-----------------------------------------------------------------------------
\* Reporting a chunk keeps one case to one row, when what it reports as
\* created are cases nobody was told of and no two of them are the same.
LEMMA ReportKeeps ==
  ASSUME TypeOK, NoIdReportedTwice, ReportedExist, cases' = cases,
         NEW outcome, Report(outcome),
         \A p \in wire : outcome[p] \in Result,
         \A p \in wire : outcome[p].did = "created" =>
           /\ outcome[p].id \in DOMAIN cases
           /\ \A q \in Did("created") : results[q].id # outcome[p].id
           /\ \A q \in wire : q # p /\ outcome[q].did = "created" => outcome[q].id # outcome[p].id
  PROVE  NoIdReportedTwice' /\ ReportedExist'
<1>1. results' \in Seq(Result) /\ Len(results) \in Nat /\ Len(results') \in Nat
  <2>1. results \in Seq(Result)
    BY DEF TypeOK
  <2>2. results' \in Seq(Result)
    BY ReportType
  <2> QED BY <2>1, <2>2
<1>2. DOMAIN results' = 1..Len(results') /\ DOMAIN results = 1..Len(results)
  BY <1>1 DEF TypeOK
<1>3. ASSUME NEW p \in DOMAIN results', results'[p].did = "created"
      PROVE  \/ p \in Did("created") /\ results'[p] = results[p]
             \/ p \in wire /\ p \notin DOMAIN results /\ results'[p] = outcome[p]
  <2>1. CASE p \in 1..Len(results)
    BY <1>2, <1>3, <2>1, ReportType DEF Did
  <2>2. CASE p \notin 1..Len(results)
    <3>1. p \in (Len(results) + 1)..Len(results')
      BY <1>1, <1>2, <2>2
    <3>2. results'[p] = IF p \in wire THEN outcome[p] ELSE Failed
      BY <3>1, ReportType
    <3>3. Failed.did # "created"
      BY DEF Failed
    <3> QED BY <1>2, <1>3, <2>2, <3>2, <3>3
  <2> QED BY <2>1, <2>2
<1>4. NoIdReportedTwice'
  <2>1. ASSUME NEW p \in DOMAIN results', NEW q \in DOMAIN results', p # q,
               results'[p].did = "created", results'[q].did = "created"
        PROVE  results'[p].id # results'[q].id
    <3>1. CASE p \in Did("created") /\ results'[p] = results[p]
      BY <1>3, <2>1, <3>1 DEF NoIdReportedTwice
    <3>2. CASE p \in wire /\ results'[p] = outcome[p]
      BY <1>3, <2>1, <3>2
    <3> QED BY <1>3, <2>1, <3>1, <3>2
  <2> QED BY <2>1 DEF NoIdReportedTwice, Did
<1>5. ReportedExist'
  <2>1. ASSUME NEW p \in DOMAIN results', results'[p].did = "created"
        PROVE  results'[p].id \in DOMAIN cases
    BY <1>3, <2>1 DEF ReportedExist
  <2> QED BY <2>1 DEF ReportedExist, Did
<1> QED BY <1>4, <1>5

\* More cases in Azure DevOps disturb nothing that was reported or made.
LEMMA CasesGrow ==
  ASSUME DOMAIN cases \subseteq DOMAIN cases', UNCHANGED <<results, got, sent>>,
         ReportedExist, NewOnWire, NoIdReportedTwice
  PROVE  ReportedExist' /\ NewOnWire' /\ NoIdReportedTwice'
<1>1. Did("created")' = Did("created")
  BY DEF Did
<1> QED BY <1>1 DEF ReportedExist, NewOnWire, NoIdReportedTwice

\* A batch under way that was reported leaves nothing on the wire.
LEMMA NothingOnWire ==
  ASSUME got' = [p \in {} |-> 0]
  PROVE  NewOnWire'
BY DEF NewOnWire

LEMMA BatchAnsweredKeeps ==
  ASSUME IInv, BatchAnswered
  PROVE  NoIdReportedTwice' /\ ReportedExist' /\ NewOnWire'
<1> DEFINE outcome == [p \in wire |-> Outcome(p)]
<1>1. Report(outcome) /\ cases' = cases /\ wire = DOMAIN got
  BY DEF BatchAnswered, server
<1>2. \A p \in wire : outcome[p] \in Result
  BY <1>1 DEF IInv, TypeOK, Outcome, Failed, Result
<1>3. \A p \in wire : outcome[p].did = "created" => got[p] # 0 /\ sent[p].uid = 0 /\ outcome[p].id = got[p]
  BY DEF Outcome, Failed
<1>4. ASSUME NEW p \in wire, outcome[p].did = "created"
      PROVE  /\ outcome[p].id \in DOMAIN cases
             /\ \A q \in Did("created") : results[q].id # outcome[p].id
             /\ \A q \in wire : q # p /\ outcome[q].did = "created" => outcome[q].id # outcome[p].id
  BY <1>1, <1>3, <1>4 DEF IInv, NewOnWire
<1> HIDE DEF outcome
<1>5. NoIdReportedTwice' /\ ReportedExist'
  BY <1>1, <1>2, <1>4, ReportKeeps DEF IInv
<1> QED BY <1>5, NothingOnWire DEF BatchAnswered

\* The candidates of a lookup have one title per id and none is an id this
\* upload has reported.
LEMMA CandidatesNew ==
  /\ \A f, g \in Candidates : f.id = g.id => f.title = g.title
  /\ \A f \in Candidates : \A q \in DOMAIN results : results[q].id # f.id
BY DEF Candidates, CreatedSince, Reported

LEMMA ResolveKeeps ==
  ASSUME IInv, NEW landed, Resolve(landed)
  PROVE  NoIdReportedTwice' /\ ReportedExist' /\ NewOnWire'
<1>1. PICK outcome : ResolveOutcome(outcome)
  BY ResolveReports DEF IInv
<1>2. DOMAIN LostCreates \subseteq Nat /\ IsFiniteSet(DOMAIN LostCreates)
  <2>1. Len(sent) \in Nat /\ Len(results) \in Nat
    BY DEF IInv, TypeOK
  <2>2. IsFiniteSet((Len(results) + 1)..Len(sent))
    <3>1. Len(results) + 1 \in Int /\ Len(sent) \in Int
      BY <2>1
    <3> QED BY <3>1, FS_Interval
  <2>3. DOMAIN LostCreates \subseteq (Len(results) + 1)..Len(sent)
    BY DEF LostCreates, IInv, TypeOK
  <2> QED BY <2>1, <2>2, <2>3, FS_Subset
<1>3. ASSUME NEW p \in wire, outcome[p].did = "created"
      PROVE  /\ outcome[p].id \in DOMAIN cases
             /\ \A q \in Did("created") : results[q].id # outcome[p].id
             /\ \A q \in wire : q # p /\ outcome[q].did = "created" => outcome[q].id # outcome[p].id
  <2>1. outcome[p].id \in DOMAIN cases /\ <<p, outcome[p].id>> \in Pairs(LostCreates, Candidates)
    BY <1>1, <1>3 DEF ResolveOutcome
  <2>2. \E f \in Candidates : f.id = outcome[p].id
    BY <2>1, PairsAgree
  <2>3. \A q \in Did("created") : results[q].id # outcome[p].id
    BY <2>2, CandidatesNew DEF Did
  <2>4. ASSUME NEW q \in wire, q # p, outcome[q].did = "created"
        PROVE  outcome[q].id # outcome[p].id
    <3>1. <<q, outcome[q].id>> \in Pairs(LostCreates, Candidates)
      BY <1>1, <2>4 DEF ResolveOutcome
    <3> QED BY <1>2, <2>1, <2>4, <3>1, CandidatesNew, PairsInjective
  <2> QED BY <2>1, <2>3, <2>4
<1>4. NoIdReportedTwice' /\ ReportedExist'
  BY <1>1, <1>3, ReportKeeps DEF IInv, ResolveOutcome, Resolve, server
<1> QED BY <1>4, NothingOnWire DEF Resolve

\* A chunk that was not sent reports failures, and those name no case.
LEMMA ChunkNotSentKeeps ==
  ASSUME IInv, ChunkNotSent
  PROVE  NoIdReportedTwice' /\ ReportedExist' /\ NewOnWire'
<1> DEFINE outcome == [p \in {} |-> Failed]
<1>1. wire = {} /\ got = [p \in {} |-> 0]
  BY DEF ChunkNotSent, IInv, WireIdle
<1>2. Report(outcome) /\ cases' = cases /\ got' = got
  BY DEF ChunkNotSent, server
<1> HIDE DEF outcome
<1>3. NoIdReportedTwice' /\ ReportedExist'
  BY <1>1, <1>2, ReportKeeps DEF IInv
<1> QED BY <1>1, <1>2, <1>3, NothingOnWire

\* A create the server runs is a case nobody was told of.
LEMMA ServerRunsKeeps ==
  ASSUME IInv, NEW p \in wire, NEW id, ServerRuns(p, id)
  PROVE  NoIdReportedTwice' /\ ReportedExist' /\ NewOnWire'
<1>1. Runs(sent[p], id) /\ UNCHANGED <<results, sent>>
  BY DEF ServerRuns
<1>2. sent[p] \in Request
  BY DEF IInv, TypeOK
<1>3. /\ DOMAIN cases \subseteq DOMAIN cases'
      /\ id # 0 => id \in DOMAIN cases'
      /\ id # 0 /\ sent[p].uid = 0 => id \notin DOMAIN cases
  BY <1>1, <1>2, RunsType DEF IInv, TypeOK
<1>4. DOMAIN got' = DOMAIN got \cup {p} /\ p \notin DOMAIN got
  BY DEF ServerRuns
<1>5. got'[p] = id /\ \A o \in DOMAIN got : got'[o] = got[o]
  BY <1>4 DEF ServerRuns
<1>6. Did("created")' = Did("created")
  BY <1>1 DEF Did
<1>7. NoIdReportedTwice' /\ ReportedExist'
  BY <1>1, <1>3, <1>6 DEF IInv, NoIdReportedTwice, ReportedExist
<1>8. ASSUME NEW o \in DOMAIN got', got'[o] # 0, sent[o].uid = 0
      PROVE  /\ got'[o] \in DOMAIN cases'
             /\ \A q \in Did("created") : results[q].id # got'[o]
             /\ \A q \in DOMAIN got' : q # o /\ sent[q].uid = 0 => got'[q] # got'[o]
  <2>1. ASSUME NEW q \in DOMAIN got, got[q] # 0, sent[q].uid = 0
        PROVE  got[q] \in DOMAIN cases
    BY <2>1 DEF IInv, NewOnWire
  <2>2. CASE o = p
    <3>1. id # 0 /\ id \in DOMAIN cases' /\ id \notin DOMAIN cases
      BY <1>3, <1>5, <1>8, <2>2
    <3>2. \A q \in Did("created") : results[q].id # id
      BY <3>1 DEF IInv, ReportedExist
    <3>3. \A q \in DOMAIN got : sent[q].uid = 0 => got[q] # id
      BY <2>1, <3>1
    <3> QED BY <1>4, <1>5, <2>2, <3>1, <3>2, <3>3
  <2>3. CASE o # p
    <3>1. o \in DOMAIN got /\ got'[o] = got[o]
      BY <1>4, <1>5, <2>3
    <3>2. got[o] \in DOMAIN cases
      BY <1>8, <2>1, <3>1
    <3>3. \A q \in Did("created") : results[q].id # got[o]
      BY <1>8, <3>1 DEF IInv, NewOnWire
    <3>4. \A q \in DOMAIN got : q # o /\ sent[q].uid = 0 => got[q] # got[o]
      BY <1>8, <3>1 DEF IInv, NewOnWire
    <3>5. sent[p].uid = 0 => id # got[o]
      BY <1>3, <1>8, <3>1, <3>2
    <3> QED BY <1>3, <1>4, <1>5, <3>1, <3>2, <3>3, <3>4, <3>5
  <2> QED BY <2>2, <2>3
<1>9. NewOnWire'
  BY <1>1, <1>6, <1>8 DEF NewOnWire
<1> QED BY <1>7, <1>9

\* An upload that starts or ends has reported nothing yet, or nothing more.
LEMMA NothingReported ==
  ASSUME WireIdle, loop \in {"none", "sending"}, results' = <<>>, got' = got
  PROVE  NoIdReportedTwice' /\ ReportedExist' /\ NewOnWire'
<1>1. Did("created")' = {}
  BY DEF Did
<1>2. got' = [p \in {} |-> 0]
  BY DEF WireIdle
<1> QED BY <1>1, <1>2, NothingOnWire DEF NoIdReportedTwice, ReportedExist

\* Nothing but the loop and the server changes what was reported or made.
LEMMA OthersKeep ==
  ASSUME IInv,
         \/ User
         \/ Stopped
         \/ \E P \in SUBSET Chunk : SendChunk(P)
         \/ \E c \in Checkers : CheckApplied(c)
         \/ Network
         \/ UNCHANGED vars
  PROVE  NoIdReportedTwice' /\ ReportedExist' /\ NewOnWire'
<1>1. UNCHANGED <<cases, results, got, sent>>
  BY DEF User, AddRow, RemoveRow, Rename, Edit, AcceptDups, Confirm, Release, CheckAsked,
         Stopped, SendChunk, CheckApplied, Network, BatchLost, CheckAnswered, CheckFailed,
         vars, server, rust
<1> QED BY <1>1, CasesGrow DEF IInv

LEMMA ServerKeeps ==
  ASSUME IInv, Server
  PROVE  NoIdReportedTwice' /\ ReportedExist' /\ NewOnWire'
<1>1. ASSUME NEW req \in late, LateRuns(req)
      PROVE  NoIdReportedTwice' /\ ReportedExist' /\ NewOnWire'
  <2>1. req \in Request /\ cases \in Seq(Case)
    BY <1>1 DEF IInv, TypeOK
  <2>2. DOMAIN cases \subseteq DOMAIN cases'
    BY <1>1, <2>1, RunsType DEF LateRuns
  <2> QED BY <1>1, <2>2, CasesGrow DEF IInv, LateRuns, rust
<1>2. ASSUME NEW t \in Titles, ColleagueCreates(t)
      PROVE  NoIdReportedTwice' /\ ReportedExist' /\ NewOnWire'
  <2>1. cases \in Seq(Case)
    BY DEF IInv, TypeOK
  <2>2. DOMAIN cases \subseteq DOMAIN cases'
    BY <1>2, <2>1 DEF ColleagueCreates
  <2> QED BY <1>2, <2>2, CasesGrow DEF IInv, ColleagueCreates, rust
<1> QED BY <1>1, <1>2, ServerRunsKeeps DEF Server

-----------------------------------------------------------------------------
LEMMA IInvInit ==
  ASSUME Init
  PROVE  IInv
<1>1. TypeOK
  BY TypeInit
<1>2. Did("created") = {}
  BY DEF Init, Did
<1> QED BY <1>1, <1>2 DEF Init, IInv, WireIdle, LoopShown, ReportedExist, NewOnWire, NoIdReportedTwice

LEMMA IInvStep ==
  ASSUME IInv, [Next]_vars
  PROVE  IInv'
<1>1. TypeOK'
  BY TypeNext, TypeStutter DEF IInv
<1>2. WireIdle' /\ LoopShown'
  BY LoopStep DEF IInv
<1>3. NoIdReportedTwice' /\ ReportedExist' /\ NewOnWire'
  <2>1. ASSUME NEW R \in SUBSET Rows, Start(R)
        PROVE  NoIdReportedTwice' /\ ReportedExist' /\ NewOnWire'
    BY <2>1, NothingReported DEF IInv, LoopShown, Start
  <2>2. CASE UploadDone
    BY <2>2, NothingReported DEF IInv, UploadDone
  <2>3. CASE App
    BY <2>1, <2>2, <2>3, OthersKeep, ChunkNotSentKeeps, BatchAnsweredKeeps, ResolveKeeps DEF App
  <2> QED BY <2>3, OthersKeep, ServerKeeps DEF Next
<1> QED BY <1>1, <1>2, <1>3 DEF IInv

\* Everything above at once: whatever the user, the server and the network
\* do, the state an upload keeps is in order and what was made is reported
\* once.
THEOREM IInvHolds == Spec => []IInv
<1>1. Init => IInv
  BY IInvInit
<1>2. IInv /\ [Next]_vars => IInv'
  BY IInvStep
<1> QED BY <1>1, <1>2, PTL DEF Spec

\* Every variable keeps its type; in particular the batch under way lies
\* beyond what was reported and within what was sent.
THEOREM TypeCorrect == Spec => []TypeOK
<1>1. IInv => TypeOK
  BY DEF IInv
<1> QED BY <1>1, IInvHolds, PTL

\* One upload never reports one case as created for two rows, with any
\* number of lost batches looked up by title with an early lower bound,
\* colleagues' cases and late requests among them (resolve_failed_batch).
THEOREM NoIdReportedTwiceHolds == Spec => []NoIdReportedTwice
<1>1. IInv => NoIdReportedTwice
  BY DEF IInv
<1> QED BY <1>1, IInvHolds, PTL

-----------------------------------------------------------------------------
\* What an upload or a Check found goes to creates only: a row that has an
\* id, or is no longer in the queue, is left as it is (matchLive).
LEMMA StampedSpares ==
  ASSUME NEW q, NEW made, NEW r \in Rows, q[r].uid # 0
  PROVE  Stamped(q, made)[r] = q[r]
<1>1. \A t, n : r \notin RowFor(q, t, n)
  BY DEF RowFor, Creates
<1> QED BY <1>1 DEF Stamped

\* An edit leaves a row its id, unless it takes the row away.
LEMMA EditSpares ==
  ASSUME TypeOK, NEW r \in Rows, queue[r].uid # 0, queue'[r].at = "in",
         \E s \in Rows : AddRow(s) \/ RemoveRow(s) \/ \E t \in Titles : Rename(s, t)
  PROVE  queue'[r].uid = queue[r].uid
<1>1. queue \in [Rows -> Row]
  BY DEF TypeOK
<1>2. ASSUME NEW s \in Rows, AddRow(s) PROVE queue'[r].uid = queue[r].uid
  BY <1>1, <1>2 DEF AddRow, Edit, Row
<1>3. ASSUME NEW s \in Rows, RemoveRow(s) PROVE queue'[r].uid = queue[r].uid
  BY <1>1, <1>3 DEF RemoveRow, Edit, Row
<1>4. ASSUME NEW s \in Rows, NEW t \in Titles, Rename(s, t) PROVE queue'[r].uid = queue[r].uid
  BY <1>1, <1>4 DEF Rename, Edit, Row
<1> QED BY <1>2, <1>3, <1>4

\* Every other step leaves the queue alone or stamps it.
LEMMA QueueSteps ==
  ASSUME [Next]_vars
  PROVE  \/ \E s \in Rows : AddRow(s) \/ RemoveRow(s) \/ \E t \in Titles : Rename(s, t)
         \/ queue' = queue
         \/ \E made : queue' = Stamped(queue, made)
<1> USE DEF screen
<1>1. CASE User
  BY <1>1 DEF User, AcceptDups, Confirm, Release, CheckAsked
<1>2. CASE App
  <2>1. ASSUME NEW c, CheckApplied(c) PROVE \E made : queue' = Stamped(queue, made)
    BY <2>1 DEF CheckApplied
  <2>2. CASE UploadDone
    BY <2>2 DEF UploadDone
  <2> QED BY <1>2, <2>1, <2>2 DEF App, Stopped, Start, ChunkNotSent, SendChunk, BatchAnswered, Resolve
<1>3. CASE Network
  BY <1>3 DEF Network, BatchLost, CheckAnswered, CheckFailed
<1>4. CASE Server
  BY <1>4 DEF Server, ServerRuns, LateRuns, ColleagueCreates
<1>5. CASE UNCHANGED vars
  BY <1>5 DEF vars
<1> QED BY <1>1, <1>2, <1>3, <1>4, <1>5 DEF Next

\* A row that was given its work item's id keeps that id while it is in the
\* queue: no later upload, and no Check however late its answer is applied,
\* writes another over it (keepUploaded, matchLive).
THEOREM IdsStickHolds == Spec => IdsStick
<1>1. IInv /\ [Next]_vars =>
        [\A r \in Rows : queue[r].uid # 0 /\ queue'[r].at = "in" => queue'[r].uid = queue[r].uid]_vars
  <2>1. ASSUME IInv, [Next]_vars, NEW r \in Rows, queue[r].uid # 0, queue'[r].at = "in"
        PROVE  queue'[r].uid = queue[r].uid
    <3>1. TypeOK
      BY <2>1 DEF IInv
    <3>2. CASE \E made : queue' = Stamped(queue, made)
      BY <2>1, <3>2, StampedSpares
    <3> QED BY <2>1, <3>1, <3>2, EditSpares, QueueSteps
  <2> QED BY <2>1
<1> QED BY <1>1, IInvHolds, PTL DEF Spec, IdsStick

-----------------------------------------------------------------------------
\* The entries of a hold with one title are finitely many: one per row.
LEMMA EntriesFinite ==
  ASSUME NEW h \in Hold, NEW t
  PROVE  IsFiniteSet(EntriesOf(h.entries, t))
<1> DEFINE E == EntriesOf(h.entries, t)
           rowOf == [e \in E |-> e.row]
<1>1. \A e \in E : e \in Entry /\ e.title = t
  BY DEF Hold, EntriesOf
<1>2. \A e, f \in E : e.row = f.row => e = f
  BY <1>1 DEF Entry
<1>3. rowOf \in [E -> Rows]
  BY <1>1 DEF Entry
<1>4. rowOf \in Injection(E, Rows)
  BY <1>2, <1>3 DEF Injection, IsInjective
<1> HIDE DEF E, rowOf
<1>5. IsFiniteSet(E)
  BY <1>4, RowsAssumption, FS_Injection
<1> QED BY <1>5 DEF E

\* A create whose title the hold still has holds the upload up, if not as
\* that row then as another (heldRows).
LEMMA TitleHolds ==
  ASSUME NEW q \in [Rows -> Row], NEW h \in Hold, NEW r \in Creates(q),
         EntriesOf(h.entries, q[r].title) # {}
  PROVE  Held(q, h) # {}
<1> SUFFICES ASSUME Held(q, h) = {}
             PROVE  FALSE
  OBVIOUS
<1> DEFINE t == q[r].title
           S == Titled(q, Creates(q), t)
<1>1. Marked(q, h) = {}
  BY DEF Held
<1>2. Creates(q) \subseteq Rows /\ r \in S
  BY DEF Creates, Live, Titled
<1>3. S \subseteq Nat /\ IsFiniteSet(S)
  <2>1. S \subseteq Rows
    BY <1>2 DEF Titled
  <2> HIDE DEF S
  <2> QED BY <2>1, RowsAssumption, FS_Subset
<1>4. PICK s \in S : RankIn(S, s) = 0
  <2> HIDE DEF S
  <2> QED BY <1>2, <1>3, FirstRank
<1>5. s \in Creates(q) /\ q[s].title = t
  BY <1>4 DEF Titled
<1>6. Creates(q) \ Marked(q, h) = Creates(q)
  BY <1>1
<1>7. Cardinality(Titled(q, Marked(q, h), t)) = 0
  <2>1. Titled(q, Marked(q, h), t) = {}
    BY <1>1 DEF Titled
  <2> QED BY <2>1, FS_EmptySet
<1>8. 0 + 0 < Cardinality(EntriesOf(h.entries, t))
  <2>1. IsFiniteSet(EntriesOf(h.entries, t))
    BY EntriesFinite
  <2>2. Cardinality(EntriesOf(h.entries, t)) \in Nat
    BY <2>1, FS_CardinalityType
  <2>3. Cardinality(EntriesOf(h.entries, t)) # 0
    BY <2>1, FS_EmptySet
  <2> QED BY <2>2, <2>3
<1>9. s \in Held(q, h)
  BY <1>4, <1>5, <1>6, <1>7, <1>8 DEF Held
<1> QED BY <1>9

\* The rows an upload sends are rows of the queue, as they are.
LEMMA SentAsQueued ==
  ASSUME NEW R, NEW list, AsSent(R, list), NEW p \in DOMAIN list
  PROVE  \E r \in R : list[p] = [row |-> r, title |-> queue[r].title, uid |-> queue[r].uid]
BY DEF AsSent

\* An upload starts only in Start.
LEMMA StartsInStart ==
  ASSUME [Next]_vars, stage = "confirming", stage' = "uploading"
  PROVE  \E R \in SUBSET Rows : Start(R)
<1> USE DEF screen
<1>1. ~User
  BY DEF User, AddRow, RemoveRow, Rename, Edit, AcceptDups, Confirm, Release, CheckAsked
<1>2. CASE App
  BY <1>2 DEF App, Stopped, ChunkNotSent, SendChunk, BatchAnswered, Resolve, UploadDone, CheckApplied
<1>3. ~Network
  BY DEF Network, BatchLost, CheckAnswered, CheckFailed
<1>4. ~Server
  BY DEF Server, ServerRuns, LateRuns, ColleagueCreates
<1>5. ~UNCHANGED vars
  BY DEF vars
<1> QED BY <1>1, <1>2, <1>3, <1>4, <1>5 DEF Next

\* No create goes out under a title the hold still has (guardedSubmit's last
\* await gives the user all the time there is to change the queue and the
\* hold; the backstop in mutationFn looks at both again).
THEOREM HeldRowsAreNotSentHolds == Spec => HeldRowsAreNotSent
<1>1. IInv /\ [Next]_vars =>
        [stage = "confirming" /\ stage' = "uploading" =>
           \A p \in DOMAIN sent' :
             sent'[p].uid = 0 => EntriesOf(hold.entries, sent'[p].title) = {}]_vars
  <2>1. ASSUME IInv, [Next]_vars, stage = "confirming", stage' = "uploading",
               NEW p \in DOMAIN sent', sent'[p].uid = 0
        PROVE  EntriesOf(hold.entries, sent'[p].title) = {}
    <3>1. PICK R \in SUBSET Rows : Start(R)
      BY <2>1, StartsInStart
    <3>2. AsSent(R, sent') /\ R \subseteq Live(queue) /\ Held(queue, hold) = {}
      BY <3>1 DEF Start, HoldActive
    <3>3. PICK r \in R : sent'[p] = [row |-> r, title |-> queue[r].title, uid |-> queue[r].uid]
      BY <2>1, <3>2, SentAsQueued
    <3>4. r \in Creates(queue) /\ sent'[p].title = queue[r].title
      BY <2>1, <3>2, <3>3 DEF Creates
    <3>5. queue \in [Rows -> Row] /\ hold \in Hold
      BY <2>1 DEF IInv, TypeOK
    <3> QED BY <3>2, <3>4, <3>5, TitleHolds
  <2> QED BY <2>1
<1> QED BY <1>1, IInvHolds, PTL DEF Spec, HeldRowsAreNotSent

-----------------------------------------------------------------------------
\* A title and a number name one create at most.
LEMMA RowForUnique ==
  ASSUME NEW q, NEW t, NEW n, NEW r \in RowFor(q, t, n), NEW s \in RowFor(q, t, n)
  PROVE  r = s
<1> DEFINE S == Titled(q, Creates(q), t)
<1>1. r \in S /\ s \in S /\ RankIn(S, r) = RankIn(S, s)
  BY DEF RowFor, Titled
<1>2. S \subseteq Rows
  BY DEF Titled, Creates, Live
<1> HIDE DEF S
<1>3. S \subseteq Nat /\ IsFiniteSet(S)
  BY <1>2, RowsAssumption, FS_Subset
<1> QED BY <1>1, <1>3, RankInjective

\* What stamping does to a row: nothing, or it gives a create the id that was
\* found for it.
LEMMA StampedRow ==
  ASSUME NEW q \in [Rows -> Row], NEW made, NEW r \in Rows
  PROVE  \/ Stamped(q, made)[r] = q[r]
         \/ \E m \in made : /\ r \in RowFor(q, m.title, m.nth)
                            /\ Stamped(q, made)[r].uid = m.id
                            /\ Stamped(q, made)[r].at = "in"
                            /\ Stamped(q, made)[r].title = q[r].title
<1> DEFINE mine == {m \in made : r \in RowFor(q, m.title, m.nth)}
           chosen == CHOOSE m \in mine : TRUE
<1>1. Stamped(q, made)[r] = IF mine = {} THEN q[r] ELSE [q[r] EXCEPT !.uid = chosen.id]
  BY DEF Stamped
<1>2. CASE mine # {}
  <2>1. chosen \in mine
    BY <1>2
  <2> HIDE DEF chosen
  <2>2. r \in RowFor(q, chosen.title, chosen.nth) /\ chosen \in made
    BY <2>1
  <2>3. q[r].at = "in"
    BY <2>2 DEF RowFor, Creates, Live
  <2>4. [q[r] EXCEPT !.uid = chosen.id].uid = chosen.id /\ [q[r] EXCEPT !.uid = chosen.id].at = "in"
        /\ [q[r] EXCEPT !.uid = chosen.id].title = q[r].title
    <3>1. q[r] \in Row
      OBVIOUS
    <3> HIDE DEF mine
    <3> QED BY <2>3, <3>1 DEF Row
  <2> QED BY <1>1, <1>2, <2>2, <2>4
<1> QED BY <1>1, <1>2

\* Stamping gives no two rows one case, when the ids it gives are on no row
\* and two of them are equal only for one row.
LEMMA StampedApart ==
  ASSUME NEW q \in [Rows -> Row], NEW made,
         \A m, n \in made : m.id = n.id => m.title = n.title /\ m.nth = n.nth,
         \A m \in made : \A r \in Rows : q[r].uid # m.id,
         \A r, s \in Live(q) : r # s /\ q[r].uid # 0 => q[r].uid # q[s].uid
  PROVE  \A r, s \in Live(Stamped(q, made)) :
           r # s /\ Stamped(q, made)[r].uid # 0 => Stamped(q, made)[r].uid # Stamped(q, made)[s].uid
<1> DEFINE z == Stamped(q, made)
<1>1. SUFFICES ASSUME NEW r \in Rows, NEW s \in Rows, z[r].at = "in", z[s].at = "in", r # s,
                      z[r].uid # 0, z[r].uid = z[s].uid
               PROVE  FALSE
  BY DEF Live
<1>2. \/ z[r] = q[r]
      \/ \E m \in made : r \in RowFor(q, m.title, m.nth) /\ z[r].uid = m.id
  BY StampedRow
<1>3. \/ z[s] = q[s]
      \/ \E m \in made : s \in RowFor(q, m.title, m.nth) /\ z[s].uid = m.id
  BY StampedRow
<1> HIDE DEF z
<1>4. CASE z[r] = q[r] /\ z[s] = q[s]
  BY <1>1, <1>4 DEF Live
<1>5. CASE z[r] = q[r] /\ z[s] # q[s]
  BY <1>1, <1>3, <1>5
<1>6. CASE z[r] # q[r] /\ z[s] = q[s]
  BY <1>1, <1>2, <1>6
<1>7. CASE z[r] # q[r] /\ z[s] # q[s]
  <2>1. PICK m \in made : r \in RowFor(q, m.title, m.nth) /\ z[r].uid = m.id
    BY <1>2, <1>7
  <2>2. PICK n \in made : s \in RowFor(q, n.title, n.nth) /\ z[s].uid = n.id
    BY <1>3, <1>7
  <2>3. m.title = n.title /\ m.nth = n.nth
    BY <1>1, <2>1, <2>2
  <2>4. r = s
    BY <2>1, <2>2, <2>3, RowForUnique
  <2> QED BY <1>1, <2>4
<1> QED BY <1>4, <1>5, <1>6, <1>7

\* The held rows of one title have a place each.
LEMMA SlotsApart ==
  ASSUME NEW q, NEW h, NEW s \in Slots(q, h), NEW u \in Slots(q, h),
         s.title = u.title, s.rank = u.rank
  PROVE  s.nth = u.nth
<1>1. PICK x \in Held(q, h) :
        s = [title |-> q[x].title, rank |-> RankIn(Titled(q, Held(q, h), q[x].title), x),
             nth |-> RankIn(Titled(q, Creates(q), q[x].title), x)]
  BY DEF Slots
<1>2. PICK y \in Held(q, h) :
        u = [title |-> q[y].title, rank |-> RankIn(Titled(q, Held(q, h), q[y].title), y),
             nth |-> RankIn(Titled(q, Creates(q), q[y].title), y)]
  BY DEF Slots
<1> DEFINE S == Titled(q, Held(q, h), q[x].title)
<1>3. q[x].title = q[y].title /\ x \in S /\ y \in S
  BY <1>1, <1>2 DEF Titled
<1>4. RankIn(S, x) = RankIn(S, y)
  BY <1>1, <1>2, <1>3
<1>5. S \subseteq Rows
  BY DEF Titled, Held, Marked, Creates, Live
<1> HIDE DEF S
<1>6. S \subseteq Nat /\ IsFiniteSet(S)
  BY <1>5, RowsAssumption, FS_Subset
<1>7. x = y
  BY <1>3, <1>4, <1>6, RankInjective
<1> QED BY <1>1, <1>2, <1>7

-----------------------------------------------------------------------------
\* What the user was told of are cases.
ToldExist == told \subseteq DOMAIN cases

\* A row has an id only while it is in the queue, and the user was told of it.
QueueTold == \A r \in Rows : queue[r].uid # 0 => queue[r].at = "in" /\ queue[r].uid \in told

\* While an upload runs everything it makes is newer than its beginning, what
\* anyone was told of is older, and no Check is out to tell of more.
SinceBegun ==
  stage = "uploading" =>
    /\ begun \in Nat /\ cut <= begun /\ begun <= Len(cases) /\ told \subseteq 1..begun
    /\ \A p \in Did("created") : results[p].id > begun
    /\ \A o \in DOMAIN got : got[o] # 0 /\ sent[o].uid = 0 => got[o] > begun
    /\ \A c \in Checkers : check[c].at = "none"

\* A Check knows its rows apart, and what it found is on no row.
CheckApart ==
  \A c \in Checkers :
    /\ \A s, u \in check[c].slots : s.title = u.title /\ s.rank = u.rank => s.nth = u.nth
    /\ \A f, g \in check[c].found : f.id = g.id => f.title = g.title
    /\ check[c].at = "none" => check[c].found = {}
    /\ check[c].at = "asked" => \A r \in Rows : queue[r].uid # 0 => queue[r].uid \in check[c].exclude
    /\ \A f \in check[c].found : f.id \in DOMAIN cases /\ \A r \in Rows : queue[r].uid # f.id

\* One Check at a time.
OneCheck == \A c, d \in Checkers : check[c].at # "none" /\ check[d].at # "none" => c = d

AParts == ToldExist /\ QueueTold /\ SinceBegun /\ CheckApart /\ OneCheck /\ NoIdOnTwoRows
AInv == IInv /\ AParts

\* A step that keeps uploads and Checks apart: none begins beside another's
\* Check, and no lookup takes a case for the upload's that is older.
Dated == begun' = IF Begins THEN Len(cases) ELSE begun
KeepsApart == Dated /\ ~BesideCheck /\ ~SecondCheck /\ ~FindsEarlier

-----------------------------------------------------------------------------
\* What was reported goes on as it was, and what is new in it is an outcome.
LEMMA ReportedIs ==
  ASSUME TypeOK, NEW outcome, Report(outcome), \A p \in wire : outcome[p] \in Result,
         NEW p \in DOMAIN results', results'[p].did # "failed"
  PROVE  \/ p \in DOMAIN results /\ results'[p] = results[p]
         \/ p \in wire /\ p \notin DOMAIN results /\ results'[p] = outcome[p]
<1>1. results \in Seq(Result) /\ results' \in Seq(Result)
  BY ReportType DEF TypeOK
<1>2. /\ DOMAIN results' = 1..Len(results') /\ DOMAIN results = 1..Len(results)
      /\ Len(results) \in Nat /\ Len(results') \in Nat
  BY <1>1
<1>3. CASE p \in 1..Len(results)
  BY <1>2, <1>3, ReportType
<1>4. CASE p \notin 1..Len(results)
  <2>1. p \in (Len(results) + 1)..Len(results')
    BY <1>2, <1>4
  <2>2. results'[p] = IF p \in wire THEN outcome[p] ELSE Failed
    BY <2>1, ReportType
  <2> QED BY <1>2, <1>4, <2>2 DEF Failed
<1> QED BY <1>3, <1>4

\* A step that tells nobody anything, reports nothing and starts no upload
\* leaves it all as it was, if rows get no ids from it.
LEMMA QuietKeeps ==
  ASSUME AInv, UNCHANGED <<told, results, got, sent, cut, check>>,
         cases \in Seq(Case), cases' \in Seq(Case), DOMAIN cases \subseteq DOMAIN cases',
         stage' = "uploading" => stage = "uploading" /\ begun' = begun,
         \A r \in Rows : /\ queue'[r].uid \in {0, queue[r].uid}
                         /\ queue'[r].uid # 0 => queue'[r].at = "in"
  PROVE  AParts'
<1> USE DEF AInv, AParts
<1>1. Len(cases) <= Len(cases')
  <2>1. /\ DOMAIN cases = 1..Len(cases) /\ DOMAIN cases' = 1..Len(cases')
        /\ Len(cases) \in Nat /\ Len(cases') \in Nat
    OBVIOUS
  <2>2. CASE Len(cases) = 0
    BY <2>1, <2>2
  <2>3. CASE Len(cases) # 0
    <3>1. Len(cases) \in DOMAIN cases
      BY <2>1, <2>3
    <3>2. Len(cases) \in DOMAIN cases'
      BY <3>1
    <3> QED BY <2>1, <3>2
  <2> QED BY <2>2, <2>3
<1>2. Len(cases) \in Nat /\ Len(cases') \in Nat
  BY DEF IInv, TypeOK
<1>3. Did("created")' = Did("created")
  BY DEF Did
<1>4. ToldExist' /\ QueueTold'
  BY DEF ToldExist, QueueTold
<1>5. SinceBegun'
  <2>1. begun \in Nat /\ begun <= Len(cases) => begun <= Len(cases')
    BY <1>1, <1>2
  <2> QED BY <1>3, <2>1 DEF SinceBegun
<1>6. CheckApart'
  <2>1. \A f : f # 0 /\ (\A r \in Rows : queue[r].uid # f) => \A r \in Rows : queue'[r].uid # f
    OBVIOUS
  <2>2. ASSUME NEW c \in Checkers, NEW f \in check[c].found PROVE f.id # 0
    <3>1. f.id \in DOMAIN cases
      BY <2>2 DEF CheckApart
    <3>2. DOMAIN cases = 1..Len(cases)
      OBVIOUS
    <3> QED BY <1>2, <3>1, <3>2
  <2> QED BY <2>1, <2>2 DEF CheckApart
<1>7. NoIdOnTwoRows'
  <2>1. \A r \in Rows : queue'[r].uid # 0 => queue'[r].uid = queue[r].uid /\ r \in Live(queue)
    BY DEF QueueTold, Live
  <2>2. ASSUME NEW r \in Live(queue'), NEW s \in Live(queue'), r # s, queue'[r].uid # 0,
               queue'[r].uid = queue'[s].uid
        PROVE  FALSE
    <3>1. r \in Rows /\ s \in Rows
      BY <2>2 DEF Live
    <3>2. /\ r \in Live(queue) /\ s \in Live(queue) /\ queue[r].uid # 0 /\ queue[r].uid = queue[s].uid
      BY <2>1, <2>2, <3>1
    <3> QED BY <2>2, <3>2 DEF NoIdOnTwoRows
  <2> QED BY <2>2 DEF NoIdOnTwoRows, Live
<1>8. OneCheck'
  BY DEF OneCheck
<1> QED BY <1>4, <1>5, <1>6, <1>7, <1>8

\* An edit of the queue writes no id.
LEMMA EditKeepsApart ==
  ASSUME AInv, Dated, NEW r \in Rows, AddRow(r) \/ RemoveRow(r) \/ \E t \in Titles : Rename(r, t)
  PROVE  AParts'
<1>1. queue \in [Rows -> Row]
  BY DEF AInv, IInv, TypeOK
<1>2. queue[r] \in Row /\ \A s \in Rows : queue[s].uid # 0 => queue[s].at = "in"
  BY <1>1 DEF AInv, AParts, QueueTold
<1>3. UNCHANGED <<told, results, got, sent, cut, check, stage, cases>>
  BY DEF AddRow, RemoveRow, Rename, Edit, server, rust, held
<1>4. ASSUME NEW s \in Rows
      PROVE  queue'[s].uid \in {0, queue[s].uid} /\ (queue'[s].uid # 0 => queue'[s].at = "in")
  <2>1. CASE AddRow(r)
    BY <1>1, <1>2, <2>1 DEF AddRow, Edit, Row
  <2>2. CASE RemoveRow(r)
    BY <1>1, <1>2, <2>2 DEF RemoveRow, Edit, Row
  <2>3. ASSUME NEW t \in Titles, Rename(r, t)
        PROVE  queue'[s].uid \in {0, queue[s].uid} /\ (queue'[s].uid # 0 => queue'[s].at = "in")
    BY <1>1, <1>2, <2>3 DEF Rename, Edit, Row
  <2> QED BY <2>1, <2>2, <2>3
<1>5. cases \in Seq(Case) /\ cases' \in Seq(Case) /\ DOMAIN cases \subseteq DOMAIN cases'
  BY <1>3 DEF AInv, IInv, TypeOK
<1> QED BY <1>3, <1>4, <1>5, QuietKeeps DEF Dated, Begins

\* The steps that touch neither ids nor cases.
LEMMA QuietSteps ==
  ASSUME AInv, Dated,
         \/ AcceptDups \/ Confirm \/ Stopped
         \/ \E P \in SUBSET Chunk : SendChunk(P)
         \/ \E byDeadline \in BOOLEAN : BatchLost(byDeadline)
         \/ \E req \in late : LateRuns(req)
         \/ \E t \in Titles : ColleagueCreates(t)
         \/ UNCHANGED vars
  PROVE  AParts'
<1>1. /\ UNCHANGED <<told, results, got, sent, cut, check, queue>>
      /\ stage' = "uploading" => stage = "uploading"
  BY DEF AcceptDups, Confirm, Stopped, SendChunk, BatchLost, LateRuns, ColleagueCreates,
         vars, server, screen, rust, held
<1>2. cases \in Seq(Case) /\ late \subseteq Request
  BY DEF AInv, IInv, TypeOK
<1>3. cases' \in Seq(Case) /\ DOMAIN cases \subseteq DOMAIN cases'
  <2>1. ASSUME NEW req \in late, LateRuns(req)
        PROVE  cases' \in Seq(Case) /\ DOMAIN cases \subseteq DOMAIN cases'
    BY <1>2, <2>1, RunsType DEF LateRuns
  <2>2. ASSUME NEW t \in Titles, ColleagueCreates(t)
        PROVE  cases' \in Seq(Case) /\ DOMAIN cases \subseteq DOMAIN cases'
    <3>1. [title |-> t, by |-> Nobody] \in Case
      BY DEF Case
    <3> QED BY <1>2, <2>2, <3>1 DEF ColleagueCreates
  <2>3. CASE cases' = cases
    BY <1>2, <2>3
  <2> QED BY <2>1, <2>2, <2>3 DEF AcceptDups, Confirm, Stopped, SendChunk, BatchLost, vars, server
<1>4. \A r \in Rows : queue'[r].uid \in {0, queue[r].uid} /\ (queue'[r].uid # 0 => queue'[r].at = "in")
  BY <1>1 DEF AInv, AParts, QueueTold
<1> QED BY <1>1, <1>2, <1>3, <1>4, QuietKeeps DEF Dated, Begins

-----------------------------------------------------------------------------
\* A step of the loop that reports: only what it reports as created matters.
LEMMA ReportKeepsApart ==
  ASSUME AInv, Dated, UNCHANGED <<server, screen, held, check, sent, cut>>, got' = got \/ got' = [p \in {} |-> 0],
         NEW outcome, Report(outcome), \A p \in wire : outcome[p] \in Result,
         stage = "uploading" =>
           \A p \in wire : outcome[p].did = "created" => outcome[p].id > begun
  PROVE  AParts'
<1> USE DEF AInv, AParts, server, screen, held
<1>1. TypeOK
  BY DEF IInv
<1>2. ToldExist' /\ QueueTold' /\ CheckApart' /\ OneCheck' /\ NoIdOnTwoRows'
  BY DEF ToldExist, QueueTold, CheckApart, OneCheck, NoIdOnTwoRows, Live
<1>3. SinceBegun'
  <2>1. SUFFICES ASSUME stage = "uploading" PROVE SinceBegun'
    BY DEF SinceBegun
  <2>2. ASSUME NEW p \in Did("created")' PROVE results'[p].id > begun
    <3>1. p \in DOMAIN results' /\ results'[p].did = "created"
      BY <2>2 DEF Did
    <3>2. CASE p \in DOMAIN results /\ results'[p] = results[p]
      BY <2>1, <3>1, <3>2 DEF SinceBegun, Did
    <3>3. CASE p \in wire /\ results'[p] = outcome[p]
      BY <2>1, <3>1, <3>3
    <3> QED BY <1>1, <3>1, <3>2, <3>3, ReportedIs
  <2>3. \A o \in DOMAIN got' : got'[o] # 0 /\ sent[o].uid = 0 => got'[o] > begun
    BY <2>1 DEF SinceBegun
  <2>4. begun' = begun
    BY <2>1 DEF Dated, Begins
  <2> QED BY <2>1, <2>2, <2>3, <2>4 DEF SinceBegun
<1> QED BY <1>2, <1>3

\* The conjuncts of AParts, one action at a time.
LEMMA ChunkNotSentApart ==
  ASSUME AInv, Dated, ChunkNotSent
  PROVE  AParts'
<1> DEFINE outcome == [p \in {} |-> Failed]
<1>1. wire = {}
  BY DEF ChunkNotSent, AInv, IInv, WireIdle
<1>2. Report(outcome) /\ UNCHANGED <<server, screen, held, check, sent, cut>> /\ got' = got
  BY DEF ChunkNotSent
<1> HIDE DEF outcome
<1> QED BY <1>1, <1>2, ReportKeepsApart

LEMMA BatchAnsweredApart ==
  ASSUME AInv, Dated, BatchAnswered
  PROVE  AParts'
<1> DEFINE outcome == [p \in wire |-> Outcome(p)]
<1>1. /\ Report(outcome) /\ UNCHANGED <<server, screen, held, check, sent, cut>>
      /\ got' = [p \in {} |-> 0] /\ wire = DOMAIN got
  BY DEF BatchAnswered
<1>2. \A p \in wire : outcome[p] \in Result
  BY <1>1 DEF AInv, IInv, TypeOK, Outcome, Failed, Result
<1>3. \A p \in wire : outcome[p].did = "created" => got[p] # 0 /\ sent[p].uid = 0 /\ outcome[p].id = got[p]
  BY DEF Outcome, Failed
<1>4. stage = "uploading" => \A p \in wire : outcome[p].did = "created" => outcome[p].id > begun
  BY <1>1, <1>3 DEF AInv, AParts, SinceBegun
<1> HIDE DEF outcome
<1> QED BY <1>1, <1>2, <1>4, ReportKeepsApart

LEMMA ResolveApart ==
  ASSUME AInv, KeepsApart, NEW landed, Resolve(landed)
  PROVE  AParts'
<1>1. PICK outcome : ResolveOutcome(outcome)
  BY ResolveReports DEF AInv, IInv
<1>2. ASSUME stage = "uploading", NEW p \in wire, outcome[p].did = "created"
      PROVE  outcome[p].id > begun
  <2>1. <<p, outcome[p].id>> \in Pairs(LostCreates, Candidates)
    BY <1>1, <1>2 DEF ResolveOutcome
  <2>2. \E f \in Candidates : f.id = outcome[p].id
    BY <2>1, PairsAgree
  <2>3. PICK f \in Candidates : f.id = outcome[p].id
    BY <2>2
  <2>4. ~(f.id <= begun)
    BY <2>3 DEF KeepsApart, FindsEarlier, LooksUp, Resolve
  <2>5. f.id \in Nat
    BY <2>3 DEF Candidates, CreatedSince, AInv, IInv, TypeOK
  <2>6. begun \in Nat
    BY <1>2 DEF AInv, AParts, SinceBegun
  <2> QED BY <2>3, <2>4, <2>5, <2>6
<1>3. UNCHANGED <<server, screen, held, check, sent, cut>> /\ got' = [p \in {} |-> 0]
  BY DEF Resolve
<1> QED BY <1>1, <1>2, <1>3, ReportKeepsApart DEF ResolveOutcome, KeepsApart

\* A case the server makes is newer than anything before.
LEMMA RunsNewer ==
  ASSUME cases \in Seq(Case), NEW req \in Request, NEW id, Runs(req, id)
  PROVE  Len(cases) <= Len(cases') /\ (id # 0 /\ req.uid = 0 => id > Len(cases))
<1>1. Len(cases) \in Nat
  OBVIOUS
<1>2. CASE req.uid = 0 /\ id = Len(cases) + 1 /\ cases' = Append(cases, [title |-> req.title, by |-> req.row])
  BY <1>1, <1>2
<1>3. CASE req.uid # 0 /\ cases' = [cases EXCEPT ![id].title = req.title]
  BY <1>1, <1>3
<1>4. CASE id = 0 /\ cases' = cases
  BY <1>1, <1>4
<1> QED BY <1>2, <1>3, <1>4 DEF Runs

LEMMA ServerRunsApart ==
  ASSUME AInv, Dated, NEW p \in wire, NEW id, ServerRuns(p, id)
  PROVE  AParts'
<1> USE DEF AInv, AParts
<1>1. /\ Runs(sent[p], id) /\ p \notin DOMAIN got
      /\ got' = [o \in DOMAIN got \cup {p} |-> IF o = p THEN id ELSE got[o]]
      /\ UNCHANGED <<queue, told, check, results, sent, cut, stage>>
  BY DEF ServerRuns, screen, held
<1>2. sent[p] \in Request /\ cases \in Seq(Case)
  BY DEF IInv, TypeOK
<1>3. /\ cases' \in Seq(Case) /\ DOMAIN cases \subseteq DOMAIN cases' /\ id \in Nat
      /\ Len(cases) <= Len(cases') /\ (id # 0 /\ sent[p].uid = 0 => id > Len(cases))
  BY <1>1, <1>2, RunsType, RunsNewer
<1>4. Did("created")' = Did("created")
  BY <1>1 DEF Did
<1>5. SinceBegun'
  <2>1. SUFFICES ASSUME stage = "uploading" PROVE SinceBegun'
    BY <1>1 DEF SinceBegun
  <2>2. begun <= Len(cases')
    <3>1. begun \in Nat /\ begun <= Len(cases) /\ Len(cases) \in Nat /\ Len(cases') \in Nat
      BY <1>2, <1>3, <2>1 DEF SinceBegun
    <3> QED BY <1>2, <1>3, <3>1
  <2>3. ASSUME NEW o \in DOMAIN got', got'[o] # 0, sent[o].uid = 0 PROVE got'[o] > begun
    <3>1. CASE o = p
      <4>1. /\ got'[o] = id /\ id > Len(cases) /\ begun <= Len(cases) /\ Len(cases) \in Nat
            /\ begun \in Nat
        BY <1>1, <1>2, <1>3, <2>1, <2>3, <3>1 DEF SinceBegun
      <4> QED BY <1>2, <1>3, <4>1
    <3>2. CASE o # p
      BY <1>1, <2>1, <2>3, <3>2 DEF SinceBegun
    <3> QED BY <3>1, <3>2
  <2>4. begun' = begun
    BY <1>1, <2>1 DEF Dated, Begins
  <2> QED BY <1>1, <1>4, <2>1, <2>2, <2>3, <2>4 DEF SinceBegun
<1>6. ToldExist' /\ QueueTold' /\ CheckApart' /\ OneCheck' /\ NoIdOnTwoRows'
  BY <1>1, <1>3 DEF ToldExist, QueueTold, CheckApart, OneCheck, NoIdOnTwoRows, Live
<1> QED BY <1>5, <1>6

LEMMA StartApart ==
  ASSUME KeepsApart, AInv, NEW R, Start(R)
  PROVE  AParts'
<1> USE DEF AInv, AParts
<1>1. UNCHANGED <<queue, told, check, cases, got>> /\ results' = <<>>
  BY DEF Start, server, held
<1>2. \A c \in Checkers : check[c].at = "none"
  BY DEF Start, KeepsApart, BesideCheck, Begins, CheckOut
<1>3. begun' = Len(cases) /\ cut' <= Len(cases) /\ Len(cases) \in Nat
  <2>1. PICK n \in 0..Len(cases) : cut' = n
    BY DEF Start
  <2>2. Len(cases) \in Nat
    BY DEF IInv, TypeOK
  <2>3. begun' = Len(cases)
    BY DEF Start, KeepsApart, Dated, Begins
  <2> QED BY <2>1, <2>2, <2>3
<1>4. got = [p \in {} |-> 0]
  BY DEF Start, IInv, WireIdle, LoopShown
<1>5. Did("created")' = {}
  BY <1>1 DEF Did
<1>6. told \subseteq 1..Len(cases) /\ Len(cases) <= Len(cases)
  BY DEF ToldExist, IInv, TypeOK
<1>7. SinceBegun'
  BY <1>1, <1>2, <1>3, <1>4, <1>5, <1>6 DEF SinceBegun
<1>8. ToldExist' /\ QueueTold' /\ CheckApart' /\ OneCheck' /\ NoIdOnTwoRows'
  BY <1>1 DEF ToldExist, QueueTold, CheckApart, OneCheck, NoIdOnTwoRows, Live
<1> QED BY <1>7, <1>8

LEMMA UploadDoneApart ==
  ASSUME AInv, UploadDone
  PROVE  AParts'
<1> USE DEF AInv, AParts
<1>1. /\ queue' = Stamped(queue, MadeByUpload)
      /\ told' = told \cup {m.id : m \in MadeByUpload}
      /\ stage = "uploading" /\ stage' = "idle"
      /\ UNCHANGED <<cases, check>>
  BY DEF UploadDone, server, IInv, LoopShown
<1>2. queue \in [Rows -> Row] /\ begun \in Nat /\ Len(cases) \in Nat
  BY <1>1 DEF IInv, TypeOK, SinceBegun
<1>3. \A p \in Did("created") : results[p].id > begun /\ results[p].id \in DOMAIN cases
  BY <1>1 DEF SinceBegun, IInv, ReportedExist
<1>4. \A m \in MadeByUpload : \E p \in Did("created") :
        /\ m.title = sent[p].title /\ m.nth = RankIn(SentCreates(sent[p].title), p)
        /\ m.id = results[p].id
  BY DEF MadeByUpload
<1>5. \A m \in MadeByUpload : m.id > begun /\ m.id \in DOMAIN cases
  BY <1>3, <1>4
<1>6. \A m, n \in MadeByUpload : m.id = n.id => m.title = n.title /\ m.nth = n.nth
  BY <1>4 DEF IInv, NoIdReportedTwice
<1>7. ASSUME NEW m \in MadeByUpload, NEW r \in Rows PROVE queue[r].uid # m.id
  <2>1. m.id > begun /\ m.id \in Nat
    BY <1>2, <1>5 DEF IInv, TypeOK
  <2>2. CASE queue[r].uid # 0
    <3>1. queue[r].uid \in 1..begun
      BY <1>1, <2>2 DEF QueueTold, SinceBegun
    <3> QED BY <1>2, <2>1, <3>1
  <2>3. CASE queue[r].uid = 0
    BY <1>2, <2>1, <2>3
  <2> QED BY <2>2, <2>3
<1>8. NoIdOnTwoRows'
  BY <1>1, <1>2, <1>6, <1>7, StampedApart DEF NoIdOnTwoRows
<1>9. ToldExist'
  BY <1>1, <1>5 DEF ToldExist
<1>10. QueueTold'
  <2>1. ASSUME NEW r \in Rows, queue'[r].uid # 0
        PROVE  queue'[r].at = "in" /\ queue'[r].uid \in told'
    BY <1>1, <1>2, <2>1, StampedRow DEF QueueTold
  <2> QED BY <2>1 DEF QueueTold
<1>11. CheckApart'
  <2>1. \A c \in Checkers : check[c].at = "none" /\ check[c].found = {}
    BY <1>1 DEF CheckApart, SinceBegun
  <2> QED BY <1>1, <2>1 DEF CheckApart
<1>12. SinceBegun' /\ OneCheck'
  BY <1>1 DEF SinceBegun, OneCheck
<1> QED BY <1>8, <1>9, <1>10, <1>11, <1>12

-----------------------------------------------------------------------------
\* A Check takes the ids of the queue as they are at its click.
LEMMA CheckAskedApart ==
  ASSUME KeepsApart, AInv, NEW c \in Checkers, CheckAsked(c)
  PROVE  AParts'
<1> USE DEF AInv, AParts
<1> DEFINE asked == [NoCheck EXCEPT !.at = "asked", !.hold = hold, !.slots = Slots(queue, hold),
                                    !.exclude = Excluded(queue, hold)]
<1>1. /\ check' = [check EXCEPT ![c] = asked] /\ stage # "uploading"
      /\ UNCHANGED <<cases, queue, told, stage>>
  BY DEF CheckAsked, server, screen, held
<1>2. check \in [Checkers -> Check]
  BY DEF IInv, TypeOK
<1>3. /\ asked.at = "asked" /\ asked.found = {}
      /\ asked.slots = Slots(queue, hold) /\ asked.exclude = Excluded(queue, hold)
  BY DEF NoCheck
<1> HIDE DEF asked
<1>4. \A r \in Rows : queue[r].uid # 0 => queue[r].uid \in asked.exclude
  BY <1>3 DEF Excluded, QueueTold, Live
<1>5. \A s, u \in asked.slots : s.title = u.title /\ s.rank = u.rank => s.nth = u.nth
  BY <1>3, SlotsApart
<1>6. CheckApart'
  <2>1. ASSUME NEW d \in Checkers
        PROVE  /\ \A s, u \in check'[d].slots : s.title = u.title /\ s.rank = u.rank => s.nth = u.nth
               /\ \A f, g \in check'[d].found : f.id = g.id => f.title = g.title
               /\ check'[d].at = "none" => check'[d].found = {}
               /\ check'[d].at = "asked" => \A r \in Rows : queue[r].uid # 0 => queue[r].uid \in check'[d].exclude
               /\ \A f \in check'[d].found : f.id \in DOMAIN cases /\ \A r \in Rows : queue[r].uid # f.id
    <3>1. CASE d = c
      <4>1. check'[d] = asked
        BY <1>1, <1>2, <3>1
      <4> QED BY <1>3, <1>4, <1>5, <4>1
    <3>2. CASE d # c
      <4>1. check'[d] = check[d]
        BY <1>1, <1>2, <3>2
      <4> QED BY <4>1 DEF CheckApart
    <3> QED BY <3>1, <3>2
  <2> QED BY <1>1, <2>1 DEF CheckApart
<1>7. ToldExist' /\ QueueTold' /\ NoIdOnTwoRows' /\ SinceBegun'
  BY <1>1 DEF ToldExist, QueueTold, NoIdOnTwoRows, Live, SinceBegun
<1>8. OneCheck'
  <2>1. \A d \in Checkers : check[d].at = "none"
    <3>1. check[c].at = "none" /\ check'[c].at = "asked"
      BY <1>1, <1>2, <1>3 DEF CheckAsked
    <3> QED BY <3>1 DEF KeepsApart, SecondCheck, CheckOut
  <2>2. \A d \in Checkers : d # c => check'[d] = check[d]
    BY <1>1, <1>2
  <2> QED BY <2>1, <2>2 DEF OneCheck
<1> QED BY <1>6, <1>7, <1>8

\* A Check that ends, or has just been answered, in a state that is otherwise
\* as it was.
LEMMA CheckChanges ==
  ASSUME AInv, NEW c \in Checkers, NEW next, check' = [check EXCEPT ![c] = next],
         UNCHANGED <<cases, queue, told, stage>>, stage # "uploading",
         \A s, u \in next.slots : s.title = u.title /\ s.rank = u.rank => s.nth = u.nth,
         \A f, g \in next.found : f.id = g.id => f.title = g.title,
         check[c].at # "none", next.at # "asked", next.at = "none" => next.found = {},
         \A f \in next.found : f.id \in DOMAIN cases /\ \A r \in Rows : queue[r].uid # f.id
  PROVE  AParts'
<1> USE DEF AInv, AParts
<1>1. check \in [Checkers -> Check]
  BY DEF IInv, TypeOK
<1>2. \A d \in Checkers : check'[d] = IF d = c THEN next ELSE check[d]
  BY <1>1
<1>3. CheckApart'
  BY <1>2 DEF CheckApart
<1>4. ToldExist' /\ QueueTold' /\ NoIdOnTwoRows' /\ SinceBegun'
  BY DEF ToldExist, QueueTold, NoIdOnTwoRows, Live, SinceBegun
<1>5. OneCheck'
  BY <1>2 DEF OneCheck
<1> QED BY <1>3, <1>4, <1>5

\* What a Check found, no row has.
LEMMA CheckAnsweredApart ==
  ASSUME AInv, NEW c \in Checkers, CheckAnswered(c)
  PROVE  AParts'
<1> USE DEF AInv, AParts
<1> DEFINE h == check[c].hold
           wanted == HeldTitles(h)
           titles == {wanted[r] : r \in DOMAIN wanted}
           found == {f \in CreatedSince(h.cut, titles) : f.id \notin check[c].exclude}
           paired == {f \in found : \E r \in DOMAIN wanted : <<r, f.id>> \in Pairs(wanted, found)}
           next == [check[c] EXCEPT !.at = "answered", !.exclude = {}, !.found = paired,
                                    !.ambiguous = Ambiguous(wanted, found)]
<1>1. /\ check[c].at = "asked"
      /\ check' = [check EXCEPT ![c].at = "answered", ![c].exclude = {},
                             ![c].found = paired, ![c].ambiguous = Ambiguous(wanted, found)]
      /\ UNCHANGED <<cases, queue, told, stage>>
  BY DEF CheckAnswered, server, screen, held
<1>2. check \in [Checkers -> Check] /\ check[c] \in Check
  BY DEF IInv, TypeOK
<1>3. \A f \in paired : /\ f.id \in DOMAIN cases /\ f.title = cases[f.id].title
                        /\ f.id \notin check[c].exclude
  <2> HIDE DEF titles, wanted, h
  <2> QED BY DEF CreatedSince
<1> HIDE DEF paired, found, wanted, h
<1>4. check' = [check EXCEPT ![c] = next]
  BY <1>1, <1>2
<1>5. next.at = "answered" /\ next.found = paired /\ next.slots = check[c].slots
  BY <1>2 DEF Check
<1> HIDE DEF next
<1>6. stage # "uploading"
  BY <1>1 DEF SinceBegun
<1>7. \A f \in paired : 0 # f.id /\ \A r \in Rows : queue[r].uid # f.id
  <2>1. 0 \notin DOMAIN cases
    BY DEF IInv, TypeOK
  <2> QED BY <1>1, <1>3, <2>1 DEF CheckApart
<1>8. \A s, u \in next.slots : s.title = u.title /\ s.rank = u.rank => s.nth = u.nth
  BY <1>5 DEF CheckApart
<1>9. \A f, g \in next.found : f.id = g.id => f.title = g.title
  BY <1>3, <1>5
<1>10. \A f \in next.found : f.id \in DOMAIN cases /\ \A r \in Rows : queue[r].uid # f.id
  BY <1>3, <1>5, <1>7
<1> QED BY <1>1, <1>4, <1>5, <1>6, <1>8, <1>9, <1>10, CheckChanges

LEMMA CheckFailedApart ==
  ASSUME AInv, NEW c \in Checkers, CheckFailed(c)
  PROVE  AParts'
<1>1. /\ check[c].at = "asked" /\ check' = [check EXCEPT ![c] = NoCheck]
      /\ UNCHANGED <<cases, queue, told, stage>>
  BY DEF CheckFailed, server, screen, held
<1>2. stage # "uploading"
  BY <1>1 DEF AInv, AParts, SinceBegun
<1>3. NoCheck.slots = {} /\ NoCheck.found = {} /\ NoCheck.at = "none"
  BY DEF NoCheck
<1> QED BY <1>1, <1>2, <1>3, CheckChanges

\* What an answered Check writes: one id to a row, and none two rows share.
LEMMA CheckAppliedApart ==
  ASSUME AInv, NEW c \in Checkers, CheckApplied(c)
  PROVE  AParts'
<1> USE DEF AInv, AParts
<1> DEFINE made == MadeByCheck(check[c].slots, check[c].found)
<1>1. /\ check[c].at = "answered" /\ check' = [check EXCEPT ![c] = NoCheck]
      /\ queue' = Stamped(queue, made)
      /\ told' = told \cup {f.id : f \in check[c].found}
      /\ UNCHANGED <<cases, stage>>
  BY DEF CheckApplied, server
<1>2. queue \in [Rows -> Row] /\ check \in [Checkers -> Check]
  BY DEF IInv, TypeOK
<1>3. stage # "uploading"
  BY <1>1 DEF SinceBegun
<1>4. \A m \in made : \E s \in check[c].slots, f \in check[c].found :
        /\ m.title = s.title /\ m.nth = s.nth /\ m.id = f.id /\ f.title = s.title
        /\ s.rank = RankIn(Pool(check[c].found, s.title), f.id)
  BY DEF MadeByCheck
<1> HIDE DEF made
<1>5. /\ \A f, g \in check[c].found : f.id = g.id => f.title = g.title
       /\ \A s, u \in check[c].slots : s.title = u.title /\ s.rank = u.rank => s.nth = u.nth
  BY DEF CheckApart
<1>6. ASSUME NEW m \in made, NEW n \in made, m.id = n.id
      PROVE  m.title = n.title /\ m.nth = n.nth
  <2>1. PICK s \in check[c].slots, f \in check[c].found :
          /\ m.title = s.title /\ m.nth = s.nth /\ m.id = f.id /\ f.title = s.title
          /\ s.rank = RankIn(Pool(check[c].found, s.title), f.id)
    BY <1>4
  <2>2. PICK u \in check[c].slots, g \in check[c].found :
          /\ n.title = u.title /\ n.nth = u.nth /\ n.id = g.id /\ g.title = u.title
          /\ u.rank = RankIn(Pool(check[c].found, u.title), g.id)
    BY <1>4
  <2>3. f.title = g.title
    <3> HIDE DEF AInv, AParts
    <3> QED BY <1>6, <1>5, <2>1, <2>2
  <2>4. s.title = u.title /\ s.rank = u.rank
    BY <1>6, <2>1, <2>2, <2>3
  <2>5. s.nth = u.nth
    BY <1>5, <2>1, <2>2, <2>4
  <2> QED BY <2>1, <2>2, <2>4, <2>5
<1>7. \A m \in made : m.id \in DOMAIN cases /\ \A r \in Rows : queue[r].uid # m.id
  BY <1>4 DEF CheckApart
<1>8. NoIdOnTwoRows'
  BY <1>1, <1>2, <1>6, <1>7, StampedApart DEF NoIdOnTwoRows
<1>9. ToldExist'
  BY <1>1 DEF ToldExist, CheckApart
<1>10. \A m \in made : m.id \in told'
  BY <1>1, <1>4
<1>11. QueueTold'
  <2>1. ASSUME NEW r \in Rows, queue'[r].uid # 0
        PROVE  queue'[r].at = "in" /\ queue'[r].uid \in told'
    BY <1>1, <1>2, <1>10, <2>1, StampedRow DEF QueueTold
  <2> QED BY <2>1 DEF QueueTold
<1>12. CheckApart'
  <2>1. NoCheck.slots = {} /\ NoCheck.found = {} /\ NoCheck.at = "none"
    BY DEF NoCheck
  <2>2. ASSUME NEW d \in Checkers
        PROVE  /\ \A s, u \in check'[d].slots : s.title = u.title /\ s.rank = u.rank => s.nth = u.nth
               /\ check'[d].at # "asked" /\ check'[d].found = {}
    <3>1. CASE d = c
      BY <1>1, <1>2, <2>1, <3>1
    <3>2. CASE d # c
      <4>1. check'[d] = check[d] /\ check[d].at = "none"
        BY <1>1, <1>2, <3>2 DEF OneCheck
      <4> QED BY <4>1 DEF CheckApart
    <3> QED BY <3>1, <3>2
  <2> QED BY <2>2 DEF CheckApart
<1>13. SinceBegun' /\ OneCheck'
  <2>1. \A d \in Checkers : check'[d].at = "none"
    BY <1>1, <1>2 DEF OneCheck, NoCheck
  <2> QED BY <1>1, <1>3, <2>1 DEF SinceBegun, OneCheck
<1> QED BY <1>8, <1>9, <1>11, <1>12, <1>13

LEMMA ReleaseApart ==
  ASSUME AInv, Release
  PROVE  AParts'
<1> USE DEF AInv, AParts
<1>1. /\ stage # "uploading" /\ UNCHANGED <<cases, queue, check, stage>>
      /\ told' = told \cup {id \in DOMAIN cases : \E e \in hold.entries : e.title = cases[id].title}
  BY DEF Release, server, screen
<1> QED BY <1>1 DEF ToldExist, QueueTold, SinceBegun, CheckApart, OneCheck, NoIdOnTwoRows, Live

-----------------------------------------------------------------------------
\* AInv is inductive.
LEMMA AInvInit ==
  ASSUME Init
  PROVE  AInv
<1>1. IInv
  BY IInvInit
<1>2. /\ told = {} /\ stage = "idle" /\ cases = <<>>
      /\ \A r \in Rows : queue[r].uid = 0
      /\ \A c \in Checkers : check[c] = NoCheck
  BY DEF Init
<1>3. NoCheck.slots = {} /\ NoCheck.found = {} /\ NoCheck.at = "none"
  BY DEF NoCheck
<1> QED BY <1>1, <1>2, <1>3 DEF AInv, AParts, ToldExist, QueueTold, SinceBegun, CheckApart, OneCheck, NoIdOnTwoRows, Live

LEMMA AInvStep ==
  ASSUME KeepsApart, AInv, [Next]_vars
  PROVE  AInv'
<1>1. IInv' /\ Dated
  BY IInvStep DEF AInv, KeepsApart
<1>2. CASE User
  BY <1>1, <1>2, EditKeepsApart, QuietSteps, ReleaseApart, CheckAskedApart DEF User, AInv
<1>3. CASE App
  BY <1>1, <1>3, QuietSteps, StartApart, ChunkNotSentApart, BatchAnsweredApart, ResolveApart,
     UploadDoneApart, CheckAppliedApart DEF App, AInv
<1>4. CASE Network
  BY <1>1, <1>4, QuietSteps, CheckAnsweredApart, CheckFailedApart DEF Network, AInv
<1>5. CASE Server
  BY <1>1, <1>5, QuietSteps, ServerRunsApart DEF Server, AInv
<1>6. CASE UNCHANGED vars
  BY <1>1, <1>6, QuietSteps DEF AInv
<1> QED BY <1>2, <1>3, <1>4, <1>5, <1>6 DEF Next

\* What has not crossed has not crossed in this step.
LEMMA HistoryStep ==
  ASSUME [HNext]_hvars
  PROVE  /\ [Next]_vars
         /\ Dated
         /\ crossed \subseteq crossed'
         /\ "beside" \notin crossed' => ~BesideCheck
         /\ "checks" \notin crossed' => ~SecondCheck
         /\ "earlier" \notin crossed' => ~FindsEarlier
         /\ "stranger" \notin crossed' => ~FindsStranger
         /\ "lateWork" \notin crossed' => ~WorksOn
         /\ "lateAnswer" \notin crossed' => ~AnsweredBeforeMade
<1>1. CASE HNext
  <2>1. \A x \in Crossings : x \notin crossed' => x \notin Crosses
    BY <1>1 DEF HNext
  <2>2. /\ BesideCheck => "beside" \in Crosses
        /\ SecondCheck => "checks" \in Crosses
        /\ FindsEarlier => "earlier" \in Crosses
        /\ FindsStranger => "stranger" \in Crosses
        /\ WorksOn => "lateWork" \in Crosses
        /\ AnsweredBeforeMade => "lateAnswer" \in Crosses
    BY DEF Crosses, Crossings
  <2>3. Next /\ Dated /\ crossed \subseteq crossed'
    BY <1>1 DEF HNext, Dated
  <2> QED BY <2>1, <2>2, <2>3 DEF Crossings
<1>2. CASE UNCHANGED hvars
  <2>1. UNCHANGED vars /\ UNCHANGED <<begun, crossed>>
    BY <1>2 DEF hvars
  <2>2. UNCHANGED <<stage, loop, check>>
    BY <2>1 DEF vars, screen, rust
  <2> QED BY <2>1, <2>2 DEF Dated, Begins, BesideCheck, SecondCheck, CheckOut, FindsEarlier,
             FindsStranger, LooksUp, WorksOn, AnsweredBeforeMade
<1> QED BY <1>1, <1>2

\* No two rows of the queue come to carry the same case, so none is ever lost
\* to an update meant for another, until an upload begins beside a Check, a
\* second Check is asked, or the lookup of a lost batch, with its five minute
\* margin, finds a case older than the upload.
THEOREM NoIdOnTwoRowsHolds ==
  HSpec => [](crossed \cap {"beside", "checks", "earlier"} = {} => NoIdOnTwoRows)
<1> DEFINE Clear == crossed \cap {"beside", "checks", "earlier"} = {}
           Inv == IInv /\ (Clear => AParts)
<1>1. HInit => Inv
  BY AInvInit DEF HInit, AInv
<1>2. Inv /\ [HNext]_hvars => Inv'
  <2> SUFFICES ASSUME Inv, [HNext]_hvars PROVE Inv'
    OBVIOUS
  <2>1. IInv'
    BY IInvStep, HistoryStep
  <2>2. ASSUME Clear' PROVE AParts'
    <3>1. crossed \subseteq crossed'
      BY HistoryStep
    <3>2. Clear
      BY <2>2, <3>1
    <3>3. KeepsApart
      BY <2>2, HistoryStep DEF KeepsApart
    <3>4. [Next]_vars
      BY HistoryStep
    <3> QED BY <3>2, <3>3, <3>4, AInvStep DEF AInv
  <2> QED BY <2>1, <2>2
<1>3. Inv => (Clear => NoIdOnTwoRows)
  BY DEF AParts
<1> QED BY <1>1, <1>2, <1>3, PTL DEF HSpec

-----------------------------------------------------------------------------
\* How sets add up.
LEMMA CountType ==
  ASSUME NEW S, IsFiniteSet(S)
  PROVE  Cardinality(S) \in Nat /\ Cardinality(S) >= 0
<1>1. Cardinality(S) \in Nat
  BY FS_CardinalityType
<1> QED BY <1>1

LEMMA CountSubset ==
  ASSUME NEW S, IsFiniteSet(S), NEW T, T \subseteq S
  PROVE  IsFiniteSet(T) /\ Cardinality(T) <= Cardinality(S)
BY FS_Subset

LEMMA CountApart ==
  ASSUME NEW S, IsFiniteSet(S), NEW T, IsFiniteSet(T), S \cap T = {}
  PROVE  /\ IsFiniteSet(S \cup T)
         /\ Cardinality(S \cup T) = Cardinality(S) + Cardinality(T)
<1>1. IsFiniteSet(S \cup T) /\ Cardinality(S \cup T) = Cardinality(S) + Cardinality(T) - Cardinality(S \cap T)
  BY FS_Union
<1>2. Cardinality(S) \in Nat /\ Cardinality(T) \in Nat /\ Cardinality(S \cap T) = 0
  BY FS_CardinalityType, FS_EmptySet
<1> QED BY <1>1, <1>2

LEMMA CountUnion ==
  ASSUME NEW S, IsFiniteSet(S), NEW T, IsFiniteSet(T)
  PROVE  /\ IsFiniteSet(S \cup T)
         /\ Cardinality(S \cup T) <= Cardinality(S) + Cardinality(T)
<1>1. IsFiniteSet(S \cup T) /\ Cardinality(S \cup T) = Cardinality(S) + Cardinality(T) - Cardinality(S \cap T)
  BY FS_Union
<1>2. IsFiniteSet(S \cap T)
  BY FS_Intersection
<1>3. Cardinality(S) \in Nat /\ Cardinality(T) \in Nat /\ Cardinality(S \cap T) \in Nat
  BY <1>2, FS_CardinalityType
<1> QED BY <1>1, <1>3

\* The values of a function are no more than its arguments, and as many when
\* no value is taken twice.
LEMMA CountImage ==
  ASSUME NEW S, IsFiniteSet(S), NEW f, DOMAIN f = S
  PROVE  /\ IsFiniteSet({f[x] : x \in S})
         /\ Cardinality({f[x] : x \in S}) <= Cardinality(S)
         /\ (\A x, y \in S : f[x] = f[y] => x = y) => Cardinality({f[x] : x \in S}) = Cardinality(S)
<1> DEFINE T == {f[x] : x \in S}
           g == [x \in S |-> f[x]]
<1>1. g \in Surjection(S, T)
  <2>1. g \in [S -> T]
    OBVIOUS
  <2>2. \A y \in T : \E x \in S : g[x] = y
    OBVIOUS
  <2> HIDE DEF g, T
  <2> QED BY <2>1, <2>2 DEF Surjection
<1>2. (\A x, y \in S : f[x] = f[y] => x = y) => g \in Injection(S, T)
  <2>1. g \in [S -> T]
    OBVIOUS
  <2>2. \A x \in S : g[x] = f[x]
    OBVIOUS
  <2> HIDE DEF g, T
  <2> QED BY <2>1, <2>2 DEF Injection, IsInjective
<1> HIDE DEF g, T
<1>3. /\ IsFiniteSet(T) /\ Cardinality(T) <= Cardinality(S)
      /\ Cardinality(T) = Cardinality(S) <=> g \in Injection(S, T)
  BY <1>1, FS_Surjection
<1> QED BY <1>2, <1>3 DEF T

\* As many as there are, at most: there is an injection.
LEMMA CountInto ==
  ASSUME NEW S, NEW T, IsFiniteSet(T), NEW f \in [S -> T],
         \A x, y \in S : f[x] = f[y] => x = y
  PROVE  IsFiniteSet(S) /\ Cardinality(S) <= Cardinality(T)
<1>1. f \in Injection(S, T)
  BY DEF Injection, IsInjective
<1> QED BY <1>1, FS_Injection

-----------------------------------------------------------------------------
\* What is on the wire is of the chunk.
WireInChunk == wire \subseteq Chunk

\* The chunk is the next positions of what is sent.
LEMMA ChunkIs ==
  ASSUME TypeOK, NEW p \in Chunk
  PROVE  p \in Nat /\ p > Len(results) /\ p <= Len(results) + Cardinality(Chunk)
<1>1. Len(results) \in Nat /\ Len(sent) \in Nat /\ DOMAIN sent = 1..Len(sent) /\ BatchSize \in Nat
  BY UploadAssumption DEF TypeOK
<1>2. p \in 1..Len(sent) /\ p > Len(results) /\ p <= Len(results) + BatchSize
  BY <1>1 DEF Chunk
<1>3. (Len(results) + 1)..p \subseteq Chunk
  BY <1>1, <1>2 DEF Chunk
<1>4. IsFiniteSet(Chunk)
  <2>1. Chunk \subseteq 1..Len(sent)
    BY <1>1 DEF Chunk
  <2>2. 1 \in Int /\ Len(sent) \in Int
    BY <1>1
  <2> QED BY <2>1, <2>2, FS_Interval, FS_Subset
<1>5. Cardinality((Len(results) + 1)..p) = p - Len(results)
  <2>1. Len(results) + 1 \in Int /\ p \in Int
    BY <1>1, <1>2
  <2>2. Cardinality((Len(results) + 1)..p) = IF Len(results) + 1 > p THEN 0 ELSE p - (Len(results) + 1) + 1
    BY <2>1, FS_Interval
  <2> QED BY <1>1, <1>2, <2>2
<1>6. p - Len(results) <= Cardinality(Chunk)
  BY <1>3, <1>4, <1>5, FS_Subset
<1>7. Cardinality(Chunk) \in Nat
  BY <1>4, FS_CardinalityType
<1> QED BY <1>1, <1>2, <1>6, <1>7

\* What a report adds to what was reported: a result for each row that was
\* on the wire, and failures.
LEMMA ReportAdds ==
  ASSUME TypeOK, WireInChunk, NEW outcome, Report(outcome), \A p \in wire : outcome[p] \in Result
  PROVE  /\ \A p \in DOMAIN results : p \in DOMAIN results' /\ results'[p] = results[p]
         /\ \A p \in wire : p \notin DOMAIN results /\ p \in DOMAIN results' /\ results'[p] = outcome[p]
         /\ \A what : what # "failed" =>
              Did(what)' = Did(what) \cup {p \in wire : outcome[p].did = what}
         /\ \A what : Did(what) \cap wire = {}
<1>1. results \in Seq(Result) /\ results' \in Seq(Result)
  BY ReportType DEF TypeOK
<1>2. /\ DOMAIN results' = 1..Len(results') /\ DOMAIN results = 1..Len(results)
      /\ Len(results) \in Nat /\ Len(results') \in Nat
  BY <1>1
<1>3. Len(results') = Len(results) + Cardinality(Chunk) /\ Cardinality(Chunk) \in Nat
  BY ReportType, ChunkCount
<1>4. ASSUME NEW p \in DOMAIN results PROVE p \in DOMAIN results' /\ results'[p] = results[p]
  BY <1>2, <1>3, ReportType
<1>5. ASSUME NEW p \in wire
      PROVE  p \notin DOMAIN results /\ p \in DOMAIN results' /\ results'[p] = outcome[p]
  <2>1. p \in Nat /\ p > Len(results) /\ p <= Len(results')
    BY <1>3, ChunkIs DEF WireInChunk
  <2>2. p \in (Len(results) + 1)..Len(results') /\ p \in 1..Len(results') /\ p \notin 1..Len(results)
    BY <1>2, <2>1
  <2>3. results'[p] = IF p \in wire THEN outcome[p] ELSE Failed
    BY <2>2, ReportType
  <2> QED BY <1>2, <2>2, <2>3
<1>6. \A p \in DOMAIN results' : results'[p].did # "failed" => p \in DOMAIN results \/ p \in wire
  BY ReportedIs
<1>7. ASSUME NEW what, what # "failed"
      PROVE  Did(what)' = Did(what) \cup {p \in wire : outcome[p].did = what}
  BY <1>4, <1>5, <1>6, <1>7 DEF Did
<1>8. \A what : Did(what) \cap wire = {}
  BY <1>5 DEF Did
<1> QED BY <1>4, <1>5, <1>7, <1>8

-----------------------------------------------------------------------------
\* An update goes to a case the user was told of.
SentTold == \A p \in DOMAIN sent : sent[p].uid # 0 => sent[p].uid \in told
LateTold == \A req \in late : req.uid # 0 => req.uid \in told

\* What the server did with a request: the case it made still has the title
\* it was sent, an update touched its own case.
OnWire ==
  \A o \in DOMAIN got :
    IF sent[o].uid = 0 THEN got[o] # 0 => cases[got[o]].title = sent[o].title
    ELSE got[o] \in {0, sent[o].uid}

\* What the ids of the results are.
ResultIds ==
  \A p \in DOMAIN results :
    /\ results[p].did = "updated" => results[p].id \in told
    /\ results[p].did \in {"failed", "unknown"} => results[p].id = 0
    /\ results[p].did = "unknown" => sent[p].uid = 0

\* A row is sent once.
SentApart == \A p, q \in DOMAIN sent : sent[p].row = sent[q].row => p = q

\* Nothing is reported outside an upload.
Idle == loop = "none" => results = <<>>

\* The app knows of no more cases than there are.
KnownOld == Len(known) <= Len(cases)

\* The history's entries with a title.
DropsOf(t) == {d \in dropped : d[1].title = t}
FiniteDrops == \A t \in Titles : IsFiniteSet(DropsOf(t))

CParts ==
  /\ SentTold /\ LateTold /\ OnWire /\ ResultIds /\ SentApart /\ Idle
  /\ WireInChunk /\ IsFiniteSet(late)
CInv == AInv /\ CParts /\ KnownOld /\ FiniteDrops

\* Besides: no colleague's case is taken for the upload's, the server is done
\* with a batch that failed without a deadline, and a Check is not answered
\* before the creates with its titles are made or will never be.
NothingCrosses == KeepsApart /\ ~FindsStranger /\ ~WorksOn /\ ~AnsweredBeforeMade

-----------------------------------------------------------------------------
\* Nobody is ever made to forget an id.
LEMMA ToldGrows ==
  ASSUME [Next]_vars
  PROVE  told \subseteq told'
<1> USE DEF held
<1>1. CASE User
  BY <1>1 DEF User, AddRow, RemoveRow, Rename, Edit, AcceptDups, Confirm, Release, CheckAsked
<1>2. CASE App
  BY <1>2 DEF App, Stopped, Start, ChunkNotSent, SendChunk, BatchAnswered, Resolve, UploadDone, CheckApplied
<1>3. CASE Network
  BY <1>3 DEF Network, BatchLost, CheckAnswered, CheckFailed
<1>4. CASE Server
  BY <1>4 DEF Server, ServerRuns, LateRuns, ColleagueCreates
<1>5. CASE UNCHANGED vars
  BY <1>5 DEF vars
<1> QED BY <1>1, <1>2, <1>3, <1>4, <1>5 DEF Next

\* What a request changes: the case of an update, or one case more.  A case
\* the user was not told of stays as it was.
LEMMA RunsUntold ==
  ASSUME AInv, NEW req \in Request, NEW id, Runs(req, id), req.uid # 0 => req.uid \in told
  PROVE  /\ \A i \in DOMAIN cases \ told : cases'[i] = cases[i]
         /\ \A i \in DOMAIN cases' : i \in DOMAIN cases \/ (i = id /\ id # 0 /\ req.uid = 0)
         /\ id # 0 /\ req.uid = 0 => cases'[id].title = req.title /\ cases'[id].by = req.row
         /\ \A i \in DOMAIN cases : i \in DOMAIN cases' /\ cases'[i].by = cases[i].by
         /\ req.uid # 0 => id \in {0, req.uid}
<1>1. cases \in Seq(Case) /\ DOMAIN cases = 1..Len(cases) /\ Len(cases) \in Nat
  BY DEF AInv, IInv, TypeOK
<1>2. CASE req.uid = 0 /\ id = Len(cases) + 1 /\ cases' = Append(cases, [title |-> req.title, by |-> req.row])
  <2> DEFINE new == [title |-> req.title, by |-> req.row]
  <2>1. new.title = req.title /\ new.by = req.row /\ cases' = Append(cases, new)
    BY <1>2
  <2> HIDE DEF new
  <2>2. /\ DOMAIN cases' = 1..(Len(cases) + 1) /\ cases'[id] = new
        /\ \A i \in DOMAIN cases : cases'[i] = cases[i]
    BY <1>1, <1>2, <2>1
  <2> QED BY <1>1, <1>2, <2>1, <2>2
<1>3. CASE req.uid # 0 /\ req.uid \in DOMAIN cases /\ id = req.uid /\ cases' = [cases EXCEPT ![id].title = req.title]
  <2>1. cases[id] \in Case
    BY <1>1, <1>3
  <2>2. [cases[id] EXCEPT !.title = req.title].by = cases[id].by
    BY <2>1 DEF Case
  <2>3. cases' = [cases EXCEPT ![id] = [cases[id] EXCEPT !.title = req.title]]
    BY <1>1, <1>3
  <2>4. DOMAIN cases' = DOMAIN cases
    BY <1>3
  <2>5. cases'[id] = [cases[id] EXCEPT !.title = req.title]
    BY <1>1, <1>3, <2>3
  <2>6. \A i \in DOMAIN cases : i # id => cases'[i] = cases[i]
    BY <1>1, <1>3, <2>3
  <2> QED BY <1>3, <2>2, <2>4, <2>5, <2>6
<1>4. CASE id = 0 /\ cases' = cases
  BY <1>4
<1> QED BY <1>2, <1>3, <1>4 DEF Runs

-----------------------------------------------------------------------------
\* The titles the app has read were cases when it read them.
LEMMA KnownOldStep ==
  ASSUME CInv, AInv', [Next]_vars
  PROVE  KnownOld'
<1> USE DEF server, screen
<1>1. Len(cases) \in Nat /\ Len(cases') \in Nat /\ Len(known) \in Nat
  BY DEF CInv, AInv, IInv, TypeOK
<1>2. CASE cases' = cases /\ known' = known
  BY <1>2 DEF CInv, KnownOld
<1>3. CASE cases' = cases /\ ReadTitles
  <2>1. cases \in Seq(Case)
    BY DEF CInv, AInv, IInv, TypeOK
  <2>2. Len([i \in DOMAIN cases |-> cases[i].title]) = Len(cases)
    BY <2>1
  <2> QED BY <1>1, <1>3, <2>2 DEF CInv, KnownOld, ReadTitles
<1>4. ASSUME NEW req \in Request, NEW id, Runs(req, id), known' = known
      PROVE  KnownOld'
  <2>1. Len(cases) <= Len(cases')
    BY <1>4, RunsNewer DEF CInv, AInv, IInv, TypeOK
  <2> QED BY <1>1, <1>4, <2>1 DEF CInv, KnownOld
<1>5. CASE User
  BY <1>2, <1>5 DEF User, AddRow, RemoveRow, Rename, Edit, AcceptDups, Confirm, Release, CheckAsked
<1>6. CASE App
  BY <1>2, <1>3, <1>6 DEF App, Stopped, Start, ChunkNotSent, SendChunk, BatchAnswered, Resolve, UploadDone, CheckApplied
<1>7. CASE Network
  BY <1>2, <1>7 DEF Network, BatchLost, CheckAnswered, CheckFailed
<1>8. CASE Server
  <2>1. ASSUME NEW p \in wire, NEW id, ServerRuns(p, id) PROVE KnownOld'
    <3>1. sent[p] \in Request
      <4>1. TypeOK
        BY DEF CInv, AInv, IInv
      <4> QED BY <2>1, <4>1 DEF TypeOK
    <3> QED BY <1>4, <2>1, <3>1 DEF ServerRuns
  <2>2. ASSUME NEW req \in late, LateRuns(req) PROVE KnownOld'
    <3>1. req \in Request
      BY DEF CInv, AInv, IInv, TypeOK
    <3> QED BY <1>4, <2>2, <3>1 DEF LateRuns
  <2>3. ASSUME NEW t \in Titles, ColleagueCreates(t) PROVE KnownOld'
    <3>1. Len(cases') = Len(cases) + 1
      <4>1. cases \in Seq(Case)
        BY DEF CInv, AInv, IInv, TypeOK
      <4> QED BY <2>3, <4>1 DEF ColleagueCreates
    <3>2. known' = known
      BY <2>3 DEF ColleagueCreates
    <3> QED BY <1>1, <3>1, <3>2 DEF CInv, KnownOld
  <2> QED BY <1>8, <2>1, <2>2, <2>3 DEF Server
<1>9. CASE UNCHANGED vars
  BY <1>2, <1>9 DEF vars
<1> QED BY <1>5, <1>6, <1>7, <1>8, <1>9 DEF Next

\* Entries of the hold, marked with the uploads there had been.
LEMMA DropsFinite ==
  ASSUME CInv, NEW E, E \subseteq hold.entries, dropped' = dropped \cup (E \X {uploads}), NEW t \in Titles
  PROVE  IsFiniteSet(DropsOf(t)')
<1> DEFINE H == EntriesOf(hold.entries, t)
           N == H \X {uploads}
<1>1. IsFiniteSet(H)
  BY EntriesFinite DEF CInv, AInv, IInv, TypeOK
<1>2. IsFiniteSet(N)
  <2> HIDE DEF H
  <2> QED BY <1>1, FS_Singleton, FS_Product
<1>3. \A d \in DropsOf(t)' : d \in DropsOf(t) \/ d \in N
  BY DEF DropsOf, EntriesOf
<1>4. IsFiniteSet(DropsOf(t))
  BY DEF CInv, FiniteDrops
<1> HIDE DEF N
<1>5. IsFiniteSet(DropsOf(t) \cup N)
  BY <1>2, <1>4, FS_Union
<1>6. DropsOf(t)' \subseteq DropsOf(t) \cup N
  BY <1>3
<1> QED BY <1>5, <1>6, FS_Subset

LEMMA FiniteDropsStep ==
  ASSUME CInv, [Next]_vars
  PROVE  FiniteDrops'
<1> USE DEF held
<1>1. CASE dropped' = dropped
  BY <1>1 DEF CInv, FiniteDrops, DropsOf
<1>2. ASSUME NEW E, E \subseteq hold.entries, dropped' = dropped \cup (E \X {uploads})
      PROVE  FiniteDrops'
  BY <1>2, DropsFinite DEF FiniteDrops
<1>3. CASE User
  BY <1>1, <1>3 DEF User, AddRow, RemoveRow, Rename, Edit, AcceptDups, Confirm, Release, CheckAsked
<1>4. CASE UploadDone
  BY <1>1, <1>2, <1>4 DEF UploadDone
<1>5. ASSUME NEW c, CheckApplied(c) PROVE FiniteDrops'
  <2>1. (hold.entries \ check[c].hold.entries) \ hold'.entries \subseteq hold.entries
    OBVIOUS
  <2> QED BY <1>2, <1>5, <2>1 DEF CheckApplied
<1>6. CASE App
  BY <1>1, <1>4, <1>5, <1>6 DEF App, Stopped, Start, ChunkNotSent, SendChunk, BatchAnswered, Resolve
<1>7. CASE Network
  BY <1>1, <1>7 DEF Network, BatchLost, CheckAnswered, CheckFailed
<1>8. CASE Server
  BY <1>1, <1>8 DEF Server, ServerRuns, LateRuns, ColleagueCreates
<1>9. CASE UNCHANGED vars
  BY <1>1, <1>9 DEF vars
<1> QED BY <1>3, <1>6, <1>7, <1>8, <1>9 DEF Next

-----------------------------------------------------------------------------
\* The types a proof about the books keeps needing.
LEMMA CTypes ==
  ASSUME CInv
  PROVE  /\ TypeOK /\ WireIdle /\ LoopShown /\ cases \in Seq(Case)
         /\ DOMAIN cases = 1..Len(cases) /\ Len(cases) \in Nat
         /\ told \subseteq DOMAIN cases /\ cut \in Nat
         /\ \A p \in wire : sent[p] \in Request /\ p \in DOMAIN sent
         /\ \A p \in DOMAIN sent : sent[p] \in Request
<1>1. TypeOK /\ WireIdle /\ LoopShown /\ told \subseteq DOMAIN cases
  BY DEF CInv, AInv, IInv, AParts, ToldExist
<1>2. cases \in Seq(Case) /\ sent \in Seq(Request) /\ cut \in Nat /\ wire \subseteq (Len(results) + 1)..Len(sent)
  BY <1>1 DEF TypeOK
<1>3. Len(results) \in Nat /\ Len(sent) \in Nat /\ DOMAIN sent = 1..Len(sent)
  BY <1>1 DEF TypeOK
<1>4. \A p \in wire : p \in DOMAIN sent
  BY <1>2, <1>3
<1>5. \A p \in DOMAIN sent : sent[p] \in Request
  BY <1>2
<1> QED BY <1>1, <1>2, <1>4, <1>5

\* A step that leaves Azure DevOps and the loop alone.
LEMMA LoopIdleKeeps ==
  ASSUME CInv, UNCHANGED <<cases, late, rust>>, told \subseteq told'
  PROVE  CParts'
<1> USE DEF rust
<1>1. Chunk' = Chunk
  BY DEF Chunk
<1> QED BY <1>1 DEF CInv, CParts, SentTold, LateTold, OnWire, ResultIds, SentApart, Idle, WireInChunk

\* The conjuncts of CParts, one action at a time.
LEMMA OutsideKeeps ==
  ASSUME CInv, [Next]_vars,
         User \/ Stopped \/ (\E c \in Checkers : CheckApplied(c) \/ CheckAnswered(c) \/ CheckFailed(c))
              \/ UNCHANGED vars
  PROVE  CParts'
<1>1. UNCHANGED <<cases, late, rust>>
  BY DEF User, AddRow, RemoveRow, Rename, Edit, AcceptDups, Confirm, Release, CheckAsked,
         Stopped, CheckApplied, CheckAnswered, CheckFailed, vars, server, rust
<1> QED BY <1>1, ToldGrows, LoopIdleKeeps

LEMMA StartKeeps ==
  ASSUME CInv, NEW R \in SUBSET Rows, Start(R)
  PROVE  CParts'
<1>1. /\ UNCHANGED <<cases, late, told, wire, got>> /\ results' = <<>> /\ loop' = "sending"
      /\ AsSent(R, sent') /\ loop = "none"
  BY CTypes DEF Start, server, held, LoopShown
<1>2. wire = {} /\ got = [p \in {} |-> 0]
  BY <1>1, CTypes DEF WireIdle
<1>3. ASSUME NEW p \in DOMAIN sent', sent'[p].uid # 0 PROVE sent'[p].uid \in told
  <2>1. PICK r \in R : sent'[p] = [row |-> r, title |-> queue[r].title, uid |-> queue[r].uid]
    BY <1>1, <1>3, SentAsQueued
  <2> QED BY <1>3, <2>1 DEF CInv, AInv, AParts, QueueTold
<1>4. \A p, q \in DOMAIN sent' : sent'[p].row = sent'[q].row => p = q
  <2>1. PICK nth \in [1..Cardinality(R) -> R] :
          /\ \A j, k \in 1..Cardinality(R) : j < k => nth[j] < nth[k]
          /\ sent' = [k \in 1..Cardinality(R) |->
                       [row |-> nth[k], title |-> queue[nth[k]].title, uid |-> queue[nth[k]].uid]]
    BY <1>1 DEF AsSent
  <2>2. Cardinality(R) \in Nat
    BY RowsAssumption, FS_Subset, FS_CardinalityType
  <2>3. \A p \in 1..Cardinality(R) : sent'[p].row = nth[p] /\ nth[p] \in Nat
    BY <2>1, RowsAssumption
  <2>4. DOMAIN sent' = 1..Cardinality(R)
    BY <2>1
  <2>5. ASSUME NEW p \in 1..Cardinality(R), NEW q \in 1..Cardinality(R), p < q PROVE nth[p] # nth[q]
    <3>1. nth[p] < nth[q] /\ nth[p] \in Nat /\ nth[q] \in Nat
      BY <2>1, <2>3, <2>5
    <3> QED BY <3>1
  <2> QED BY <2>2, <2>3, <2>4, <2>5
<1>5. LateTold' /\ IsFiniteSet(late')
  BY <1>1 DEF CInv, CParts, LateTold
<1>6. OnWire' /\ ResultIds' /\ WireInChunk' /\ Idle'
  BY <1>1, <1>2 DEF OnWire, ResultIds, WireInChunk, Idle
<1> QED BY <1>1, <1>3, <1>4, <1>5, <1>6 DEF CParts, SentTold, SentApart

\* A step of the loop that reports.
LEMMA ReportKeepsBooks ==
  ASSUME CInv, UNCHANGED <<cases, late, told, sent>>, loop' = "sending",
         wire' = {}, got' = [p \in {} |-> 0],
         NEW outcome, Report(outcome),
         \A p \in wire :
           /\ outcome[p] \in Result
           /\ outcome[p].did = "updated" => outcome[p].id \in told
           /\ outcome[p].did \in {"failed", "unknown"} => outcome[p].id = 0
           /\ outcome[p].did = "unknown" => sent[p].uid = 0
  PROVE  CParts'
<1>1. SentTold' /\ LateTold' /\ SentApart' /\ IsFiniteSet(late')
  BY DEF CInv, CParts, SentTold, LateTold, SentApart
<1>2. OnWire' /\ WireInChunk' /\ Idle'
  BY DEF OnWire, WireInChunk, Idle
<1>3. TypeOK
  BY CTypes
<1>4. ASSUME NEW p \in DOMAIN results'
      PROVE  /\ results'[p].did = "updated" => results'[p].id \in told
             /\ results'[p].did \in {"failed", "unknown"} => results'[p].id = 0
             /\ results'[p].did = "unknown" => sent[p].uid = 0
  <2>1. CASE p \in DOMAIN results /\ results'[p] = results[p]
    BY <2>1 DEF CInv, CParts, ResultIds
  <2>2. CASE p \in wire /\ results'[p] = outcome[p]
    BY <2>2
  <2>3. \/ p \in DOMAIN results /\ results'[p] = results[p]
        \/ p \in wire /\ results'[p] = outcome[p]
        \/ results'[p].did = "failed" /\ results'[p].id = 0
    <3>1. results \in Seq(Result) /\ results' \in Seq(Result)
      BY <1>3, ReportType DEF TypeOK
    <3>2. /\ DOMAIN results' = 1..Len(results') /\ DOMAIN results = 1..Len(results)
          /\ Len(results) \in Nat /\ Len(results') \in Nat
      BY <3>1
    <3>3. CASE p \in 1..Len(results)
      BY <1>3, <3>2, <3>3, ReportType
    <3>4. CASE p \notin 1..Len(results)
      <4>1. p \in (Len(results) + 1)..Len(results')
        BY <3>2, <3>4
      <4>2. results'[p] = IF p \in wire THEN outcome[p] ELSE Failed
        BY <1>3, <4>1, ReportType
      <4> QED BY <4>2 DEF Failed
    <3> QED BY <3>3, <3>4
  <2> QED BY <2>1, <2>2, <2>3
<1>5. ResultIds'
  BY <1>4 DEF ResultIds
<1> QED BY <1>1, <1>2, <1>5 DEF CParts

LEMMA ChunkNotSentBooks ==
  ASSUME CInv, ChunkNotSent
  PROVE  CParts'
<1> DEFINE outcome == [p \in {} |-> Failed]
<1>1. wire = {} /\ got = [p \in {} |-> 0]
  BY CTypes DEF ChunkNotSent, WireIdle
<1>2. Report(outcome) /\ UNCHANGED <<cases, late, told, sent, loop, wire, got>> /\ loop = "sending"
  BY DEF ChunkNotSent, server, held
<1> HIDE DEF outcome
<1> QED BY <1>1, <1>2, ReportKeepsBooks

LEMMA SendChunkBooks ==
  ASSUME CInv, NEW P, SendChunk(P)
  PROVE  CParts'
<1>1. /\ UNCHANGED <<cases, late, told, sent, results, got>> /\ wire' = P /\ P \subseteq Chunk
      /\ loop' = "waiting"
  BY DEF SendChunk, server, held
<1>2. Chunk' = Chunk
  BY <1>1 DEF Chunk
<1> QED BY <1>1, <1>2 DEF CInv, CParts, SentTold, LateTold, OnWire, ResultIds, SentApart, Idle, WireInChunk

\* What the answer to a batch reports.
LEMMA OutcomeIs ==
  ASSUME CInv, NEW p \in DOMAIN got
  PROVE  /\ Outcome(p) \in Result
         /\ Outcome(p).did = "updated" => Outcome(p).id \in told
         /\ Outcome(p).did # "unknown"
         /\ Outcome(p).did = "failed" => Outcome(p).id = 0
         /\ Outcome(p).did = "created" <=> got[p] # 0 /\ sent[p].uid = 0
         /\ Outcome(p).did = "created" => Outcome(p).id = got[p]
<1>1. got[p] \in Nat /\ p \in wire
  BY CTypes DEF TypeOK
<1>2. CASE got[p] = 0
  BY <1>2 DEF Outcome, Failed, Result
<1>3. CASE got[p] # 0 /\ sent[p].uid = 0
  BY <1>1, <1>3 DEF Outcome, Result
<1>4. CASE got[p] # 0 /\ sent[p].uid # 0
  <2>1. got[p] = sent[p].uid
    BY <1>4 DEF CInv, CParts, OnWire
  <2>2. sent[p].uid \in told
    BY <1>1, <1>4, CTypes DEF CInv, CParts, SentTold
  <2> QED BY <1>1, <1>4, <2>1, <2>2 DEF Outcome, Result
<1> QED BY <1>2, <1>3, <1>4

LEMMA BatchAnsweredBooks ==
  ASSUME CInv, BatchAnswered
  PROVE  CParts'
<1> DEFINE outcome == [p \in wire |-> Outcome(p)]
<1>1. /\ Report(outcome) /\ UNCHANGED <<cases, late, told, sent>> /\ loop' = "sending"
      /\ wire' = {} /\ got' = [p \in {} |-> 0] /\ wire = DOMAIN got
  BY DEF BatchAnswered, server, held
<1>2. \A p \in wire : outcome[p] = Outcome(p)
  OBVIOUS
<1> HIDE DEF outcome
<1>3. \A p \in wire :
           /\ outcome[p] \in Result
           /\ outcome[p].did = "updated" => outcome[p].id \in told
           /\ outcome[p].did \in {"failed", "unknown"} => outcome[p].id = 0
           /\ outcome[p].did = "unknown" => sent[p].uid = 0
  BY <1>1, <1>2, OutcomeIs
<1> QED BY <1>1, <1>3, ReportKeepsBooks

\* What a lost batch is reported as, whether the lookup was answered or not.
ResolveReport(outcome, blind) ==
  /\ Report(outcome)
  /\ \A p \in wire :
       /\ outcome[p] \in Result
       /\ sent[p].uid # 0 => \/ outcome[p] = Failed
                             \/ outcome[p].did = "updated" /\ outcome[p].id = sent[p].uid
       /\ sent[p].uid = 0 => outcome[p] = IF blind THEN Unknown ELSE LostCreate(p, Candidates)

\* Resolve makes such a report.
LEMMA ResolveShows ==
  ASSUME TypeOK, NEW landed, Resolve(landed)
  PROVE  \E outcome : \E blind \in BOOLEAN : ResolveReport(outcome, blind)
<1> DEFINE looked == [p \in wire |-> IF sent[p].uid = 0 THEN LostCreate(p, Candidates)
                                     ELSE LostUpdate(p, landed)]
           blind == [p \in wire |-> IF sent[p].uid = 0 THEN Unknown ELSE LostUpdate(p, landed)]
<1>1. ASSUME NEW p \in wire
      PROVE  /\ LostUpdate(p, landed) \in Result
             /\ \/ LostUpdate(p, landed) = Failed
                \/ LostUpdate(p, landed).did = "updated" /\ LostUpdate(p, landed).id = sent[p].uid
  <2>1. LostUpdate(p, landed) \in {[did |-> "updated", id |-> sent[p].uid], Failed}
    BY DEF LostUpdate
  <2> QED BY <2>1, LostUpdateType
<1>2. CASE Report(looked)
  <2>1. \A p \in wire : looked[p] = IF sent[p].uid = 0 THEN LostCreate(p, Candidates) ELSE LostUpdate(p, landed)
    OBVIOUS
  <2> HIDE DEF looked
  <2>2. ResolveReport(looked, FALSE)
    BY <1>1, <1>2, <2>1, LostCreateType DEF ResolveReport
  <2> QED BY <2>2
<1>3. CASE Report(blind)
  <2>1. \A p \in wire : blind[p] = IF sent[p].uid = 0 THEN Unknown ELSE LostUpdate(p, landed)
    OBVIOUS
  <2> HIDE DEF blind
  <2>2. ResolveReport(blind, TRUE)
    BY <1>1, <1>3, <2>1, EmptyTypes DEF ResolveReport
  <2> QED BY <2>2
<1> QED BY <1>2, <1>3 DEF Resolve

LEMMA LostCreateIs ==
  ASSUME NEW p, NEW found
  PROVE  \/ LostCreate(p, found) = Failed \/ LostCreate(p, found) = Unknown
         \/ LostCreate(p, found).did = "created"
BY DEF LostCreate

LEMMA ResolveBooks ==
  ASSUME CInv, NEW landed, Resolve(landed)
  PROVE  CParts'
<1>1. PICK outcome : \E blind \in BOOLEAN : ResolveReport(outcome, blind)
  BY CTypes, ResolveShows
<1>2. PICK blind \in BOOLEAN : ResolveReport(outcome, blind)
  BY <1>1
<1>3. /\ UNCHANGED <<cases, late, told, sent>> /\ loop' = "sending"
      /\ wire' = {} /\ got' = [p \in {} |-> 0]
  BY DEF Resolve, server, held
<1>4. ASSUME NEW p \in wire
      PROVE  /\ outcome[p] \in Result
             /\ outcome[p].did = "updated" => outcome[p].id \in told
             /\ outcome[p].did \in {"failed", "unknown"} => outcome[p].id = 0
             /\ outcome[p].did = "unknown" => sent[p].uid = 0
  <2>1. CASE sent[p].uid # 0
    <3>1. sent[p].uid \in told
      BY <2>1, CTypes DEF CInv, CParts, SentTold
    <3> QED BY <1>2, <2>1, <3>1 DEF ResolveReport, Failed
  <2>2. CASE sent[p].uid = 0
    <3>1. outcome[p] = Unknown \/ outcome[p] = LostCreate(p, Candidates)
      BY <1>2, <2>2 DEF ResolveReport
    <3>2. outcome[p] \in {Failed, Unknown} \/ outcome[p].did = "created"
      BY <3>1, LostCreateIs
    <3> QED BY <1>2, <2>2, <3>2 DEF Failed, Unknown, ResolveReport
  <2> QED BY <2>1, <2>2
<1>5. Report(outcome)
  BY <1>2 DEF ResolveReport
<1> QED BY <1>3, <1>4, <1>5, ReportKeepsBooks

-----------------------------------------------------------------------------
LEMMA UploadDoneBooks ==
  ASSUME CInv, UploadDone
  PROVE  CParts'
<1>1. /\ UNCHANGED <<cases, late, wire, got>> /\ told \subseteq told'
      /\ sent' = <<>> /\ results' = <<>> /\ loop = "sending"
  BY DEF UploadDone, server
<1>2. wire = {} /\ got = [p \in {} |-> 0]
  BY <1>1, CTypes DEF WireIdle
<1>3. LateTold' /\ IsFiniteSet(late')
  BY <1>1 DEF CInv, CParts, LateTold
<1>4. SentTold' /\ OnWire' /\ ResultIds' /\ SentApart' /\ Idle' /\ WireInChunk'
  BY <1>1, <1>2 DEF SentTold, OnWire, ResultIds, SentApart, Idle, WireInChunk
<1> QED BY <1>3, <1>4 DEF CParts

\* The requests a lost batch leaves behind.
LEMMA WireFinite ==
  ASSUME CInv
  PROVE  IsFiniteSet(wire)
<1>1. wire \subseteq (Len(results) + 1)..Len(sent)
  BY CTypes DEF TypeOK
<1>2. Len(results) + 1 \in Int /\ Len(sent) \in Int
  <2>1. results \in Seq(Result) /\ sent \in Seq(Request)
    BY CTypes DEF TypeOK
  <2>2. Len(results) \in Nat /\ Len(sent) \in Nat
    BY <2>1
  <2> QED BY <2>2
<1> QED BY <1>1, <1>2, FS_Interval, FS_Subset

LEMMA BatchLostBooks ==
  ASSUME CInv, NEW byDeadline \in BOOLEAN, BatchLost(byDeadline)
  PROVE  CParts'
<1>1. /\ UNCHANGED <<cases, told, sent, results, wire, got>> /\ loop' = "looking"
      /\ late' \subseteq late \cup {sent[p] : p \in wire \ DOMAIN got}
  BY DEF BatchLost, held
<1>2. IsFiniteSet(late')
  <2> DEFINE S == wire \ DOMAIN got
             f == [p \in S |-> sent[p]]
  <2>1. IsFiniteSet(S)
    BY WireFinite, FS_Subset
  <2>2. DOMAIN f = S /\ {f[p] : p \in S} = {sent[p] : p \in S}
    OBVIOUS
  <2> HIDE DEF S, f
  <2>3. IsFiniteSet({f[p] : p \in S})
    BY <2>1, <2>2, CountImage
  <2>4. IsFiniteSet({sent[p] : p \in S})
    BY <2>2, <2>3
  <2>5. IsFiniteSet(late \cup {sent[p] : p \in S})
    BY <2>4, FS_Union DEF CInv, CParts
  <2> QED BY <1>1, <2>5, FS_Subset DEF S
<1>3. LateTold'
  <2>1. \A p \in wire : p \in DOMAIN sent
    BY CTypes
  <2> QED BY <1>1, <2>1 DEF CInv, CParts, LateTold, SentTold
<1>4. Chunk' = Chunk
  BY <1>1 DEF Chunk
<1>5. SentTold' /\ OnWire' /\ ResultIds' /\ SentApart' /\ Idle' /\ WireInChunk'
  BY <1>1, <1>4 DEF CInv, CParts, SentTold, OnWire, ResultIds, SentApart, Idle, WireInChunk
<1> QED BY <1>2, <1>3, <1>5 DEF CParts

\* A case the batch under way made is one the user was not told of.
LEMMA GotUntold ==
  ASSUME CInv, stage = "uploading", NEW o \in DOMAIN got, got[o] # 0, sent[o].uid = 0
  PROVE  got[o] \in DOMAIN cases \ told
<1>1. got[o] \in DOMAIN cases
  BY DEF CInv, AInv, IInv, NewOnWire
<1>2. got[o] > begun /\ told \subseteq 1..begun /\ begun \in Nat
  BY DEF CInv, AInv, AParts, SinceBegun
<1>3. got[o] \in Nat
  BY <1>1, CTypes
<1>4. got[o] \notin 1..begun
  BY <1>2, <1>3
<1> QED BY <1>1, <1>2, <1>4

LEMMA ServerRunsBooks ==
  ASSUME CInv, NEW p \in wire, NEW id, ServerRuns(p, id)
  PROVE  CParts'
<1>1. /\ Runs(sent[p], id) /\ p \notin DOMAIN got /\ loop = "waiting"
      /\ got' = [o \in DOMAIN got \cup {p} |-> IF o = p THEN id ELSE got[o]]
      /\ UNCHANGED <<late, told, results, sent, wire, loop>>
  BY DEF ServerRuns, screen, held
<1>2. sent[p] \in Request /\ (sent[p].uid # 0 => sent[p].uid \in told)
  BY CTypes DEF CInv, CParts, SentTold
<1>3. AInv /\ stage = "uploading"
  BY <1>1, CTypes DEF CInv, LoopShown
<1>4. /\ \A i \in DOMAIN cases \ told : cases'[i] = cases[i]
      /\ id # 0 /\ sent[p].uid = 0 => cases'[id].title = sent[p].title
      /\ sent[p].uid # 0 => id \in {0, sent[p].uid}
  BY <1>1, <1>2, <1>3, RunsUntold
<1>5. ASSUME NEW o \in DOMAIN got'
      PROVE  IF sent[o].uid = 0 THEN got'[o] # 0 => cases'[got'[o]].title = sent[o].title
             ELSE got'[o] \in {0, sent[o].uid}
  <2>1. CASE o = p
    BY <1>1, <1>4, <2>1
  <2>2. CASE o # p
    <3>1. o \in DOMAIN got /\ got'[o] = got[o]
      BY <1>1, <2>2
    <3>2. CASE sent[o].uid = 0 /\ got[o] # 0
      <4>1. cases'[got[o]] = cases[got[o]]
        BY <1>3, <1>4, <3>1, <3>2, GotUntold
      <4>2. cases[got[o]].title = sent[o].title
        BY <3>1, <3>2 DEF CInv, CParts, OnWire
      <4> QED BY <3>1, <3>2, <4>1, <4>2
    <3>3. CASE sent[o].uid = 0 /\ got[o] = 0
      BY <3>1, <3>3
    <3>4. CASE sent[o].uid # 0
      BY <3>1, <3>4 DEF CInv, CParts, OnWire
    <3> QED BY <3>2, <3>3, <3>4
  <2> QED BY <2>1, <2>2
<1>6. OnWire'
  BY <1>1, <1>5 DEF OnWire
<1>7. Chunk' = Chunk
  BY <1>1 DEF Chunk
<1>8. SentTold' /\ LateTold' /\ IsFiniteSet(late') /\ ResultIds' /\ SentApart' /\ Idle' /\ WireInChunk'
  BY <1>1, <1>7 DEF CInv, CParts, SentTold, LateTold, ResultIds, SentApart, Idle, WireInChunk
<1> QED BY <1>6, <1>8 DEF CParts

LEMMA LateRunsBooks ==
  ASSUME CInv, NEW req \in late, LateRuns(req)
  PROVE  CParts'
<1>1. /\ \E id \in 0..MaxCases : Runs(req, id)
      /\ late' = late \ {req} /\ UNCHANGED <<told, rust, stage>>
  BY DEF LateRuns, screen, held
<1>2. PICK id : Runs(req, id)
  BY <1>1
<1>3. req \in Request /\ (req.uid # 0 => req.uid \in told)
  BY CTypes DEF TypeOK, CInv, CParts, LateTold
<1>4. AInv
  BY DEF CInv
<1>5. \A i \in DOMAIN cases \ told : cases'[i] = cases[i]
  BY <1>2, <1>3, <1>4, RunsUntold
<1>6. OnWire'
  <2>1. ASSUME NEW o \in DOMAIN got
        PROVE  IF sent[o].uid = 0 THEN got[o] # 0 => cases'[got[o]].title = sent[o].title
               ELSE got[o] \in {0, sent[o].uid}
    <3>1. stage = "uploading"
      <4>1. got # [p \in {} |-> 0]
        OBVIOUS
      <4>2. loop # "none"
        BY <4>1, CTypes DEF WireIdle
      <4> QED BY <4>2, CTypes DEF LoopShown
    <3>2. CASE sent[o].uid = 0 /\ got[o] # 0
      <4>1. cases'[got[o]] = cases[got[o]]
        BY <1>5, <3>1, <3>2, GotUntold
      <4>2. cases[got[o]].title = sent[o].title
        BY <3>2 DEF CInv, CParts, OnWire
      <4> QED BY <3>2, <4>1, <4>2
    <3>3. CASE sent[o].uid = 0 /\ got[o] = 0
      BY <3>3
    <3>4. CASE sent[o].uid # 0
      BY <3>4 DEF CInv, CParts, OnWire
    <3> QED BY <3>2, <3>3, <3>4
  <2> QED BY <1>1, <2>1 DEF OnWire, rust
<1>7. Chunk' = Chunk
  BY <1>1 DEF Chunk, rust
<1>8. IsFiniteSet(late')
  BY <1>1, FS_RemoveElement DEF CInv, CParts
<1>9. SentTold' /\ LateTold' /\ ResultIds' /\ SentApart' /\ Idle' /\ WireInChunk'
  BY <1>1, <1>7 DEF CInv, CParts, SentTold, LateTold, ResultIds, SentApart, Idle, WireInChunk, rust
<1> QED BY <1>6, <1>8, <1>9 DEF CParts

-----------------------------------------------------------------------------
\* A colleague's case is one more.
LEMMA ColleagueAdds ==
  ASSUME CInv, NEW t \in Titles, ColleagueCreates(t)
  PROVE  /\ UNCHANGED <<late, told, rust, hold, dropped, check, stage>>
         /\ DOMAIN cases \subseteq DOMAIN cases'
         /\ \A i \in DOMAIN cases : cases'[i] = cases[i]
         /\ \A i \in DOMAIN cases' : i \in DOMAIN cases \/ cases'[i].by = Nobody
<1> DEFINE new == [title |-> t, by |-> Nobody]
<1>1. cases' = Append(cases, new) /\ new.by = Nobody
  BY DEF ColleagueCreates
<1>2. UNCHANGED <<late, told, rust, hold, dropped, check, stage>>
  BY DEF ColleagueCreates, screen, held
<1> HIDE DEF new
<1>3. cases \in Seq(Case) /\ DOMAIN cases = 1..Len(cases) /\ Len(cases) \in Nat
  BY CTypes
<1>4. /\ DOMAIN cases' = 1..(Len(cases) + 1) /\ cases'[Len(cases) + 1] = new
      /\ \A i \in DOMAIN cases : cases'[i] = cases[i]
  BY <1>1, <1>3
<1> QED BY <1>1, <1>2, <1>3, <1>4

LEMMA ColleagueBooks ==
  ASSUME CInv, NEW t \in Titles, ColleagueCreates(t)
  PROVE  CParts'
<1>1. /\ UNCHANGED <<late, told, rust>> /\ \A i \in DOMAIN cases : cases'[i] = cases[i]
  BY ColleagueAdds
<1> USE DEF rust
<1>2. Chunk' = Chunk
  BY <1>1 DEF Chunk
<1>3. OnWire'
  <2>1. ASSUME NEW o \in DOMAIN got, sent[o].uid = 0, got[o] # 0
        PROVE  cases'[got[o]].title = sent[o].title
    <3>1. got[o] \in DOMAIN cases
      BY <2>1 DEF CInv, AInv, IInv, NewOnWire
    <3> QED BY <1>1, <2>1, <3>1 DEF CInv, CParts, OnWire
  <2>2. \A o \in DOMAIN got : sent[o].uid # 0 => got[o] \in {0, sent[o].uid}
    BY DEF CInv, CParts, OnWire
  <2> QED BY <1>1, <2>1, <2>2 DEF OnWire
<1>4. SentTold' /\ LateTold' /\ ResultIds' /\ SentApart' /\ Idle' /\ WireInChunk' /\ IsFiniteSet(late')
  BY <1>1, <1>2 DEF CInv, CParts, SentTold, LateTold, ResultIds, SentApart, Idle, WireInChunk
<1> QED BY <1>3, <1>4 DEF CParts

\* CInv is inductive.
LEMMA CInvInit ==
  ASSUME Init
  PROVE  CInv
<1>1. AInv
  BY AInvInit
<1>2. /\ cases = <<>> /\ late = {} /\ sent = <<>> /\ results = <<>> /\ wire = {} /\ known = <<>>
      /\ got = [p \in {} |-> 0] /\ dropped = {}
  BY DEF Init
<1>3. KnownOld
  BY <1>2 DEF KnownOld
<1>4. IsFiniteSet({})
  BY FS_EmptySet
<1>5. \A t : DropsOf(t) = {}
  BY <1>2 DEF DropsOf
<1>6. FiniteDrops /\ IsFiniteSet(late)
  BY <1>2, <1>4, <1>5 DEF FiniteDrops
<1>7. SentTold /\ LateTold /\ OnWire /\ ResultIds /\ SentApart /\ Idle /\ WireInChunk
  BY <1>2 DEF SentTold, LateTold, OnWire, ResultIds, SentApart, Idle, WireInChunk
<1> QED BY <1>1, <1>3, <1>6, <1>7 DEF CInv, CParts

LEMMA CInvStep ==
  ASSUME NothingCrosses, CInv, [Next]_vars
  PROVE  CInv'
<1>1. AInv'
  BY AInvStep DEF CInv, NothingCrosses
<1>2. KnownOld' /\ FiniteDrops'
  BY <1>1, KnownOldStep, FiniteDropsStep
<1>3. CASE User \/ UNCHANGED vars
  BY <1>1, <1>2, <1>3, OutsideKeeps DEF CInv
<1>4. CASE App
  BY <1>1, <1>2, <1>4, OutsideKeeps, StartKeeps, ChunkNotSentBooks, SendChunkBooks, BatchAnsweredBooks,
     ResolveBooks, UploadDoneBooks DEF App, CInv
<1>5. CASE Network
  BY <1>1, <1>2, <1>5, OutsideKeeps, BatchLostBooks DEF Network, CInv
<1>6. CASE Server
  BY <1>1, <1>2, <1>6, ColleagueBooks, ServerRunsBooks, LateRunsBooks DEF Server, CInv
<1> QED BY <1>3, <1>4, <1>5, <1>6 DEF Next

-----------------------------------------------------------------------------
\* The cases with a title and an id in X, made by the app, that the user was
\* not told of; the entries of the history with a title.
OldIn(cs, td, t, X) ==
  {id \in DOMAIN cs \ td : cs[id].by # Nobody /\ cs[id].title = t /\ id \in X}
DropsIn(dr, t) == {d \in dr : d[1].title = t}

\* The ids a Check of a hold leaves aside.
Aside(h) == h.ids \cup 0..h.cut

\* A hold fits: under a title it has, no case a Check of it leaves aside is
\* unaccounted for.
Fits(h, cs, td, dr) ==
  /\ h.cut <= Len(cs)
  /\ \A e, f \in h.entries : e.row = f.row => e = f
  /\ h.ids \subseteq td \cup 0..Len(cs)
  /\ \A e \in h.entries : Cardinality(OldIn(cs, td, e.title, Aside(h))) <= Cardinality(DropsIn(dr, e.title))

HoldFits == Fits(hold, cases, told, dropped)

\* An upload under way sends no create whose title is held, and none with a
\* case from before it that is unaccounted for.
Going ==
  stage = "uploading" =>
    /\ known0 <= begun
    /\ \A p \in DOMAIN sent : sent[p].uid = 0 =>
         /\ EntriesOf(hold.entries, sent[p].title) = {}
         /\ Cardinality(OldIn(cases, told, sent[p].title, 0..begun)) <= Cardinality(DropsIn(dropped, sent[p].title))

\* The requests of lost batches that would make a case with a title.
LateOf(t) == {req \in late : req.uid = 0 /\ req.title = t}

\* A hold that may be released has no such requests.
Released == hold.ambiguous # {} => \A e \in hold.entries : LateOf(e.title) = {}

\* The hold a Check was asked with fits, and is the stored one unless that is
\* gone; when the Check is answered nobody is at work on a create with one of
\* its titles, and a case it does not leave aside, under a title it can tell,
\* was found.
Checks ==
  \A c \in Checkers :
    check[c].at # "none" =>
      /\ Fits(check[c].hold, cases, told, dropped)
      /\ hold \in {check[c].hold, NoHold}
      /\ check[c].exclude \subseteq told \cup check[c].hold.ids
      /\ check[c].at = "answered" =>
           /\ \A e \in check[c].hold.entries : LateOf(e.title) = {}
           /\ \A e \in check[c].hold.entries : e.title \notin check[c].ambiguous =>
                \A id \in Unseen(e.title) \ Aside(check[c].hold) : \E f \in check[c].found : f.id = id

\* The history is marked with the past.
Tags == \A d \in dropped : d[2] <= uploads /\ (stage = "uploading" => d[2] < uploads)

\* The creates with a title whose outcome is reported as unknown, those on
\* the wire and those the server has not reached.
UnknownOf(t) == {p \in Did("unknown") : sent[p].title = t}
WireOf(t) == {p \in wire : sent[p].uid = 0 /\ sent[p].title = t}
Unrun(t) == WireOf(t) \ DOMAIN got

\* The cases with a title the user was not told of, which the loop has not
\* reported and does not have the answer for.
CreatedIds == {results[p].id : p \in Did("created")}
GotIds == {got[o] : o \in DOMAIN got}
Loose(t) == Unseen(t) \ (CreatedIds \cup GotIds)

Pending(t) == IF loop = "looking" /\ timedOut THEN Cardinality(Unrun(t)) ELSE 0

\* Whatever case the user was not told of, there is an entry for it: in the
\* hold, in the history, or in the hold this upload will leave; and likewise
\* for every request the server may still run.
BalancedAt(t) ==
  Cardinality(Loose(t)) + Cardinality(LateOf(t))
    <= Cardinality(EntriesOf(hold.entries, t)) + Cardinality(DropsIn(dropped, t))
       + Cardinality(UnknownOf(t)) + Pending(t)
Balanced == \A t \in Titles : BalancedAt(t)

DParts == HoldFits /\ Going /\ Released /\ Checks /\ Tags /\ Balanced
DInv == CInv /\ DParts

-----------------------------------------------------------------------------
\* What can change the hold, the requests left behind, an upload and a Check.
LEMMA Steps ==
  ASSUME [Next]_vars
  PROVE  /\ hold' = hold \/ UploadDone \/ Release \/ \E c \in Checkers : CheckApplied(c)
         /\ late' \subseteq late \/ \E byDeadline \in BOOLEAN : BatchLost(byDeadline)
         /\ dropped' = dropped \/ UploadDone \/ \E c \in Checkers : CheckApplied(c)
         /\ check' = check \/ \E c \in Checkers : CheckAsked(c) \/ CheckAnswered(c) \/ CheckFailed(c) \/ CheckApplied(c)
         /\ uploads' = uploads \/ \E R \in SUBSET Rows : Start(R)
         /\ stage' = "uploading" => (\E R \in SUBSET Rows : Start(R)) \/ (stage = "uploading" /\ UNCHANGED <<sent, cut, known0>>)
         /\ UNCHANGED <<cases, told>> \/ UploadDone \/ Release \/ (\E c \in Checkers : CheckApplied(c))
              \/ (\E t \in Titles : ColleagueCreates(t))
              \/ (\E p \in wire, id \in 0..MaxCases : ServerRuns(p, id)) \/ \E req \in late : LateRuns(req)
<1> DEFINE G ==
         /\ hold' = hold \/ UploadDone \/ Release \/ \E c \in Checkers : CheckApplied(c)
         /\ late' \subseteq late \/ \E byDeadline \in BOOLEAN : BatchLost(byDeadline)
         /\ dropped' = dropped \/ UploadDone \/ \E c \in Checkers : CheckApplied(c)
         /\ check' = check \/ \E c \in Checkers : CheckAsked(c) \/ CheckAnswered(c) \/ CheckFailed(c) \/ CheckApplied(c)
         /\ uploads' = uploads \/ \E R \in SUBSET Rows : Start(R)
         /\ stage' = "uploading" => (\E R \in SUBSET Rows : Start(R)) \/ (stage = "uploading" /\ UNCHANGED <<sent, cut, known0>>)
         /\ UNCHANGED <<cases, told>> \/ UploadDone \/ Release \/ (\E c \in Checkers : CheckApplied(c))
              \/ (\E t \in Titles : ColleagueCreates(t))
              \/ (\E p \in wire, id \in 0..MaxCases : ServerRuns(p, id)) \/ \E req \in late : LateRuns(req)
<1> SUFFICES G
  OBVIOUS
<1> USE DEF server, screen, rust, held
<1>1. ASSUME NEW r \in Rows, AddRow(r) \/ RemoveRow(r) \/ \E t \in Titles : Rename(r, t) PROVE G
  BY <1>1 DEF AddRow, RemoveRow, Rename, Edit
<1>2. ASSUME AcceptDups \/ Confirm \/ Stopped PROVE G
  BY <1>2 DEF AcceptDups, Confirm, Stopped
<1>3. ASSUME Release PROVE G
  BY <1>3 DEF Release
<1>4. ASSUME NEW c \in Checkers, CheckAsked(c) \/ CheckAnswered(c) \/ CheckFailed(c) PROVE G
  BY <1>4 DEF CheckAsked, CheckAnswered, CheckFailed
<1>5. ASSUME NEW c \in Checkers, CheckApplied(c) PROVE G
  BY <1>5 DEF CheckApplied
<1>6. ASSUME NEW R \in SUBSET Rows, Start(R) PROVE G
  <2>1. UNCHANGED <<cases, late, hold, told, dropped, check>>
    BY <1>6 DEF Start
  <2>2. \E S \in SUBSET Rows : Start(S)
    BY <1>6
  <2> QED BY <2>1, <2>2
<1>7. ASSUME ChunkNotSent \/ BatchAnswered PROVE G
  BY <1>7 DEF ChunkNotSent, BatchAnswered
<1>8. ASSUME NEW P, SendChunk(P) PROVE G
  BY <1>8 DEF SendChunk
<1>9. ASSUME NEW landed, Resolve(landed) PROVE G
  BY <1>9 DEF Resolve
<1>10. ASSUME UploadDone PROVE G
  BY <1>10 DEF UploadDone
<1>11. ASSUME NEW byDeadline \in BOOLEAN, BatchLost(byDeadline) PROVE G
  BY <1>11 DEF BatchLost
<1>12. ASSUME NEW p \in wire, NEW id \in 0..MaxCases, ServerRuns(p, id) PROVE G
  <2>1. UNCHANGED <<stage, late, hold, told, dropped, check, uploads, sent, cut, known0>>
    BY <1>12 DEF ServerRuns
  <2>2. \E q \in wire, i \in 0..MaxCases : ServerRuns(q, i)
    BY <1>12
  <2> QED BY <2>1, <2>2
<1>13. ASSUME NEW req \in late, LateRuns(req) PROVE G
  <2>1. late' \subseteq late /\ UNCHANGED <<stage, hold, told, dropped, check, uploads, sent, cut, known0>>
    BY <1>13 DEF LateRuns
  <2>2. \E q \in late : LateRuns(q)
    BY <1>13
  <2> QED BY <2>1, <2>2
<1>14. ASSUME NEW t \in Titles, ColleagueCreates(t) PROVE G
  BY <1>14 DEF ColleagueCreates
<1>15. ASSUME UNCHANGED vars PROVE G
  BY <1>15 DEF vars
<1> HIDE DEF G
<1>16. ASSUME User PROVE G
  BY <1>1, <1>2, <1>3, <1>4, <1>16 DEF User
<1>17. ASSUME App PROVE G
  BY <1>2, <1>5, <1>6, <1>7, <1>8, <1>9, <1>10, <1>17 DEF App
<1>18. ASSUME Network PROVE G
  BY <1>4, <1>11, <1>18 DEF Network
<1>19. ASSUME Server PROVE G
  BY <1>12, <1>13, <1>14, <1>19 DEF Server
<1> QED
  BY <1>15, <1>16, <1>17, <1>18, <1>19 DEF Next

-----------------------------------------------------------------------------
\* A step makes no old case one the user was not told of.
LEMMA OldShrinks ==
  ASSUME CInv, [Next]_vars, NEW t, NEW X, X \subseteq told \cup 0..Len(cases)
  PROVE  OldIn(cases', told', t, X) \subseteq OldIn(cases, told, t, X)
<1>1. told \subseteq told'
  BY ToldGrows
<1>2. AInv /\ TypeOK /\ DOMAIN cases = 1..Len(cases) /\ Len(cases) \in Nat
  BY CTypes DEF CInv
<1>3. CASE cases' = cases
  BY <1>1, <1>3 DEF OldIn
<1>4. ASSUME NEW req \in Request, NEW id, Runs(req, id), req.uid # 0 => req.uid \in told
      PROVE  OldIn(cases', told', t, X) \subseteq OldIn(cases, told, t, X)
  <2>1. /\ \A i \in DOMAIN cases \ told : cases'[i] = cases[i]
        /\ \A i \in DOMAIN cases' : i \in DOMAIN cases \/ (i = id /\ id # 0 /\ req.uid = 0)
    BY <1>2, <1>4, RunsUntold
  <2>2. id # 0 /\ req.uid = 0 => id > Len(cases)
    BY <1>2, <1>4, RunsNewer DEF TypeOK
  <2>3. ASSUME NEW i \in OldIn(cases', told', t, X)
        PROVE  i \in OldIn(cases, told, t, X)
    <3>1. i \in DOMAIN cases' /\ i \notin told /\ i \in X /\ i \in 0..Len(cases)
      BY <1>1, <2>3 DEF OldIn
    <3>2. i \in DOMAIN cases
      <4>1. CASE i = id /\ id # 0 /\ req.uid = 0
        <5>1. id > Len(cases) /\ id <= Len(cases) /\ id \in Nat
          BY <1>2, <2>2, <3>1, <4>1
        <5> QED BY <1>2, <5>1
      <4> QED BY <2>1, <3>1, <4>1
    <3>3. cases'[i] = cases[i]
      BY <2>1, <3>1, <3>2
    <3> QED BY <2>3, <3>1, <3>2, <3>3 DEF OldIn
  <2> QED BY <2>3
<1>5. ASSUME NEW p \in wire, NEW id, ServerRuns(p, id)
      PROVE  OldIn(cases', told', t, X) \subseteq OldIn(cases, told, t, X)
  <2>1. sent[p] \in Request /\ (sent[p].uid # 0 => sent[p].uid \in told)
    BY CTypes DEF CInv, CParts, SentTold
  <2> QED BY <1>4, <1>5, <2>1 DEF ServerRuns
<1>6. ASSUME NEW req \in late, LateRuns(req)
      PROVE  OldIn(cases', told', t, X) \subseteq OldIn(cases, told, t, X)
  <2>1. req \in Request /\ (req.uid # 0 => req.uid \in told)
    BY <1>2 DEF TypeOK, CInv, CParts, LateTold
  <2> QED BY <1>4, <1>6, <2>1 DEF LateRuns
<1>7. ASSUME NEW u \in Titles, ColleagueCreates(u)
      PROVE  OldIn(cases', told', t, X) \subseteq OldIn(cases, told, t, X)
  BY <1>1, <1>7, ColleagueAdds DEF OldIn
<1> QED BY <1>3, <1>5, <1>6, <1>7, Steps DEF UploadDone, Release, CheckApplied, server

\* No case is ever deleted.
LEMMA CasesGrowInNumber ==
  ASSUME CInv, CInv', [Next]_vars
  PROVE  Len(cases) <= Len(cases')
<1>1. TypeOK /\ Len(cases) \in Nat /\ cases \in Seq(Case)
  BY CTypes
<1>2. CASE cases' = cases
  BY <1>1, <1>2
<1>3. ASSUME NEW p \in wire, NEW id, ServerRuns(p, id) PROVE Len(cases) <= Len(cases')
  <2>1. sent[p] \in Request
    BY CTypes
  <2> QED BY <1>1, <1>3, <2>1, RunsNewer DEF ServerRuns
<1>4. ASSUME NEW req \in late, LateRuns(req) PROVE Len(cases) <= Len(cases')
  <2>1. req \in Request
    BY <1>1 DEF TypeOK
  <2> QED BY <1>1, <1>4, <2>1, RunsNewer DEF LateRuns
<1>5. ASSUME NEW t \in Titles, ColleagueCreates(t) PROVE Len(cases) <= Len(cases')
  <2>1. Len(cases') = Len(cases) + 1
    BY <1>1, <1>5 DEF ColleagueCreates
  <2> QED BY <1>1, <2>1
<1> QED BY <1>2, <1>3, <1>4, <1>5, Steps DEF UploadDone, Release, CheckApplied, server

\* The history only grows.
LEMMA DropsGrow ==
  ASSUME [Next]_vars
  PROVE  dropped \subseteq dropped'
BY Steps DEF UploadDone, CheckApplied

\* What was accounted for stays so.
LEMMA OldCounted ==
  ASSUME CInv, CInv', [Next]_vars, NEW t \in Titles, NEW X, X \subseteq told \cup 0..Len(cases),
         Cardinality(OldIn(cases, told, t, X)) <= Cardinality(DropsIn(dropped, t))
  PROVE  Cardinality(OldIn(cases', told', t, X)) <= Cardinality(DropsIn(dropped', t))
<1>1. OldIn(cases', told', t, X) \subseteq OldIn(cases, told, t, X)
  BY OldShrinks
<1>2. IsFiniteSet(OldIn(cases, told, t, X))
  <2>1. OldIn(cases, told, t, X) \subseteq 1..Len(cases)
    BY CTypes DEF OldIn
  <2>2. 1 \in Int /\ Len(cases) \in Int
    BY CTypes
  <2> QED BY <2>1, <2>2, FS_Interval, FS_Subset
<1>3. DropsIn(dropped, t) \subseteq DropsIn(dropped', t)
  BY DropsGrow DEF DropsIn
<1>4. IsFiniteSet(DropsIn(dropped', t))
  BY DEF CInv, FiniteDrops, DropsOf, DropsIn
<1>5. /\ Cardinality(OldIn(cases', told', t, X)) <= Cardinality(OldIn(cases, told, t, X))
      /\ Cardinality(DropsIn(dropped, t)) <= Cardinality(DropsIn(dropped', t))
      /\ IsFiniteSet(OldIn(cases', told', t, X)) /\ IsFiniteSet(DropsIn(dropped, t))
  BY <1>1, <1>2, <1>3, <1>4, FS_Subset
<1>6. /\ Cardinality(OldIn(cases', told', t, X)) \in Nat /\ Cardinality(OldIn(cases, told, t, X)) \in Nat
      /\ Cardinality(DropsIn(dropped, t)) \in Nat /\ Cardinality(DropsIn(dropped', t)) \in Nat
  BY <1>2, <1>4, <1>5, FS_CardinalityType
<1> QED BY <1>5, <1>6

\* A hold that fits goes on fitting.
LEMMA FitsStays ==
  ASSUME CInv, CInv', [Next]_vars, NEW h \in Hold, Fits(h, cases, told, dropped)
  PROVE  Fits(h, cases', told', dropped')
<1>1. h.cut \in Nat /\ h.cut <= Len(cases) /\ Len(cases) \in Nat /\ Len(cases') \in Nat
  <2>1. Len(cases') \in Nat
    BY DEF CInv, AInv, IInv, TypeOK
  <2> QED BY <2>1, CTypes DEF Hold, Fits
<1>2. Len(cases) <= Len(cases')
  BY CasesGrowInNumber
<1>3. h.cut <= Len(cases') /\ 0..Len(cases) \subseteq 0..Len(cases')
  BY <1>1, <1>2
<1>4. h.ids \subseteq told' \cup 0..Len(cases')
  BY <1>3, ToldGrows DEF Fits
<1>5. Aside(h) \subseteq told \cup 0..Len(cases)
  <2>1. 0..h.cut \subseteq 0..Len(cases)
    BY <1>1
  <2> QED BY <2>1 DEF Fits, Aside
<1>6. ASSUME NEW e \in h.entries
      PROVE  Cardinality(OldIn(cases', told', e.title, Aside(h))) <= Cardinality(DropsIn(dropped', e.title))
  <2>1. e.title \in Titles
    BY DEF Hold, Entry
  <2>2. Cardinality(OldIn(cases, told, e.title, Aside(h))) <= Cardinality(DropsIn(dropped, e.title))
    BY DEF Fits
  <2> QED BY <1>5, <2>1, <2>2, OldCounted
<1> QED BY <1>3, <1>4, <1>6 DEF Fits

\* No hold fits.
LEMMA NothingFits ==
  ASSUME NEW cs, Len(cs) \in Nat, NEW td, NEW dr
  PROVE  Fits(NoHold, cs, td, dr)
BY DEF Fits, NoHold

-----------------------------------------------------------------------------
\* DParts, one conjunct at a time: the marks of the history...
LEMMA TagsStep ==
  ASSUME DInv, CInv', [Next]_vars
  PROVE  Tags'
<1> USE DEF Tags
<1>1. Tags /\ uploads \in Nat
  BY CTypes DEF DInv, DParts, TypeOK
<1>2. dropped \subseteq Entry \X Nat
  BY CTypes DEF DInv, TypeOK
<1>3. \A d \in dropped : d[2] \in Nat
  BY <1>2
<1>4. ASSUME NEW R, Start(R) PROVE Tags'
  <2>1. dropped' = dropped /\ uploads' = uploads + 1
    BY <1>4 DEF Start, held
  <2> QED BY <1>1, <1>3, <2>1
<1>5. CASE UploadDone
  <2>1. /\ stage' = "idle" /\ uploads' = uploads
        /\ \A d \in dropped' : d \in dropped \/ d[2] = uploads
    BY <1>5 DEF UploadDone
  <2> QED BY <1>1, <2>1
<1>6. ASSUME NEW c \in Checkers, CheckApplied(c) PROVE Tags'
  <2>1. check[c].at = "answered"
    BY <1>6 DEF CheckApplied
  <2>2. stage # "uploading" /\ stage' = stage /\ uploads' = uploads
    BY <1>6, <2>1 DEF CheckApplied, DInv, CInv, AInv, AParts, SinceBegun
  <2>3. \A d \in dropped' : d \in dropped \/ d[2] = uploads
    BY <1>6 DEF CheckApplied
  <2> QED BY <1>1, <2>2, <2>3
<1>7. CASE dropped' = dropped /\ uploads' = uploads /\ (stage' = "uploading" => stage = "uploading")
  BY <1>1, <1>7
<1> QED BY <1>4, <1>5, <1>6, <1>7, Steps

-----------------------------------------------------------------------------
\* The hold an upload leaves.
LEMMA HoldLeftIs ==
  /\ Did("unknown") = {} => HoldLeft = NoHold
  /\ Did("unknown") # {} =>
       /\ HoldLeft # NoHold
       /\ HoldLeft.entries = {[row |-> sent[p].row, title |-> sent[p].title] : p \in Did("unknown")}
       /\ HoldLeft.cut = cut /\ HoldLeft.ambiguous = {}
       /\ HoldLeft.ids = (1..known0) \cup {results[p].id : p \in Did("created") \cup Did("updated")}
<1> DEFINE E == {[row |-> sent[p].row, title |-> sent[p].title] : p \in Did("unknown")}
           I == (1..known0) \cup {results[p].id : p \in Did("created") \cup Did("updated")}
<1>1. HoldLeft = HoldOf(cut, E, I)
  BY DEF HoldLeft
<1>2. Did("unknown") = {} <=> E = {}
  OBVIOUS
<1> HIDE DEF E, I
<1>3. E # {} => HoldOf(cut, E, I) # NoHold
  <2>1. E # {} => HoldOf(cut, E, I).entries = E
    BY DEF HoldOf
  <2>2. NoHold.entries = {}
    BY DEF NoHold
  <2> QED BY <2>1, <2>2
<1>4. E # {} => /\ HoldOf(cut, E, I).entries = E /\ HoldOf(cut, E, I).cut = cut
                /\ HoldOf(cut, E, I).ambiguous = {} /\ HoldOf(cut, E, I).ids = I
  BY DEF HoldOf
<1>5. E = {} => HoldOf(cut, E, I) = NoHold
  BY DEF HoldOf
<1> QED BY <1>1, <1>2, <1>3, <1>4, <1>5 DEF E, I

\* Outside an upload nothing is reported and nothing is on the wire.
LEMMA IdleCounts ==
  ASSUME CInv, loop = "none", NEW t
  PROVE  /\ Loose(t) = Unseen(t) /\ UnknownOf(t) = {} /\ Pending(t) = 0
         /\ Cardinality(UnknownOf(t)) = 0
<1>1. results = <<>> /\ got = [p \in {} |-> 0]
  BY CTypes DEF WireIdle, CInv, CParts, Idle
<1>2. \A what : Did(what) = {}
  BY <1>1 DEF Did
<1>3. CreatedIds = {} /\ GotIds = {} /\ UnknownOf(t) = {}
  BY <1>1, <1>2 DEF CreatedIds, GotIds, UnknownOf
<1> QED BY <1>3, FS_EmptySet DEF Loose, Pending

\* There are finitely many cases.
LEMMA CasesFinite ==
  ASSUME CInv
  PROVE  IsFiniteSet(DOMAIN cases)
<1>1. 1 \in Int /\ Len(cases) \in Int /\ DOMAIN cases = 1..Len(cases)
  BY CTypes
<1> QED BY <1>1, FS_Interval

\* The counts are numbers.
LEMMA Counts ==
  ASSUME CInv, NEW t \in Titles
  PROVE  /\ IsFiniteSet(Unseen(t)) /\ IsFiniteSet(Loose(t)) /\ IsFiniteSet(LateOf(t))
         /\ IsFiniteSet(EntriesOf(hold.entries, t)) /\ IsFiniteSet(DropsIn(dropped, t))
         /\ IsFiniteSet(UnknownOf(t)) /\ IsFiniteSet(WireOf(t)) /\ IsFiniteSet(Unrun(t))
         /\ Cardinality(Unseen(t)) \in Nat /\ Cardinality(Loose(t)) \in Nat /\ Cardinality(LateOf(t)) \in Nat
         /\ Cardinality(EntriesOf(hold.entries, t)) \in Nat /\ Cardinality(DropsIn(dropped, t)) \in Nat
         /\ Cardinality(UnknownOf(t)) \in Nat /\ Cardinality(WireOf(t)) \in Nat
         /\ Cardinality(Unrun(t)) \in Nat
<1>1. IsFiniteSet(Unseen(t))
  <2>1. Unseen(t) \subseteq DOMAIN cases
    BY DEF Unseen
  <2> QED BY <2>1, CasesFinite, FS_Subset
<1>2. IsFiniteSet(Loose(t))
  <2>1. Loose(t) \subseteq Unseen(t)
    BY DEF Loose
  <2> QED BY <1>1, <2>1, FS_Subset
<1>3. IsFiniteSet(LateOf(t))
  <2>1. LateOf(t) \subseteq late /\ IsFiniteSet(late)
    BY DEF LateOf, CInv, CParts
  <2> QED BY <2>1, FS_Subset
<1>4. IsFiniteSet(EntriesOf(hold.entries, t))
  BY EntriesFinite, CTypes DEF TypeOK
<1>5. IsFiniteSet(DropsIn(dropped, t))
  BY DEF CInv, FiniteDrops, DropsOf, DropsIn
<1>6. IsFiniteSet(UnknownOf(t))
  <2>1. results \in Seq(Result)
    BY CTypes DEF TypeOK
  <2>2. DOMAIN results = 1..Len(results) /\ 1 \in Int /\ Len(results) \in Int
    BY <2>1
  <2>3. UnknownOf(t) \subseteq DOMAIN results
    BY DEF UnknownOf, Did
  <2> QED BY <2>2, <2>3, FS_Interval, FS_Subset
<1>7. IsFiniteSet(WireOf(t)) /\ IsFiniteSet(Unrun(t))
  <2>1. WireOf(t) \subseteq wire /\ Unrun(t) \subseteq wire
    BY DEF WireOf, Unrun
  <2> QED BY <2>1, WireFinite, FS_Subset
<1> QED BY <1>1, <1>2, <1>3, <1>4, <1>5, <1>6, <1>7, FS_CardinalityType

-----------------------------------------------------------------------------
\* A create that goes out has no title the hold has.
LEMMA SendsNoHeld ==
  ASSUME TypeOK, NEW R \in SUBSET Rows, Start(R), NEW p \in DOMAIN sent', sent'[p].uid = 0
  PROVE  EntriesOf(hold.entries, sent'[p].title) = {} /\ sent'[p].title \in Titles
<1>1. AsSent(R, sent') /\ R \subseteq Live(queue) /\ Held(queue, hold) = {}
  BY DEF Start, HoldActive
<1>2. PICK r \in R : sent'[p] = [row |-> r, title |-> queue[r].title, uid |-> queue[r].uid]
  BY <1>1, SentAsQueued
<1>3. r \in Creates(queue) /\ sent'[p].title = queue[r].title /\ r \in Rows
  BY <1>1, <1>2 DEF Creates
<1>4. queue \in [Rows -> Row] /\ hold \in Hold
  BY DEF TypeOK
<1> QED BY <1>1, <1>3, <1>4, TitleHolds DEF Row

\* ... what an upload under way may send ...
LEMMA GoingStep ==
  ASSUME NothingCrosses, DInv, CInv', [Next]_vars
  PROVE  Going'
<1>1. CInv /\ TypeOK /\ AInv
  BY CTypes DEF DInv, CInv
<1>2. ASSUME NEW R \in SUBSET Rows, Start(R) PROVE Going'
  <2>1. /\ UNCHANGED <<cases, hold, told, dropped>> /\ known0' = Len(known') /\ loop = "none"
    BY <1>1, <1>2, CTypes DEF Start, server, held, LoopShown
  <2>2. begun' = Len(cases)
    BY <1>2 DEF Start, NothingCrosses, KeepsApart, Dated, Begins
  <2>3. known0' <= begun'
    BY <2>1, <2>2 DEF CInv, KnownOld
  <2>4. ASSUME NEW p \in DOMAIN sent', sent'[p].uid = 0
        PROVE  /\ EntriesOf(hold.entries, sent'[p].title) = {}
               /\ Cardinality(OldIn(cases, told, sent'[p].title, 0..begun')) <= Cardinality(DropsIn(dropped, sent'[p].title))
    <3> DEFINE t == sent'[p].title
    <3>1. EntriesOf(hold.entries, t) = {} /\ t \in Titles
      BY <1>1, <1>2, <2>4, SendsNoHeld
    <3> HIDE DEF t
    <3>2. Cardinality(EntriesOf(hold.entries, t)) = 0
      BY <3>1, FS_EmptySet
    <3>3. BalancedAt(t)
      BY <3>1 DEF DInv, DParts, Balanced
    <3>4. Loose(t) = Unseen(t) /\ Pending(t) = 0 /\ Cardinality(UnknownOf(t)) = 0
      BY <1>1, <2>1, IdleCounts
    <3>5. OldIn(cases, told, t, 0..begun') \subseteq Unseen(t)
      BY DEF OldIn, Unseen
    <3>6. IsFiniteSet(Unseen(t)) /\ Cardinality(LateOf(t)) \in Nat /\ Cardinality(DropsIn(dropped, t)) \in Nat
          /\ Cardinality(Unseen(t)) \in Nat
      BY <1>1, <3>1, Counts
    <3>7. /\ Cardinality(OldIn(cases, told, t, 0..begun')) <= Cardinality(Unseen(t))
          /\ Cardinality(OldIn(cases, told, t, 0..begun')) \in Nat
      BY <3>5, <3>6, FS_Subset, FS_CardinalityType
    <3>8. Cardinality(Unseen(t)) + Cardinality(LateOf(t)) <= Cardinality(DropsIn(dropped, t))
      BY <3>2, <3>3, <3>4, <3>6 DEF BalancedAt
    <3>9. Cardinality(OldIn(cases, told, t, 0..begun')) <= Cardinality(DropsIn(dropped, t))
      BY <3>6, <3>7, <3>8
    <3> QED BY <3>1, <3>9 DEF t
  <2> QED BY <2>1, <2>3, <2>4 DEF Going
<1>3. CASE stage = "uploading" /\ stage' = "uploading" /\ UNCHANGED <<sent, cut, known0>>
  <2>1. hold' = hold
    <3>1. ~UploadDone /\ ~Release
      BY <1>3 DEF UploadDone, Release
    <3>2. \A c \in Checkers : ~CheckApplied(c)
      BY <1>1, <1>3 DEF CheckApplied, AInv, AParts, SinceBegun
    <3> QED BY <3>1, <3>2, Steps
  <2>2. begun' = begun /\ 0..begun \subseteq told \cup 0..Len(cases)
    <3>1. begun' = begun
      BY <1>3 DEF NothingCrosses, KeepsApart, Dated, Begins
    <3>2. begun \in Nat /\ begun <= Len(cases) /\ Len(cases) \in Nat
      BY <1>1, <1>3, CTypes DEF AInv, AParts, SinceBegun
    <3> QED BY <3>1, <3>2
  <2>3. ASSUME NEW p \in DOMAIN sent, sent[p].uid = 0
        PROVE  /\ EntriesOf(hold.entries, sent[p].title) = {}
               /\ Cardinality(OldIn(cases', told', sent[p].title, 0..begun)) <= Cardinality(DropsIn(dropped', sent[p].title))
    <3>1. /\ EntriesOf(hold.entries, sent[p].title) = {}
          /\ Cardinality(OldIn(cases, told, sent[p].title, 0..begun)) <= Cardinality(DropsIn(dropped, sent[p].title))
      BY <1>3, <2>3 DEF DInv, DParts, Going
    <3>2. sent[p].title \in Titles
      BY <1>1, CTypes DEF Request
    <3> QED BY <1>1, <2>2, <3>1, <3>2, OldCounted
  <2>4. known0 <= begun
    BY <1>3 DEF DInv, DParts, Going
  <2> QED BY <1>3, <2>1, <2>2, <2>3, <2>4 DEF Going
<1>4. CASE stage' # "uploading"
  BY <1>4 DEF Going
<1> QED BY <1>2, <1>3, <1>4, Steps

-----------------------------------------------------------------------------
\* The same of the counts after a step.
LEMMA CountsNext ==
  ASSUME CInv', NEW t \in Titles
  PROVE  /\ IsFiniteSet(Loose(t)') /\ IsFiniteSet(LateOf(t)')
         /\ IsFiniteSet(EntriesOf(hold'.entries, t)) /\ IsFiniteSet(DropsIn(dropped', t))
         /\ IsFiniteSet(UnknownOf(t)')
         /\ Cardinality(Loose(t)') \in Nat /\ Cardinality(LateOf(t)') \in Nat
         /\ Cardinality(EntriesOf(hold'.entries, t)) \in Nat /\ Cardinality(DropsIn(dropped', t)) \in Nat
         /\ Cardinality(UnknownOf(t)') \in Nat
<1>1. TypeOK'
  BY DEF CInv, AInv, IInv
<1>2. IsFiniteSet(Loose(t)')
  <2>1. cases' \in Seq(Case)
    BY <1>1 DEF TypeOK
  <2>2. DOMAIN cases' = 1..Len(cases') /\ 1 \in Int /\ Len(cases') \in Int
    BY <2>1
  <2>3. Loose(t)' \subseteq DOMAIN cases'
    BY DEF Loose, Unseen
  <2> QED BY <2>2, <2>3, FS_Interval, FS_Subset
<1>3. IsFiniteSet(LateOf(t)')
  <2>1. LateOf(t)' \subseteq late' /\ IsFiniteSet(late')
    BY DEF LateOf, CInv, CParts
  <2> QED BY <2>1, FS_Subset
<1>4. IsFiniteSet(EntriesOf(hold'.entries, t))
  BY <1>1, EntriesFinite DEF TypeOK
<1>5. IsFiniteSet(DropsIn(dropped', t))
  BY DEF CInv, FiniteDrops, DropsOf, DropsIn
<1>6. IsFiniteSet(UnknownOf(t)')
  <2>1. results' \in Seq(Result)
    BY <1>1 DEF TypeOK
  <2>2. DOMAIN results' = 1..Len(results') /\ 1 \in Int /\ Len(results') \in Int
    BY <2>1
  <2>3. UnknownOf(t)' \subseteq DOMAIN results'
    BY DEF UnknownOf, Did
  <2> QED BY <2>2, <2>3, FS_Interval, FS_Subset
<1> QED BY <1>2, <1>3, <1>4, <1>5, <1>6, FS_CardinalityType

-----------------------------------------------------------------------------
\* The ids an upload leaves in its hold: the user was told of them, or they
\* are from before it.
LEMMA HoldLeftIds ==
  ASSUME CInv, UploadDone, known0 <= begun, begun \in Nat
  PROVE  (1..known0) \cup {results[p].id : p \in Did("created") \cup Did("updated")} \subseteq told' \cup 0..begun
<1>1. known0 \in Nat
  BY CTypes DEF TypeOK
<1>2. 1..known0 \subseteq 0..begun
  BY <1>1
<1>3. ASSUME NEW p \in Did("created") PROVE results[p].id \in told'
  <2> DEFINE m == [title |-> sent[p].title, nth |-> RankIn(SentCreates(sent[p].title), p), id |-> results[p].id]
  <2>1. m \in MadeByUpload
    BY <1>3 DEF MadeByUpload
  <2>2. m.id = results[p].id
    OBVIOUS
  <2> HIDE DEF m
  <2>3. told' = told \cup {x.id : x \in MadeByUpload}
    BY DEF UploadDone
  <2> QED BY <2>1, <2>2, <2>3
<1>4. ASSUME NEW p \in Did("updated") PROVE results[p].id \in told'
  <2>1. results[p].id \in told
    BY DEF Did, CInv, CParts, ResultIds
  <2> QED BY <2>1 DEF UploadDone
<1> QED BY <1>2, <1>3, <1>4

\* The hold an upload leaves fits.
LEMMA UploadDoneFits ==
  ASSUME DInv, CInv', [Next]_vars, UploadDone
  PROVE  HoldFits'
<1>1. CInv /\ TypeOK /\ Len(cases) \in Nat /\ cut \in Nat /\ stage = "uploading" /\ hold \in Hold
  <2>1. CInv /\ TypeOK /\ loop = "sending"
    BY CTypes DEF DInv, UploadDone
  <2> QED BY <2>1, CTypes DEF LoopShown, TypeOK
<1>2. cases' = cases
  BY DEF UploadDone, server
<1>3. CASE hold' = hold
  <2>1. Fits(hold, cases, told, dropped)
    BY DEF DInv, DParts, HoldFits
  <2> QED BY <1>1, <1>3, <2>1, FitsStays DEF HoldFits
<1>4. CASE hold' = HoldLeft /\ HoldLeft # NoHold
  <2>1. /\ hold'.entries = {[row |-> sent[p].row, title |-> sent[p].title] : p \in Did("unknown")}
        /\ hold'.cut = cut
        /\ hold'.ids = (1..known0) \cup {results[p].id : p \in Did("created") \cup Did("updated")}
    BY <1>4, HoldLeftIs
  <2>2. cut <= begun /\ begun <= Len(cases) /\ begun \in Nat /\ known0 <= begun
    BY <1>1 DEF CInv, AInv, AParts, SinceBegun, DInv, DParts, Going
  <2>3. hold'.ids \subseteq told' \cup 0..begun
    BY <1>1, <2>1, <2>2, HoldLeftIds
  <2>4. /\ 0..cut \subseteq 0..begun /\ 0..begun \subseteq 0..Len(cases)
        /\ cut <= Len(cases)
    BY <1>1, <2>2
  <2>5. Aside(hold') \subseteq told' \cup 0..begun
    BY <2>1, <2>3, <2>4 DEF Aside
  <2>6. \A e, f \in hold'.entries : e.row = f.row => e = f
    <3>1. ASSUME NEW p \in Did("unknown"), NEW q \in Did("unknown"), sent[p].row = sent[q].row
          PROVE  sent[p] = sent[q]
      <4>1. p \in DOMAIN sent /\ q \in DOMAIN sent
        <5>1. Len(results) = Len(sent) /\ DOMAIN results = DOMAIN sent
          <6>1. Len(results) = Len(sent) /\ results \in Seq(Result) /\ sent \in Seq(Request)
            BY <1>1 DEF UploadDone, TypeOK
          <6> QED BY <6>1
        <5> QED BY <3>1, <5>1 DEF Did
      <4> QED BY <1>1, <3>1, <4>1 DEF CInv, CParts, SentApart
    <3> QED BY <2>1, <3>1
  <2>7. ASSUME NEW e \in hold'.entries
        PROVE  Cardinality(OldIn(cases', told', e.title, Aside(hold'))) <= Cardinality(DropsIn(dropped', e.title))
    <3>1. PICK p \in Did("unknown") : e = [row |-> sent[p].row, title |-> sent[p].title]
      BY <2>1
    <3>2. p \in DOMAIN sent
      <4>1. Len(results) = Len(sent) /\ results \in Seq(Result) /\ sent \in Seq(Request)
        BY <1>1 DEF UploadDone, TypeOK
      <4>2. DOMAIN results = DOMAIN sent
        BY <4>1
      <4> QED BY <3>1, <4>2 DEF Did
    <3>3. sent[p].uid = 0
      BY <1>1, <3>1 DEF Did, CInv, CParts, ResultIds
    <3>4. Cardinality(OldIn(cases, told, sent[p].title, 0..begun)) <= Cardinality(DropsIn(dropped, sent[p].title))
      BY <1>1, <3>2, <3>3 DEF DInv, DParts, Going
    <3>5. sent[p].title \in Titles /\ e.title = sent[p].title
      BY <1>1, <3>1, <3>2, CTypes DEF Request
    <3> HIDE DEF OldIn, DropsIn
    <3>6. Cardinality(OldIn(cases', told', e.title, 0..begun)) <= Cardinality(DropsIn(dropped', e.title))
      BY <1>1, <2>4, <3>4, <3>5, OldCounted
    <3>7. OldIn(cases', told', e.title, Aside(hold')) \subseteq OldIn(cases', told', e.title, 0..begun)
      BY <2>5 DEF OldIn
    <3>8. IsFiniteSet(OldIn(cases', told', e.title, 0..begun))
      <4>1. OldIn(cases', told', e.title, 0..begun) \subseteq DOMAIN cases
        BY <1>2 DEF OldIn
      <4> QED BY <1>1, <4>1, CasesFinite, FS_Subset
    <3>9. Cardinality(OldIn(cases', told', e.title, Aside(hold'))) <= Cardinality(OldIn(cases', told', e.title, 0..begun))
      BY <3>7, <3>8, CountSubset
    <3>10. /\ Cardinality(OldIn(cases', told', e.title, Aside(hold'))) \in Nat
           /\ Cardinality(OldIn(cases', told', e.title, 0..begun)) \in Nat
           /\ Cardinality(DropsIn(dropped', e.title)) \in Nat
      BY <3>5, <3>7, <3>8, CountSubset, CountType, CountsNext
    <3> QED BY <3>6, <3>9, <3>10
  <2> QED BY <1>2, <2>1, <2>3, <2>6, <2>7, <2>4 DEF HoldFits, Fits
<1> QED BY <1>3, <1>4 DEF UploadDone

\* What a Check keeps are the entries it cannot tell.
LEMMA NarrowedEntries ==
  ASSUME NEW h, NEW ambiguous, NEW claimed
  PROVE  Narrowed(h, ambiguous, claimed).entries = {e \in h.entries : e.title \in ambiguous}
BY DEF Narrowed, NoHold

\* Narrowing a hold that fits by an answer the user is told of.
LEMMA NarrowedFits ==
  ASSUME NEW h, NEW ambiguous, NEW claimed, NEW cs, Len(cs) \in Nat, NEW td, NEW dr,
         Fits(h, cs, td, dr), claimed \subseteq td
  PROVE  Fits(Narrowed(h, ambiguous, claimed), cs, td, dr)
<1> DEFINE keep == {e \in h.entries : e.title \in ambiguous}
<1>1. CASE keep = {}
  <2>1. Narrowed(h, ambiguous, claimed) = NoHold
    BY <1>1 DEF Narrowed
  <2> QED BY <2>1, NothingFits
<1>2. CASE keep # {}
  <2> DEFINE n == Narrowed(h, ambiguous, claimed)
  <2>1. n = [cut |-> h.cut, entries |-> keep, ambiguous |-> {e.title : e \in keep}, ids |-> h.ids \cup claimed]
    BY <1>2 DEF Narrowed
  <2>2. n.cut = h.cut /\ n.entries = keep /\ n.ids = h.ids \cup claimed /\ keep \subseteq h.entries
    BY <2>1
  <2> HIDE DEF n, keep
  <2>3. \A t : OldIn(cs, td, t, Aside(n)) = OldIn(cs, td, t, Aside(h))
    BY <2>2 DEF OldIn, Aside
  <2>4. Fits(n, cs, td, dr)
    BY <2>2, <2>3 DEF Fits
  <2> QED BY <2>4 DEF n
<1> QED BY <1>1, <1>2

LEMMA CheckAppliedFits ==
  ASSUME DInv, CInv', [Next]_vars, NEW c \in Checkers, CheckApplied(c)
  PROVE  HoldFits'
<1> DEFINE h == check[c].hold
           ids == {f.id : f \in check[c].found}
<1>1. hold' = Narrowed(h, check[c].ambiguous, ids) /\ told' = told \cup ids /\ check[c].at = "answered"
  BY DEF CheckApplied
<1>2. Fits(h, cases, told, dropped) /\ h \in Hold
  <2>1. check[c] \in Check
    BY CTypes DEF DInv, TypeOK
  <2>2. check[c].hold \in Hold
    BY <2>1 DEF Check
  <2> QED BY <1>1, <2>2 DEF DInv, DParts, Checks
<1> HIDE DEF h, ids
<1>3. Fits(h, cases', told', dropped')
  BY <1>2, FitsStays DEF DInv
<1>4. Len(cases') \in Nat
  BY DEF CInv, AInv, IInv, TypeOK
<1> QED BY <1>1, <1>3, <1>4, NarrowedFits DEF HoldFits

\* ... the stored hold ...
LEMMA HoldFitsStep ==
  ASSUME DInv, CInv', [Next]_vars
  PROVE  HoldFits'
<1>1. CASE hold' = hold
  <2>1. Fits(hold, cases, told, dropped) /\ hold \in Hold /\ CInv
    BY CTypes DEF DInv, DParts, HoldFits, TypeOK
  <2> QED BY <1>1, <2>1, FitsStays DEF HoldFits
<1>2. CASE Release
  <2>1. hold' = NoHold /\ Len(cases') \in Nat
    BY <1>2 DEF Release, CInv, AInv, IInv, TypeOK
  <2> QED BY <2>1, NothingFits DEF HoldFits
<1> QED BY <1>1, <1>2, UploadDoneFits, CheckAppliedFits, Steps

-----------------------------------------------------------------------------
\* What a lost batch leaves behind carries no title the hold has.
LEMMA ReleasedStep ==
  ASSUME DInv, CInv', [Next]_vars
  PROVE  Released'
<1>1. CInv /\ TypeOK /\ Released
  BY CTypes DEF DInv, DParts
<1>2. CASE hold' = hold /\ late' \subseteq late
  BY <1>1, <1>2 DEF Released, LateOf
<1>3. ASSUME NEW byDeadline \in BOOLEAN, BatchLost(byDeadline) PROVE Released'
  <2>1. hold' = hold /\ late' \subseteq late \cup {sent[p] : p \in wire} /\ stage = "uploading"
    BY <1>1, <1>3, CTypes DEF BatchLost, held, LoopShown
  <2>2. \A p \in wire : sent[p].uid = 0 => EntriesOf(hold.entries, sent[p].title) = {}
    BY <1>1, <2>1, CTypes DEF DInv, DParts, Going
  <2>3. ASSUME hold.ambiguous # {}, NEW e \in hold.entries, NEW req \in LateOf(e.title)'
        PROVE  FALSE
    <3>1. req.uid = 0 /\ req.title = e.title /\ (req \in late \/ \E p \in wire : req = sent[p])
      BY <2>1, <2>3 DEF LateOf
    <3>2. req \notin late
      BY <1>1, <2>3, <3>1 DEF Released, LateOf
    <3>3. e \in EntriesOf(hold.entries, e.title)
      BY DEF EntriesOf
    <3> QED BY <2>2, <3>1, <3>2, <3>3
  <2> QED BY <2>1, <2>3 DEF Released
<1>4. CASE UploadDone
  <2>1. CASE hold' = hold
    BY <1>2, <1>4, <2>1 DEF UploadDone, server
  <2>2. CASE hold' = HoldLeft /\ HoldLeft # NoHold
    <3>1. hold'.ambiguous = {}
      BY <2>2, HoldLeftIs
    <3> QED BY <3>1 DEF Released
  <2> QED BY <1>4, <2>1, <2>2 DEF UploadDone
<1>5. CASE Release
  BY <1>5 DEF Release, NoHold, Released
<1>6. ASSUME NEW c \in Checkers, CheckApplied(c) PROVE Released'
  <2>1. late' = late /\ \A e \in check[c].hold.entries : LateOf(e.title) = {}
    BY <1>6 DEF CheckApplied, server, DInv, DParts, Checks
  <2>2. hold'.entries \subseteq check[c].hold.entries
    BY <1>6, NarrowedEntries DEF CheckApplied
  <2> QED BY <2>1, <2>2 DEF Released, LateOf
<1>7. CASE ~(late' \subseteq late)
  BY <1>3, <1>7, Steps
<1>8. CASE late' \subseteq late /\ hold' # hold
  BY <1>4, <1>5, <1>6, <1>8, Steps
<1> QED BY <1>2, <1>7, <1>8

-----------------------------------------------------------------------------
\* What the invariant says of one Check.
CheckGood(k, h, cs, td, dr, lt) ==
  k.at # "none" =>
    /\ Fits(k.hold, cs, td, dr)
    /\ h \in {k.hold, NoHold}
    /\ k.exclude \subseteq td \cup k.hold.ids
    /\ k.at = "answered" =>
         /\ \A e \in k.hold.entries : {req \in lt : req.uid = 0 /\ req.title = e.title} = {}
         /\ \A e \in k.hold.entries : e.title \notin k.ambiguous =>
              \A id \in {i \in DOMAIN cs \ td : cs[i].by # Nobody /\ cs[i].title = e.title} \ Aside(k.hold) :
                 \E f \in k.found : f.id = id

\* Checks, one Check at a time.
LEMMA ChecksAre ==
  Checks <=> \A c \in Checkers : CheckGood(check[c], hold, cases, told, dropped, late)
BY DEF Checks, CheckGood, Unseen, LateOf

\* A title no request is left of gets no new case outside an upload.
LEMMA UnseenShrinks ==
  ASSUME CInv, [Next]_vars, stage # "uploading", NEW t, LateOf(t) = {}
  PROVE  Unseen(t)' \subseteq Unseen(t)
<1>1. told \subseteq told'
  BY ToldGrows
<1>2. CASE cases' = cases
  BY <1>1, <1>2 DEF Unseen
<1>3. ASSUME NEW p, NEW id, ServerRuns(p, id) PROVE FALSE
  BY <1>3, CTypes DEF ServerRuns, LoopShown
<1>4. ASSUME NEW u \in Titles, ColleagueCreates(u) PROVE Unseen(t)' \subseteq Unseen(t)
  BY <1>1, <1>4, ColleagueAdds DEF Unseen
<1>5. ASSUME NEW req \in late, LateRuns(req) PROVE Unseen(t)' \subseteq Unseen(t)
  <2>1. PICK id : Runs(req, id)
    BY <1>5 DEF LateRuns
  <2>2. req \in Request /\ (req.uid # 0 => req.uid \in told) /\ AInv
    BY CTypes DEF TypeOK, CInv, CParts, LateTold
  <2>3. /\ \A i \in DOMAIN cases \ told : cases'[i] = cases[i]
        /\ \A i \in DOMAIN cases' : i \in DOMAIN cases \/ (i = id /\ id # 0 /\ req.uid = 0)
        /\ id # 0 /\ req.uid = 0 => cases'[id].title = req.title
    BY <2>1, <2>2, RunsUntold
  <2>4. req.uid = 0 => req.title # t
    BY DEF LateOf
  <2>5. ASSUME NEW i \in Unseen(t)' PROVE i \in Unseen(t)
    <3>1. i \in DOMAIN cases' /\ i \notin told /\ cases'[i].by # Nobody /\ cases'[i].title = t
      BY <1>1, <2>5 DEF Unseen
    <3>2. i \in DOMAIN cases /\ cases'[i] = cases[i]
      BY <2>3, <2>4, <3>1
    <3> QED BY <3>1, <3>2 DEF Unseen
  <2> QED BY <2>5
<1> QED BY <1>2, <1>3, <1>4, <1>5, Steps DEF UploadDone, Release, CheckApplied, server

\* While a Check is out no batch is lost and nothing is held anew.
LEMMA CheckAlone ==
  ASSUME CInv, [Next]_vars, NEW c \in Checkers, check[c].at # "none", check' = check
  PROVE  /\ stage # "uploading"
         /\ late' \subseteq late
         /\ hold' \in {hold, NoHold}
<1>1. stage # "uploading" /\ loop = "none" /\ TypeOK
  <2>1. stage # "uploading"
    BY DEF CInv, AInv, AParts, SinceBegun
  <2> QED BY <2>1, CTypes DEF LoopShown
<1>2. ~UploadDone /\ (\A b : ~BatchLost(b))
  BY <1>1 DEF UploadDone, BatchLost
<1>3. \A d \in Checkers : ~CheckApplied(d)
  <2>1. ASSUME NEW d \in Checkers, CheckApplied(d) PROVE FALSE
    <3>1. check[d].at = "answered" /\ check' = [check EXCEPT ![d] = NoCheck]
      BY <2>1 DEF CheckApplied
    <3>2. check'[d] = NoCheck
      BY <1>1, <3>1 DEF TypeOK
    <3> QED BY <3>1, <3>2 DEF NoCheck
  <2> QED BY <2>1
<1>4. late' \subseteq late
  BY <1>2, Steps
<1>5. hold' \in {hold, NoHold}
  BY <1>2, <1>3, Steps DEF Release
<1> QED BY <1>1, <1>4, <1>5

\* A Check that does not change stays as good as it was.
LEMMA CheckRests ==
  ASSUME DInv, CInv', [Next]_vars, check' = check
  PROVE  Checks'
<1>1. CInv /\ TypeOK /\ told \subseteq told'
  BY CTypes, ToldGrows DEF DInv
<1>2. ASSUME NEW c \in Checkers
      PROVE  CheckGood(check[c], hold', cases', told', dropped', late')
  <2>1. CASE check[c].at = "none"
    BY <2>1 DEF CheckGood
  <2>2. CASE check[c].at # "none"
    <3>1. CheckGood(check[c], hold, cases, told, dropped, late)
      BY ChecksAre DEF DInv, DParts
    <3>2. stage # "uploading" /\ late' \subseteq late /\ hold' \in {hold, NoHold}
      BY <1>1, <2>2, CheckAlone
    <3>3. check[c].hold \in Hold
      <4>1. check[c] \in Check
        BY <1>1 DEF TypeOK
      <4> QED BY <4>1 DEF Check
    <3>4. Fits(check[c].hold, cases', told', dropped')
      BY <1>1, <2>2, <3>1, <3>3, FitsStays DEF CheckGood
    <3>5. hold' \in {check[c].hold, NoHold} /\ check[c].exclude \subseteq told' \cup check[c].hold.ids
      BY <1>1, <2>2, <3>1, <3>2 DEF CheckGood
    <3>6. CASE check[c].at = "answered"
      <4>1. \A e \in check[c].hold.entries : LateOf(e.title) = {}
        BY <3>1, <3>6 DEF CheckGood, LateOf
      <4>2. \A e \in check[c].hold.entries : {req \in late' : req.uid = 0 /\ req.title = e.title} = {}
        BY <3>2, <4>1 DEF LateOf
      <4>3. ASSUME NEW e \in check[c].hold.entries, e.title \notin check[c].ambiguous,
                   NEW id \in Unseen(e.title)' \ Aside(check[c].hold)
            PROVE  \E f \in check[c].found : f.id = id
        <5>1. id \in Unseen(e.title)
          BY <1>1, <3>2, <4>1, UnseenShrinks
        <5> QED BY <3>1, <3>6, <4>3, <5>1 DEF CheckGood, Unseen
      <4> QED BY <3>4, <3>5, <4>2, <4>3 DEF CheckGood, Unseen
    <3> QED BY <3>4, <3>5, <3>6 DEF CheckGood
  <2> QED BY <2>1, <2>2
<1>3. \A c \in Checkers : CheckGood(check'[c], hold', cases', told', dropped', late')
  BY <1>2
<1> QED BY <1>3 DEF Checks, CheckGood, Unseen, LateOf

\* The Check that changed is the only one.
LEMMA OnlyCheck ==
  ASSUME TypeOK, NEW c \in Checkers, NEW next, check' = [check EXCEPT ![c] = next],
         \A d \in Checkers : d # c => check[d].at = "none",
         CheckGood(next, hold', cases', told', dropped', late')
  PROVE  Checks'
<1>1. \A d \in Checkers : check'[d] = IF d = c THEN next ELSE check[d]
  BY DEF TypeOK
<1>2. \A d \in Checkers : CheckGood(check'[d], hold', cases', told', dropped', late')
  <2>1. \A d \in Checkers : d # c => CheckGood(check[d], hold', cases', told', dropped', late')
    BY DEF CheckGood
  <2> QED BY <1>1, <2>1
<1> QED BY <1>2 DEF Checks, CheckGood, Unseen, LateOf

LEMMA CheckAskedGood ==
  ASSUME NothingCrosses, DInv, CInv', [Next]_vars, NEW c \in Checkers, CheckAsked(c)
  PROVE  Checks'
<1> DEFINE next == [NoCheck EXCEPT !.at = "asked", !.hold = hold, !.slots = Slots(queue, hold),
                                   !.exclude = Excluded(queue, hold)]
<1>1. CInv /\ TypeOK
  BY CTypes DEF DInv
<1>2. check' = [check EXCEPT ![c] = next] /\ UNCHANGED <<cases, late, held>>
  BY DEF CheckAsked, server
<1>3. next.at = "asked" /\ next.hold = hold /\ next.exclude = Excluded(queue, hold)
  BY DEF NoCheck
<1> HIDE DEF next
<1>4. Fits(hold, cases, told, dropped)
  BY DEF DInv, DParts, HoldFits
<1>5. Excluded(queue, hold) \subseteq told \cup hold.ids
  BY <1>1 DEF Excluded, Live, CInv, AInv, AParts, QueueTold
<1>6. CheckGood(next, hold', cases', told', dropped', late')
  BY <1>2, <1>3, <1>4, <1>5 DEF CheckGood, held
<1>7. \A d \in Checkers : check[d].at = "none"
  <2>1. check[c].at = "none" /\ check'[c].at = "asked"
    BY <1>1, <1>2, <1>3 DEF CheckAsked, TypeOK
  <2> QED BY <2>1 DEF NothingCrosses, KeepsApart, SecondCheck, CheckOut
<1> QED BY <1>1, <1>2, <1>6, <1>7, OnlyCheck

\* The lookup of a hold asks for each of its entries.
LEMMA HeldTitleIs ==
  ASSUME NEW h, \A e, f \in h.entries : e.row = f.row => e = f, NEW e \in h.entries
  PROVE  e.row \in DOMAIN HeldTitles(h) /\ HeldTitles(h)[e.row] = e.title
<1>1. (CHOOSE f \in h.entries : f.row = e.row) = e
  OBVIOUS
<1> QED BY <1>1 DEF HeldTitles

\* What a Check of a hold finds, but for the ids it was given.
AnswerOf(h, exclude) ==
  {f \in CreatedSince(h.cut, {HeldTitles(h)[r] : r \in DOMAIN HeldTitles(h)}) : f.id \notin exclude}

\* Of the cases with an entry's title that the user was not told of, an
\* answer that can tell the title has those it does not leave aside.
LEMMA AnswerFinds ==
  ASSUME CInv, NEW h \in Hold, Fits(h, cases, told, dropped),
         NEW exclude, exclude \subseteq told \cup h.ids,
         NEW e \in h.entries, e.title \notin Ambiguous(HeldTitles(h), AnswerOf(h, exclude)),
         NEW id \in Unseen(e.title), id \notin Aside(h)
  PROVE  \E f \in AnswerOf(h, exclude) :
           f.id = id /\ \E r \in DOMAIN HeldTitles(h) : <<r, f.id>> \in Pairs(HeldTitles(h), AnswerOf(h, exclude))
<1> DEFINE wanted == HeldTitles(h)
           titles == {wanted[r] : r \in DOMAIN wanted}
           found == AnswerOf(h, exclude)
           f == [id |-> id, title |-> e.title]
<1>1. e.row \in DOMAIN wanted /\ wanted[e.row] = e.title
  BY HeldTitleIs DEF Fits
<1>2. DOMAIN wanted = {x.row : x \in h.entries}
  BY DEF HeldTitles
<1>3. DOMAIN wanted \subseteq Nat /\ IsFiniteSet(DOMAIN wanted)
  <2>1. DOMAIN wanted \subseteq Rows
    BY <1>2 DEF Hold, Entry
  <2> HIDE DEF wanted
  <2> QED BY <2>1, RowsAssumption, FS_Subset
<1>4. found = {x \in CreatedSince(h.cut, titles) : x.id \notin exclude}
  BY DEF AnswerOf
<1>5. e.title \notin Ambiguous(wanted, found)
  OBVIOUS
<1>6. e.title \in titles
  BY <1>1
<1> HIDE DEF wanted, titles, found
<1>7. id \in DOMAIN cases /\ id \notin told /\ cases[id].title = e.title
  BY DEF Unseen
<1>8. id \notin exclude /\ id > h.cut
  <2>1. id \in Nat /\ h.cut \in Nat
    BY <1>7, CTypes DEF Hold
  <2>2. id \notin h.ids /\ id \notin 0..h.cut
    BY DEF Aside
  <2> QED BY <1>7, <2>1, <2>2
<1>9. f.id = id /\ f.title = e.title /\ f \in [id : DOMAIN cases, title : titles]
  BY <1>7, <1>6
<1> HIDE DEF f
<1>10. f \in found
  BY <1>7, <1>8, <1>9, <1>4 DEF CreatedSince
<1>11. id \in Pool(found, e.title)
  BY <1>9, <1>10 DEF Pool
<1>12. Pool(found, e.title) \subseteq Nat /\ IsFiniteSet(Pool(found, e.title))
  <2>1. Pool(found, e.title) \subseteq DOMAIN cases
    BY <1>4 DEF Pool, CreatedSince
  <2>2. DOMAIN cases \subseteq Nat /\ IsFiniteSet(DOMAIN cases)
    BY CTypes, CasesFinite
  <2> QED BY <2>1, <2>2, FS_Subset
<1>13. PICK r \in Claimants(wanted, e.title) : <<r, id>> \in Pairs(wanted, found)
  BY <1>3, <1>11, <1>12, <1>5, PoolPaired
<1>14. r \in DOMAIN wanted
  BY <1>13 DEF Claimants
<1> QED BY <1>9, <1>10, <1>13, <1>14 DEF wanted, found

LEMMA CheckAnsweredGood ==
  ASSUME NothingCrosses, DInv, CInv', [Next]_vars, NEW c \in Checkers, CheckAnswered(c)
  PROVE  Checks'
<1> DEFINE h == check[c].hold
           wanted == HeldTitles(h)
           titles == {wanted[r] : r \in DOMAIN wanted}
           found == {f \in CreatedSince(h.cut, titles) : f.id \notin check[c].exclude}
           paired == {f \in found : \E r \in DOMAIN wanted : <<r, f.id>> \in Pairs(wanted, found)}
           next == [check[c] EXCEPT !.at = "answered", !.exclude = {}, !.found = paired,
                                    !.ambiguous = Ambiguous(wanted, found)]
<1>1. CInv /\ TypeOK
  BY CTypes DEF DInv
<1>2. /\ check[c].at = "asked"
      /\ check' = [check EXCEPT ![c].at = "answered", ![c].exclude = {},
                             ![c].found = paired, ![c].ambiguous = Ambiguous(wanted, found)]
      /\ UNCHANGED <<server, held>>
  BY DEF CheckAnswered
<1>3. check \in [Checkers -> Check] /\ check[c] \in Check
  BY <1>1 DEF TypeOK
<1>4. \A e \in h.entries : e.title \notin Ambiguous(wanted, found) =>
        \A id \in Unseen(e.title) \ Aside(h) : \E f \in paired : f.id = id
  <2>1. Fits(h, cases, told, dropped) /\ check[c].exclude \subseteq told \cup h.ids
    BY <1>2 DEF DInv, DParts, Checks
  <2>2. h \in Hold
    BY <1>3 DEF Check
  <2>3. ASSUME NEW e \in h.entries, e.title \notin Ambiguous(wanted, found),
               NEW id \in Unseen(e.title), id \notin Aside(h)
        PROVE  \E f \in paired : f.id = id
    <3> HIDE DEF h
    <3>1. \E f \in found : f.id = id /\ \E r \in DOMAIN wanted : <<r, f.id>> \in Pairs(wanted, found)
      <4>1. AnswerOf(h, check[c].exclude) = found /\ HeldTitles(h) = wanted
        BY DEF AnswerOf
      <4> HIDE DEF found, wanted
      <4>2. e.title \notin Ambiguous(HeldTitles(h), AnswerOf(h, check[c].exclude))
        BY <2>3, <4>1
      <4>3. \E f \in AnswerOf(h, check[c].exclude) :
              f.id = id /\ \E r \in DOMAIN HeldTitles(h) : <<r, f.id>> \in Pairs(HeldTitles(h), AnswerOf(h, check[c].exclude))
        BY <1>1, <2>1, <2>2, <2>3, <4>2, AnswerFinds
      <4> QED BY <4>1, <4>3
    <3> QED BY <3>1
  <2> QED BY <2>3
<1> HIDE DEF paired, found, wanted
<1>5. check' = [check EXCEPT ![c] = next]
  BY <1>2, <1>3
<1>6. next.at = "answered" /\ next.hold = h /\ next.exclude = {} /\ next.found = paired
      /\ next.ambiguous = Ambiguous(wanted, found)
  BY <1>3 DEF Check
<1>7. Fits(h, cases, told, dropped) /\ hold \in {h, NoHold}
  BY <1>2 DEF DInv, DParts, Checks
<1> HIDE DEF next
<1>8. \A e \in h.entries : LateOf(e.title) = {}
  <2>1. check'[c].at = "answered"
    BY <1>3, <1>5, <1>6
  <2>2. \A req \in late : ~(req.uid = 0 /\ EntriesOf(h.entries, req.title) # {})
    BY <1>2, <2>1 DEF NothingCrosses, AnsweredBeforeMade
  <2> QED BY <2>2 DEF LateOf, EntriesOf
<1> HIDE DEF h
<1>9. UNCHANGED <<cases, late, hold, told, dropped>>
  BY <1>2 DEF server, held
<1>10. CheckGood(next, hold, cases, told, dropped, late)
  BY <1>4, <1>6, <1>7, <1>8 DEF CheckGood, Unseen, LateOf
<1>11. CheckGood(next, hold', cases', told', dropped', late')
  BY <1>9, <1>10
<1>12. \A d \in Checkers : d # c => check[d].at = "none"
  BY <1>1, <1>2 DEF CInv, AInv, AParts, OneCheck
<1> QED BY <1>1, <1>5, <1>11, <1>12, OnlyCheck

\* ... the Checks ...
LEMMA ChecksStep ==
  ASSUME NothingCrosses, DInv, CInv', [Next]_vars
  PROVE  Checks'
<1>1. ASSUME NEW c \in Checkers, CheckFailed(c) \/ CheckApplied(c) PROVE Checks'
  <2>1. check' = [check EXCEPT ![c] = NoCheck] /\ TypeOK
    BY <1>1, CTypes DEF CheckFailed, CheckApplied, DInv
  <2>2. CheckGood(NoCheck, hold', cases', told', dropped', late')
    BY DEF CheckGood, NoCheck
  <2>3. \A d \in Checkers : d # c => check[d].at = "none"
    BY <1>1 DEF CheckFailed, CheckApplied, DInv, CInv, AInv, AParts, OneCheck
  <2> QED BY <2>1, <2>2, <2>3, OnlyCheck
<1> QED BY <1>1, CheckRests, CheckAskedGood, CheckAnsweredGood, Steps

-----------------------------------------------------------------------------
LEMMA PendingType ==
  ASSUME CInv, NEW t \in Titles
  PROVE  Pending(t) \in Nat
BY Counts DEF Pending

\* A step that keeps both sides of the balance.
LEMMA SteadyBalance ==
  ASSUME CInv, CInv', NEW t \in Titles, BalancedAt(t),
         Loose(t)' \subseteq Loose(t), LateOf(t)' \subseteq LateOf(t),
         hold' = hold, dropped' = dropped,
         UnknownOf(t)' = UnknownOf(t), Pending(t)' = Pending(t)
  PROVE  BalancedAt(t)'
<1>1. /\ IsFiniteSet(Loose(t)) /\ IsFiniteSet(LateOf(t))
      /\ Cardinality(Loose(t)) \in Nat /\ Cardinality(LateOf(t)) \in Nat
      /\ Cardinality(EntriesOf(hold.entries, t)) \in Nat /\ Cardinality(DropsIn(dropped, t)) \in Nat
      /\ Cardinality(UnknownOf(t)) \in Nat /\ Pending(t) \in Nat
  BY Counts, PendingType
<1>2. Cardinality(Loose(t)') \in Nat /\ Cardinality(LateOf(t)') \in Nat
  BY CountsNext
<1>3. Cardinality(Loose(t)') <= Cardinality(Loose(t)) /\ Cardinality(LateOf(t)') <= Cardinality(LateOf(t))
  BY <1>1, CountSubset
<1>4. Cardinality(Loose(t)) + Cardinality(LateOf(t))
        <= Cardinality(EntriesOf(hold.entries, t)) + Cardinality(DropsIn(dropped, t))
           + Cardinality(UnknownOf(t)) + Pending(t)
  BY DEF BalancedAt
<1>5. Cardinality(Loose(t)') + Cardinality(LateOf(t)')
        <= Cardinality(EntriesOf(hold.entries, t)) + Cardinality(DropsIn(dropped, t))
           + Cardinality(UnknownOf(t)) + Pending(t)
  BY <1>1, <1>2, <1>3, <1>4
<1>6. BalancedAt(t)' <=> Cardinality(Loose(t)') + Cardinality(LateOf(t)')
        <= Cardinality(EntriesOf(hold'.entries, t)) + Cardinality(DropsIn(dropped', t))
           + Cardinality(UnknownOf(t)') + Pending(t)'
  BY DEF BalancedAt
<1> QED BY <1>5, <1>6

-----------------------------------------------------------------------------
\* Steps that leave the loop and the cases alone.
LEMMA RestsBalanced ==
  ASSUME CInv, CInv', [Next]_vars, NEW t \in Titles, BalancedAt(t),
         UNCHANGED <<rust, cases, hold, dropped>>, late' \subseteq late
  PROVE  BalancedAt(t)'
<1>1. told \subseteq told'
  BY ToldGrows
<1>2. UNCHANGED <<sent, results, got, wire, loop, timedOut>>
  BY DEF rust
<1>3. CreatedIds' = CreatedIds /\ GotIds' = GotIds /\ UnknownOf(t)' = UnknownOf(t)
  BY <1>2 DEF CreatedIds, GotIds, UnknownOf, Did
<1>4. Pending(t)' = Pending(t)
  BY <1>2 DEF Pending, Unrun, WireOf
<1>5. Loose(t)' \subseteq Loose(t) /\ LateOf(t)' \subseteq LateOf(t)
  BY <1>1, <1>3 DEF Loose, Unseen, LateOf
<1> QED BY <1>3, <1>4, <1>5, SteadyBalance

\* The balance, one action at a time.
LEMMA SendChunkBalanced ==
  ASSUME CInv, CInv', NEW t \in Titles, BalancedAt(t), NEW P, SendChunk(P)
  PROVE  BalancedAt(t)'
<1>1. UNCHANGED <<cases, late, told, sent, results, got, hold, dropped>> /\ loop = "sending" /\ loop' = "waiting"
  BY DEF SendChunk, server, held
<1>2. CreatedIds' = CreatedIds /\ GotIds' = GotIds /\ UnknownOf(t)' = UnknownOf(t)
  BY <1>1 DEF CreatedIds, GotIds, UnknownOf, Did
<1>3. Pending(t)' = 0 /\ Pending(t) = 0
  BY <1>1 DEF Pending
<1>4. Loose(t)' \subseteq Loose(t) /\ LateOf(t)' \subseteq LateOf(t)
  BY <1>1, <1>2 DEF Loose, Unseen, LateOf
<1> QED BY <1>1, <1>2, <1>3, <1>4, SteadyBalance

LEMMA ChunkNotSentBalanced ==
  ASSUME CInv, CInv', NEW t \in Titles, BalancedAt(t), ChunkNotSent
  PROVE  BalancedAt(t)'
<1> DEFINE outcome == [p \in {} |-> Failed]
<1>1. /\ UNCHANGED <<cases, late, told, sent, got, hold, dropped, loop>> /\ loop = "sending"
      /\ Report(outcome)
  BY DEF ChunkNotSent, server, held
<1> HIDE DEF outcome
<1>2. wire = {} /\ TypeOK /\ WireInChunk
  BY <1>1, CTypes DEF WireIdle, CInv, CParts
<1>3. /\ \A p \in DOMAIN results : results'[p] = results[p]
      /\ \A what : what # "failed" => Did(what)' = Did(what)
  <2>1. \A p \in wire : outcome[p] \in Result
    BY <1>2
  <2>2. /\ \A p \in DOMAIN results : results'[p] = results[p]
        /\ \A what : what # "failed" => Did(what)' = Did(what) \cup {p \in wire : outcome[p].did = what}
    BY <1>1, <1>2, <2>1, ReportAdds
  <2> QED BY <1>2, <2>2
<1>4. CreatedIds' = CreatedIds /\ GotIds' = GotIds /\ UnknownOf(t)' = UnknownOf(t)
  <2>1. Did("created")' = Did("created") /\ Did("unknown")' = Did("unknown") /\ Did("created") \subseteq DOMAIN results
    BY <1>3 DEF Did
  <2> HIDE DEF Did
  <2> QED BY <1>1, <1>3, <2>1 DEF CreatedIds, GotIds, UnknownOf
<1>5. Pending(t)' = 0 /\ Pending(t) = 0
  BY <1>1 DEF Pending
<1>6. Loose(t)' \subseteq Loose(t) /\ LateOf(t)' \subseteq LateOf(t)
  BY <1>1, <1>4 DEF Loose, Unseen, LateOf
<1> QED BY <1>1, <1>4, <1>5, <1>6, SteadyBalance

LEMMA StartBalanced ==
  ASSUME CInv, CInv', NEW t \in Titles, BalancedAt(t), NEW R \in SUBSET Rows, Start(R)
  PROVE  BalancedAt(t)'
<1>1. /\ UNCHANGED <<cases, late, told, got, hold, dropped>> /\ results' = <<>> /\ loop' = "sending"
      /\ stage = "confirming"
  BY DEF Start, server, held
<1>2. loop = "none" /\ got = [p \in {} |-> 0]
  BY <1>1, CTypes DEF LoopShown, WireIdle
<1>3. Loose(t) = Unseen(t) /\ UnknownOf(t) = {} /\ Pending(t) = 0
  BY <1>2, IdleCounts
<1>4. UnknownOf(t)' = {} /\ Pending(t)' = 0
  BY <1>1 DEF UnknownOf, Did, Pending
<1>5. Loose(t)' \subseteq Loose(t) /\ LateOf(t)' \subseteq LateOf(t)
  BY <1>1, <1>3 DEF Loose, Unseen, LateOf
<1> QED BY <1>1, <1>3, <1>4, <1>5, SteadyBalance

\* The case a batch under way makes is one it will have the answer for.
LEMMA ServerRunsBalanced ==
  ASSUME CInv, CInv', NEW t \in Titles, BalancedAt(t), NEW p \in wire, NEW id, ServerRuns(p, id)
  PROVE  BalancedAt(t)'
<1>1. /\ Runs(sent[p], id) /\ p \notin DOMAIN got /\ loop = "waiting"
      /\ got' = [o \in DOMAIN got \cup {p} |-> IF o = p THEN id ELSE got[o]]
      /\ UNCHANGED <<late, told, results, sent, wire, loop, hold, dropped>>
  BY DEF ServerRuns, screen, held
<1>2. sent[p] \in Request /\ (sent[p].uid # 0 => sent[p].uid \in told) /\ AInv
  BY CTypes DEF CInv, CParts, SentTold
<1>3. /\ \A i \in DOMAIN cases \ told : cases'[i] = cases[i]
      /\ \A i \in DOMAIN cases' : i \in DOMAIN cases \/ (i = id /\ id # 0 /\ sent[p].uid = 0)
  BY <1>1, <1>2, RunsUntold
<1>4. GotIds \subseteq GotIds' /\ id \in GotIds'
  <2>1. DOMAIN got' = DOMAIN got \cup {p} /\ got'[p] = id /\ \A o \in DOMAIN got : got'[o] = got[o]
    BY <1>1
  <2> QED BY <2>1 DEF GotIds
<1>5. CreatedIds' = CreatedIds /\ UnknownOf(t)' = UnknownOf(t)
  BY <1>1 DEF CreatedIds, UnknownOf, Did
<1>6. Pending(t)' = 0 /\ Pending(t) = 0
  BY <1>1 DEF Pending
<1>7. ASSUME NEW i \in Loose(t)' PROVE i \in Loose(t)
  <2>1. i \in DOMAIN cases' /\ i \notin told /\ i \notin CreatedIds /\ i \notin GotIds /\ i # id
        /\ cases'[i].by # Nobody /\ cases'[i].title = t
    BY <1>1, <1>4, <1>5, <1>7 DEF Loose, Unseen
  <2>2. i \in DOMAIN cases /\ cases'[i] = cases[i]
    BY <1>3, <2>1
  <2> QED BY <2>1, <2>2 DEF Loose, Unseen
<1>8. LateOf(t)' \subseteq LateOf(t)
  BY <1>1 DEF LateOf
<1> QED BY <1>1, <1>5, <1>6, <1>7, <1>8, SteadyBalance

\* An answered batch reports every case it made.
LEMMA BatchAnsweredBalanced ==
  ASSUME CInv, CInv', NEW t \in Titles, BalancedAt(t), BatchAnswered
  PROVE  BalancedAt(t)'
<1> DEFINE outcome == [p \in wire |-> Outcome(p)]
<1>1. /\ Report(outcome) /\ UNCHANGED <<cases, late, told, sent, hold, dropped>> /\ loop = "waiting" /\ loop' = "sending"
      /\ wire = DOMAIN got
  BY DEF BatchAnswered, server, held
<1>2. \A p \in wire : outcome[p] = Outcome(p)
  OBVIOUS
<1> HIDE DEF outcome
<1>3. \A p \in wire : /\ outcome[p] \in Result /\ outcome[p].did # "unknown"
                      /\ outcome[p].did = "created" <=> got[p] # 0 /\ sent[p].uid = 0
                      /\ outcome[p].did = "created" => outcome[p].id = got[p]
  BY <1>1, <1>2, OutcomeIs
<1>4. TypeOK /\ WireInChunk
  BY CTypes DEF CInv, CParts
<1>5. /\ \A p \in DOMAIN results : results'[p] = results[p]
      /\ \A p \in wire : results'[p] = outcome[p]
      /\ \A what : what # "failed" => Did(what)' = Did(what) \cup {p \in wire : outcome[p].did = what}
  BY <1>1, <1>3, <1>4, ReportAdds
<1>6. UnknownOf(t)' = UnknownOf(t)
  <2>1. Did("unknown")' = Did("unknown")
    BY <1>3, <1>5
  <2> QED BY <1>1, <2>1 DEF UnknownOf
<1>7. CreatedIds \subseteq CreatedIds'
  <2>1. Did("created") \subseteq Did("created")' /\ Did("created") \subseteq DOMAIN results
    BY <1>5 DEF Did
  <2> QED BY <1>5, <2>1 DEF CreatedIds
<1>8. \A o \in DOMAIN got : got[o] # 0 /\ sent[o].uid = 0 => got[o] \in CreatedIds'
  <2>1. ASSUME NEW o \in DOMAIN got, got[o] # 0, sent[o].uid = 0 PROVE got[o] \in CreatedIds'
    <3>1. o \in wire /\ outcome[o].did = "created" /\ outcome[o].id = got[o]
      BY <1>1, <1>3, <2>1
    <3>2. o \in Did("created")' /\ results'[o].id = got[o]
      BY <1>5, <3>1
    <3> QED BY <3>2 DEF CreatedIds
  <2> QED BY <2>1
<1>9. Pending(t)' = 0 /\ Pending(t) = 0
  BY <1>1 DEF Pending
<1>10. ASSUME NEW i \in Loose(t)' PROVE i \in Loose(t)
  <2>1. i \in Unseen(t) /\ i \in DOMAIN cases /\ i \notin told /\ i \notin CreatedIds' /\ i \notin CreatedIds
    BY <1>1, <1>7, <1>10 DEF Loose, Unseen
  <2>2. ASSUME NEW o \in DOMAIN got, got[o] = i PROVE FALSE
    <3>1. i # 0
      BY <2>1, CTypes
    <3>2. CASE sent[o].uid = 0
      BY <1>8, <2>1, <2>2, <3>1, <3>2
    <3>3. CASE sent[o].uid # 0
      <4>1. got[o] = sent[o].uid /\ sent[o].uid \in told
        BY <1>1, <2>2, <3>1, <3>3, CTypes DEF CInv, CParts, OnWire, SentTold
      <4> QED BY <2>1, <2>2, <4>1
    <3> QED BY <3>2, <3>3
  <2> QED BY <2>1, <2>2 DEF Loose, GotIds
<1>11. LateOf(t)' \subseteq LateOf(t)
  BY <1>1 DEF LateOf
<1> QED BY <1>1, <1>6, <1>9, <1>10, <1>11, SteadyBalance

-----------------------------------------------------------------------------
\* What a batch lost by its deadline leaves behind is as many requests as
\* there are creates in it the server has not reached.
LEMMA BatchLostBalanced ==
  ASSUME NothingCrosses, CInv, CInv', NEW t \in Titles, BalancedAt(t), NEW byDeadline \in BOOLEAN, BatchLost(byDeadline)
  PROVE  BalancedAt(t)'
<1>1. /\ UNCHANGED <<cases, told, sent, results, got, wire, hold, dropped>> /\ loop = "waiting" /\ loop' = "looking"
      /\ timedOut' = byDeadline
      /\ late' = IF byDeadline THEN late \cup {sent[p] : p \in wire \ DOMAIN got} ELSE late
  BY DEF BatchLost, held, NothingCrosses, WorksOn
<1>2. CreatedIds' = CreatedIds /\ GotIds' = GotIds /\ UnknownOf(t)' = UnknownOf(t) /\ Unrun(t)' = Unrun(t)
  BY <1>1 DEF CreatedIds, GotIds, UnknownOf, Did, Unrun, WireOf
<1>3. Loose(t)' = Loose(t)
  BY <1>1, <1>2 DEF Loose, Unseen
<1>4. Pending(t) = 0
  BY <1>1 DEF Pending
<1>5. CASE ~byDeadline
  <2>1. Pending(t)' = 0
    BY <1>1, <1>5 DEF Pending
  <2>2. LateOf(t)' \subseteq LateOf(t)
    BY <1>1, <1>5 DEF LateOf
  <2> QED BY <1>1, <1>2, <1>3, <1>4, <2>1, <2>2, SteadyBalance
<1>6. CASE byDeadline
  <2> DEFINE f == [p \in Unrun(t) |-> sent[p]]
             L == {f[p] : p \in Unrun(t)}
  <2>1. LateOf(t)' \subseteq LateOf(t) \cup L
    BY <1>1, <1>6 DEF LateOf, Unrun, WireOf
  <2>2. IsFiniteSet(Unrun(t)) /\ Cardinality(Unrun(t)) \in Nat /\ IsFiniteSet(LateOf(t)) /\ Cardinality(LateOf(t)) \in Nat
        /\ Cardinality(Loose(t)) \in Nat /\ Cardinality(EntriesOf(hold.entries, t)) \in Nat
        /\ Cardinality(DropsIn(dropped, t)) \in Nat /\ Cardinality(UnknownOf(t)) \in Nat
    BY Counts
  <2>3. DOMAIN f = Unrun(t)
    OBVIOUS
  <2> HIDE DEF f
  <2>4. IsFiniteSet(L) /\ Cardinality(L) <= Cardinality(Unrun(t))
    BY <2>2, <2>3, CountImage
  <2> HIDE DEF L
  <2>5. IsFiniteSet(LateOf(t) \cup L) /\ Cardinality(LateOf(t) \cup L) <= Cardinality(LateOf(t)) + Cardinality(L)
    BY <2>2, <2>4, CountUnion
  <2>6. Cardinality(LateOf(t)') <= Cardinality(LateOf(t) \cup L)
    BY <2>1, <2>5, CountSubset
  <2>7. Cardinality(L) \in Nat /\ Cardinality(LateOf(t) \cup L) \in Nat /\ Cardinality(LateOf(t)') \in Nat
    BY <2>4, <2>5, CountsNext, CountType
  <2>8. Pending(t)' = Cardinality(Unrun(t))
    BY <1>1, <1>2, <1>6 DEF Pending
  <2>9. Cardinality(Loose(t)) + Cardinality(LateOf(t))
          <= Cardinality(EntriesOf(hold.entries, t)) + Cardinality(DropsIn(dropped, t)) + Cardinality(UnknownOf(t))
    BY <1>4, <2>2 DEF BalancedAt
  <2>10. Cardinality(Loose(t)) + Cardinality(LateOf(t)')
          <= Cardinality(EntriesOf(hold.entries, t)) + Cardinality(DropsIn(dropped, t)) + Cardinality(UnknownOf(t))
             + Cardinality(Unrun(t))
    BY <2>2, <2>4, <2>5, <2>6, <2>7, <2>9
  <2>11. BalancedAt(t)' <=> Cardinality(Loose(t)') + Cardinality(LateOf(t)')
        <= Cardinality(EntriesOf(hold'.entries, t)) + Cardinality(DropsIn(dropped', t))
           + Cardinality(UnknownOf(t)') + Pending(t)'
    BY DEF BalancedAt
  <2> QED BY <1>1, <1>2, <1>3, <2>8, <2>10, <2>11
<1> QED BY <1>5, <1>6

\* A request that runs after all is a case instead of a request.
LEMMA LateRunsBalanced ==
  ASSUME CInv, CInv', NEW t \in Titles, BalancedAt(t), NEW req \in late, LateRuns(req)
  PROVE  BalancedAt(t)'
<1>1. /\ \E id \in 0..MaxCases : Runs(req, id)
      /\ late' = late \ {req} /\ UNCHANGED <<told, rust, hold, dropped>>
  BY DEF LateRuns, screen, held
<1>2. PICK id : Runs(req, id)
  BY <1>1
<1>3. req \in Request /\ (req.uid # 0 => req.uid \in told) /\ AInv
  BY CTypes DEF TypeOK, CInv, CParts, LateTold
<1>4. /\ \A i \in DOMAIN cases \ told : cases'[i] = cases[i]
      /\ \A i \in DOMAIN cases' : i \in DOMAIN cases \/ (i = id /\ id # 0 /\ req.uid = 0)
      /\ id # 0 /\ req.uid = 0 => cases'[id].title = req.title
  BY <1>2, <1>3, RunsUntold
<1>5. CreatedIds' = CreatedIds /\ GotIds' = GotIds /\ UnknownOf(t)' = UnknownOf(t) /\ Pending(t)' = Pending(t)
  BY <1>1 DEF CreatedIds, GotIds, UnknownOf, Did, Pending, Unrun, WireOf, rust
<1>6. \A i \in Loose(t)' : i \in Loose(t) \/ (i = id /\ req.uid = 0 /\ req.title = t)
  <2>1. ASSUME NEW i \in Loose(t)', ~(i = id /\ req.uid = 0 /\ req.title = t) PROVE i \in Loose(t)
    <3>1. i \in DOMAIN cases' /\ i \notin told /\ i \notin CreatedIds /\ i \notin GotIds
          /\ cases'[i].by # Nobody /\ cases'[i].title = t
      BY <1>1, <1>5, <2>1 DEF Loose, Unseen
    <3>2. i \in DOMAIN cases
      BY <1>4, <2>1, <3>1
    <3>3. cases'[i] = cases[i]
      BY <1>4, <3>1, <3>2
    <3> QED BY <3>1, <3>2, <3>3 DEF Loose, Unseen
  <2> QED BY <2>1
<1>7. CASE ~(req.uid = 0 /\ req.title = t)
  <2>1. Loose(t)' \subseteq Loose(t)
    BY <1>6, <1>7
  <2>2. LateOf(t)' \subseteq LateOf(t)
    BY <1>1 DEF LateOf
  <2> QED BY <1>1, <1>5, <2>1, <2>2, SteadyBalance
<1>8. CASE req.uid = 0 /\ req.title = t
  <2>1. Loose(t)' \subseteq Loose(t) \cup {id}
    BY <1>6
  <2>2. LateOf(t)' = LateOf(t) \ {req} /\ req \in LateOf(t)
    BY <1>1, <1>8 DEF LateOf
  <2>3. /\ IsFiniteSet(Loose(t)) /\ IsFiniteSet(LateOf(t)) /\ Cardinality(LateOf(t)) \in Nat /\ Cardinality(Loose(t)) \in Nat
        /\ Cardinality(EntriesOf(hold.entries, t)) \in Nat /\ Cardinality(DropsIn(dropped, t)) \in Nat
        /\ Cardinality(UnknownOf(t)) \in Nat /\ Pending(t) \in Nat
    BY Counts, PendingType
  <2>4. Cardinality(LateOf(t)') = Cardinality(LateOf(t)) - 1
    BY <2>2, <2>3, FS_RemoveElement
  <2>5. IsFiniteSet({id}) /\ Cardinality({id}) = 1
    BY FS_Singleton
  <2>6. IsFiniteSet(Loose(t) \cup {id}) /\ Cardinality(Loose(t) \cup {id}) <= Cardinality(Loose(t)) + Cardinality({id})
    BY <2>3, <2>5, CountUnion
  <2>7. Cardinality(Loose(t)') <= Cardinality(Loose(t) \cup {id}) /\ Cardinality(Loose(t) \cup {id}) \in Nat
    BY <2>1, <2>6, CountSubset, CountType
  <2>8. Cardinality(Loose(t)') \in Nat /\ Cardinality(LateOf(t)') \in Nat
    BY CountsNext
  <2>9. Cardinality(Loose(t)) + Cardinality(LateOf(t))
        <= Cardinality(EntriesOf(hold.entries, t)) + Cardinality(DropsIn(dropped, t))
           + Cardinality(UnknownOf(t)) + Pending(t)
    BY DEF BalancedAt
  <2>10. Cardinality(Loose(t)') + Cardinality(LateOf(t)')
        <= Cardinality(EntriesOf(hold.entries, t)) + Cardinality(DropsIn(dropped, t))
           + Cardinality(UnknownOf(t)) + Pending(t)
    BY <2>3, <2>4, <2>5, <2>6, <2>7, <2>8, <2>9
  <2>11. BalancedAt(t)' <=> Cardinality(Loose(t)') + Cardinality(LateOf(t)')
        <= Cardinality(EntriesOf(hold'.entries, t)) + Cardinality(DropsIn(dropped', t))
           + Cardinality(UnknownOf(t)') + Pending(t)'
    BY DEF BalancedAt
  <2> QED BY <1>1, <1>5, <2>10, <2>11
<1> QED BY <1>7, <1>8

\* A colleague's case is none of the app's.
LEMMA ColleagueBalanced ==
  ASSUME CInv, CInv', NEW t \in Titles, BalancedAt(t), NEW u \in Titles, ColleagueCreates(u)
  PROVE  BalancedAt(t)'
<1>1. /\ UNCHANGED <<late, told, rust, hold, dropped>>
      /\ \A i \in DOMAIN cases : cases'[i] = cases[i]
      /\ \A i \in DOMAIN cases' : i \in DOMAIN cases \/ cases'[i].by = Nobody
  BY ColleagueAdds
<1>2. CreatedIds' = CreatedIds /\ GotIds' = GotIds /\ UnknownOf(t)' = UnknownOf(t) /\ Pending(t)' = Pending(t)
  BY <1>1 DEF CreatedIds, GotIds, UnknownOf, Did, Pending, Unrun, WireOf, rust
<1>3. Loose(t)' \subseteq Loose(t)
  BY <1>1, <1>2 DEF Loose, Unseen
<1>4. LateOf(t)' \subseteq LateOf(t)
  BY <1>1 DEF LateOf
<1> QED BY <1>1, <1>2, <1>3, <1>4, SteadyBalance

\* "I have checked in Azure DevOps" tells of every case under a held title.
LEMMA ReleaseBalanced ==
  ASSUME DInv, CInv', [Next]_vars, NEW t \in Titles, Release
  PROVE  BalancedAt(t)'
<1>1. CInv /\ BalancedAt(t) /\ Released
  BY DEF DInv, DParts, Balanced
<1>2. /\ hold.ambiguous # {} /\ stage # "uploading" /\ hold' = NoHold
      /\ told' = told \cup {id \in DOMAIN cases : \E e \in hold.entries : e.title = cases[id].title}
      /\ UNCHANGED <<cases, late, rust, dropped>>
  BY DEF Release, server
<1>3. loop = "none" /\ loop' = "none"
  BY <1>1, <1>2, CTypes DEF LoopShown, rust
<1>4. Loose(t) = Unseen(t) /\ UnknownOf(t) = {} /\ Pending(t) = 0 /\ Cardinality(UnknownOf(t)) = 0
  BY <1>1, <1>3, IdleCounts
<1>5. UnknownOf(t)' = UnknownOf(t) /\ Pending(t)' = 0 /\ LateOf(t)' = LateOf(t)
  BY <1>2, <1>3 DEF UnknownOf, Did, Pending, LateOf, rust
<1>6. Loose(t)' \subseteq Unseen(t) /\ \A i \in Loose(t)' : i \notin told'
  BY <1>2 DEF Loose, Unseen
<1>7. EntriesOf(hold'.entries, t) = {}
  BY <1>2 DEF EntriesOf, NoHold
<1>8. /\ IsFiniteSet(Unseen(t)) /\ Cardinality(LateOf(t)) \in Nat /\ Cardinality(Unseen(t)) \in Nat
      /\ Cardinality(DropsIn(dropped, t)) \in Nat /\ Cardinality(Loose(t)') \in Nat
  BY <1>1, Counts, CountsNext
<1>9. Cardinality(Loose(t)') + Cardinality(LateOf(t)) <= Cardinality(DropsIn(dropped, t))
  <2>1. CASE EntriesOf(hold.entries, t) = {}
    <3>1. Cardinality(EntriesOf(hold.entries, t)) = 0
      BY <2>1, FS_EmptySet
    <3>2. Cardinality(Loose(t)') <= Cardinality(Unseen(t))
      BY <1>6, <1>8, CountSubset
    <3>3. Cardinality(Unseen(t)) + Cardinality(LateOf(t)) <= Cardinality(DropsIn(dropped, t))
      BY <1>1, <1>4, <1>8, <3>1 DEF BalancedAt
    <3> QED BY <1>8, <3>2, <3>3
  <2>2. ASSUME NEW e \in EntriesOf(hold.entries, t)
        PROVE  Cardinality(Loose(t)') + Cardinality(LateOf(t)) <= Cardinality(DropsIn(dropped, t))
    <3>1. e \in hold.entries /\ e.title = t
      BY DEF EntriesOf
    <3>2. LateOf(t) = {}
      BY <1>1, <1>2, <3>1 DEF Released
    <3>3. Loose(t)' = {}
      <4>1. \A i \in Unseen(t) : i \in told'
        BY <1>2, <3>1 DEF Unseen
      <4> QED BY <1>6, <4>1
    <3>4. Cardinality({}) = 0
      BY FS_EmptySet
    <3> HIDE DEF Loose, LateOf
    <3> QED BY <1>8, <3>2, <3>3, <3>4
  <2> QED BY <2>1, <2>2
<1>10. Cardinality(EntriesOf(hold'.entries, t)) = 0 /\ Cardinality(UnknownOf(t)') = 0
  BY <1>4, <1>5, <1>7, FS_EmptySet
<1>11. BalancedAt(t)' <=> Cardinality(Loose(t)') + Cardinality(LateOf(t)')
        <= Cardinality(EntriesOf(hold'.entries, t)) + Cardinality(DropsIn(dropped', t))
           + Cardinality(UnknownOf(t)') + Pending(t)'
  BY DEF BalancedAt
<1>12. dropped' = dropped
  BY <1>2
<1> QED BY <1>5, <1>8, <1>9, <1>10, <1>11, <1>12

-----------------------------------------------------------------------------
\* The entries an upload leaves under a title: one for each unknown create.
LEMMA HoldLeftCounts ==
  ASSUME CInv, UploadDone, NEW t \in Titles, Did("unknown") # {},
         IsFiniteSet(EntriesOf(HoldLeft.entries, t))
  PROVE  Cardinality(UnknownOf(t)) <= Cardinality(EntriesOf(HoldLeft.entries, t))
<1> DEFINE T == EntriesOf(HoldLeft.entries, t)
           S == UnknownOf(t)
           f == [p \in S |-> [row |-> sent[p].row, title |-> sent[p].title]]
<1>1. Did("unknown") \subseteq DOMAIN sent
  <2>1. Len(results) = Len(sent) /\ results \in Seq(Result) /\ sent \in Seq(Request)
    BY CTypes DEF UploadDone, TypeOK
  <2>2. DOMAIN results = DOMAIN sent
    BY <2>1
  <2> QED BY <2>2 DEF Did
<1>2. HoldLeft.entries = {[row |-> sent[p].row, title |-> sent[p].title] : p \in Did("unknown")}
  BY HoldLeftIs
<1>3. f \in [S -> T]
  BY <1>2 DEF UnknownOf, EntriesOf
<1>4. \A p, q \in S : f[p] = f[q] => p = q
  <2>1. \A p, q \in S : f[p] = f[q] => sent[p].row = sent[q].row
    OBVIOUS
  <2>2. \A p, q \in S : sent[p].row = sent[q].row => p = q
    BY <1>1 DEF UnknownOf, CInv, CParts, SentApart
  <2> QED BY <2>1, <2>2
<1> HIDE DEF f, S, T
<1>5. Cardinality(S) <= Cardinality(T)
  BY <1>3, <1>4, CountInto DEF T
<1> QED BY <1>5 DEF S, T

\* When an upload ends every unknown create has an entry, and what the hold
\* it replaces had under other titles is in the history.
LEMMA UploadDoneBalanced ==
  ASSUME DInv, CInv', [Next]_vars, NEW t \in Titles, UploadDone
  PROVE  BalancedAt(t)'
<1>1. CInv /\ BalancedAt(t) /\ Tags /\ TypeOK
  BY CTypes DEF DInv, DParts, Balanced
<1>2. /\ UNCHANGED <<cases, late, wire, got>> /\ loop = "sending" /\ loop' = "none" /\ results' = <<>>
      /\ told' = told \cup {m.id : m \in MadeByUpload}
      /\ hold' = IF HoldLeft = NoHold THEN hold ELSE HoldLeft
      /\ dropped' = IF HoldLeft = NoHold THEN dropped
                    ELSE dropped \cup ((hold.entries \ HoldLeft.entries) \X {uploads})
  BY DEF UploadDone, server
<1>3. stage = "uploading" /\ got = [p \in {} |-> 0]
  BY <1>1, <1>2, CTypes DEF LoopShown, WireIdle
<1>4. Pending(t) = 0 /\ Pending(t)' = 0 /\ UnknownOf(t)' = {} /\ LateOf(t)' = LateOf(t)
  BY <1>2 DEF Pending, UnknownOf, Did, LateOf
<1>5. Loose(t)' \subseteq Loose(t)
  <2>1. CreatedIds \subseteq told'
    <3>1. ASSUME NEW p \in Did("created") PROVE results[p].id \in told'
      <4> DEFINE m == [title |-> sent[p].title, nth |-> RankIn(SentCreates(sent[p].title), p), id |-> results[p].id]
      <4>1. m \in MadeByUpload
        BY <3>1 DEF MadeByUpload
      <4>2. m.id = results[p].id
        OBVIOUS
      <4> HIDE DEF m
      <4> QED BY <1>2, <4>1, <4>2
    <3> QED BY <3>1 DEF CreatedIds
  <2>2. GotIds = {}
    BY <1>3 DEF GotIds
  <2> QED BY <1>2, <2>1, <2>2 DEF Loose, Unseen
<1>6. /\ IsFiniteSet(Loose(t)) /\ IsFiniteSet(EntriesOf(hold.entries, t)) /\ IsFiniteSet(DropsIn(dropped, t))
      /\ Cardinality(Loose(t)) \in Nat /\ Cardinality(LateOf(t)) \in Nat
      /\ Cardinality(EntriesOf(hold.entries, t)) \in Nat /\ Cardinality(DropsIn(dropped, t)) \in Nat
      /\ Cardinality(UnknownOf(t)) \in Nat
  BY <1>1, Counts
<1>7. /\ IsFiniteSet(EntriesOf(hold'.entries, t)) /\ IsFiniteSet(DropsIn(dropped', t))
      /\ Cardinality(Loose(t)') \in Nat
      /\ Cardinality(EntriesOf(hold'.entries, t)) \in Nat /\ Cardinality(DropsIn(dropped', t)) \in Nat
  BY CountsNext
<1>8. DropsIn(dropped, t) \subseteq DropsIn(dropped', t)
  BY <1>2 DEF DropsIn
<1>9. Cardinality(DropsIn(dropped, t)) <= Cardinality(DropsIn(dropped', t))
  BY <1>7, <1>8, CountSubset
<1>10. Cardinality(EntriesOf(hold.entries, t)) + Cardinality(DropsIn(dropped, t)) + Cardinality(UnknownOf(t))
         <= Cardinality(EntriesOf(hold'.entries, t)) + Cardinality(DropsIn(dropped', t))
  <2>1. CASE HoldLeft = NoHold
    <3>1. UnknownOf(t) = {}
      BY <2>1, HoldLeftIs DEF UnknownOf
    <3>2. Cardinality(UnknownOf(t)) = 0
      BY <3>1, FS_EmptySet
    <3>3. hold' = hold /\ dropped' = dropped
      BY <1>2, <2>1
    <3> QED BY <1>6, <3>2, <3>3
  <2>2. CASE HoldLeft # NoHold /\ UnknownOf(t) = {}
    <3> DEFINE N == EntriesOf(hold.entries, t) \X {uploads}
    <3>1. /\ Did("unknown") # {}
          /\ HoldLeft.entries = {[row |-> sent[p].row, title |-> sent[p].title] : p \in Did("unknown")}
      BY <2>2, HoldLeftIs
    <3>2. EntriesOf(HoldLeft.entries, t) = {}
      BY <2>2, <3>1 DEF EntriesOf, UnknownOf
    <3>3. dropped' = dropped \cup ((hold.entries \ HoldLeft.entries) \X {uploads})
      BY <1>2, <2>2
    <3>4. N \subseteq DropsIn(dropped', t)
      BY <3>2, <3>3 DEF EntriesOf, DropsIn
    <3>5. DropsIn(dropped, t) \cap N = {}
      <4>1. \A d \in dropped : d[2] < uploads /\ uploads \in Nat /\ d[2] \in Nat
        <5>1. \A d \in dropped : d[2] < uploads
          BY <1>1, <1>3 DEF Tags
        <5>2. uploads \in Nat /\ dropped \subseteq Entry \X Nat
          BY <1>1 DEF TypeOK
        <5> QED BY <5>1, <5>2
      <4>2. \A d \in dropped : d[2] # uploads
        BY <4>1
      <4>3. \A d \in N : d[2] = uploads
        OBVIOUS
      <4> HIDE DEF N
      <4> QED BY <4>2, <4>3 DEF DropsIn
    <3>6. IsFiniteSet(N) /\ Cardinality(N) = Cardinality(EntriesOf(hold.entries, t))
      <4> DEFINE E == EntriesOf(hold.entries, t)
      <4>1. IsFiniteSet({uploads}) /\ Cardinality({uploads}) = 1
        BY FS_Singleton
      <4> HIDE DEF E
      <4>2. IsFiniteSet(E) /\ Cardinality(E) \in Nat
        BY <1>6 DEF E
      <4>3. IsFiniteSet(E \X {uploads}) /\ Cardinality(E \X {uploads}) = Cardinality(E) * Cardinality({uploads})
        BY <4>1, <4>2, FS_Product
      <4>4. Cardinality(E \X {uploads}) = Cardinality(E)
        BY <4>1, <4>2, <4>3
      <4> QED BY <4>3, <4>4 DEF E
    <3> HIDE DEF N
    <3>7. Cardinality(DropsIn(dropped, t) \cup N) = Cardinality(DropsIn(dropped, t)) + Cardinality(N)
      BY <1>6, <3>5, <3>6, CountApart
    <3>8. Cardinality(DropsIn(dropped, t) \cup N) <= Cardinality(DropsIn(dropped', t))
      <4>1. DropsIn(dropped, t) \cup N \subseteq DropsIn(dropped', t)
        BY <1>8, <3>4
      <4> QED BY <1>7, <4>1, CountSubset
    <3>9. Cardinality(UnknownOf(t)) = 0
      BY <2>2, FS_EmptySet
    <3> QED BY <1>6, <1>7, <3>6, <3>7, <3>8, <3>9
  <2>3. CASE HoldLeft # NoHold /\ UnknownOf(t) # {}
    <3>1. EntriesOf(hold.entries, t) = {}
      <4>1. PICK p : p \in UnknownOf(t)
        BY <2>3
      <4>2. p \in DOMAIN results /\ results[p].did = "unknown" /\ sent[p].title = t
        BY <4>1 DEF UnknownOf, Did
      <4>3. sent[p].uid = 0
        BY <1>1, <4>2 DEF CInv, CParts, ResultIds
      <4>4. Len(results) = Len(sent) /\ results \in Seq(Result) /\ sent \in Seq(Request)
        BY <1>1 DEF UploadDone, TypeOK
      <4>5. p \in DOMAIN sent
        BY <4>2, <4>4
      <4> QED BY <1>3, <4>2, <4>3, <4>5 DEF DInv, DParts, Going
    <3>2. Cardinality(EntriesOf(hold.entries, t)) = 0
      BY <3>1, FS_EmptySet
    <3>3. hold' = HoldLeft /\ Did("unknown") # {}
      BY <1>2, <2>3, HoldLeftIs
    <3>4. Cardinality(UnknownOf(t)) <= Cardinality(EntriesOf(hold'.entries, t))
      BY <1>1, <1>7, <3>3, HoldLeftCounts
    <3> QED BY <1>6, <1>7, <1>9, <3>2, <3>4
  <2> QED BY <2>1, <2>2, <2>3
<1>11. Cardinality(Loose(t)') <= Cardinality(Loose(t))
  BY <1>5, <1>6, CountSubset
<1>12. Cardinality(Loose(t)) + Cardinality(LateOf(t))
        <= Cardinality(EntriesOf(hold.entries, t)) + Cardinality(DropsIn(dropped, t)) + Cardinality(UnknownOf(t))
  BY <1>1, <1>4, <1>6 DEF BalancedAt
<1>13. Cardinality(Loose(t)') + Cardinality(LateOf(t))
         <= Cardinality(EntriesOf(hold'.entries, t)) + Cardinality(DropsIn(dropped', t))
  BY <1>6, <1>7, <1>10, <1>11, <1>12
<1>14. Cardinality(UnknownOf(t)') = 0
  BY <1>4, FS_EmptySet
<1>15. BalancedAt(t)' <=> Cardinality(Loose(t)') + Cardinality(LateOf(t)')
        <= Cardinality(EntriesOf(hold'.entries, t)) + Cardinality(DropsIn(dropped', t))
           + Cardinality(UnknownOf(t)') + Pending(t)'
  BY DEF BalancedAt
<1> QED BY <1>4, <1>7, <1>13, <1>14, <1>15

\* What an answered Check lets go of, it told of or is in the history.
LEMMA CheckAppliedBalanced ==
  ASSUME DInv, CInv', [Next]_vars, NEW t \in Titles, NEW c \in Checkers, CheckApplied(c)
  PROVE  BalancedAt(t)'
<1> DEFINE h == check[c].hold
           ids == {f.id : f \in check[c].found}
<1>1. CInv /\ BalancedAt(t) /\ TypeOK
  BY CTypes DEF DInv, DParts, Balanced
<1>2. /\ check[c].at = "answered"
      /\ hold' = Narrowed(h, check[c].ambiguous, ids)
      /\ dropped' = dropped \cup (((hold.entries \ h.entries) \ hold'.entries) \X {uploads})
      /\ told' = told \cup ids
      /\ UNCHANGED <<cases, late, rust>>
  BY DEF CheckApplied, server
<1>3. CheckGood(check[c], hold, cases, told, dropped, late)
  BY ChecksAre DEF DInv, DParts
<1>4. /\ Fits(h, cases, told, dropped) /\ hold \in {h, NoHold}
      /\ \A e \in h.entries : LateOf(e.title) = {}
      /\ \A e \in h.entries : e.title \notin check[c].ambiguous =>
           \A id \in Unseen(e.title) \ Aside(h) : id \in ids
  BY <1>2, <1>3 DEF CheckGood, Unseen, LateOf
<1>5. h \in Hold
  <2>1. check[c] \in Check
    BY <1>1 DEF TypeOK
  <2> QED BY <2>1 DEF Check
<1> HIDE DEF h, ids
<1>6. loop = "none" /\ loop' = "none"
  <2>1. stage # "uploading"
    BY <1>1, <1>2 DEF CInv, AInv, AParts, SinceBegun
  <2> QED BY <1>1, <1>2, <2>1, CTypes DEF LoopShown, rust
<1>7. Loose(t) = Unseen(t) /\ UnknownOf(t) = {} /\ Pending(t) = 0 /\ Cardinality(UnknownOf(t)) = 0
  BY <1>1, <1>6, IdleCounts
<1>8. UnknownOf(t)' = {} /\ Pending(t)' = 0 /\ LateOf(t)' = LateOf(t)
  BY <1>2, <1>6, <1>7 DEF UnknownOf, Did, Pending, LateOf, rust
<1>9. Loose(t)' \subseteq Unseen(t) /\ Loose(t)' \cap ids = {}
  BY <1>2 DEF Loose, Unseen
<1>10. hold'.entries = {e \in h.entries : e.title \in check[c].ambiguous}
  BY <1>2, NarrowedEntries
<1>11. EntriesOf(hold.entries, t) \subseteq EntriesOf(h.entries, t)
  BY <1>4 DEF EntriesOf, NoHold
<1>12. DropsIn(dropped, t) \subseteq DropsIn(dropped', t)
  BY <1>2 DEF DropsIn
<1>13. /\ IsFiniteSet(Unseen(t)) /\ Cardinality(Unseen(t)) \in Nat
       /\ Cardinality(EntriesOf(hold.entries, t)) \in Nat /\ Cardinality(DropsIn(dropped, t)) \in Nat
       /\ Cardinality(LateOf(t)) \in Nat
  BY <1>1, Counts
<1>14. /\ IsFiniteSet(EntriesOf(hold'.entries, t)) /\ IsFiniteSet(DropsIn(dropped', t))
       /\ Cardinality(Loose(t)') \in Nat
       /\ Cardinality(EntriesOf(hold'.entries, t)) \in Nat /\ Cardinality(DropsIn(dropped', t)) \in Nat
  BY CountsNext
<1>15. Cardinality(DropsIn(dropped, t)) <= Cardinality(DropsIn(dropped', t))
  BY <1>12, <1>14, CountSubset
<1>16. Cardinality({}) = 0
  BY FS_EmptySet
<1>17. Cardinality(Unseen(t)) + Cardinality(LateOf(t))
         <= Cardinality(EntriesOf(hold.entries, t)) + Cardinality(DropsIn(dropped, t))
  BY <1>1, <1>7, <1>13 DEF BalancedAt
<1>18. Cardinality(Loose(t)') + Cardinality(LateOf(t))
         <= Cardinality(EntriesOf(hold'.entries, t)) + Cardinality(DropsIn(dropped', t))
  <2>1. Cardinality(Loose(t)') <= Cardinality(Unseen(t))
    BY <1>9, <1>13, CountSubset
  <2>2. CASE t \in check[c].ambiguous
    <3>1. EntriesOf(hold.entries, t) \subseteq EntriesOf(hold'.entries, t)
      BY <1>10, <1>11, <2>2 DEF EntriesOf
    <3>2. Cardinality(EntriesOf(hold.entries, t)) <= Cardinality(EntriesOf(hold'.entries, t))
      BY <1>14, <3>1, CountSubset
    <3> QED BY <1>13, <1>14, <1>15, <1>17, <2>1, <3>2
  <2>3. CASE EntriesOf(h.entries, t) = {}
    <3>1. EntriesOf(hold.entries, t) = {}
      BY <1>11, <2>3
    <3>2. Cardinality(EntriesOf(hold.entries, t)) = 0
      BY <1>16, <3>1
    <3> QED BY <1>13, <1>14, <1>15, <1>17, <2>1, <3>2
  <2>4. ASSUME t \notin check[c].ambiguous, NEW e \in EntriesOf(h.entries, t)
        PROVE  Cardinality(Loose(t)') + Cardinality(LateOf(t))
                 <= Cardinality(EntriesOf(hold'.entries, t)) + Cardinality(DropsIn(dropped', t))
    <3>1. e \in h.entries /\ e.title = t
      BY DEF EntriesOf
    <3>2. \A id \in Unseen(t) \ Aside(h) : id \in ids
      BY <1>4, <2>4, <3>1
    <3>3. Loose(t)' \subseteq OldIn(cases, told, t, Aside(h))
      <4>1. \A i \in Loose(t)' : i \in Unseen(t) /\ i \in Aside(h)
        BY <1>9, <3>2
      <4> QED BY <4>1 DEF Unseen, OldIn
    <3>4. Cardinality(OldIn(cases, told, t, Aside(h))) <= Cardinality(DropsIn(dropped, t))
      BY <1>4, <3>1 DEF Fits
    <3>5. OldIn(cases, told, t, Aside(h)) \subseteq Unseen(t)
      BY DEF OldIn, Unseen
    <3>6. IsFiniteSet(OldIn(cases, told, t, Aside(h))) /\ Cardinality(OldIn(cases, told, t, Aside(h))) \in Nat
      BY <1>13, <3>5, CountSubset, CountType
    <3>7. Cardinality(Loose(t)') <= Cardinality(OldIn(cases, told, t, Aside(h)))
      BY <3>3, <3>6, CountSubset
    <3>8. Cardinality(LateOf(t)) = 0
      BY <1>4, <1>16, <3>1
    <3> QED BY <1>13, <1>14, <1>15, <3>4, <3>6, <3>7, <3>8
  <2> QED BY <2>2, <2>3, <2>4
<1>19. Cardinality(UnknownOf(t)') = 0
  BY <1>8, <1>16
<1>20. BalancedAt(t)' <=> Cardinality(Loose(t)') + Cardinality(LateOf(t)')
        <= Cardinality(EntriesOf(hold'.entries, t)) + Cardinality(DropsIn(dropped', t))
           + Cardinality(UnknownOf(t)') + Pending(t)'
  BY DEF BalancedAt
<1> QED BY <1>8, <1>13, <1>14, <1>18, <1>19, <1>20

-----------------------------------------------------------------------------
\* The creates of a lost batch with a title are the claimants of the lookup.
LEMMA LostAre ==
  ASSUME CInv, NEW t
  PROVE  /\ Claimants(LostCreates, t) = WireOf(t)
         /\ DOMAIN LostCreates \subseteq Nat /\ IsFiniteSet(DOMAIN LostCreates)
<1>1. DOMAIN LostCreates = {o \in wire : sent[o].uid = 0} /\ \A o \in DOMAIN LostCreates : LostCreates[o] = sent[o].title
  BY DEF LostCreates
<1>2. IsFiniteSet(DOMAIN LostCreates)
  <2>1. DOMAIN LostCreates \subseteq wire
    BY <1>1
  <2> QED BY <2>1, WireFinite, FS_Subset
<1>3. DOMAIN LostCreates \subseteq Nat
  <2>1. Len(results) + 1 \in Nat
    <3>1. results \in Seq(Result)
      BY CTypes DEF TypeOK
    <3>2. Len(results) \in Nat
      BY <3>1
    <3> QED BY <3>2
  <2>2. wire \subseteq (Len(results) + 1)..Len(sent)
    BY CTypes DEF TypeOK
  <2>3. sent \in Seq(Request)
    BY CTypes DEF TypeOK
  <2>4. Len(sent) \in Nat
    BY <2>3
  <2> HIDE DEF LostCreates
  <2>5. wire \subseteq Nat
    BY <2>1, <2>2, <2>4
  <2> QED BY <1>1, <2>5
<1>4. Claimants(LostCreates, t) = WireOf(t)
  BY <1>1 DEF Claimants, WireOf
<1> QED BY <1>2, <1>3, <1>4

\* What a lookup finds under a title: the cases since the bound, less what
\* was reported.
LEMMA PoolIs ==
  ASSUME CInv, NEW t, WireOf(t) # {}
  PROVE  Pool(Candidates, t) = {id \in DOMAIN cases : id > cut /\ cases[id].title = t /\ id \notin Reported}
<1> DEFINE asked == {LostCreates[p] : p \in DOMAIN LostCreates}
<1>1. t \in asked
  BY LostAre DEF Claimants
<1> HIDE DEF asked
<1>2. Candidates = {f \in CreatedSince(cut, asked) : f.id \notin Reported}
  BY DEF Candidates, asked
<1>3. ASSUME NEW id \in DOMAIN cases, id > cut, cases[id].title = t, id \notin Reported
      PROVE  id \in Pool(Candidates, t)
  <2> DEFINE f == [id |-> id, title |-> t]
  <2>1. f \in [id : DOMAIN cases, title : asked] /\ f.id = id /\ f.title = t
    BY <1>1
  <2> HIDE DEF f
  <2>2. f \in Candidates
    BY <1>2, <1>3, <2>1 DEF CreatedSince
  <2> QED BY <2>1, <2>2 DEF Pool
<1>4. ASSUME NEW id \in Pool(Candidates, t)
      PROVE  id \in DOMAIN cases /\ id > cut /\ cases[id].title = t /\ id \notin Reported
  <2>1. PICK f \in Candidates : f.id = id /\ f.title = t
    BY DEF Pool
  <2> QED BY <1>2, <2>1 DEF CreatedSince
<1> QED BY <1>3, <1>4

\* A lookup finds finitely many cases.
LEMMA PoolFinite ==
  ASSUME CInv, NEW t
  PROVE  Pool(Candidates, t) \subseteq DOMAIN cases /\ Pool(Candidates, t) \subseteq Nat /\ IsFiniteSet(Pool(Candidates, t))
<1>1. Pool(Candidates, t) \subseteq DOMAIN cases
  BY DEF Pool, Candidates, CreatedSince
<1>2. DOMAIN cases \subseteq Nat
  BY CTypes
<1> QED BY <1>1, <1>2, CasesFinite, FS_Subset

\* A lost create is reported as created only with the id of its pair, and
\* every id of a pair is reported.
LEMMA LostPairs ==
  ASSUME CInv, NEW t, NEW p \in WireOf(t)
  PROVE  /\ t \in Ambiguous(LostCreates, Candidates) => LostCreate(p, Candidates) = Unknown
         /\ timedOut => LostCreate(p, Candidates) = Unknown \/ LostCreate(p, Candidates).did = "created"
         /\ LostCreate(p, Candidates).did = "created" =>
              <<p, LostCreate(p, Candidates).id>> \in Pairs(LostCreates, Candidates)
         /\ \A id : <<p, id>> \in Pairs(LostCreates, Candidates) =>
              LostCreate(p, Candidates).did = "created" /\ LostCreate(p, Candidates).id = id
<1>1. p \in DOMAIN LostCreates /\ LostCreates[p] = t /\ sent[p].title = t
  BY LostAre DEF Claimants, WireOf
<1>2. t \in Ambiguous(LostCreates, Candidates) => \A id : <<p, id>> \notin Pairs(LostCreates, Candidates)
  BY <1>1, PairsAgree
<1>3. TypeOK
  BY CTypes
<1>4. ASSUME NEW id, <<p, id>> \in Pairs(LostCreates, Candidates)
      PROVE  LostCreate(p, Candidates).did = "created" /\ LostCreate(p, Candidates).id = id
  <2>1. id \in DOMAIN cases
    <3>1. PICK f \in Candidates : f.id = id
      BY <1>4, PairsAgree
    <3> QED BY <3>1 DEF Candidates, CreatedSince
  <2>2. LostCreate(p, Candidates).did = "created"
    BY <1>4, <2>1 DEF LostCreate
  <2>3. <<p, LostCreate(p, Candidates).id>> \in Pairs(LostCreates, Candidates)
    BY <1>3, <2>2, LostCreateType
  <2>4. \A f \in Candidates : f.id \in Nat
    <3>1. \A f \in Candidates : f.id \in DOMAIN cases
      BY DEF Candidates, CreatedSince
    <3> QED BY <3>1, CTypes
  <2>5. IsFiniteSet(Pool(Candidates, LostCreates[p]))
    BY PoolFinite
  <2>6. LostCreate(p, Candidates).id = id
    BY <1>4, <2>3, <2>4, <2>5, PairsFunctional
  <2> QED BY <2>2, <2>6
<1>5. LostCreate(p, Candidates).did = "created" => <<p, LostCreate(p, Candidates).id>> \in Pairs(LostCreates, Candidates)
  BY <1>3, LostCreateType
<1>6. timedOut => LostCreate(p, Candidates) = Unknown \/ LostCreate(p, Candidates).did = "created"
  BY DEF LostCreate
<1>7. t \in Ambiguous(LostCreates, Candidates) => LostCreate(p, Candidates) = Unknown
  BY <1>1, <1>2 DEF LostCreate
<1> QED BY <1>4, <1>5, <1>6, <1>7

\* A case the loop has the answer for, and nothing else accounts for, is one
\* a create on the wire made.
LEMMA GotOf ==
  ASSUME CInv, NEW t, NEW i \in Unseen(t), i \notin CreatedIds, i \notin Loose(t)
  PROVE  \E o \in WireOf(t) \cap DOMAIN got : got[o] = i
<1>1. i \in DOMAIN cases /\ i \notin told /\ cases[i].title = t
  BY DEF Unseen
<1>2. PICK o \in DOMAIN got : got[o] = i
  BY DEF Loose, GotIds
<1>3. i # 0 /\ o \in wire
  BY <1>1, CTypes DEF TypeOK
<1>4. sent[o].uid = 0
  <2>1. ASSUME sent[o].uid # 0 PROVE FALSE
    <3>1. got[o] = sent[o].uid /\ sent[o].uid \in told
      BY <1>2, <1>3, <2>1, CTypes DEF CInv, CParts, OnWire, SentTold
    <3> QED BY <1>1, <1>2, <3>1
  <2> QED BY <2>1
<1>5. sent[o].title = t
  BY <1>1, <1>2, <1>3, <1>4 DEF CInv, CParts, OnWire
<1> QED BY <1>2, <1>3, <1>4, <1>5 DEF WireOf

\* What Resolve adds to the reports.
LEMMA ResolveAdds ==
  ASSUME CInv, NEW outcome, NEW blind, ResolveReport(outcome, blind),
         UNCHANGED <<cases, told, sent>>, NEW t
  PROVE  /\ CreatedIds \subseteq CreatedIds'
         /\ \A p \in wire : outcome[p].did = "created" => outcome[p].id \in CreatedIds'
         /\ UnknownOf(t)' = UnknownOf(t) \cup {p \in WireOf(t) : outcome[p].did = "unknown"}
         /\ UnknownOf(t) \cap WireOf(t) = {}
<1>1. Report(outcome) /\ \A p \in wire : outcome[p] \in Result
  BY DEF ResolveReport
<1>2. TypeOK /\ WireInChunk
  BY CTypes DEF CInv, CParts
<1>3. /\ \A p \in DOMAIN results : results'[p] = results[p]
      /\ \A p \in wire : results'[p] = outcome[p]
      /\ \A what : what # "failed" => Did(what)' = Did(what) \cup {p \in wire : outcome[p].did = what}
      /\ \A what : Did(what) \cap wire = {}
  BY <1>1, <1>2, ReportAdds
<1>4. Did("created")' = Did("created") \cup {p \in wire : outcome[p].did = "created"}
      /\ Did("unknown")' = Did("unknown") \cup {p \in wire : outcome[p].did = "unknown"}
  BY <1>3
<1>5. Did("created") \subseteq DOMAIN results
  BY DEF Did
<1>6. ASSUME NEW p \in wire, outcome[p].did = "unknown" PROVE sent[p].uid = 0
  BY <1>6 DEF ResolveReport, Failed
<1> HIDE DEF Did
<1>7. CreatedIds \subseteq CreatedIds'
  BY <1>3, <1>4, <1>5 DEF CreatedIds
<1>8. \A p \in wire : outcome[p].did = "created" => outcome[p].id \in CreatedIds'
  <2>1. ASSUME NEW p \in wire, outcome[p].did = "created" PROVE outcome[p].id \in CreatedIds'
    <3>1. p \in Did("created")' /\ results'[p].id = outcome[p].id
      BY <1>3, <1>4, <2>1
    <3> QED BY <3>1 DEF CreatedIds
  <2> QED BY <2>1
<1>9. UnknownOf(t)' = UnknownOf(t) \cup {p \in WireOf(t) : outcome[p].did = "unknown"}
  BY <1>4, <1>6 DEF UnknownOf, WireOf
<1>10. UnknownOf(t) \cap WireOf(t) = {}
  BY <1>3 DEF UnknownOf, WireOf
<1> QED BY <1>7, <1>8, <1>9, <1>10

-----------------------------------------------------------------------------
\* The cases a lost batch made under a title, and the creates that made them.
Ran(t) == WireOf(t) \cap DOMAIN got

\* The creates of a lost batch are those that ran and those that did not.
LEMMA RanCounts ==
  ASSUME CInv, NEW t \in Titles
  PROVE  /\ IsFiniteSet(Ran(t)) /\ Cardinality(Ran(t)) \in Nat
         /\ Cardinality(WireOf(t)) = Cardinality(Unrun(t)) + Cardinality(Ran(t))
         /\ IsFiniteSet({got[o] : o \in Ran(t)}) /\ Cardinality({got[o] : o \in Ran(t)}) <= Cardinality(Ran(t))
         /\ Cardinality({got[o] : o \in Ran(t)}) \in Nat
<1>1. IsFiniteSet(WireOf(t)) /\ IsFiniteSet(Unrun(t))
  BY Counts
<1>2. IsFiniteSet(Ran(t)) /\ Cardinality(Ran(t)) \in Nat
  BY <1>1, FS_Subset, FS_CardinalityType DEF Ran
<1>3. Unrun(t) \cap Ran(t) = {} /\ WireOf(t) = Unrun(t) \cup Ran(t)
  BY DEF Unrun, Ran
<1>4. Cardinality(WireOf(t)) = Cardinality(Unrun(t)) + Cardinality(Ran(t))
  BY <1>1, <1>2, <1>3, CountApart
<1> DEFINE f == [o \in Ran(t) |-> got[o]]
<1>5. DOMAIN f = Ran(t) /\ {f[o] : o \in Ran(t)} = {got[o] : o \in Ran(t)}
  OBVIOUS
<1> HIDE DEF f
<1>6. IsFiniteSet({f[o] : o \in Ran(t)}) /\ Cardinality({f[o] : o \in Ran(t)}) <= Cardinality(Ran(t))
  BY <1>2, <1>5, CountImage
<1>7. IsFiniteSet({got[o] : o \in Ran(t)}) /\ Cardinality({got[o] : o \in Ran(t)}) <= Cardinality(Ran(t))
  BY <1>5, <1>6
<1> QED BY <1>2, <1>4, <1>7, CountType

\* After a lost batch is put away, what it made and did not report is loose.
LEMMA LooseAfter ==
  ASSUME CInv, NEW t, UNCHANGED <<cases, told>>, got' = [p \in {} |-> 0], CreatedIds \subseteq CreatedIds'
  PROVE  Loose(t)' = Unseen(t) \ CreatedIds' /\ Loose(t)' \subseteq Loose(t) \cup {got[o] : o \in Ran(t)}
<1>1. GotIds' = {} /\ Unseen(t)' = Unseen(t)
  BY DEF GotIds, Unseen
<1>2. Loose(t)' = Unseen(t) \ CreatedIds'
  BY <1>1 DEF Loose
<1>3. ASSUME NEW i \in Loose(t)', i \notin Loose(t) PROVE i \in {got[o] : o \in Ran(t)}
  <2>1. i \in Unseen(t) /\ i \notin CreatedIds
    BY <1>2, <1>3
  <2> QED BY <1>3, <2>1, GotOf DEF Ran
<1> QED BY <1>2, <1>3

\* Nothing is known of a lost batch: every create of the title is unknown.
LEMMA BlindCounts ==
  ASSUME CInv, CInv', NEW t \in Titles,
         Loose(t)' \subseteq Loose(t) \cup {got[o] : o \in Ran(t)}
  PROVE  Cardinality(Loose(t)') + Pending(t) <= Cardinality(Loose(t)) + Cardinality(WireOf(t))
<1> DEFINE G == {got[o] : o \in Ran(t)}
<1>1. /\ IsFiniteSet(Loose(t)) /\ Cardinality(Loose(t)) \in Nat /\ Cardinality(Unrun(t)) \in Nat
      /\ Cardinality(WireOf(t)) \in Nat
  BY Counts
<1>2. /\ Cardinality(Ran(t)) \in Nat /\ Cardinality(WireOf(t)) = Cardinality(Unrun(t)) + Cardinality(Ran(t))
      /\ IsFiniteSet(G) /\ Cardinality(G) <= Cardinality(Ran(t)) /\ Cardinality(G) \in Nat
  BY RanCounts
<1> HIDE DEF G
<1>3. IsFiniteSet(Loose(t) \cup G) /\ Cardinality(Loose(t) \cup G) <= Cardinality(Loose(t)) + Cardinality(G)
  BY <1>1, <1>2, CountUnion
<1>4. Cardinality(Loose(t)') <= Cardinality(Loose(t) \cup G) /\ Cardinality(Loose(t) \cup G) \in Nat
  BY <1>3, CountSubset, CountType DEF G
<1>5. Cardinality(Loose(t)') \in Nat
  BY CountsNext
<1>6. Pending(t) <= Cardinality(Unrun(t)) /\ Pending(t) \in Nat
  BY <1>1 DEF Pending
<1> QED BY <1>1, <1>2, <1>3, <1>4, <1>5, <1>6

\* The lookup can tell the title: every case it found is reported, so no case
\* of the batch is left that is not.
LEMMA FoundReported ==
  ASSUME CInv, stage = "uploading", NEW t \in Titles, WireOf(t) # {},
         \A f \in Candidates : ~(f.id <= begun) /\ cases[f.id].by # Nobody,
         t \notin Ambiguous(LostCreates, Candidates),
         NEW outcome, \A p \in WireOf(t) : outcome[p] = LostCreate(p, Candidates),
         \A p \in wire : outcome[p].did = "created" => outcome[p].id \in CreatedIds',
         CreatedIds \subseteq CreatedIds',
         Loose(t)' = Unseen(t) \ CreatedIds'
  PROVE  /\ Pool(Candidates, t) \subseteq CreatedIds'
         /\ Loose(t)' \subseteq Loose(t)
         /\ Pool(Candidates, t) \subseteq Loose(t) \cup {got[o] : o \in Ran(t)}
<1>1. Pool(Candidates, t) = {id \in DOMAIN cases : id > cut /\ cases[id].title = t /\ id \notin Reported}
  BY PoolIs
<1>2. ASSUME NEW id \in Pool(Candidates, t) PROVE id \in CreatedIds'
  <2>1. PICK i \in Claimants(LostCreates, t) : <<i, id>> \in Pairs(LostCreates, Candidates)
    BY LostAre, PoolFinite, PoolPaired
  <2>2. i \in WireOf(t) /\ i \in wire
    BY LostAre DEF WireOf
  <2>3. outcome[i].did = "created" /\ outcome[i].id = id
    BY <2>1, <2>2, LostPairs
  <2> QED BY <2>2, <2>3
<1>3. /\ told \subseteq 1..begun /\ begun \in Nat /\ cut <= begun /\ cut \in Nat
      /\ \A o \in DOMAIN got : got[o] # 0 /\ sent[o].uid = 0 => got[o] > begun
  BY CTypes DEF CInv, AInv, AParts, SinceBegun
<1>4. ASSUME NEW i \in Loose(t)', i \notin Loose(t) PROVE FALSE
  <2>1. i \in Unseen(t) /\ i \notin CreatedIds /\ i \notin CreatedIds'
    BY <1>4
  <2>2. PICK o \in WireOf(t) \cap DOMAIN got : got[o] = i
    BY <1>4, <2>1, GotOf
  <2>3. i \in DOMAIN cases /\ i \notin told /\ cases[i].title = t /\ i # 0
    BY <2>1, CTypes DEF Unseen
  <2>4. i > cut
    <3>1. i > begun /\ i \in Nat
      BY <1>3, <2>2, <2>3, CTypes DEF WireOf
    <3> QED BY <1>3, <3>1
  <2>5. i \notin Reported
    <3>1. ASSUME NEW q \in DOMAIN results, results[q].id = i PROVE FALSE
      <4>1. results[q].did \in {"created", "updated", "failed", "unknown"}
        <5>1. results[q] \in Result
          BY CTypes DEF TypeOK
        <5> QED BY <5>1 DEF Result
      <4>2. results[q].did # "created"
        BY <2>1, <3>1 DEF CreatedIds, Did
      <4>3. results[q].did # "updated"
        BY <2>3, <3>1 DEF CInv, CParts, ResultIds
      <4>4. results[q].did \notin {"failed", "unknown"}
        BY <2>3, <3>1 DEF CInv, CParts, ResultIds
      <4> QED BY <4>1, <4>2, <4>3, <4>4
    <3> QED BY <3>1 DEF Reported
  <2> QED BY <1>1, <1>2, <2>1, <2>3, <2>4, <2>5
<1>5. ASSUME NEW i \in Pool(Candidates, t), i \notin Loose(t) PROVE i \in {got[o] : o \in Ran(t)}
  <2>1. i \in DOMAIN cases /\ cases[i].title = t /\ i \notin Reported
    BY <1>1, <1>5
  <2>2. ~(i <= begun) /\ cases[i].by # Nobody
    BY <1>5 DEF Pool
  <2>3. i \notin told
    <3>1. i \in Nat /\ i \notin 1..begun
      BY <1>3, <2>1, <2>2, CTypes
    <3> QED BY <1>3, <3>1
  <2>4. i \in Unseen(t)
    BY <2>1, <2>3, <2>2 DEF Unseen
  <2>5. i \notin CreatedIds
    BY <2>1 DEF CreatedIds, Did, Reported
  <2> QED BY <1>5, <2>4, <2>5, GotOf DEF Ran
<1> QED BY <1>2, <1>4, <1>5

\* No more creates are reported with a pair than cases were found.
LEMMA CreatedFew ==
  ASSUME CInv, NEW t \in Titles,
         NEW outcome, \A p \in WireOf(t) : outcome[p] = LostCreate(p, Candidates)
  PROVE  /\ IsFiniteSet({p \in WireOf(t) : outcome[p].did = "created"})
         /\ Cardinality({p \in WireOf(t) : outcome[p].did = "created"}) <= Cardinality(Pool(Candidates, t))
<1> DEFINE C == {p \in WireOf(t) : outcome[p].did = "created"}
           T == Pool(Candidates, t)
           f == [p \in C |-> outcome[p].id]
<1>1. \A p \in C : <<p, f[p]>> \in Pairs(LostCreates, Candidates)
  BY LostPairs
<1>2. f \in [C -> T]
  <2>1. ASSUME NEW p \in C PROVE f[p] \in T
    <3>1. LostCreates[p] = t
      BY LostAre DEF Claimants
    <3>2. <<p, f[p]>> \in Pairs(LostCreates, Candidates)
      BY <1>1
    <3> HIDE DEF f
    <3>3. \E g \in Candidates : g.id = f[p] /\ g.title = t
      BY <3>1, <3>2, PairsAgree
    <3> QED BY <3>3 DEF Pool
  <2> HIDE DEF T
  <2> QED BY <2>1
<1>3. \A p, q \in C : f[p] = f[q] => p = q
  <2>1. DOMAIN LostCreates \subseteq Nat /\ IsFiniteSet(DOMAIN LostCreates)
    BY LostAre
  <2>2. \A g, k \in Candidates : g.id = k.id => g.title = k.title
    BY CandidatesNew
  <2> HIDE DEF f, C
  <2>3. ASSUME NEW p \in C, NEW q \in C, f[p] = f[q] PROVE p = q
    <3>1. <<p, f[p]>> \in Pairs(LostCreates, Candidates) /\ <<q, f[p]>> \in Pairs(LostCreates, Candidates)
      BY <1>1, <2>3
    <3> QED BY <2>1, <2>2, <3>1, PairsInjective
  <2> QED BY <2>3
<1>4. IsFiniteSet(T)
  BY PoolFinite
<1> HIDE DEF f, C, T
<1>5. IsFiniteSet(C) /\ Cardinality(C) <= Cardinality(T)
  BY <1>2, <1>3, <1>4, CountInto
<1> QED BY <1>5 DEF C, T

-----------------------------------------------------------------------------
\* The lookup can tell the title.
LEMMA FoundCounts ==
  ASSUME CInv, CInv', stage = "uploading", NEW t \in Titles, WireOf(t) # {},
         \A f \in Candidates : ~(f.id <= begun) /\ cases[f.id].by # Nobody,
         t \notin Ambiguous(LostCreates, Candidates),
         NEW outcome, \A p \in WireOf(t) : outcome[p] = LostCreate(p, Candidates),
         \A p \in wire : outcome[p].did = "created" => outcome[p].id \in CreatedIds',
         CreatedIds \subseteq CreatedIds', loop = "looking",
         Loose(t)' = Unseen(t) \ CreatedIds'
  PROVE  Cardinality(Loose(t)') + Pending(t)
           <= Cardinality(Loose(t)) + Cardinality({p \in WireOf(t) : outcome[p].did = "unknown"})
<1> DEFINE F == Pool(Candidates, t)
           G == {got[o] : o \in Ran(t)}
           N == {p \in WireOf(t) : outcome[p].did = "unknown"}
           C == {p \in WireOf(t) : outcome[p].did = "created"}
           K == Loose(t) \cap F
<1>1. F \subseteq CreatedIds' /\ Loose(t)' \subseteq Loose(t) /\ F \subseteq Loose(t) \cup G
  BY FoundReported
<1>2. /\ IsFiniteSet(Loose(t)) /\ Cardinality(Loose(t)) \in Nat /\ Cardinality(Unrun(t)) \in Nat
      /\ IsFiniteSet(WireOf(t)) /\ Cardinality(WireOf(t)) \in Nat
  BY Counts
<1>3. /\ Cardinality(Ran(t)) \in Nat /\ Cardinality(WireOf(t)) = Cardinality(Unrun(t)) + Cardinality(Ran(t))
      /\ IsFiniteSet(G) /\ Cardinality(G) <= Cardinality(Ran(t)) /\ Cardinality(G) \in Nat
  BY RanCounts
<1>4. IsFiniteSet(C) /\ Cardinality(C) <= Cardinality(F)
  BY CreatedFew
<1>5. IsFiniteSet(F) /\ Cardinality(F) \in Nat
  BY PoolFinite, CountType
<1>6. Cardinality(C) \in Nat /\ IsFiniteSet(N) /\ Cardinality(N) \in Nat
  BY <1>2, <1>4, CountSubset, CountType
<1>7. Cardinality(Loose(t)') \in Nat
  BY CountsNext
<1>8. IsFiniteSet(K) /\ Cardinality(K) \in Nat
  BY <1>2, CountSubset, CountType
<1>9. CASE ~timedOut
  <2>1. Pending(t) = 0
    BY <1>9 DEF Pending
  <2>2. Cardinality(Loose(t)') <= Cardinality(Loose(t))
    BY <1>1, <1>2, CountSubset
  <2> QED BY <1>2, <1>6, <1>7, <2>1, <2>2
<1>10. CASE timedOut
  <2>1. Pending(t) = Cardinality(Unrun(t))
    BY <1>10 DEF Pending
  <2>2. WireOf(t) = C \cup N /\ C \cap N = {}
    <3>1. ASSUME NEW p \in WireOf(t) PROVE outcome[p].did \in {"unknown", "created"}
      <4>1. outcome[p] = Unknown \/ outcome[p].did = "created"
        BY <1>10, LostPairs
      <4> QED BY <4>1 DEF Unknown
    <3> QED BY <3>1
  <2>3. Cardinality(WireOf(t)) = Cardinality(C) + Cardinality(N)
    <3> HIDE DEF C, N
    <3> QED BY <1>4, <1>6, <2>2, CountApart
  <2>4. Cardinality(Loose(t)') + Cardinality(K) <= Cardinality(Loose(t))
    <3>1. Loose(t)' \cap K = {} /\ Loose(t)' \cup K \subseteq Loose(t)
      BY <1>1
    <3>2. IsFiniteSet(Loose(t)')
      BY CountsNext
    <3> HIDE DEF K
    <3>3. Cardinality(Loose(t)' \cup K) = Cardinality(Loose(t)') + Cardinality(K)
      BY <1>8, <3>1, <3>2, CountApart
    <3>4. Cardinality(Loose(t)' \cup K) <= Cardinality(Loose(t))
      BY <1>2, <3>1, CountSubset
    <3> QED BY <3>3, <3>4
  <2>5. Cardinality(F) <= Cardinality(K) + Cardinality(G)
    <3>1. F \subseteq K \cup G
      BY <1>1
    <3> HIDE DEF F, K, G
    <3>2. IsFiniteSet(K \cup G) /\ Cardinality(K \cup G) <= Cardinality(K) + Cardinality(G)
      BY <1>3, <1>8, CountUnion
    <3>3. Cardinality(F) <= Cardinality(K \cup G) /\ Cardinality(K \cup G) \in Nat
      BY <3>1, <3>2, CountSubset, CountType
    <3> QED BY <1>3, <1>5, <1>8, <3>2, <3>3
  <2> HIDE DEF F, G, N, C, K
  <2>6. Cardinality(Loose(t)') + Pending(t) <= Cardinality(Loose(t)) + Cardinality(N)
    BY <1>2, <1>3, <1>4, <1>5, <1>6, <1>7, <1>8, <2>1, <2>3, <2>4, <2>5
  <2> QED BY <2>6 DEF N
<1> QED BY <1>9, <1>10 DEF N

\* A lost batch, looked up: what is not reported as created is unknown, or
\* it was never made and never will be.
LEMMA ResolveBalanced ==
  ASSUME NothingCrosses, CInv, CInv', NEW t \in Titles, BalancedAt(t), NEW landed, Resolve(landed)
  PROVE  BalancedAt(t)'
<1>1. PICK outcome : \E blind \in BOOLEAN : ResolveReport(outcome, blind)
  BY CTypes, ResolveShows
<1>2. PICK blind \in BOOLEAN : ResolveReport(outcome, blind)
  BY <1>1
<1>3. /\ UNCHANGED <<cases, late, told, sent, hold, dropped>> /\ loop = "looking" /\ loop' = "sending"
      /\ got' = [p \in {} |-> 0] /\ stage = "uploading"
  BY CTypes DEF Resolve, server, held, LoopShown
<1> DEFINE N == {p \in WireOf(t) : outcome[p].did = "unknown"}
<1>4. /\ CreatedIds \subseteq CreatedIds'
      /\ \A p \in wire : outcome[p].did = "created" => outcome[p].id \in CreatedIds'
      /\ UnknownOf(t)' = UnknownOf(t) \cup N
      /\ UnknownOf(t) \cap WireOf(t) = {}
  BY <1>2, <1>3, ResolveAdds
<1>5. Loose(t)' = Unseen(t) \ CreatedIds' /\ Loose(t)' \subseteq Loose(t) \cup {got[o] : o \in Ran(t)}
  BY <1>3, <1>4, LooseAfter
<1>6. \A p \in WireOf(t) : outcome[p] = IF blind THEN Unknown ELSE LostCreate(p, Candidates)
  BY <1>2 DEF ResolveReport, WireOf
<1>7. Cardinality(Loose(t)') + Pending(t) <= Cardinality(Loose(t)) + Cardinality(N)
  <2>1. CASE blind \/ t \in Ambiguous(LostCreates, Candidates)
    <3>1. \A p \in WireOf(t) : outcome[p] = Unknown
      BY <1>6, <2>1, LostPairs
    <3>2. N = WireOf(t)
      BY <3>1 DEF Unknown
    <3>3. Cardinality(Loose(t)') + Pending(t) <= Cardinality(Loose(t)) + Cardinality(WireOf(t))
      BY <1>5, BlindCounts
    <3> QED BY <3>2, <3>3
  <2>2. CASE WireOf(t) = {}
    <3>1. N = WireOf(t)
      BY <2>2
    <3>2. Cardinality(Loose(t)') + Pending(t) <= Cardinality(Loose(t)) + Cardinality(WireOf(t))
      BY <1>5, BlindCounts
    <3> QED BY <3>1, <3>2
  <2>3. CASE ~blind /\ t \notin Ambiguous(LostCreates, Candidates) /\ WireOf(t) # {}
    <3>1. \A p \in WireOf(t) : outcome[p] = LostCreate(p, Candidates)
      BY <1>6, <2>3
    <3>2. \A f \in Candidates : ~(f.id <= begun) /\ cases[f.id].by # Nobody
      BY <1>3 DEF NothingCrosses, KeepsApart, FindsEarlier, FindsStranger, LooksUp
    <3> QED BY <1>3, <1>4, <1>5, <2>3, <3>1, <3>2, FoundCounts
  <2> QED BY <2>1, <2>2, <2>3
<1>8. /\ IsFiniteSet(UnknownOf(t)) /\ IsFiniteSet(WireOf(t)) /\ Cardinality(UnknownOf(t)) \in Nat
      /\ Cardinality(Loose(t)) \in Nat /\ Cardinality(LateOf(t)) \in Nat /\ Pending(t) \in Nat
      /\ Cardinality(EntriesOf(hold.entries, t)) \in Nat /\ Cardinality(DropsIn(dropped, t)) \in Nat
  BY Counts, PendingType
<1>9. IsFiniteSet(N) /\ Cardinality(N) \in Nat /\ UnknownOf(t) \cap N = {}
  BY <1>4, <1>8, CountSubset, CountType
<1> HIDE DEF N
<1>10. Cardinality(UnknownOf(t)') = Cardinality(UnknownOf(t)) + Cardinality(N)
  BY <1>4, <1>8, <1>9, CountApart
<1>11. Cardinality(Loose(t)') \in Nat
  BY CountsNext
<1>12. Pending(t)' = 0 /\ LateOf(t)' = LateOf(t)
  BY <1>3 DEF Pending, LateOf
<1>13. Cardinality(Loose(t)) + Cardinality(LateOf(t))
        <= Cardinality(EntriesOf(hold.entries, t)) + Cardinality(DropsIn(dropped, t))
           + Cardinality(UnknownOf(t)) + Pending(t)
  BY DEF BalancedAt
<1>14. Cardinality(Loose(t)') + Cardinality(LateOf(t))
        <= Cardinality(EntriesOf(hold.entries, t)) + Cardinality(DropsIn(dropped, t))
           + (Cardinality(UnknownOf(t)) + Cardinality(N)) + 0
  BY <1>7, <1>8, <1>9, <1>11, <1>13
<1>15. BalancedAt(t)' <=> Cardinality(Loose(t)') + Cardinality(LateOf(t)')
        <= Cardinality(EntriesOf(hold'.entries, t)) + Cardinality(DropsIn(dropped', t))
           + Cardinality(UnknownOf(t)') + Pending(t)'
  BY DEF BalancedAt
<1> QED BY <1>3, <1>10, <1>12, <1>14, <1>15

-----------------------------------------------------------------------------
\* ... and the balance.
LEMMA BalancedStep ==
  ASSUME NothingCrosses, DInv, CInv', [Next]_vars
  PROVE  Balanced'
<1>1. CInv /\ TypeOK /\ Balanced
  BY CTypes DEF DInv, DParts
<1>2. SUFFICES ASSUME NEW t \in Titles PROVE BalancedAt(t)'
  BY DEF Balanced
<1>3. BalancedAt(t)
  BY <1>1 DEF Balanced
<1>4. CASE UNCHANGED <<rust, cases, hold, dropped>> /\ late' \subseteq late
  BY <1>1, <1>3, <1>4, RestsBalanced
<1>5. CASE User
  <2>1. CASE Release
    BY <2>1, ReleaseBalanced
  <2>2. CASE ~Release
    <3>1. UNCHANGED <<rust, cases, late, hold, dropped>>
      BY <1>5, <2>2 DEF User, AddRow, RemoveRow, Rename, Edit, AcceptDups, Confirm, CheckAsked, server, held
    <3> QED BY <1>4, <3>1
  <2> QED BY <2>1, <2>2
<1>6. CASE Stopped \/ UNCHANGED vars
  <2>1. UNCHANGED <<rust, cases, late, hold, dropped>>
    BY <1>6 DEF Stopped, vars, server, held
  <2> QED BY <1>4, <2>1
<1>7. CASE App
  BY <1>1, <1>3, <1>6, <1>7, StartBalanced, ChunkNotSentBalanced, SendChunkBalanced, BatchAnsweredBalanced,
     ResolveBalanced, UploadDoneBalanced, CheckAppliedBalanced DEF App
<1>8. ASSUME NEW c, CheckAnswered(c) \/ CheckFailed(c) PROVE BalancedAt(t)'
  <2>1. UNCHANGED <<rust, cases, late, hold, dropped>>
    BY <1>8 DEF CheckAnswered, CheckFailed, server, held
  <2> QED BY <1>4, <2>1
<1>9. CASE Network
  BY <1>1, <1>3, <1>8, <1>9, BatchLostBalanced DEF Network
<1>10. CASE Server
  BY <1>1, <1>3, <1>10, ColleagueBalanced, ServerRunsBalanced, LateRunsBalanced DEF Server
<1> QED BY <1>5, <1>6, <1>7, <1>9, <1>10 DEF Next

\* DInv is inductive.
LEMMA DInvInit ==
  ASSUME Init
  PROVE  DInv
<1>1. CInv
  BY CInvInit
<1>2. /\ cases = <<>> /\ late = {} /\ hold = NoHold /\ stage = "idle" /\ loop = "none"
      /\ check = [c \in Checkers |-> NoCheck] /\ dropped = {}
  BY DEF Init
<1>3. HoldFits
  <2>1. Len(cases) \in Nat
    BY <1>1, CTypes
  <2> QED BY <1>2, <2>1, NothingFits DEF HoldFits
<1>4. Going /\ Released /\ Tags
  BY <1>2 DEF Going, Released, Tags, NoHold
<1>5. Checks
  BY <1>2 DEF Checks, NoCheck
<1>6. ASSUME NEW t \in Titles PROVE BalancedAt(t)
  <2>1. Loose(t) = Unseen(t) /\ UnknownOf(t) = {} /\ Pending(t) = 0
    BY <1>1, <1>2, IdleCounts
  <2>2. Unseen(t) = {} /\ LateOf(t) = {} /\ EntriesOf(hold.entries, t) = {} /\ DropsIn(dropped, t) = {}
    BY <1>2 DEF Unseen, LateOf, EntriesOf, NoHold, DropsIn
  <2>3. Cardinality({}) = 0
    BY FS_EmptySet
  <2> QED BY <2>1, <2>2, <2>3 DEF BalancedAt
<1> QED BY <1>1, <1>3, <1>4, <1>5, <1>6 DEF DInv, DParts, Balanced

LEMMA DInvStep ==
  ASSUME NothingCrosses, DInv, [Next]_vars
  PROVE  DInv'
<1>1. CInv'
  BY CInvStep DEF DInv
<1> QED BY <1>1, HoldFitsStep, GoingStep, ReleasedStep, ChecksStep, TagsStep, BalancedStep DEF DInv, DParts

\* "Each may exist, and uploading it again could make a duplicate this app
\* cannot delete.  So they are held": between uploads every case the app made
\* is on a row, was named in a warning, or has an entry in the hold (or had
\* one, which went without a Check or a Release), until something has crossed
\* that the code does not keep apart: a lookup, with its five minute margin,
\* finds a case that is older than the upload or a colleague's, an upload or
\* another Check begins beside a Check, or the server works on at a batch that
\* failed with an error, or at a create of the hold when its Check is answered.
THEOREM NothingForgottenHolds ==
  HSpec => [](crossed = {} => NothingForgotten)
<1> DEFINE Clear == crossed = {}
           Inv == IInv /\ (Clear => DInv)
<1>1. HInit => Inv
  BY DInvInit DEF HInit, DInv, CInv, AInv
<1>2. Inv /\ [HNext]_hvars => Inv'
  <2> SUFFICES ASSUME Inv, [HNext]_hvars PROVE Inv'
    OBVIOUS
  <2>1. IInv'
    BY IInvStep, HistoryStep
  <2>2. ASSUME Clear' PROVE DInv'
    <3>1. crossed \subseteq crossed'
      BY HistoryStep
    <3>2. Clear
      BY <2>2, <3>1
    <3>3. NothingCrosses
      BY <2>2, HistoryStep DEF NothingCrosses, KeepsApart
    <3>4. [Next]_vars
      BY HistoryStep
    <3> QED BY <3>2, <3>3, <3>4, DInvStep
  <2> QED BY <2>1, <2>2
<1>3. DInv => NothingForgotten
  <2> SUFFICES ASSUME DInv, stage # "uploading", NEW t \in Titles
               PROVE  Cardinality(Unseen(t)) <=
                        Cardinality(EntriesOf(hold.entries, t)) + Cardinality({d \in dropped : d[1].title = t})
    BY DEF NothingForgotten
  <2>1. CInv /\ BalancedAt(t)
    BY DEF DInv, DParts, Balanced
  <2>2. loop = "none"
    BY <2>1, CTypes DEF LoopShown
  <2>3. Loose(t) = Unseen(t) /\ Pending(t) = 0 /\ Cardinality(UnknownOf(t)) = 0
    BY <2>1, <2>2, IdleCounts
  <2>4. /\ Cardinality(Unseen(t)) \in Nat /\ Cardinality(LateOf(t)) \in Nat
        /\ Cardinality(EntriesOf(hold.entries, t)) \in Nat /\ Cardinality(DropsIn(dropped, t)) \in Nat
    BY <2>1, Counts
  <2>5. Cardinality(Unseen(t)) <= Cardinality(EntriesOf(hold.entries, t)) + Cardinality(DropsIn(dropped, t))
    BY <2>1, <2>3, <2>4 DEF BalancedAt
  <2> QED BY <2>5 DEF DropsIn
<1>4. Inv => (Clear => NothingForgotten)
  BY <1>3
<1> QED BY <1>1, <1>2, <1>4, PTL DEF HSpec
=============================================================================
