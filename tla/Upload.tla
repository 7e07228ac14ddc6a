------------------------------- MODULE Upload -------------------------------
(***************************************************************************)
(* One PBI's upload, end to end: the queue screen (QueueSection.tsx), the  *)
(* loop that sends the queue in batches (submit_queue in queue.rs), Azure  *)
(* DevOps behind it, and the hold that keeps a row whose outcome nobody    *)
(* knows from being created twice (uploadHold.ts).                         *)
(*                                                                         *)
(* Azure DevOps' test cases are a sequence; a case's id is its place in    *)
(* it, so ids ascend as the server hands them out.  Time is the number of  *)
(* cases there were: `cut` is how many existed before the lookup's lower   *)
(* bound.                                                                  *)
(***************************************************************************)
EXTENDS Holds, Sequences

CONSTANTS BatchSize,     \* requests in one $batch (MAX_PER_BATCH)
          EarlyBy,       \* how many older cases the 5 minute margin reaches
          Checkers,      \* mounts of the queue screen that may run a Check
          UploadBesideCheck, \* an upload may start while a Check is out
          Timeouts,      \* batches may time out with the server still at work
          LateAfterError, \* ... or fail at once with the server still at work
          LateAfterCheck, \* it may be at work even when a Check is answered
          MaxCases, MaxUploads, MaxEdits, MaxColleague   \* bounds

ASSUME UploadAssumption ==
  /\ BatchSize \in Nat \ {0}
  /\ EarlyBy \in Nat
  /\ UploadBesideCheck \in BOOLEAN
  /\ Timeouts \in BOOLEAN
  /\ LateAfterError \in BOOLEAN
  /\ LateAfterCheck \in BOOLEAN
  /\ {MaxCases, MaxUploads, MaxEdits, MaxColleague} \subseteq Nat

VARIABLES cases,     \* Azure DevOps: id -> [title, by]
          late,      \* requests of lost batches the server still works on
          queue,     \* the queue, on screen and in the saved draft
          hold,      \* the stored hold
          stage,     \* "idle", "confirming" or "uploading"
          shown,     \* the create titles the confirming click closed over
          known,     \* the titles of the last good read of the PBI
          accepted,  \* titles "Create duplicates anyway" was said to
          loop,      \* submit_queue: "none", "sending", "waiting", "looking"
          sent,      \* the rows it was given, as they were
          cut,       \* how many cases are older than its lookups reach
          known0,    \* how many cases the PBI was known to have before it
          results,   \* what it has reported so far
          wire,      \* the positions in the batch under way
          got,       \* what the server did with those it reached
          timedOut,  \* the batch under way failed by its deadline
          check,     \* each mount's Check
          told,      \* history: the case ids the user was shown
          dropped,   \* history: hold entries no Check and no Release let go,
                     \* each with the number of uploads there had been
          uploads, edits, strangers   \* counters

server == <<cases, late, strangers>>
screen == <<queue, stage, shown, known, accepted, uploads, edits>>
rust   == <<loop, sent, cut, known0, results, wire, got, timedOut>>
held   == <<hold, told, dropped>>
vars   == <<server, screen, rust, held, check>>

Nobody == 0
Case == [title : Titles, by : Rows \cup {Nobody}]
Request == [row : Rows, title : Titles, uid : Nat]
Result == [did : {"created", "updated", "failed", "unknown"}, id : Nat]
Found == [id : Nat, title : Titles]
Slot == [title : Titles, rank : Nat, nth : Nat]
Check == [at : {"none", "asked", "answered"}, hold : Hold, slots : SUBSET Slot,
          exclude : SUBSET Nat, found : SUBSET Found, ambiguous : SUBSET Titles]

Failed == [did |-> "failed", id |-> 0]
Unknown == [did |-> "unknown", id |-> 0]

TypeOK ==
  /\ cases \in Seq(Case)
  /\ late \subseteq Request
  /\ queue \in [Rows -> Row]
  /\ hold \in Hold
  /\ stage \in {"idle", "confirming", "uploading"}
  /\ shown \subseteq Titles
  /\ known \in Seq(Titles)
  /\ accepted \subseteq Titles
  /\ loop \in {"none", "sending", "waiting", "looking"}
  /\ sent \in Seq(Request)
  /\ cut \in Nat /\ known0 \in Nat
  /\ results \in Seq(Result)
  /\ wire \subseteq (Len(results) + 1)..Len(sent)
  /\ got \in [DOMAIN got -> Nat] /\ DOMAIN got \subseteq wire
  /\ timedOut \in BOOLEAN
  /\ check \in [Checkers -> Check]
  /\ told \subseteq Nat
  /\ dropped \subseteq Entry \X Nat
  /\ {uploads, edits, strangers} \subseteq Nat

NoCheck == [at |-> "none", hold |-> NoHold, slots |-> {}, exclude |-> {},
            found |-> {}, ambiguous |-> {}]

Init ==
  /\ cases = <<>> /\ late = {} /\ strangers = 0
  /\ queue \in [Rows -> {[at |-> a, title |-> t, uid |-> 0] : a \in {"out", "in"}, t \in Titles}]
  /\ hold = NoHold
  /\ stage = "idle" /\ shown = {} /\ known = <<>> /\ accepted = {}
  /\ loop = "none" /\ sent = <<>> /\ cut = 0 /\ known0 = 0 /\ results = <<>>
  /\ wire = {} /\ got = [p \in {} |-> 0] /\ timedOut = FALSE
  /\ check = [c \in Checkers |-> NoCheck]
  /\ told = {} /\ dropped = {}
  /\ uploads = 0 /\ edits = 0

-----------------------------------------------------------------------------
\* The user edits the queue; nothing stops an edit while an upload runs.
Edit(r, row) ==
  /\ edits < MaxEdits
  /\ edits' = edits + 1
  /\ queue' = [queue EXCEPT ![r] = row]
  /\ UNCHANGED <<server, rust, held, check, stage, shown, known, accepted, uploads>>

\* A row is typed in or imported.  It is at the end or wherever it sorts.
AddRow(r) ==
  /\ queue[r].at = "out"
  /\ Edit(r, [queue[r] EXCEPT !.at = "in"])

RemoveRow(r) ==
  /\ queue[r].at = "in"
  /\ Edit(r, [queue[r] EXCEPT !.at = "gone", !.uid = 0])

Rename(r, t) ==
  /\ queue[r].at = "in"
  /\ queue[r].title # t
  /\ Edit(r, [queue[r] EXCEPT !.title = t])

-----------------------------------------------------------------------------
HoldActive == Held(queue, hold) # {}
TitlesOf(list) == {list[i] : i \in DOMAIN list}
CreateTitles(q) == {q[r].title : r \in Creates(q)}
DupsPending == (CreateTitles(queue) \cap TitlesOf(known)) \ accepted

\* "Create duplicates anyway": the titles on show, and no others.
AcceptDups ==
  /\ stage # "uploading"
  /\ DupsPending # {}
  /\ accepted' = accepted \cup DupsPending
  /\ UNCHANGED <<server, rust, held, check, queue, stage, shown, known, uploads, edits>>

\* The last click: guardedSubmit, up to its await on the PBI's titles.  The
\* queue it will compare with them is the one of this render.
Confirm ==
  /\ stage = "idle"
  /\ uploads < MaxUploads
  /\ Live(queue) # {}
  /\ ~HoldActive
  /\ DupsPending = {}
  /\ stage' = "confirming"
  /\ shown' = CreateTitles(queue)
  /\ UNCHANGED <<server, rust, held, check, queue, known, accepted, uploads, edits>>

\* refreshTitles: the PBI's cases, or the cached list when it cannot be read.
ReadTitles ==
  \/ known' = [i \in DOMAIN cases |-> cases[i].title]
  \/ known' = known

\* A clash nobody has been shown stops the upload before it starts; so does
\* the backstop in mutationFn, which reads the hold of the latest render.
\* A queue of updates may turn out to have nothing to write.
Stopped ==
  /\ stage = "confirming"
  /\ ReadTitles
  /\ \/ (shown \cap TitlesOf(known')) \ accepted # {}
     \/ HoldActive
     \/ Creates(queue) = {}
  /\ stage' = "idle"
  /\ shown' = {}
  /\ UNCHANGED <<server, rust, held, check, queue, accepted, uploads, edits>>

\* The rows to send, in the order on screen.
AsSent(R, list) ==
  \E nth \in [1..Cardinality(R) -> R] :
    /\ \A j, k \in 1..Cardinality(R) : j < k => nth[j] < nth[k]
    /\ list = [k \in 1..Cardinality(R) |->
                [row |-> nth[k], title |-> queue[nth[k]].title, uid |-> queue[nth[k]].uid]]

\* Mutant of Start: no backstop, only the button's check of the hold.
StartNoBackstop(R) ==
  /\ stage = "confirming"
  /\ UploadBesideCheck \/ \A c \in Checkers : check[c].at = "none"
  /\ ReadTitles
  /\ (shown \cap TitlesOf(known')) \ accepted = {}
  /\ R # {} /\ Creates(queue) \subseteq R /\ R \subseteq Live(queue)
  /\ stage' = "uploading"
  /\ shown' = {}
  /\ uploads' = uploads + 1
  /\ loop' = "sending"
  /\ AsSent(R, sent')
  /\ cut' \in {n \in 0..Len(cases) : Len(cases) <= n + EarlyBy}
  /\ known0' = Len(known')
  /\ results' = <<>>
  /\ UNCHANGED <<server, held, check, queue, accepted, edits, wire, got, timedOut>>

\* mutationFn: every create and the updates that write something, as the
\* queue stands now.  submit_queue claims the one loop there is.
Start(R) ==
  /\ stage = "confirming"
  /\ UploadBesideCheck \/ \A c \in Checkers : check[c].at = "none"
  /\ ReadTitles
  /\ (shown \cap TitlesOf(known')) \ accepted = {}
  /\ ~HoldActive
  /\ R # {} /\ Creates(queue) \subseteq R /\ R \subseteq Live(queue)
  /\ stage' = "uploading"
  /\ shown' = {}
  /\ uploads' = uploads + 1
  /\ loop' = "sending"
  /\ AsSent(R, sent')
  /\ cut' \in {n \in 0..Len(cases) : Len(cases) <= n + EarlyBy}
  /\ known0' = Len(known')
  /\ results' = <<>>
  /\ UNCHANGED <<server, held, check, queue, accepted, edits, wire, got, timedOut>>

-----------------------------------------------------------------------------
Chunk == {p \in DOMAIN sent : p > Len(results) /\ p <= Len(results) + BatchSize}

\* The rows of the chunk, reported.  One that was never sent has failed.
Report(outcome) ==
  results' = results \o [k \in 1..Cardinality(Chunk) |->
                           LET p == Len(results) + k
                           IN  IF p \in wire THEN outcome[p] ELSE Failed]

\* No token, or no row that can be sent: the whole chunk has failed.
ChunkNotSent ==
  /\ loop = "sending"
  /\ Chunk # {}
  /\ Report([p \in {} |-> Failed])
  /\ UNCHANGED <<server, screen, held, check, loop, sent, cut, known0, wire, got, timedOut>>

\* plan_chunk, and the $batch goes out.  A row that does not validate, or
\* whose step files cannot be sent, stays behind.
SendChunk(P) ==
  /\ loop = "sending"
  /\ P # {} /\ P \subseteq Chunk
  /\ loop' = "waiting"
  /\ wire' = P
  /\ UNCHANGED <<server, screen, held, check, sent, cut, known0, results, got, timedOut>>

\* Azure DevOps on one request: 0 is a refusal.  A create carries its link
\* to the PBI in the same document.
Runs(req, id) ==
  \/ /\ req.uid = 0 /\ Len(cases) < MaxCases
     /\ id = Len(cases) + 1
     /\ cases' = Append(cases, [title |-> req.title, by |-> req.row])
  \/ /\ req.uid # 0 /\ req.uid \in DOMAIN cases
     /\ id = req.uid
     /\ cases' = [cases EXCEPT ![id].title = req.title]
  \/ /\ id = 0
     /\ cases' = cases

\* The server works through a batch in order.
ServerRuns(p, id) ==
  /\ loop = "waiting"
  /\ p \in wire \ DOMAIN got
  /\ \A o \in wire \ DOMAIN got : p <= o
  /\ Runs(sent[p], id)
  /\ got' = [o \in DOMAIN got \cup {p} |-> IF o = p THEN id ELSE got[o]]
  /\ UNCHANGED <<screen, held, check, late, strangers,
                 loop, sent, cut, known0, results, wire, timedOut>>

\* map_batch_results
Outcome(p) ==
  IF got[p] = 0 THEN Failed
  ELSE [did |-> IF sent[p].uid = 0 THEN "created" ELSE "updated", id |-> got[p]]

\* Mutant of BatchAnswered: the batch that was answered is not put away.
BatchAnsweredKeepsWire ==
  /\ loop = "waiting"
  /\ wire = DOMAIN got
  /\ Report([p \in wire |-> Outcome(p)])
  /\ loop' = "sending"
  /\ UNCHANGED <<server, screen, held, check, sent, cut, known0, wire, got, timedOut>>

\* The call comes back with one item for each request, in order.
BatchAnswered ==
  /\ loop = "waiting"
  /\ wire = DOMAIN got
  /\ Report([p \in wire |-> Outcome(p)])
  /\ loop' = "sending"
  /\ wire' = {} /\ got' = [p \in {} |-> 0]
  /\ UNCHANGED <<server, screen, held, check, sent, cut, known0, timedOut>>

\* The call fails as a whole: its deadline passes, or the connection breaks
\* or the service answers an error.  The server may have run any part of it,
\* and after a deadline it may still run the rest.
BatchLost(byDeadline) ==
  /\ loop = "waiting"
  /\ byDeadline => Timeouts
  /\ loop' = "looking"
  /\ timedOut' = byDeadline
  /\ \/ late' = late \cup {sent[p] : p \in wire \ DOMAIN got} /\ (byDeadline \/ LateAfterError)
     \/ late' = late /\ ~byDeadline
  /\ UNCHANGED <<screen, held, check, cases, strangers, sent, cut, known0, results, wire, got>>

\* In any order: two lost batches run side by side.
LateRuns(req) ==
  /\ req \in late
  /\ \E id \in 0..MaxCases : Runs(req, id)
  /\ late' = late \ {req}
  /\ UNCHANGED <<screen, held, check, rust, strangers>>

\* find_created_test_cases: the PBI's cases since the bound, by title.
CreatedSince(n, titles) ==
  {f \in [id : DOMAIN cases, title : titles] : f.id > n /\ cases[f.id].title = f.title}

LostCreates == [p \in {o \in wire : sent[o].uid = 0} |-> sent[p].title]
Reported == {results[p].id : p \in DOMAIN results}

\* resolve_failed_batch: what the lookup found, less what this upload has
\* already reported.
Candidates ==
  {f \in CreatedSince(cut, {LostCreates[p] : p \in DOMAIN LostCreates}) : f.id \notin Reported}

\* An update is failed unless its step files are seen on the case
\* (resolve_failed_chunk).
LostUpdate(p, landed) ==
  IF p \in landed THEN [did |-> "updated", id |-> sent[p].uid] ELSE Failed

\* failed_batch_results, for a create the lookup was asked about.
LostCreate(p, found) ==
  LET pairs == Pairs(LostCreates, found)
  IN  IF \E id \in DOMAIN cases : <<p, id>> \in pairs
      THEN [did |-> "created", id |-> CHOOSE id \in DOMAIN cases : <<p, id>> \in pairs]
      ELSE IF timedOut \/ sent[p].title \in Ambiguous(LostCreates, found) THEN Unknown
      ELSE Failed

\* Mutant of Resolve: the chunk is sent again until the call goes through.
ResolveRetries(landed) ==
  /\ loop = "looking"
  /\ landed = {}
  /\ loop' = "sending"
  /\ wire' = {} /\ got' = [p \in {} |-> 0] /\ timedOut' = FALSE
  /\ UNCHANGED <<server, screen, held, check, sent, cut, known0, results>>

\* The lookup answers (there is none when the batch held no creates), or it
\* fails too and every create in the batch is unknown.
Resolve(landed) ==
  /\ loop = "looking"
  /\ landed \subseteq {p \in DOMAIN got : sent[p].uid # 0 /\ got[p] # 0}
  /\ \/ Report([p \in wire |-> IF sent[p].uid = 0 THEN LostCreate(p, Candidates)
                               ELSE LostUpdate(p, landed)])
     \/ /\ DOMAIN LostCreates # {}
        /\ Report([p \in wire |-> IF sent[p].uid = 0 THEN Unknown ELSE LostUpdate(p, landed)])
  /\ loop' = "sending"
  /\ wire' = {} /\ got' = [p \in {} |-> 0] /\ timedOut' = FALSE
  /\ UNCHANGED <<server, screen, held, check, sent, cut, known0>>

-----------------------------------------------------------------------------
SentCreates(t) == {p \in DOMAIN sent : sent[p].uid = 0 /\ sent[p].title = t}
Did(what) == {p \in DOMAIN results : results[p].did = what}

\* The created rows, keyed over the list that was sent.
MadeByUpload ==
  {[title |-> sent[p].title, nth |-> RankIn(SentCreates(sent[p].title), p), id |-> results[p].id] :
     p \in Did("created")}

\* holdFromResults
HoldLeft ==
  HoldOf(cut,
         {[row |-> sent[p].row, title |-> sent[p].title] : p \in Did("unknown")},
         (1..known0) \cup {results[p].id : p \in Did("created") \cup Did("updated")})

\* Mutant of UploadDone: no hold is left.
UploadDoneNoHold ==
  /\ loop = "sending"
  /\ Len(results) = Len(sent)
  /\ queue' = Stamped(queue, MadeByUpload)
  /\ told' = told \cup {m.id : m \in MadeByUpload}
  /\ loop' = "none" /\ stage' = "idle"
  /\ sent' = <<>> /\ cut' = 0 /\ known0' = 0 /\ results' = <<>>
  /\ UNCHANGED <<server, check, hold, dropped, shown, known, accepted, uploads, edits, wire, got, timedOut>>

\* submit_queue returns and applyOutcome runs: the hold is saved, the queue
\* on screen (or the draft) learns the ids, the phase is cleared.  What could
\* not be matched to a row is a warning.
UploadDone ==
  /\ loop = "sending"
  /\ Len(results) = Len(sent)
  /\ hold' = IF HoldLeft = NoHold THEN hold ELSE HoldLeft
  /\ dropped' = IF HoldLeft = NoHold THEN dropped ELSE dropped \cup ((hold.entries \ HoldLeft.entries) \X {uploads})
  /\ queue' = Stamped(queue, MadeByUpload)
  /\ told' = told \cup {m.id : m \in MadeByUpload}
  /\ loop' = "none" /\ stage' = "idle"
  /\ sent' = <<>> /\ cut' = 0 /\ known0' = 0 /\ results' = <<>>
  /\ UNCHANGED <<server, check, shown, known, accepted, uploads, edits, wire, got, timedOut>>

-----------------------------------------------------------------------------
\* The lookup a hold asks for: a title for each of its rows.
HeldTitles(h) == [r \in {e.row : e \in h.entries} |-> (CHOOSE e \in h.entries : e.row = r).title]

\* "Check with Azure DevOps": the hold and the queue are those of the click.
CheckAsked(c) ==
  /\ check[c].at = "none"
  /\ hold # NoHold
  /\ stage # "uploading"
  /\ check' = [check EXCEPT ![c] =
       [NoCheck EXCEPT !.at = "asked", !.hold = hold, !.slots = Slots(queue, hold),
                       !.exclude = Excluded(queue, hold)]]
  /\ UNCHANGED <<server, screen, rust, held>>

\* Mutant of CheckAnswered: the ids the hold and the queue name are not left
\* out of what the lookup found.
CheckAnsweredNoExclude(c) ==
  LET h == check[c].hold
      wanted == HeldTitles(h)
      found == CreatedSince(h.cut, {wanted[r] : r \in DOMAIN wanted})
  IN  /\ check[c].at = "asked"
      /\ late = {} \/ LateAfterCheck
      /\ check' = [check EXCEPT
           ![c].at = "answered",
           ![c].exclude = {},
           ![c].found = {f \in found : \E r \in DOMAIN wanted : <<r, f.id>> \in Pairs(wanted, found)},
           ![c].ambiguous = Ambiguous(wanted, found)]
      /\ UNCHANGED <<server, screen, rust, held>>

\* reconcile_with.  A second read, of the claimed cases' step files, may
\* follow before the answer is used.
CheckAnswered(c) ==
  LET h == check[c].hold
      wanted == HeldTitles(h)
      found == {f \in CreatedSince(h.cut, {wanted[r] : r \in DOMAIN wanted}) : f.id \notin check[c].exclude}
  IN  /\ check[c].at = "asked"
      /\ late = {} \/ LateAfterCheck
      /\ check' = [check EXCEPT
           ![c].at = "answered",
           ![c].exclude = {},
           ![c].found = {f \in found : \E r \in DOMAIN wanted : <<r, f.id>> \in Pairs(wanted, found)},
           ![c].ambiguous = Ambiguous(wanted, found)]
      /\ UNCHANGED <<server, screen, rust, held>>

\* The lookup fails: the cases stay marked.
CheckFailed(c) ==
  /\ check[c].at = "asked"
  /\ check' = [check EXCEPT ![c] = NoCheck]
  /\ UNCHANGED <<server, screen, rust, held>>

\* The rest of checkHold: the hold it was asked with, narrowed, is saved over
\* whatever is stored now, and what was found goes through applyOutcome.  A
\* case found whose row is gone is a warning.
CheckApplied(c) ==
  LET h == check[c].hold
      ids == {f.id : f \in check[c].found}
  IN  /\ check[c].at = "answered"
      /\ hold' = Narrowed(h, check[c].ambiguous, ids)
      /\ dropped' = dropped \cup (((hold.entries \ h.entries) \ hold'.entries) \X {uploads})
      /\ queue' = Stamped(queue, MadeByCheck(check[c].slots, check[c].found))
      /\ told' = told \cup ids
      /\ check' = [check EXCEPT ![c] = NoCheck]
      /\ UNCHANGED <<server, rust, stage, shown, known, accepted, uploads, edits>>

\* "I have checked in Azure DevOps": offered on an ambiguous hold only.
Release ==
  /\ hold.ambiguous # {}
  /\ stage # "uploading"
  /\ hold' = NoHold
  /\ told' = told \cup {id \in DOMAIN cases : \E e \in hold.entries : e.title = cases[id].title}
  /\ UNCHANGED <<server, screen, rust, check, dropped>>

\* Someone else adds a test case to the PBI.
ColleagueCreates(t) ==
  /\ strangers < MaxColleague
  /\ Len(cases) < MaxCases
  /\ strangers' = strangers + 1
  /\ cases' = Append(cases, [title |-> t, by |-> Nobody])
  /\ UNCHANGED <<late, screen, rust, held, check>>

-----------------------------------------------------------------------------
User ==
  \/ \E r \in Rows : AddRow(r) \/ RemoveRow(r) \/ \E t \in Titles : Rename(r, t)
  \/ AcceptDups
  \/ Confirm
  \/ Release
  \/ \E c \in Checkers : CheckAsked(c)

App ==
  \/ Stopped
  \/ \E R \in SUBSET Rows : Start(R)
  \/ ChunkNotSent
  \/ \E P \in SUBSET Chunk : SendChunk(P)
  \/ BatchAnswered
  \/ \E landed \in SUBSET wire : Resolve(landed)
  \/ UploadDone
  \/ \E c \in Checkers : CheckApplied(c)

Network ==
  \/ \E byDeadline \in BOOLEAN : BatchLost(byDeadline)
  \/ \E c \in Checkers : CheckAnswered(c) \/ CheckFailed(c)

Server ==
  \/ \E p \in wire, id \in 0..MaxCases : ServerRuns(p, id)
  \/ \E req \in late : LateRuns(req)
  \/ \E t \in Titles : ColleagueCreates(t)

Next == User \/ App \/ Network \/ Server

Spec == Init /\ [][Next]_vars

\* The loop runs on, every batch is answered or reaches its deadline, and
\* every lookup has one too.  The server need not do anything.
Fairness ==
  /\ WF_vars(ChunkNotSent \/ \E P \in SUBSET Chunk : SendChunk(P))
  /\ WF_vars(BatchAnswered \/ BatchLost(TRUE))
  /\ WF_vars(\E landed \in SUBSET wire : Resolve(landed))
  /\ WF_vars(UploadDone)

FairSpec == Spec /\ Fairness

-----------------------------------------------------------------------------
\* One upload never reports one case as created for two rows, however many
\* of its batches were lost and looked up.
NoIdReportedTwice ==
  \A p, q \in Did("created") : p # q => results[p].id # results[q].id

\* An id on a row is that row's for good: what an upload or a Check found is
\* never written over it.
IdsStick ==
  [][\A r \in Rows : queue[r].uid # 0 /\ queue'[r].at = "in" => queue'[r].uid = queue[r].uid]_vars

\* No two rows come to carry the same case, so none is ever lost to an
\* update meant for another.
NoIdOnTwoRows ==
  \A r, s \in Live(queue) : r # s /\ queue[r].uid # 0 => queue[r].uid # queue[s].uid

\* "Upload refuses while they're there": no create goes out under a title
\* the hold still has, whatever was edited, retyped or checked while the
\* upload was being confirmed.
HeldRowsAreNotSent ==
  [][stage = "confirming" /\ stage' = "uploading" =>
       \A p \in DOMAIN sent' :
         sent'[p].uid = 0 => EntriesOf(hold.entries, sent'[p].title) = {}]_vars

\* The cases this app made with a title that nobody was shown the id of.
Unseen(t) == {id \in DOMAIN cases \ told : cases[id].by # Nobody /\ cases[id].title = t}

\* "Each may exist, and uploading it again could make a duplicate this app
\* cannot delete.  So they are held": between uploads, a case the app made
\* is on a row, was named in a warning, or there is a held row for it (or
\* there was one, and it went without a Check or a Release).
NothingForgotten ==
  stage # "uploading" =>
    \A t \in Titles :
      Cardinality(Unseen(t)) <=
        Cardinality(EntriesOf(hold.entries, t)) + Cardinality({d \in dropped : d[1].title = t})

\* "An id linked before the upload began is never this row's": what an upload
\* reports as created was not on the PBI when it started.
NeverAnEarlierCase == \A p \in Did("created") : results[p].id > known0

\* "Nothing else ever clears one": an entry of a hold goes by an answer to a
\* Check that asked about it, or by a Release.
OnlyCheckOrReleaseClears == dropped = {}

\* "It stops only for a clash nobody has been shown": no create is sent
\* with a title the upload has just read on the PBI and nobody accepted.
NoUnseenClash ==
  [][stage = "confirming" /\ stage' = "uploading" =>
       \A p \in DOMAIN sent' :
         sent'[p].uid = 0 => sent'[p].title \notin TitlesOf(known') \ accepted]_vars

\* An upload that started ends.
UploadEnds == stage = "uploading" ~> stage # "uploading"
=============================================================================
