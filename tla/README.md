# Verification of phr-tcm

phr-tcm is a Tauri 2 desktop application (Rust core, React screens) for the
manual test cases of Azure DevOps: it imports, writes and reviews cases in a
queue, uploads the queue to a PBI, runs the cases automatically in a browser,
and lets AI assistants do the same through an MCP server. This directory holds
TLA+ models of the parts of it where order and failure matter, the
configurations that check them with TLC, and proofs checked with TLAPS.

All paths below are relative to the repository: `queue.rs` is
`src-tauri/src/commands/queue.rs`, `QueueSection.tsx` is
`src/components/QueueSection.tsx`, `uploadHold.ts`, `queueUploaded.ts`,
`submitRun.ts` and `fileSync.ts` are in `src/lib/`; `lease.rs`, `held.rs`,
`state.rs`, `auth.rs`, `saved_session.rs` and the other Rust files are in
`src-tauri/src/` or a directory of it.

## 1. Inventory

| Part | State it keeps | Operations | Hard behaviour |
|---|---|---|---|
| Upload (`queue.rs`, `QueueSection.tsx`, `uploadHold.ts`, `queueUploaded.ts`, `submitRun.ts`) | the queue and its draft, the hold, the phase, the loop's results | edit, confirm, send batches, resolve a failed batch, apply the outcome, Check, Release | a batch that failed was partly run; the deadline passes while the server works on; edits, Checks and remounts during every await |
| Pairing (`reconcile_pairs` in `queue.rs`) | none | which found case was made by which create | repeated titles, other people's cases |
| Single flight (`ado/single_flight.rs`) | the list of running works | ask, join, start, finish, leave | panics, callers that leave, two keys |
| Session tokens (`state.rs`, `auth.rs`, `saved_session.rs`) | tokens, the kept session | sign in, sign out, refresh, keep for the next launch | a sign-out or another sign-in during a refresh; a crash between the parts of the kept session |
| Pacing (`ado/throttle.rs`) | the last send and its lock, the end of the hold | pass, note a delay, set the level | concurrent requests, a shorter hold arriving during a longer one |
| Auto Run's commands (`commands/autorun*.rs`, `sign_in_check.rs`, `replay_to.rs`, `environments.rs`) | the run, recorder, replay, template and check claims, the slots and their locks, the active environment | open, discover, replay, record, check a sign-in, run unattended, release, switch the environment | each looks at the others, waits for a lock and acts; none may act on an old look, none may wait in a circle |
| Account leases (`autorun/lease.rs`), kept browsers (`api_templates/held.rs`, `runner.rs`) | who holds which account and how often it was taken, the store of browsers kept signed in | hold, wait, refuse, let go; take, adopt, keep, give way, sweep, close all, shut | PeoplesHR keeps one session per user; closing a process happens outside every lock; the exit |
| Assistants (`autorun/agents.rs`, `autorun/claims.rs`, `commands/autorun_slots.rs`, `ai_bridge.rs`) | registry, case claims, bindings of the browser slots | call, claim, pick a slot, open, end, release, sweep, idle release | expiry against work still going on; three mutexes none of which is held across an await; a close in one step and the unbind in another |
| Draft files (`lib/draftWriteQueue.ts`, `lib/fileSync.ts`, `screens/ImportFile.tsx`, `filewatch.rs`) | the chain of writes, the remembered file, the stamps | edit, write, watch, sync | an assistant writes the same file; cases with equal titles; a sync that lands in the middle of an edit |
| Background runs (`lib/backgroundRun.ts`, `commands/autorun_replay.rs`, `autorun/replay.rs`, `reset_wait.rs`, `network.rs`) | the window's run and panel, the run, its pause, its wait for the network, what it has recorded and saved | start, pause, answer, wait, run again, Stop, exit | commands, events and answers cross; Stop at a pause or without a network; the exit during a wait |
| Screen state (`hooks/useQueue.ts`) | queue with the scope it was loaded for | set, switch PBI, save | the save effect runs one render before the reload |
| Cache, suite order, import, formats, client, plans, bridge, Auto Run's runner, browser, DB, reports, updater, screens | | | single requests, parsers, printing, or driven by an external tool |

How they interact. The queue screen calls the Tauri commands `submit_queue`
and `reconcile_upload` and awaits them; between the call and its return the
user edits on, other commands run, and the screen may be unmounted and mounted
again. Both commands take an access token from the session (which may refresh
it), pass the pacer, and talk to Azure DevOps over HTTP. The hold lives in
local storage and is read by whatever screen is mounted. Assistants reach the
same commands through the bridge, which decides whose call it is, which slot it
goes to and what it may do there; an unattended run, a recording, a replay and
the person share the slots with them under claims and locks. `Flights::run` is shared by every long
lookup in the process.

What would make each part wrong: an upload that makes a case twice, forgets one
it made, or writes a case's id on another row; a lookup that answers with an
older question's result, or twice at once; a session that comes back after a
sign-out; two holders of one account, one case or one browser; a run that
starts beside a recording, or changes its environment on the way; a case
recorded twice or never; an edit written to another case of the file.

## 2. Plan

Order of work, the most important first.

Done in this version:

1. **Upload** with the pairing (**Reconcile**, **ReconcileLoop**) and the hold
   (**Holds**); **SingleFlight**.
2. **Session**: the refresh gate with sign-in, sign-out and the session kept
   for the next launch. What it promises: a refresh never revives a session,
   and a session signed out stays out.
3. **Leases**: the lease table and the store of kept browsers. What they
   promise: nobody's session is ended while it is used, and a process has one
   owner (**AccountUse** is the abstract specification of the first half).

4. **AutoRunGuards**: the commands that use an Auto Run browser, with their
   claims, looks and locks, and the switch of environment. What they promise:
   a recording and a release are alone, the environment does not move under
   its users, and nobody waits in a circle.
5. **Assistants**: registry, case claims and browser slots composed, with the
   sweep and the person. What they promise: one slot per assistant and one
   assistant per slot, also while a browser is replaced.
6. **UnattendedRun**: window, command, loop, pauses, network and exit. What it
   promises: every case recorded once and saved, and Stop ends the run.
7. **Throttle** and **DraftFiles**.

What is left, should the project grow:

8. **Upload**, second part: sorting the queue, edits that keep the title,
   closing the application in the middle (what the draft and the hold then
   say).
9. The composition of **Assistants** with **Leases** (an assistant's browser is
   a holder of an account) and of **UnattendedRun** with both.

Modules that share no state are checked in one run where each is small
(SingleFlight, Throttle, ReconcileLoop and DraftFiles), so that the set of runs stays small
enough to be run at every change. Abstract specifications: `AccountUse` for
`Leases` and `Reconcile` for `ReconcileLoop`.

## 3. The modules

### Reconcile, ReconcileLoop, ReconcileProofs

`reconcile_pairs` decides which of the cases a lookup found were made by which
creates. `Reconcile` states what it comes to as a relation: `Pool(found, t)`
is the sorted vector of ids of a title (`pools`), `Claimants` is `counts`,
`Ambiguous` the set computed at 1608-1612, `Pairs` what the loop pushes: the
n-th create of a title with the n-th lowest id. `ReconcileLoop` is the loop
itself with its cursors, one action per turn (`Take`, `Skip`); the run
`single_flight` goes through all lists of up to four creates over two titles
and every lookup answer over four ids, and checks that the loop ends with exactly
`Pairs` (`LoopComputesPairs`), which `MechanismsProofs` proves for any lists. `Upload`
uses the relation, so this is what links it to the code. `Sorted` is `ids.sort()`.
`ReconcileProofs` proves for finite sets of any size that a pair joins equal titles,
that one id goes to one create and one create gets one id, that no case found of a
title that is not ambiguous is left without a create; and what the rank of an
element in a set is. Trimming is not modelled: a title stands for its trimmed form.

### Holds

The pure functions over a queue and a hold. The queue is a function from rows
to `[at, title, uid]`: a row is named by its place on screen, so the order of
rows is the order of numbers. `uid` is `update_id`, 0 for a create. A hold is
its lower bound in time, its entries (`titles` with `sigs`), its ambiguous
titles and the ids no Check may claim. `Held` is `heldRows` in its two passes
(exact content first, then by title), `Narrowed` is `narrowHold`,
`RowFor`/`Stamped` are `matchLive`/`keepUploaded`, `Slots`/`MadeByCheck` are
`reconciledResults` followed by the same matching. Content (`holdSignature`)
is the row's number and title: two rows never share content, and a row's
content changes only with its title.

### Upload, UploadHistory, MCUpload, UploadProofs

The whole of an upload. Who acts:

- `User`: `AddRow`, `RemoveRow`, `Rename` (at any moment: nothing in the code
  stops an edit during an upload), `AcceptDups`, `Confirm` (the click, up to
  `guardedSubmit`'s await), `CheckAsked` (`checkHold` up to its await),
  `Release`.
- `App`: `Start` or `Stopped` (the rest of `guardedSubmit`, and `mutationFn`
  with its backstop), then the loop of `submit_queue`: `ChunkNotSent` (no
  token, or nothing valid), `SendChunk` (`plan_chunk` and the call; rows that do
  not validate stay behind as failed), `BatchAnswered` (`map_batch_results`),
  `Resolve` (`resolve_failed_chunk`: the lookup, `failed_batch_results`, and
  updates seen to have landed by their files), `UploadDone` (`applyOutcome`
  inside the promise: hold saved, ids stamped, phase cleared); and
  `CheckApplied` (the rest of `checkHold`).
- `Network`: `BatchLost` (the call fails as a whole), `CheckAnswered`
  (`reconcile_with`), `CheckFailed`.
- `Server` (external): `ServerRuns` runs a batch's requests in order,
  `LateRuns` runs requests of batches nobody waits for any more,
  `ColleagueCreates` adds somebody else's case.

Two things about the closures matter and are kept: `guardedSubmit` compares
the titles with the queue of the render it was clicked in (`shown`), while
`mutationFn` is the one of the latest render and sees the queue and the hold as
they are at `Start`; and `checkHold` goes on with the hold and the rows of
its click (`check[c].hold`, `.slots`, `.exclude`). `Checkers` are mounts of
the screen: `checkingHold` is component state, so each mount may have a Check of
its own. It disables the Check button only; `UploadBesideCheck` says whether an
upload may start while a Check waits for its answer.

Time is counted in cases: `cut` is how many cases existed at the lookup's
lower bound, between "all there are now" and `EarlyBy` fewer
(`SINCE_MARGIN_SECS` lets cases made up to five minutes earlier through).

`told` and `dropped` are history: the case ids the user was shown (stamped on
a row, named in a warning, or looked up by hand before a Release) and the
entries of holds that went without a Check or a Release.

`UploadHistory` adds two history variables to `Upload` and takes nothing away:
`begun` is how many cases there were when the upload began, and `crossed` collects
what has happened so far that the code does not keep apart. An upload began while a
Check was out ("beside"); a second Check was asked ("checks"); the lookup of a lost
batch found a case older than the upload ("earlier") or a colleague's ("stranger");
the server worked on at a batch that failed other than by its deadline ("lateWork");
a Check was answered before a create of its hold was made ("lateAnswer"). Every
behaviour of `Upload`, in any environment, is one of `HSpec`, so that a theorem
"until something has crossed" is one about all of them.

### SingleFlight, Throttle, MCMechanisms, MechanismsProofs

`Flights::run`, one process per call: `Ask`, `Enter` (the mutex), then `Join`
or `Spawn` and `Push`, `Answer` or `Leave`. The task a call spawned is
`task[a]`: it may end (`WorkEnds`, also by panic) before its entry is pushed,
since the spawner still holds the mutex, and it takes its entry out
(`Finish`, the drop guard) under the mutex. `Finish` removes an entry with the
work's key, whoever's it is, as the code does.

`Throttle` is the pacing every request goes through: `pace()` step by step
(`Asks` reads the hold, `Wakes` ends its sleep and reads the gap, `EntersGate`
takes the lock of the last send, `Goes`), the delay a response asks for
(`Responds`, capped), the setting (`SetsLevel`) and the clock. `due` and `asked`
are history: the end of the longest hold asked for, when a request asked to go
and now.

`MCMechanisms` puts the two, `ReconcileLoop` and `DraftFiles` side by side: they
share nothing, a behaviour is of one of them, and a configuration says which it runs
(`Parts`). The runs `single_flight` and `drafts` differ in that and in the fairness.

### Session, MCSession, SessionProofs

The tokens in memory, the gate of the refresh, and the refresh token that Stay
signed in keeps. The threads: each call of `get_fresh_token` (`GetFreshToken`,
the first snapshot; `PassGate`, the gate and the second snapshot;
`RefreshAnswered` with `store_refreshed` and `keep_for_next_launch`;
`RefreshFailed`), the browser sign-in (`SignIn`, `SignInAnswered` or
`SignInFailed`, `SignedIn`), the resume of the kept session (`Resume`,
`LoadEntry` per entry read, `ResumeAnswered`, `ResumeRefused` or
`ResumeFailed`, `ResumeChecks`, `Resumed`), and the main thread, which runs the
two synchronous commands (`SignOut`, `SignOutChooses`, `SignOutForgets`;
`SetStaySignedIn`). `Close` is the application closing or crashing, and the
next launch.

Credential Manager is `store`, an entry per index: the head at 0, then the
parts of the refresh token. `Saving` and `Forgetting` are the lists of writes
of `save` and `forget`, in their order; a thread makes them one at a time
(`StoreWrite`) and any of them may fail (`StoreFails`) or be cut off by a
`Close`. `Spelled` says which token the entries read spell: none, when a part
is of another token than the others or the head is of another account.
`Lengths` are the numbers of parts a token may need, 0 for an answer without a
refresh token.

`Overlap` and `ResumeAnytime` are the environment. With `Overlap = FALSE` one
thread at a time writes the kept session; with `ResumeAnytime = FALSE` a resume
does not run across a Sign out nor the end of a browser sign-in. Nothing in the
code orders them; section 4 says what happens when they do overlap. `spent`,
`out`, `gone`, `clean`, `alone` and `crossed` are history: refresh tokens replaced, the
sessions signed out, those whose Sign out answered, whether the last write went
well with the store to itself, whether the last writer to begin found nobody writing, and
what has crossed so far: a Sign out began to remove the kept session while a save had
entries left ("save"), or a resume ran across a Sign out or the end of a browser
sign-in ("resume").

### Leases, AccountUse, MCLeases, LeasesProofs

The lease table with the store of kept browsers. PeoplesHR (external) has one
session per user, `session`: a sign-in ends the account's session everywhere
else. Users are cases (`Holder::Case`), the browsers only a person closes
(`Holder::Browser` and `Holder::Setup`: `Persons`), and `"template"`, the one
template run, fixture or cleanup that has the RunClaim.

- A holder opens a browser (`OpenBrowser`), and signs in: `Hold`, then `Take`
  or `Refused` (`acquire`'s polls), `GiveWay`, `SignIn`. `Take` also lets go of
  the account held before, as the assignment in `Held::hold` does. `StopHold`
  is a Stop heard during the hold, `LetGo` a sign-out in the browser or the way
  made for a setup, `Close` the end of the case or the browser.
- A template run claims (`Claim`), takes the lease, and looks in the store
  (`Fetch`: `held::take` and `adopt`); a fixture or a cleanup makes it give way
  instead (`account_lease`). Then `OpenFresh` and `SignIn`, or the reused
  browser, which may turn out to be signed out (`Dropped`). It ends with
  `Keep`, or unkept (`FinishUnkept`).
- Everybody closes the browser before the lease is dropped: `CloseOwn`,
  `Ended`, `Done`.
- `Sweep`, `CloseAll` (a sign-out, a change of environment, the exit) and
  `Shut` (the latch) act on their own.

Taking an entry out of the store is one step, under its lock; the process is
ended outside it: `closing[q]` is what q has taken out and not yet ended, and
`Ended(q)` the end of one. `give_way` is awaited (`SignIn` and `OpenFresh`
wait for `closing[u] = {}`), but a Stop drops only the wait, so its close goes
on as `"aside"`. A holder has at most one lease of an account, so the pair
names the lease and tickets are left out. A kept browser may be unfit at any
time (its recipe changed, its process ended, it is of another kind).

`AccountUse` is what this promises, with no leases and no processes: per
account, nobody works as it and anything may become of its session (`Free`),
somebody begins to (`Begin`), or goes on with the session unchanged, or stops
(`GoOn`). `Leases` implements it (`ImplementsUse`) with `users[a]` mapped to
whoever drives a browser that is signed in as `a` and is not signing in or at
its end: two users at once, a session lost in use, or a handover in one step
would each break it.

### AutoRunGuards, MCAutoRunGuards, AutoRunGuardsProofs

Every command that opens, drives or closes an Auto Run browser, and the switch
of environment. A process (`Procs`) is one call of a command; `Ops` are an
unattended run, a recording, a template run, a sign-in check, Open browser, a
discovery, a replay of the person or the assistant, the switch and Release. What
a call owns is owned by a Rust guard and given back however it returns
(`Returns`): the four process-wide flags (`claim`), a slot's replay
(`replaying`), a slot's session lock (`lock`), and the opening lock (`readers`,
`writer`). Each look at the others (`RunHearsRecording`, `LooksAtSlot`,
`SwitchHearsRest` ...) is a step, so anything may happen between two of them.
`session` is the browser a slot holds, `discovering` the flag a slot publishes
without its lock.

Whether an account is held (`switch_with` refuses then) is a choice of
`SwitchHearsRest`; a replay that is asked to stop may return at any step; a lock
that is taken and given back without an await in between is one step.

### Assistants, MCAssistants, AssistantsProofs

What assistants hold: `reg` (agents.rs), `claims` (claims.rs) and `bound`,
`held`, `notices`, `retries` (autorun_slots.rs), three mutexes that are never
held across an await. A critical section is one action, and a call, a release
and the sweeper move between them.

- A call: `CallArrives` (`note_call`), `ClaimsCase`, `LooksForEmpty` and
  `Picks` (the two halves of `slot_for`), `TakesLock`, then by kind:
  `HoldsAndMakesWay`, `Launches`, `SignsIn` (a start lets the lock go and takes
  it again before it signs in), `WorkEnds`, `EndsDiscovery`, `LetsGo`,
  `EndsClaims`; one that failed goes through `LooksAtUnused`, `FreesUnused`
  (the two halves of `free_extra_if_unused`) and `GivesUpClaim`.
- A release, by the person or for the sweeper: `ReleaseCloses` under the lock,
  `ReleaseUnbinds` after it, or `ReleaseTimesOut`.
- The sweeper: `SweepAsks` which processes are gone without the registry's
  lock, `SweepJudges` under it, `HandlesSweep`, and the idle release:
  `JudgesIdle`, then per slot `IdleSpares`, or `IdleCloses` and `IdleUnbinds`.
- The person (`PersonOpens`, `PersonCloses`, `PersonReleases`), processes that
  say goodbye or die, browsers that go, and time (`Tick`).

Coarser than the code, in ways no property tells apart: `HandlesSweep` is one step
where `on_sweep_within` (`autorun_slots.rs:600-630`) ends claims, looks up bindings, takes the
retries and unbinds the quiet in critical sections of their own; every assistant has a
process, so `SweepJudges` finds only named ones quiet, where `agents.rs:322` also judges an
entry without a pid; and `ReleaseUnbinds` of a slot nobody held ends any of the claims of
any assistant that has no slot, where `release_before` ends those of the last holder up to
its last unbinding, which the model does not keep.

A time stamp is kept as its age, which stops at the last age anybody compares
it with. `held[n]` is the open that replaces slot n's browser
(`hold_binding`): the close of the old browser must not unbind it.

### UnattendedRun, MCUnattendedRun, UnattendedRunProofs

An unattended run from the window to its file. `win`, `gen` and `call` are the
store of `backgroundRun.ts` (phase, the panel of a pause, the generation that
tells events of an earlier run apart); `run`, `kept`, `saved`, `cancel`,
`pending`, `waits` are `run_cases`, its record and file, `CANCEL`, `ResetWaits`
and `NetworkWaits`. Between them: `events`, in order, and `asks` and `replies`,
which overtake each other. The loop is `BeginsPause`/`PauseContinues`/
`PauseStops`, `LooksAtNetwork`, `OpensCase`, `CaseEnds`, `CaseFailed` (a failure
while the server is silent is the network: wait and run it again),
`RecordsCase`; the wait is `BeginsWait`, `WaitEnds`, `Resumes` or `WaitStops`.
The exit first stops a pause, then a wait, then gives the run time to save
(`ExitStopsPause`, `ExitStopsWait`, `ExitEnds`).

### DraftFiles (in MCMechanisms and MechanismsProofs)

A queue imported from a draft file, and the file. The person edits (`EditsRow`,
`RemovesRow`, `TypesRow`), each edit queues a write on the file's chain
(`Queues`); a write begins in its turn with the watches as they are then
(`WriteBegins`, `Fresh`), finds in Rust which case it is for
(`SaveReads`: `apply_draft_edits`), renames (`SaveRenames`) and tells what it
wrote (`WriteReturns`) or fails. An assistant writes the file at any moment
(external), also between Rust's read and rename. The watch looks and tells
(`WatchLooks`, `HearsChange`), and the screen's effect syncs (`SyncReads`,
`SyncLands`, `SyncIsRetried`, `SyncCannotRead`), cancelled and begun again by
every render (`Rerenders`). `claimRows` is `Slots`: exact matches first, then
by title and place.

All cases share one title and have no id, the hardest case for `claimRows`; a
text stands for a case's content, and a file's stamp for its cases. `who` is
history: which imported or typed case a row is.

## 4. The runs

| Run | What it asks | Answer |
|---|---|---|
| `upload` | two rows sent one by one, three uploads, timeouts, two edits: `NoIdOnTwoRows`, `NothingForgotten`, `HeldRowsAreNotSent` | holds |
| `upload_hostile` | batches of two, timeouts, a colleague, the margin, a server at work after a Check: `IdsStick`, and that an upload ends (`UploadEnds`) | holds |
| `session` | two calls, a browser sign-in, a resume, Sign out, the setting, failing writes, a close at any point: `SignedOutForGood`, `KeptIsCurrent`, `OneRefreshForAll`, `RefreshKeepsSession` | holds |
| `leases` | a case, a person's browser and template runs over two accounts: `InUseUndisturbed`, `ImplementsUse`, `ReusedIsLastSignIn`, `NoneKeptBesideUse`, `OneOwner`, `NothingKeptAfterExit` | holds |
| `guards` | three commands of any kind at once: `RecordingAlone`, `ReleaseAlone`, `EnvironmentStays`, `NoCircularWait` | holds |
| `assistants` | a session and its subagent, two slots, two calls, two disturbances: `BoundOnce`, `HoldKeepsSlot`, `PersonsStays`, `WorkerKeepsCase` | holds |
| `unattended` | two runs of three cases, two pauses each, a dropping network and the exit: `EachCaseRecorded`, `AnswerMeetsItsPause`, `PanelIsTakenOff`, and that Stop ends it (`StopEnds`) | holds |
| `drafts` | a file of three cases edited by the person and an assistant: `TwinsKeepApart`, and that changes are taken over (`ChangesAreTaken`) | holds |
| `single_flight` | single flight, the pacer and the pairing loop: `OneWorkPerKey`, `NeverAnsweredFromThePast`, `EveryAskEnds`, `Spaced`, `HoldsAreKept`, `LoopComputesPairs` | holds |
| `session_overlap` | "the session goes from memory AND from Credential Manager" at Sign out | **violated** |
| `upload_margin` | "one linked before the upload began is never this row's" | **violated** |
| `guards_run_alone` | "the two kinds of session must never run at once" | **violated** |

The properties, and why they are not obvious. `NothingForgotten` is what the
hold is for: between uploads, every case the app made is on a row, was named
to the user, or there is an entry of the hold for it; it ties the server's
cases to the queue, the hold and everything the user was told. It needs the
lookup, the ambiguity rule, the timeout flag and the hold to work together
(its mutants break one of them each). `HeldRowsAreNotSent`: no create goes out
under a title the stored hold has; breaking it takes a hold that comes back
during the confirmation, by an edit or by a Check. `NoIdOnTwoRows`: no two
rows come to carry one case. `IdsStick`: results
matched by title and occurrence against an edited queue never replace an id.

`SignedOutForGood`: who signed out is not signed in again but through the
browser, in this run, and once Sign out has answered, in no later one; a token
of the old session may come back from an entry of the store, from what a
resume has read, or from an answer still out. `KeptIsCurrent`: whenever every
writer is done, what a launch would read is the current token or nothing, after
any writes cut off half way (a new token over a longer old one, a head over
another token's parts). `OneRefreshForAll`: calls near expiry send one request,
and never a token already replaced. `RefreshKeepsSession`: an answer for A does
not replace B. `InUseUndisturbed` is what a lease is for. `ReusedIsLastSignIn`:
a browser a run found in the store still has its session, so nobody signed the
account in between; it is the account's lease, the store and `give_way`
together that make it so. `NoneKeptBesideUse` and `OneOwner` are about the
store's entries and the processes taken from it by four kinds of actors;
`NothingKeptAfterExit` about the race of a run's end with the exit.

`RecordingAlone` and `ReleaseAlone` are the rule "take your own claim first,
look at the others second" at work: no two commands that look at each other
miss each other, though what they look at (a flag, a slot) changes between the
look and the act. `EnvironmentStays` relates the switch's write to all of its
users at once. `NoCircularWait` says that the order of the opening lock and the
slots' locks leaves no set of calls waiting for each other.

`BoundOnce`: binding happens in three places under one mutex, letting go in many
places, some of them after an await; no interleaving gives an assistant two slots.
`HoldKeepsSlot`: while an open replaces a browser, neither the close of the old
one nor anybody's late unbind takes its slot. `PersonsStays`: no assistant,
release or sweep closes a browser the person has taken over. `WorkerKeepsCase`:
a case's claim does not pass to another assistant while its holder's browser
works, short of the longest a claim lasts.

`EachCaseRecorded` ties the loop, the pauses, the reruns and the exit to the
record and the file. `AnswerMeetsItsPause`: a late Continue does not end the
next pause. `PanelIsTakenOff`: a panel for a pause that is over is never left
behind. `TwinsKeepApart`: a burst of edits of equal cases writes each to its own
case, though each write moves what the next one finds, as long as no sync has touched the
rows (why that is needed: "Own writes heard" below). `ChangesAreTaken`: every
change of the file is taken over though each render cancels the sync going.
`Spaced` and `HoldsAreKept`: no two requests in one gap, none before the end of a
hold noted before it asked, in whatever order the responses came.

**Disagreements found.** Each violated run is a disagreement between a comment
and the code; `PROJECT.json` "findings" quotes the lines. The others have no
run of their own: a property of the module says what the comment says, or an
environment of the same model makes a passing property fail, and TLC finds it
violated with the constants named here.

- *Replaced holds* (`OnlyCheckOrReleaseClears` of `Upload`: "nothing else ever
  clears one", `uploadHold.ts:28`). A hold whose rows are renamed is inert; an upload may run,
  and if its outcome is unknown too, its hold replaces the first one. Likewise
  a Check that was left in flight while uploads ran stores what is left of its
  old hold over the newer one. With three uploads that old hold may have the
  titles of a create under way, which is why `HeldRowsAreNotSent` speaks of
  the moment a create goes out.
- *Margin* (`upload_margin`). The Check knows the ids the PBI had before the upload, the
  resolution of a failed batch does not, so it may claim a case an earlier
  upload made within five minutes.
- *Unseen clash* (`NoUnseenClash` of `Upload`: "it stops only for a clash nobody has
  been shown", `QueueSection.tsx:900-903`). The final check uses the queue of the click, the upload the
  queue of the latest render.
- *A Check across uploads* (`upload` with `UploadBesideCheck = TRUE`, `MaxEdits = 3`,
  `MaxCases = 1` and `Timeouts = FALSE`: `NoIdOnTwoRows` fails). "Every id a row in the
  queue already carries" is not claimable (`QueueSection.tsx:946-948`), but the ids are
  those of the Check's click and its answer is applied after two awaits; only the Check
  button is disabled meanwhile. With the held row renamed the hold is inert and uploads
  run: one makes the row's case, the next gives that case the held title again, and
  the Check stamps it on a second row of that title as well.
- *Remount* (`upload` with `Checkers = {screen, again}`: `NoIdOnTwoRows`
  fails). Two Checks at once may put one case on two rows: `checkingHold` is
  component state, and the ids to leave out are computed before the await.
- *Late Check* (`upload` with `LateAfterCheck = TRUE`: `NothingForgotten`
  fails) and *timeout clash* (`upload` with `MaxColleague = 1`: the same).
  While Azure DevOps works on a timed out batch, a lookup is not the last word,
  but a Check and the claiming of a found case treat it as one.

- *Saves overlap a Sign out* (`session_overlap`). `keep_current` reads the
  session, lets the lock go and writes entry by entry; a Sign out that removes
  the entries meanwhile is done first, and the save leaves the session for the
  next launch. Sign out has answered that it is gone.
- *A sign-in during a resume* (`session` with both `Overlap` and
  `ResumeAnytime` TRUE: `BrowserSignInWins` fails; no run of its own).
  `resume_session` (`commands/auth.rs:62-71`) asks whether anybody is signed
  in, and stores the kept session under a second lock; a browser sign-in
  that ends between the two is replaced, though the comment says it wins.
- *Two processes of one account* (`leases` with `OneProcessPerAccount`: fails
  after 14 steps; no run of its own). `lease.rs:474-478` has the kept browser
  "closed before this returns: ... one browser process per account is the most
  there should be". The sweep takes the entry out and ends the process outside
  the lock, so `give_way` finds nothing to wait for and the sign-in begins
  while that process still lives. It works in nobody's run, so no
  session in use is lost: `InUseUndisturbed` holds.
- *An account unreadable for a moment* (`leases` with `Unreadable = TRUE`:
  `ReusedIsLastSignIn` and `NoneKeptBesideUse` fail). `run_template_within`
  skips the store when `prepare` fails (`runner.rs:793`); if the sign-in's own
  `prepare` then succeeds, the run signs in beside the kept browser, and
  when it is not kept itself leaves that browser, signed out, to the next run.
  That run notices (`Dropped`) and signs in afresh.
- *An unattended run beside a browser* (`guards_run_alone`). Open browser and a
  discovery look for a run before they wait for the slot; a run that claims and
  finds the slots empty in between is not seen again (`commands/autorun.rs:576`,
  `:639`; the comment is `autorun_replay.rs:47-50`).
- *Looks of Auto Run the model shows to be too early*, without a comment that
  says otherwise: a sign-in check can start while a switch is past
  `refuse_switch`; an assistant's replay in a browser already open, and a
  discovery, go beside a check; a check is not refused beside a recording.
- *Whose slot an idle release takes* (`IdleTakesItsOwn` of `Assistants`).
  `autorun_slots.rs:571-573` has the unbind "checked under the bindings lock, so
  another assistant cannot take the slot in between"; the slot may have been taken between the
  close of the browser and that step when the assistant itself let it go
  meanwhile. `release_slot_within` (`:953`) unbinds after it dropped the lock in
  the same way. Also there: a browser can be left in an extra slot nobody is
  bound to (the comment at `:303-305`), the slot of a replay is picked before an
  await (`ai_bridge.rs:783`), and a failed start gives up a claim a parallel
  call of the same assistant has renewed (`ai_bridge.rs:12823`).
- *A Stop that is lost* (`StopIsHeeded` of `UnattendedRun`). A Stop that arrives
  between the claim and `CANCEL.store(false)` (`autorun_replay.rs:303-310`) is
  cleared; the window goes on saying "Stopping after this step"
  (`ReplayPane.tsx:569`). A Stop of the wait for the network is accepted after
  the wait has found it.
- *A pause without its panel* (`PauseIsShown` of `UnattendedRun`). The answer to
  a Continue takes off whatever pause of its run is shown
  (`backgroundRun.ts:450` compares the run only), also one that began since.
- *A request in a hold* (`NobodyGoesInAHold` of `Throttle`). A hold is read once
  per request, before the gap; one noted while the request sleeps or waits for
  the gate does not stop it, though `throttle.rs:148-151` has the hold outrank
  the pace.
- *Own writes heard, changes missed, a typed row taken* (`OwnWritesAreSilent`,
  `QueueHasTheFile`, `HandTypedStays` of `DraftFiles`). `filewatch.rs:197` has an
  own write not reported back: only one fingerprint is kept (`expected`), so of two
  own writes in a row the first is reported when the watch looks at it after the
  second was registered. `:16-17` promises one event per real change: an
  assistant's write within the window of an own one is absorbed with it. `fileSync.ts:276` leaves
  alone a typed row that shares a title: after a Remove that is still being
  written, a sync gives it the removed case's place. And an own write
  heard of may cost a case: the sync it starts reads the file between a later removal and its
  rename, and so brings the removed row back (it lands before the write returns); when the
  person removes it once more, its equal twin is what the file still has, and is deleted
  (`TwinsKeepApart` without `~landed`, four edits, no other writer and no failure).
  `draftWriteQueue.ts` names that outcome as what the chain is there to prevent.

Because of these the passing runs fix the environment in which the comments
are right, and say so by their constants: `LateAfterCheck = FALSE` (the
server is done when a Check is answered) and `MaxColleague = 0` in `upload`;
one mount, no upload started beside a Check (`UploadBesideCheck = FALSE`) and
`EarlyBy = 0`, where an earlier case would be claimed, for `NoIdOnTwoRows` and
`NothingForgotten`. `LateAfterError` (the connection breaks other than by the deadline, with the
server still at work) is FALSE in all runs: the code does not claim to handle
it. `IdsStick`, `HeldRowsAreNotSent` and `NoIdReportedTwice` are proved
without any of these restrictions. The other two are proved without them as well,
but until the first of the events that break them: not for an environment in which nothing
crosses, but for each behaviour of every environment up to where it does (section 5).

**Bounds.** Upload: Rows (2), Titles (1 or 2), BatchSize, MaxCases,
MaxUploads, MaxEdits, MaxColleague. Two rows with one title is the smallest
ambiguity; batches of one give a batch that was answered before one that was
lost, batches of two (`upload_hostile`) a batch that was partly run; three uploads give a hold,
its row retyped, a hold that replaces it or a second case, and an upload after that; one
colleague's case is one more found than creates. Searched too, without a violation of
`NothingForgotten` or `HeldRowsAreNotSent`, but for longer than a run here should take:
three rows in batches of two with one edit (3.08 million states), and two rows with
timeouts, three uploads and three edits (over fourteen million); and batches of two
beside a colleague without timeouts, which is where the ambiguity rule is needed.
The proofs of section 5 are for all sizes. Titles
are interchangeable (symmetry); `upload_hostile`, which checks liveness, has
one title and none.

SingleFlight has two calls and two keys: two works under different keys, or a work and one
who joins it, starts after it, or comes between its end and its removal; three calls are
beyond a run of five minutes, and the proofs are for any number. Session has two calls (one asks while one waits), two parts, tokens of
no or two parts (a tail to remove, a head without its part), two sessions and
three tokens (two sign-ins and a refresh, or one and two refreshes).
Leases has two accounts, one case, one person's browser, the template run and
three processes, and lets each account be taken once by a holder (`MaxGen`); one
account with four processes and two takes, and two accounts with four
processes (4.6 million states), were searched without a violation. Accounts and
processes are interchangeable.

AutoRunGuards has three calls (who holds, who waits, and who comes in between),
two slots (main and an extra) and two environments. Assistants has a session
and its subagent, one case, two slots, two calls and two disturbances from a
state in which both have called and the subagent has main: two calls are what it
takes for one to undo what the other relies on, and two disturbances for a
person or the sweeper to come in between twice; three of either were not
searched. Its six spans of time keep their order in the code and are one or two
ticks. UnattendedRun has two starts, three cases, pauses before the first two,
one rerun and one drop of the network in all. So pauses of two runs meet, but the second start
begins only when all that was on its way from the first has arrived, and the window says
"running" until the call of the first has ended: the window's own comparison of
generations (`backgroundRun.ts:253`) is in the model and never decides anything. More
starts are covered by the proofs. DraftFiles has the file a, b, a (two
equal cases around another), two edits and one of: an assistant's write, a write
that fails, a sync that cannot read. Throttle has
three requests, a gap of two, delays under and over the cap, and three ticks:
enough for a request to wait for a hold and then for the gap. The pairing
loop's inputs are all lists of up to four creates of two titles and all answers
over four ids.

Deadlock is not checked: a user may stop, and the counters' bounds stop the
models.

**Fairness.** `upload_hostile`: the loop of `submit_queue` runs on
(`tokio` runs a ready task), a batch is answered or reaches `BATCH_TIMEOUT`,
a lookup has a timeout too, and the promise's continuation runs. The server
need not do anything, and no user need click. `single_flight`: threads
run, works end because their requests have timeouts, and the mutex is handed to
each of finitely many contenders (strong fairness of `Enter` and `Finish`).
`unattended`: the window hears what was sent, commands are handled, and the run
goes on, since every step of a case and the wait for the network have time
limits; nobody has to answer a pause, press anything or close the app.
`drafts`: commands return, events arrive and effects run; nobody has to edit.

## 5. The proofs

`UploadProofs` (for every set of rows and titles, batch size, environment and
bound): `TypeCorrect`, `NoIdReportedTwiceHolds`, `IdsStickHolds`,
`HeldRowsAreNotSentHolds`; and, of `UploadHistory`,
`NoIdOnTwoRowsHolds` and `NothingForgottenHolds`. The first invariant, `IInv`, is

- `TypeOK`;
- `WireIdle`: there is a batch and something the server did with it only
  while the loop waits or looks;
- `LoopShown`: the loop runs only while the screen says it uploads;
- `ReportedExist`: ids reported are cases that exist;
- `NewOnWire`: what the server made for the batch under way is not yet
  reported, and is different for different positions;
- `NoIdReportedTwice`.

The type invariant alone is not inductive: that `wire` lies beyond the
results needs `WireIdle`, that `sent` is not replaced while results grow needs
`LoopShown`. `NoIdReportedTwice` has three ways to grow: an answered batch
(new cases, hence `NewOnWire`), a lost one (claimed ids are pairs, distinct by
`PairsInjective`, and not reported before by `Candidates`), and a chunk not
sent. `IdsStick` follows from `RowFor` choosing rows without an id.

`NoIdOnTwoRowsHolds` is `HSpec => [](crossed \cap {"beside", "checks", "earlier"} = {} =>
NoIdOnTwoRows)`: no constant is restricted, neither the margin nor the number of Checkers, and
an upload may begin beside a Check; the property holds in each behaviour until one of the
three has happened. All three are needed: `NoIdOnTwoRows` fails in a small instance with any one of
them let through (section 4 describes two). Timeouts, late requests, late answers, colleagues and
edits break nothing. `AInv` adds to `IInv` that every id
anyone was told of exists and that a row carries no other (`ToldExist`, `QueueTold`); that
while an upload runs what anyone was told of is older than its beginning, what it makes and
reports newer, and no Check is out (`SinceBegun`), so that results put into an edited
queue meet no id that is there; that Checks do not overlap (`OneCheck`); and that a Check which
is out leaves out every id the queue carries and gives one case to one of its rows
(`CheckApart`). A step keeps `AInv` if it does not cross (`KeepsApart`), and `HistoryStep` says
that what is not in `crossed` afterwards has not crossed in the step.

`NothingForgottenHolds` is `HSpec => [](crossed = {} => NothingForgotten)`. A lookup that could
have taken an earlier or a colleague's case but did not, a timeout whose requests land past the
end of the upload and past later ones, a Check asked while the server is still at work, a colleague
who adds cases: all are allowed. Again each crossing was let through alone on a small
instance, and `NothingForgotten` failed for all but "checks", which the proof excludes
because `AInv` needs it. `CInv` keeps the
books of an upload: each request is on one row, what was made for a request is on the wire
or in the results, and ids in the results are of cases the app made. A step that crosses
nothing is `NothingCrosses`. `DInv` adds the
account itself, `Balanced`: for each title, the cases nobody was told of and not in an
answer on its way, with the creates the server may still run, are no more than the
entries of the hold and of the holds that went, with the creates reported as unknown and, at a
timeout that is being looked into, those the server has not run. Each step moves
cases from one side's term to another's, and there are two places where they
could be lost. A lookup after a batch that was lost answers for a create with a case that is
its own or an equal one's of the same batch, because everything else of that title above the
lower bound was told of before or is in the history (`PoolPaired`; `Going` says so of the cases from
before the upload). And a
Check lets an entry go only when each case of its title was paired (`Checks`) and no request
is late (`Released`); `HoldFits` says which cases below a hold's bound its entries do not
stand for. `Tags` keeps entries of holds that went apart by upload, and
`FiniteDrops` and `KnownOld` make the counts meaningful.

`MechanismsProofs`: `TypeCorrect`, `OneWorkPerKeyHolds`,
`NeverAnsweredFromThePastHolds`, for any set of calls and keys, by an
invariant that gives each work not over exactly one entry unless its spawner,
holding the mutex, has not pushed it yet.

`SessionProofs`, for any number of calls, tokens, parts and sessions.
`TypeCorrect` (`TInv`: besides the types, where a thread with writes left or
tokens asked for may be). `OneRefreshForAllHolds` and
`RefreshKeepsSessionHolds` hold with writers overlapping: `RInv` adds that the
gate is held by the call that asks (`GateHeld`), that numbers are of tokens
issued (`Issued`), and that what is asked with is current or older than what is
(`Distinct`, `Unspent`). `SignedOutForGoodHolds` is `Spec => [](crossed = {} =>
SignedOutForGood)`, for writers that overlap and resumes at any moment: only after a Sign out has
met a save that had entries left, or a resume has met a Sign out, may an old session be back
(`session_overlap` shows the first). It could come back from an entry of the store,
from what a launch has read of it or from an answer it waits for, so `SInv`
says of each that it is younger than the last Sign out that answered
(`Younger`), that a Sign out goes through the entries in order
(`ForgetGoesOn`), and that a launch is under way only while that is the last Sign out at all
(`ResumeInTime`), until something has crossed.
`KeptIsCurrentHolds` has no assumption: `KeptIsCurrent` itself says that the last write went well and
had the store to itself, whatever overlapped before. What is in the store half way through a save
means nothing by itself, so its invariant `KeptLeads`, which holds while the last writer to begin
began alone, speaks of the writes left: unless somebody
has still to decide what to write (`Pending`), each thread's writes lead, from the store as
it is, to the current token at every entry or to no head at all (`Leads`); and the steps that
make another token current, or switch the setting, leave a writer behind.

`LeasesProofs`, for any number of accounts, cases, persons, processes and
takes: all the properties of the run `leases`. `InUseUndisturbed` follows from
two facts: who signs in holds the lease (`SignHolds`), and so does who works as
the account (`LeaseCovers`). Neither is inductive alone. `LeaseCovers` is lost
if a process that is signed in could be handed out as a new one or have two
owners; hence `Owners` (which is `OneOwner`), `Tracked` (a signed-in process is
somebody's), and `Driving` and `ClosingAt` (who has a process at which place).
`ReusedIsLastSignIn`, `NoneKeptBesideUse` and the refinement of `AccountUse`
(`ImplementsUseHolds`) assume `~Unreadable` and rest on `KeptLast`: a kept
browser, and one in use, is its account's last sign-in, because whoever has the
lease has emptied the store of the account (`HolderNone`, `TemplateNone`).
The argument does not use the generations: since `hold` and `account_lease`
wait for `give_way`, they only make the sweep close such an entry sooner.

`AutoRunGuardsProofs`, for any number of calls, slots and environments: all the
properties of the run `guards`. The inductive invariant adds to `TypeOK`: where
each call is when it owns a claim, a replay slot, a slot's lock, the opening lock
for reading or for writing, and that nobody else is the owner (`Owned`, without
which a call that returns could give back another's); that what a recording has
seen of the slots and the runs stays so (`RecordInv`); that a release which is
closing has closed every browser (`ReleaseInv`); and that what a switch has looked
at stays so until it moves the environment (`SwitchInv`).
`NobodyWaitsInACircle` needs no induction over the circle: a call that blocks
another while it is blocked itself is the writer of the opening lock, waiting for
a slot, and there is one writer; so the third call in a chain waits for nobody.

`UnattendedRunProofs`, for any number of starts, cases, pauses, reruns and drops
of the network: all the safety properties of the run `unattended`. The
invariant has a part for each thing the properties do not say. `CallsInv`: one
run goes, that of the last start, and the window knows of it. `WiresInv`: every
event, answer and reply on its way is of the last start, and none is there before
its call has claimed the run; it is what a start over empty wires gives, and the
reason why an answer cannot name a run that is gone. `PauseInv` and `RecordInv`
tie the pause, the wait and the record to the place of the loop. `ExitInv` follows a
run the exit found waiting: it cannot be at its start, and a Stop cannot end it but
at its pause or wait, where the rest is recorded. `AnswersInv`: of a pause that is
told of, shown enabled, and answered, only one holds at a time and once, so an answer
in hand is of the pause that waits. `PanelInv`: a disabled panel has its answer on
its way there or back. `PanelIsTakenOff` needs the last two: a panel of another
pause than the one that waits cannot be enabled.

`MechanismsProofs` proves the other mechanisms too, under the names the runs
have for them. The pacer, for any number of requests (`SpacedHolds`, `HoldsAreKeptHolds`):
what was asked for is over or in
force (`HoldInv`, which the maximum in `note_server_delay` keeps); what a request
has read of it ends before it wakes (`DueInv`); the one that sleeps at the gate has its
lock and wakes its gap after the last one sent (`GateInv`), and nobody was sent after
that (`LastInv`). The loop of `reconcile_pairs`, for any list of creates and any finite
answer (`LoopComputesPairsHolds`): each pool is the ids of its title in ascending order
(`PoolsInv`), the cursor of a title that is not ambiguous is how many of its creates were passed,
or its pool's length if that is less (`CursorInv`), and what was pushed is what `Pairs` says of the
creates passed (`OutInv`). No induction over data is needed: the loop is a state
machine, and a turn adds the one pair of the create it is at, because the rank of that
create among its title's is the cursor (`PairOfCreate`).

The watched file, for any draft and any number of edits and mishaps (`DraftsTypedHolds`,
`TwinsKeepApartHolds`). The hazard is that a write-back decides which case it is for when its
turn comes, from the file as the writes ahead left it, with rows as they were when the
person edited. `Story` is that foresight: a file for every write-back queued, each made from
the one before by the edit (`After`), and each led by its write-back's rows (`Leads`: it is
a prefix of them, what was typed by hand comes after). A row that is led has its own place
for a slot (`LeadsSlot`: twins before it are as many on both sides), so the case that Rust
finds is the row's own; an edit leaves the next file in the lead (`LeadsAfter`), which makes
the story one longer (`StoryGoesOn`), and a write that returns makes it one shorter
(`StoryTail`). `StandsAt` says how far the write under way has taken the file. An edit that
queues nothing is one of a file with no cases left (`SomeSlot`).

`AssistantsProofs`, for any number of assistants, calls, cases and slots and any time
limits: all the properties of the run `assistants`. `TypeOK` is not inductive alone: what a
release asks again for, and who is told of it, must be an assistant, so `AskedInv` says
whom the releases of the sweeper and the judged slots are of. `BoundOnceHolds` is inductive
over the types, which is the point of it: every step that binds looks at all slots in the
same critical section, and none relies on what was seen in an earlier one.
`HoldKeepsSlotHolds` comes to this: each step that lets a slot go, early or late, looks at
`held` where it writes `bound`. `PersonsStaysHolds` needs that the call at work in a slot has
its lock (`LockInv`), so that nobody puts the person's browser there between the moment a
start has made way and its launch (`LaunchInv`). In `WorkerKeepsCaseHolds` one step, the
claim, gives a case to another, after the sweep of the same critical section has kept the
claims of those at work (`Retained`).

`ReconcileProofs`: `PairsAgree`, `PairsInjective`, `PairsFunctional` and `PoolPaired`, from
`RankInjective` (an element's rank in a finite set of numbers determines it) and `RankSurjective` (every number below the set's size is a rank), and for
the loop `RankMonotone`, `RankBound`, `SortedExists` and `SortedRank` (the list a sort makes exists,
and an element's place in it is its rank).

Assumptions: `RowsAssumption` (rows are finitely many positive numbers),
`UploadAssumption`, `SessionAssumption`, `LeasesAssumption`, `RunAssumption` of
UnattendedRun and the assumptions of AutoRunGuards (bounds are numbers, the
kinds of threads or users are different, `None` is none of them), in
SingleFlight that `None` and `NoKey` are no call and no key, in MCMechanisms
(`SharedAssumption`) that gaps, delays, the cap, the bounds and the ids are numbers, `None`
is no request, the ids a lookup may find are finitely many, a draft is a list of texts and
what a removed row becomes is none of them, and in Assistants
(`AssistantsAssumption`) that the limits are numbers in the order they have in the code.

Only model-checked: all liveness (the provers do not reason about ENABLED). Every invariant
and every action property of the runs is stated by a theorem.

## 6. What is not modelled

In Upload: sorting the queue by the Order bar; edits that change content but
not the title (they only move a row from the first pass of `heldRows` to the
second); case folding (duplicates are compared without case, holds with it);
step files, except that an update whose files are seen on the case has landed;
the suite and run order set after the results are final; switching the PBI;
closing the application during an upload: the hold is stored when the upload
ends, so a crash before that leaves none; an accepted create whose answer carries no id,
which `map_batch_results` reports as failed (`queue.rs:1568-1576`): `Outcome` gives every
accepted request the id of its case. The lookup is taken to be one read,
though it is two requests.

In Session: the loopback server, PKCE and the browser's part of a sign-in;
the caches and files cleared for another account; what becomes of a refresh
whose caller is dropped; the wait for the store's lock. `Resume` reads three
conditions at one moment that the code reads one after the other. Time is only
`due`: the access token is near its expiry or not.

In Leases: tickets; the recipe, cookie and landing-page checks that decide
whether a sign-in is needed; `WAIT` and `HELD_IDLE` as durations (a refusal or a
sweep may come at any moment they allow); a future that is dropped or panics in
the middle of a run (the Rust drops then run in an order of their own); the
switch of environment other than the `close_all` it makes. A setup's browser
takes the account before it opens, here after.

In AutoRunGuards: what a run, a recording or a check does once it is past its
guards; the account a holder has (section 3). In Assistants: what a call does in
its browser, the refusals that do not depend on who holds what, and the
composition with the account leases. In UnattendedRun: a reload of the window
and the panel it finds (`screens/AutoRun/index.tsx:336-415`), a file that cannot
be written, the contents of a record; `begin` and its event are one step. In
DraftFiles: cases with different titles or with ids, arming, several files, the
switch of PBI; a stamp of an upload is an edit like any other. In Throttle: a
request is sent once, and retries ask again as new requests.

The other components of section 1, as `PROJECT.json` lists them, with the
reason for each: single requests, parsers, printing, browser and tool I/O,
where a model would either be the code again or say nothing of its behaviour.
Most of the repository's lines are of this kind: the routes of the bridge and
the tools of the MCP server turn a request into one call of a function and its
answer into text, and the runner, the checks of what is seen and the guide read
a page.
