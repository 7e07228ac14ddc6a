----------------------------- MODULE UnattendedRun -----------------------------
(***************************************************************************)
(* An unattended run: the window's store of it (src/lib/backgroundRun.ts), *)
(* the command it calls (commands/autorun_replay.rs), the loop over the    *)
(* cases (autorun/replay.rs), its pauses for the person                    *)
(* (autorun/reset_wait.rs) and for the company network                     *)
(* (autorun/network.rs), and the app's exit.                               *)
(*                                                                         *)
(* The run tells the window what it does in events, which arrive in order; *)
(* the window's commands and the answers to them travel on their own.  A   *)
(* start is known by its number, which is also its run's id.               *)
(***************************************************************************)
EXTENDS Naturals, Sequences

CONSTANTS MaxStarts,    \* how often a run is started
          CaseCount,    \* the cases of a run, 1 .. CaseCount in order
          Pauses,       \* the cases with a pause for the person before them
          MaxReruns,    \* MAX_NETWORK_RERUNS
          MaxDrops      \* how often the network drops

AllCases == 1 .. CaseCount
Runs == 1 .. MaxStarts
NoRun == 0

ASSUME RunAssumption ==
  /\ MaxStarts \in Nat /\ CaseCount \in Nat
  /\ MaxReruns \in Nat /\ MaxDrops \in Nat
  /\ Pauses \subseteq AllCases

VARIABLES win,       \* the store: the run the window knows of
          gen,       \* its generation: the starts so far
          call,      \* each start's call of auto_run_replay
          run,       \* the run going in the app
          kept,      \* the cases it has recorded, in order
          saved,     \* those in its file
          cancel,    \* CANCEL
          pending,   \* the pause waiting for the person (ResetWaits)
          waits,     \* the wait for the network (NetworkWaits)
          network,   \* [up, drops]
          events,    \* on their way to the window
          asks,      \* commands on their way from the window
          replies,   \* their answers, on their way back
          app        \* [step, found, late]: the app's exit

window == <<win, gen, call>>
backend == <<run, kept, saved, cancel, pending, waits>>
wires == <<events, asks, replies>>
vars == <<window, backend, network, wires, app>>

NoPause == [run |-> NoRun, before |-> 0]
NoWait == [run |-> NoRun, stop |-> FALSE]
NothingGoes == [id |-> NoRun, step |-> "none", at |-> 1, armed |-> FALSE,
                reruns |-> 0, answer |-> "none"]
NoWindow == [phase |-> "none", open |-> FALSE, run |-> NoRun, panel |-> NoPause,
             wait |-> NoPause, answering |-> FALSE, stopping |-> FALSE]

Paused == [run : Runs \cup {NoRun}, before : 0 .. CaseCount]
Event == [kind : {"opening", "done", "reset", "waits", "waited"},
          run : Runs, case : AllCases]
Ask == [kind : {"cancel", "continue", "stop", "stopWait"}, pause : Paused]

Reply == [ask : Ask, ok : BOOLEAN]
Window == [phase : {"none", "setup", "running", "finished", "failed"}, open : BOOLEAN,
           run : Runs \cup {NoRun}, panel : Paused, wait : Paused,
           answering : BOOLEAN, stopping : BOOLEAN]
RunSteps == {"none", "claimed", "top", "paused", "look", "down", "waiting", "found",
             "stopped", "case", "running", "failed", "record"}
Run == [id : Runs \cup {NoRun}, step : RunSteps, at : 1 .. CaseCount + 1,
        armed : BOOLEAN, reruns : 0 .. MaxReruns, answer : {"none", "continue", "stop"}]

TypeOK ==
  /\ win \in Window
  /\ gen \in 0 .. MaxStarts
  /\ call \in [Runs -> {"none", "listening", "going", "ok", "error", "over"}]
  /\ run \in Run
  /\ kept \in Seq(AllCases) /\ Len(kept) <= CaseCount
  /\ saved \in Seq(AllCases) /\ Len(saved) <= Len(kept)
  /\ cancel \in BOOLEAN
  /\ pending \in Paused
  /\ waits \in [run : Runs \cup {NoRun}, stop : BOOLEAN]
  /\ network \in [up : BOOLEAN, drops : 0 .. MaxDrops]
  /\ events \in Seq(Event)
  /\ asks \subseteq Ask
  /\ replies \subseteq Reply
  /\ app \in [step : {"up", "asked", "waiting", "gone"}, found : BOOLEAN, late : BOOLEAN]

Init ==
  /\ win = NoWindow
  /\ gen = 0
  /\ call = [g \in Runs |-> "none"]
  /\ run = NothingGoes
  /\ kept = <<>> /\ saved = <<>>
  /\ cancel = FALSE
  /\ pending = NoPause
  /\ waits = NoWait
  /\ network = [up |-> TRUE, drops |-> 0]
  /\ events = <<>>
  /\ asks = {}
  /\ replies = {}
  /\ app = [step |-> "up", found |-> FALSE, late |-> FALSE]

-----------------------------------------------------------------------------
(* The window.                                                             *)

OpensSetup ==
  /\ win.phase # "running" /\ gen < MaxStarts
  /\ win' = [NoWindow EXCEPT !.phase = "setup", !.open = TRUE]
  /\ UNCHANGED <<gen, call, backend, network, wires, app>>

\* The person takes longer to set a run up than what is on its way from the one
\* before takes to arrive.
Starts ==
  /\ win.phase \in {"setup", "failed"} /\ gen < MaxStarts
  /\ wires = <<<<>>, {}, {}>>
  /\ gen' = gen + 1
  /\ win' = [NoWindow EXCEPT !.phase = "running", !.open = win.open]
  /\ call' = [call EXCEPT ![gen + 1] = "listening"]
  /\ UNCHANGED <<backend, network, wires, app>>

\* Closing the window of a run that goes on only hides it.
ClosesWindow ==
  /\ win.open
  /\ win' = IF win.phase = "running" THEN [win EXCEPT !.open = FALSE] ELSE NoWindow
  /\ UNCHANGED <<gen, call, backend, network, wires, app>>

OpensWindow ==
  /\ win.phase \in {"running", "finished", "failed"} /\ ~win.open
  /\ win' = IF win.phase = "finished" THEN NoWindow ELSE [win EXCEPT !.open = TRUE]
  /\ UNCHANGED <<gen, call, backend, network, wires, app>>

Sends(kind, pause) == asks' = asks \cup {[kind |-> kind, pause |-> pause]}

\* The button says so, and is disabled, from the press on.
PressesStop ==
  /\ win.phase = "running" /\ ~win.stopping
  /\ win' = [win EXCEPT !.stopping = TRUE]
  /\ Sends("cancel", NoPause)
  /\ UNCHANGED <<gen, call, backend, network, events, replies, app>>

\* Mutant: the panel stays enabled while an answer is on its way.
AnswersAgain(kind) ==
  /\ win.panel # NoPause
  /\ win' = [win EXCEPT !.answering = TRUE, !.stopping = @ \/ kind = "stop"]
  /\ Sends(kind, win.panel)
  /\ UNCHANGED <<gen, call, backend, network, events, replies, app>>

\* The pause's panel is disabled while its answer is on its way.
Answers(kind) ==
  /\ win.panel # NoPause /\ ~win.answering
  /\ win' = [win EXCEPT !.answering = TRUE, !.stopping = @ \/ kind = "stop"]
  /\ Sends(kind, win.panel)
  /\ UNCHANGED <<gen, call, backend, network, events, replies, app>>

PressesStopWait ==
  /\ win.wait # NoPause
  /\ Sends("stopWait", win.wait)
  /\ UNCHANGED <<window, backend, network, events, replies, app>>

\* An event of the run the first progress event fixed, while it goes.
HearsEvent ==
  LET e == Head(events)
      p == [run |-> e.run, before |-> e.case]
      progress == e.kind \in {"opening", "done"}
  IN /\ events # <<>>
     /\ events' = Tail(events)
     /\ win' = IF win.phase # "running" \/ win.run \notin {NoRun, e.run} THEN win
               ELSE CASE e.kind = "opening" -> [win EXCEPT !.run = e.run, !.panel = NoPause]
                      [] e.kind = "done" -> [win EXCEPT !.run = e.run]
                      [] e.kind = "reset" -> [win EXCEPT !.panel = p, !.answering = FALSE]
                      [] e.kind = "waits" -> [win EXCEPT !.wait = p]
                      [] e.kind = "waited" -> [win EXCEPT !.wait = NoPause]
     /\ UNCHANGED <<gen, call, backend, network, asks, replies, app>>

\* The call's promise: the review opens if the window is, else the pill says
\* that the run finished.
HearsEnd(g) ==
  /\ call[g] \in {"ok", "error"}
  /\ call' = [call EXCEPT ![g] = "over"]
  /\ win' = CASE g # gen \/ win.phase # "running" -> win
              [] call[g] = "ok" /\ win.open -> NoWindow
              [] OTHER -> [NoWindow EXCEPT
                   !.phase = IF call[g] = "ok" THEN "finished" ELSE "failed",
                   !.open = win.open, !.run = win.run]
  /\ UNCHANGED <<gen, backend, network, wires, app>>

\* Mutant: the panel is left to the next progress event to take off.
HearsReplyLeavingPanel(r) ==
  /\ r \in replies
  /\ replies' = replies \ {r}
  /\ win' = CASE win.phase = "none" -> win
              [] r.ask.kind = "stopWait" -> [win EXCEPT !.stopping = @ \/ r.ok]
              [] OTHER -> [win EXCEPT !.answering = FALSE]
  /\ UNCHANGED <<gen, call, backend, network, events, asks, app>>

\* Whatever run the store holds by now: only the panel's run is compared.
HearsReply(r) ==
  /\ r \in replies
  /\ replies' = replies \ {r}
  /\ win' = CASE win.phase = "none" -> win
              [] r.ask.kind = "stopWait" -> [win EXCEPT !.stopping = @ \/ r.ok]
              [] OTHER -> [win EXCEPT !.answering = FALSE,
                   !.panel = IF @.run = r.ask.pause.run THEN NoPause ELSE @]
  /\ UNCHANGED <<gen, call, backend, network, events, asks, app>>

-----------------------------------------------------------------------------
(* The commands.                                                           *)

Handled(a, ok) ==
  /\ asks' = asks \ {a}
  /\ replies' = IF a.kind = "cancel" THEN replies
                ELSE replies \cup {[ask |-> a, ok |-> ok]}

HandlesCancel(a) ==
  /\ a \in asks /\ a.kind = "cancel"
  /\ cancel' = TRUE
  /\ Handled(a, TRUE)
  /\ UNCHANGED <<window, run, kept, saved, pending, waits, network, events, app>>

\* Refused for any run but the one waiting.
HandlesAnswer(a) ==
  LET here == pending # NoPause /\ pending.run = a.pause.run
  IN /\ a \in asks /\ a.kind \in {"continue", "stop"}
     /\ pending' = IF here THEN NoPause ELSE pending
     /\ run' = IF here THEN [run EXCEPT !.answer = a.kind] ELSE run
     /\ Handled(a, here)
     /\ UNCHANGED <<window, kept, saved, cancel, waits, network, events, app>>

HandlesStopWait(a) ==
  LET here == waits.run = a.pause.run
  IN /\ a \in asks /\ a.kind = "stopWait"
     /\ waits' = IF here THEN [waits EXCEPT !.stop = TRUE] ELSE waits
     /\ Handled(a, here)
     /\ UNCHANGED <<window, run, kept, saved, cancel, pending, network, events, app>>

-----------------------------------------------------------------------------
(* The run.                                                                *)

At(step) == run.step = step
Goes(step) == run' = [run EXCEPT !.step = step]
Told(kind, i) == [kind |-> kind, run |-> run.id, case |-> i]
Tells(kind) == events' = Append(events, Told(kind, run.at))

\* The call has claimed the one run there is, before it looks at anything.
Claims ==
  /\ \E g \in Runs :
       /\ call[g] = "listening"
       /\ call' = [call EXCEPT ![g] = "going"]
       /\ run' = [NothingGoes EXCEPT !.id = g, !.step = "claimed"]
  /\ kept' = <<>> /\ saved' = <<>>
  /\ UNCHANGED <<win, gen, cancel, pending, waits, network, wires, app>>

Returns(how) == /\ call' = [call EXCEPT ![run.id] = how]
                /\ run' = NothingGoes

\* A browser is open, a recording is under way.
RefusedAtStart ==
  /\ At("claimed")
  /\ Returns("error")
  /\ UNCHANGED <<win, gen, kept, saved, cancel, pending, waits, network, wires, app>>

\* CANCEL.store(false), after the looks.
ClearsCancel ==
  /\ At("claimed")
  /\ cancel' = FALSE
  /\ Goes("top")
  /\ UNCHANGED <<window, kept, saved, pending, waits, network, wires, app>>

\* The account or the modules cannot be read: the run did not start.
Fails ==
  /\ At("top") /\ run.at = 1
  /\ Returns("error")
  /\ UNCHANGED <<win, gen, kept, saved, cancel, pending, waits, network, wires, app>>

\* Every case is through, or a Stop leaves the rest.
Ends ==
  /\ At("top")
  /\ run.at > CaseCount \/ cancel
  /\ Returns("ok")
  /\ UNCHANGED <<win, gen, kept, saved, cancel, pending, waits, network, wires, app>>

\* In place before the panel shows, so its answer always lands.
BeginsPause ==
  /\ At("top") /\ ~cancel /\ run.at \in Pauses
  /\ pending' = [run |-> run.id, before |-> run.at]
  /\ run' = [run EXCEPT !.step = "paused", !.answer = "none"]
  /\ Tells("reset")
  /\ UNCHANGED <<window, kept, saved, cancel, waits, network, asks, replies, app>>

NoPauseHere ==
  /\ At("top") /\ ~cancel /\ run.at \in AllCases \ Pauses
  /\ Goes("look")
  /\ UNCHANGED <<window, kept, saved, cancel, pending, waits, network, wires, app>>

Rest == [i \in 1 .. CaseCount - run.at + 1 |-> run.at + i - 1]

TellsRest(told) ==
  events' = events \o told \o [i \in DOMAIN Rest |-> Told("done", Rest[i])]

\* The rest is recorded as not run, told as done, and saved.
LeavesRest ==
  /\ kept' = kept \o Rest
  /\ saved' = kept'
  /\ Returns("ok")

PauseEnds == pending' = IF pending.run = run.id THEN NoPause ELSE pending

PauseContinues ==
  /\ At("paused") /\ run.answer = "continue" /\ ~cancel
  /\ PauseEnds
  /\ saved' = kept
  /\ Goes("look")
  /\ UNCHANGED <<window, kept, cancel, waits, network, wires, app>>

\* Mutant: a pause waits for its answer, whatever the run's own Stop says.
PauseStopsWhenAnswered ==
  /\ At("paused") /\ run.answer = "stop"
  /\ PauseEnds
  /\ LeavesRest
  /\ TellsRest(<<>>)
  /\ UNCHANGED <<win, gen, cancel, waits, network, asks, replies, app>>

\* Stop is answered, or the run's own Stop is seen.
PauseStops ==
  /\ At("paused") /\ (run.answer = "stop" \/ cancel)
  /\ PauseEnds
  /\ LeavesRest
  /\ TellsRest(<<>>)
  /\ UNCHANGED <<win, gen, cancel, waits, network, asks, replies, app>>

\* A server that has not answered yet in this run counts as not checked.
Unreachable == ~network.up /\ run.armed
Armed == run.armed \/ network.up

\* Before the case, unless a Stop was pressed.
LooksAtNetwork ==
  /\ At("look")
  /\ run' = IF ~cancel /\ Unreachable THEN [run EXCEPT !.step = "down"]
            ELSE [run EXCEPT !.step = "case", !.armed = IF cancel THEN @ ELSE Armed]
  /\ UNCHANGED <<window, kept, saved, cancel, pending, waits, network, wires, app>>

BeginsWait ==
  /\ At("down") /\ ~cancel
  /\ waits' = [run |-> run.id, stop |-> FALSE]
  /\ Goes("waiting")
  /\ Tells("waits")
  /\ UNCHANGED <<window, kept, saved, cancel, pending, network, asks, replies, app>>

OpensCase ==
  /\ At("case")
  /\ Goes("running")
  /\ Tells("opening")
  /\ UNCHANGED <<window, kept, saved, cancel, pending, waits, network, asks, replies, app>>

\* A case without a script, or blocked, opens nothing; it may pass or fail.
CaseEnds ==
  /\ run.step \in {"case", "running"}
  /\ \/ Goes("record")
     \/ ~cancel /\ Goes("failed")
  /\ UNCHANGED <<window, kept, saved, cancel, pending, waits, network, wires, app>>

\* Mutant: a go that is run again is recorded too.
CaseFailedIsRecorded ==
  /\ At("failed")
  /\ IF Unreachable /\ run.reruns < MaxReruns
     THEN /\ run' = [run EXCEPT !.step = "down", !.reruns = @ + 1]
          /\ kept' = Append(kept, run.at)
     ELSE /\ run' = [run EXCEPT !.step = "record", !.armed = Armed]
          /\ UNCHANGED kept
  /\ UNCHANGED <<window, saved, cancel, pending, waits, network, wires, app>>

\* A failure while the server is silent is the network: wait, and run it again.
CaseFailed ==
  /\ At("failed")
  /\ run' = IF Unreachable /\ run.reruns < MaxReruns
            THEN [run EXCEPT !.step = "down", !.reruns = @ + 1]
            ELSE [run EXCEPT !.step = "record", !.armed = Armed]
  /\ UNCHANGED <<window, kept, saved, cancel, pending, waits, network, wires, app>>

RecordsCase ==
  /\ At("record")
  /\ kept' = Append(kept, run.at)
  /\ saved' = kept'
  /\ run' = [run EXCEPT !.step = "top", !.at = @ + 1, !.reruns = 0]
  /\ Tells("done")
  /\ UNCHANGED <<window, cancel, pending, waits, network, asks, replies, app>>

\* The network is back; or the wait is stopped, or has lasted too long.
WaitEnds ==
  /\ At("waiting")
  /\ \/ network.up /\ run' = [run EXCEPT !.step = "found", !.armed = TRUE]
     \/ Goes("stopped")
  /\ UNCHANGED <<window, kept, saved, cancel, pending, waits, network, wires, app>>

LetsWaitGo == waits' = IF waits.run = run.id THEN NoWait ELSE waits

Resumes ==
  /\ At("found") /\ ~cancel
  /\ LetsWaitGo
  /\ saved' = kept
  /\ Goes("case")
  /\ Tells("waited")
  /\ UNCHANGED <<window, kept, cancel, pending, network, asks, replies, app>>

\* A Stop that came while the server was asked is seen before the wait.
StopsBeforeWait ==
  /\ At("down") /\ cancel
  /\ LeavesRest
  /\ TellsRest(<<>>)
  /\ UNCHANGED <<win, gen, cancel, pending, waits, network, asks, replies, app>>

WaitStops ==
  /\ At("stopped") \/ (At("found") /\ cancel)
  /\ LetsWaitGo
  /\ LeavesRest
  /\ TellsRest(<<Told("waited", run.at)>>)
  /\ UNCHANGED <<win, gen, cancel, pending, network, asks, replies, app>>

NetworkChanges ==
  /\ network.up => network.drops < MaxDrops
  /\ network' = [up |-> ~network.up,
                 drops |-> IF network.up THEN network.drops + 1 ELSE network.drops]
  /\ UNCHANGED <<window, backend, wires, app>>

-----------------------------------------------------------------------------
(* The app's exit: nothing of the window's is heard any more.              *)

\* stop_paused_run_on_exit: first the pause for the person ...
ExitStopsPause ==
  /\ app.step = "up"
  /\ app' = [step |-> "asked", found |-> pending # NoPause, late |-> FALSE]
  /\ pending' = NoPause
  /\ run' = IF pending # NoPause THEN [run EXCEPT !.answer = "stop"] ELSE run
  /\ UNCHANGED <<window, kept, saved, cancel, waits, network, wires>>

\* Mutant: the exit does not wait for the run to save itself.
ExitStopsWaitAndGoes ==
  /\ app.step = "asked"
  /\ waits' = IF waits # NoWait THEN [waits EXCEPT !.stop = TRUE] ELSE waits
  /\ app' = [step |-> "gone", found |-> app.found \/ waits # NoWait, late |-> FALSE]
  /\ UNCHANGED <<window, run, kept, saved, cancel, pending, network, wires>>

\* ... then the wait for the network; then the run is given time to save.
ExitStopsWait ==
  LET found == app.found \/ waits # NoWait
  IN /\ app.step = "asked"
     /\ waits' = IF waits # NoWait THEN [waits EXCEPT !.stop = TRUE] ELSE waits
     /\ app' = [step |-> IF found THEN "waiting" ELSE "gone", found |-> found,
                late |-> FALSE]
     /\ UNCHANGED <<window, run, kept, saved, cancel, pending, network, wires>>

ExitEnds ==
  /\ app.step = "waiting"
  /\ app' = [app EXCEPT !.step = "gone", !.late = ~At("none")]
  /\ UNCHANGED <<window, backend, network, wires>>

-----------------------------------------------------------------------------

WindowHears ==
  \/ HearsEvent
  \/ \E g \in Runs : HearsEnd(g)
  \/ \E r \in replies : HearsReply(r)

CommandsAreHandled ==
  \E a \in asks : HandlesCancel(a) \/ HandlesAnswer(a) \/ HandlesStopWait(a)

PersonActs ==
  \/ OpensSetup \/ Starts \/ ClosesWindow \/ OpensWindow
  \/ PressesStop \/ PressesStopWait
  \/ \E kind \in {"continue", "stop"} : Answers(kind)

RunGoesOn ==
  \/ Claims \/ RefusedAtStart \/ ClearsCancel \/ Fails \/ Ends
  \/ BeginsPause \/ NoPauseHere \/ PauseContinues \/ PauseStops
  \/ LooksAtNetwork \/ OpensCase \/ CaseEnds \/ CaseFailed \/ RecordsCase
  \/ BeginsWait \/ StopsBeforeWait \/ WaitEnds \/ Resumes \/ WaitStops

ExitGoesOn == ExitStopsWait \/ ExitEnds

AppUp == app.step = "up"

Next ==
  \/ AppUp /\ (WindowHears \/ CommandsAreHandled \/ PersonActs \/ ExitStopsPause)
  \/ app.step # "gone" /\ (RunGoesOn \/ NetworkChanges \/ ExitGoesOn)

Spec == Init /\ [][Next]_vars

\* The window and the app handle what reaches them; every step of a case has a
\* time limit, and so has the wait for the network.  Nobody has to answer a
\* pause, press anything, or close the app.
Fairness ==
  /\ WF_vars(AppUp /\ HearsEvent)
  /\ \A g \in Runs : WF_vars(AppUp /\ HearsEnd(g))
  /\ WF_vars(AppUp /\ CommandsAreHandled)
  /\ WF_vars(app.step # "gone" /\ RunGoesOn)

FairSpec == Spec /\ Fairness

-----------------------------------------------------------------------------
(* Properties.                                                             *)

\* A Stop that reaches the run once it has begun ends it, in the app and in
\* the window, whatever it is doing: a case, a pause nobody answers, a wait
\* for a network that stays away.
StopEnds ==
  cancel /\ run.step \notin {"none", "claimed"}
    ~> ~AppUp \/ win.phase # "running"

\* An answer given at one pause never answers another, however late it comes
\* and however fast the run reaches the next.
AnswerMeetsItsPause ==
  [][\A a \in asks \ asks' : pending' # pending => pending = a.pause]_vars

\* The window shows a pause that is over only while something is on its way
\* that takes it off.
PanelIsTakenOff ==
  win.panel \notin {NoPause, pending} =>
    \/ ~AppUp
    \/ \E a \in asks : a.pause = win.panel
    \/ \E r \in replies : r.ask.pause = win.panel
    \/ \E i \in DOMAIN events : events[i].kind = "opening" /\ events[i].run = win.panel.run
    \/ call[win.panel.run] \in {"ok", "error"}

\* Whatever pauses, waits, reruns and stops come between, the cases are
\* recorded in order, each once, and a run that has ended has saved them; and
\* "its file is never left mid-run": when the app closes on a run that waits
\* for the person or the network, and the run saves in time, no case is
\* without a record.
EachCaseRecorded ==
  /\ \A i \in DOMAIN kept : kept[i] = i
  /\ At("none") => saved = kept
  /\ app.step = "gone" /\ app.found /\ ~app.late => Len(saved) = CaseCount

\* "Stop was pressed: the run ends after its current step": once a pressed
\* Stop has arrived, no further case begins.  (Expected to be violated.)
StopIsHeeded ==
  [][win.stopping /\ win.phase = "running" /\ asks = {} /\ replies = {}
       => ~(At("top") /\ run'.step \in {"look", "paused"})]_vars

\* The window shows the pause a run waits at, or is about to hear of it.
\* (Expected to be violated.)
PauseIsShown ==
  AppUp /\ pending # NoPause =>
    \/ win.panel = pending
    \/ \E i \in DOMAIN events : events[i] = [kind |-> "reset", run |-> pending.run,
                                           case |-> pending.before]
=============================================================================
