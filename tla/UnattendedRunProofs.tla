------------------------- MODULE UnattendedRunProofs -------------------------
(***************************************************************************)
(* Proofs about UnattendedRun, for any number of starts and cases, any     *)
(* pauses and any number of reruns and drops of the network.               *)
(*                                                                         *)
(* One run goes at a time, and what is on its way is of it (CallsInv,      *)
(* WiresInv).  The record grows with the run's place in the cases, and a   *)
(* run the exit found waiting cannot end short of the last case, unless    *)
(* the app is gone first (RecordInv, ExitInv).  A pause is shown, answered *)
(* and taken off in that order, and none of the three is ever on its way   *)
(* twice (PauseInv, AnswersInv).                                           *)
(***************************************************************************)
EXTENDS UnattendedRun, SequenceTheorems, TLAPS

\* TypeOK in three parts.
WindowTypes ==
  /\ win \in Window /\ gen \in 0 .. MaxStarts
  /\ call \in [Runs -> {"none", "listening", "going", "ok", "error", "over"}]

WireTypes == events \in Seq(Event) /\ asks \subseteq Ask /\ replies \subseteq Reply

BackendTypes ==
  /\ run \in Run
  /\ kept \in Seq(AllCases) /\ Len(kept) <= CaseCount
  /\ saved \in Seq(AllCases) /\ Len(saved) <= Len(kept)
  /\ cancel \in BOOLEAN /\ pending \in Paused
  /\ waits \in [run : Runs \cup {NoRun}, stop : BOOLEAN]
  /\ network \in [up : BOOLEAN, drops : 0 .. MaxDrops]
  /\ app \in [step : {"up", "asked", "waiting", "gone"}, found : BOOLEAN, late : BOOLEAN]

\* A call that is not over is of the last start, and the window knows.
CallsInv ==
  /\ \A g \in Runs :
       /\ call[g] \notin {"none", "over"} => g = gen /\ win.phase = "running"
       /\ g > gen => call[g] = "none"
       /\ call[g] = "going" => ~At("none")
  /\ At("none") => run = NothingGoes
  /\ ~At("none") => run.id = gen /\ gen \in Runs /\ call[gen] = "going"
  /\ win.panel # NoPause \/ win.wait # NoPause => win.phase = "running"
  /\ win.phase = "running" => gen \in Runs /\ call[gen] \notin {"none", "over"}

OfLastStart(p) == p.run = gen /\ gen \in Runs

\* All that is on its way is of the last start, and nothing but a Stop is
\* before its call has claimed the run.
WiresInv ==
  /\ \A i \in DOMAIN events : OfLastStart(events[i])
  /\ \A a \in asks : a.kind # "cancel" => OfLastStart(a.pause)
  /\ \A r \in replies : r.ask.kind # "cancel" /\ OfLastStart(r.ask.pause)
  /\ win.panel # NoPause => OfLastStart(win.panel)
  /\ win.wait # NoPause => OfLastStart(win.wait)
  /\ gen \in Runs /\ call[gen] = "listening" =>
       /\ events = <<>> /\ replies = {}
       /\ \A a \in asks : a.kind = "cancel"
       /\ win.panel = NoPause /\ win.wait = NoPause

\* What waits for the person or the network is the run that is going, there.
PauseInv ==
  /\ pending # NoPause =>
       /\ At("paused") /\ run.answer = "none"
       /\ pending = [run |-> run.id, before |-> run.at]
  /\ waits # NoWait =>
       run.step \in {"waiting", "found", "stopped"} /\ waits.run = run.id

\* The cases up to the run's place are recorded and saved.
RecordInv ==
  /\ saved = kept
  /\ \A i \in DOMAIN kept : kept[i] = i
  /\ ~At("none") => Len(kept) = run.at - 1
  /\ run.step \notin {"none", "claimed", "top"} => run.at \in AllCases

\* A run the exit found waiting ends with all of its cases recorded.
ExitInv ==
  /\ app.step \in {"asked", "waiting"} /\ app.found =>
       /\ \A g \in Runs : call[g] # "listening"
       /\ At("none") => Len(kept) = CaseCount
       /\ ~At("claimed")
       /\ At("top") => run.at > 1
       /\ cancel => run.step \in {"none", "paused", "waiting", "found", "stopped"}
  /\ app.step = "gone" /\ app.found /\ ~app.late => Len(kept) = CaseCount

AnswerKinds == {"continue", "stop"}

\* While the run goes: the pause it waits at is the one told of, shown to be
\* answered, or answered; each at most once, and only one of the three.
AnswersInv ==
  AppUp /\ ~At("none") =>
    /\ \A i \in DOMAIN events : events[i].kind = "reset" =>
         /\ pending = [run |-> events[i].run, before |-> events[i].case]
         /\ \A j \in DOMAIN events : events[j].kind = "reset" => i = j
         /\ win.panel = NoPause \/ win.answering
    /\ win.panel # NoPause /\ ~win.answering => pending = win.panel
    /\ \A a \in asks : a.kind \in AnswerKinds =>
         /\ a.pause = pending
         /\ \A b \in asks : b.kind \in AnswerKinds => a = b
         /\ win.panel = NoPause \/ win.answering
         /\ \A i \in DOMAIN events : events[i].kind # "reset"

\* A panel that is disabled waits for its answer's way there and back.
PanelInv ==
  win.panel # NoPause /\ win.answering =>
    \/ \E a \in asks : a.kind \in AnswerKinds /\ a.pause = win.panel
    \/ \E r \in replies : r.ask.kind \in AnswerKinds /\ r.ask.pause = win.panel

IInv == /\ TypeOK /\ CallsInv /\ WiresInv /\ PauseInv
        /\ RecordInv /\ ExitInv /\ AnswersInv /\ PanelInv

-----------------------------------------------------------------------------
LEMMA RestTyped ==
  ASSUME run.at \in AllCases
  PROVE  /\ Rest \in Seq(AllCases) /\ Len(Rest) = CaseCount - run.at + 1
         /\ \A i \in 1 .. Len(Rest) : Rest[i] = run.at + i - 1
<1>1. run.at \in 1 .. CaseCount
  BY DEF AllCases
<1>2. PICK n \in Nat : n = CaseCount - run.at + 1
  BY <1>1, RunAssumption
<1>3. \A i \in 1 .. n : run.at + i - 1 \in AllCases
  BY <1>1, <1>2, RunAssumption DEF AllCases
<1>4. Rest = [i \in 1 .. n |-> run.at + i - 1]
  BY <1>2 DEF Rest
<1>5. Rest \in [1 .. n -> AllCases]
  BY <1>3, <1>4
<1>6. Rest \in Seq(AllCases)
  BY <1>5, SeqDef
<1>7. Len(Rest) = n
  BY <1>2, <1>5, <1>6, LenProperties
<1>q. QED
  BY <1>2, <1>4, <1>6, <1>7

\* The rest of the cases completes the record.
LEMMA RestRecorded ==
  ASSUME TypeOK, RecordInv, run.at \in AllCases, ~At("none")
  PROVE  /\ kept \o Rest \in Seq(AllCases) /\ Len(kept \o Rest) = CaseCount
         /\ \A i \in DOMAIN (kept \o Rest) : (kept \o Rest)[i] = i
<1>1. kept \in Seq(AllCases) /\ Len(kept) = run.at - 1 /\ run.at \in 1 .. CaseCount
  BY DEF TypeOK, RecordInv, AllCases
<1>2. /\ Rest \in Seq(AllCases) /\ Len(Rest) = CaseCount - run.at + 1
      /\ \A i \in 1 .. Len(Rest) : Rest[i] = run.at + i - 1
  BY RestTyped
<1>3. /\ kept \o Rest \in Seq(AllCases) /\ Len(kept \o Rest) = Len(kept) + Len(Rest)
      /\ \A i \in 1 .. Len(kept) + Len(Rest) :
           (kept \o Rest)[i] = IF i <= Len(kept) THEN kept[i] ELSE Rest[i - Len(kept)]
  BY <1>1, <1>2, ConcatProperties
<1>4. Len(kept) \in Nat /\ Len(Rest) \in Nat /\ DOMAIN kept = 1 .. Len(kept)
  BY <1>1, <1>2, LenProperties
<1>5. Len(kept) + Len(Rest) = CaseCount
  BY <1>1, <1>2, <1>4, RunAssumption
<1>6. DOMAIN (kept \o Rest) = 1 .. CaseCount
  BY <1>3, <1>5, LenProperties
<1>7. ASSUME NEW i \in 1 .. CaseCount
      PROVE  (kept \o Rest)[i] = i
  <2>1. CASE i <= Len(kept)
    <3>1. i \in 1 .. Len(kept) /\ (kept \o Rest)[i] = kept[i]
      BY <1>3, <1>4, <1>5, <2>1
    <3>q. QED
      BY <1>4, <3>1 DEF RecordInv
  <2>2. CASE i > Len(kept)
    <3>1. /\ i - Len(kept) \in 1 .. Len(Rest)
          /\ (kept \o Rest)[i] = Rest[i - Len(kept)]
      BY <1>3, <1>4, <1>5, <2>2
    <3>2. Rest[i - Len(kept)] = run.at + (i - Len(kept)) - 1
      BY <1>2, <3>1
    <3>q. QED
      BY <1>1, <1>4, <3>1, <3>2, RunAssumption
  <2>q. QED
    <3>1. i \in Nat /\ Len(kept) \in Nat
      BY <1>4, RunAssumption
    <3>2. i <= Len(kept) \/ i > Len(kept)
      BY <3>1
    <3>q. QED
      BY <2>1, <2>2, <3>2
<1>q. QED
  BY <1>3, <1>5, <1>6, <1>7

\* What the three ends of a run that leave the rest do to the record.
LEMMA RestLeft ==
  ASSUME TypeOK, RecordInv, LeavesRest, run.step \in {"paused", "down", "stopped", "found"}
  PROVE  /\ run' = NothingGoes /\ call' = [call EXCEPT ![run.id] = "ok"]
         /\ saved' = kept' /\ kept' \in Seq(AllCases) /\ Len(kept') = CaseCount
         /\ \A i \in DOMAIN kept' : kept'[i] = i
<1>1. run.at \in AllCases /\ ~At("none")
  BY DEF RecordInv, At
<1>q. QED
  BY <1>1, RestRecorded DEF LeavesRest, Returns

\* One run goes at a time, of the last start.
LEMMA CallsStep ==
  ASSUME TypeOK, CallsInv, PauseInv, RecordInv, [Next]_vars
  PROVE  CallsInv'
<1>1. ASSUME AppUp, HearsEvent PROVE CallsInv'
  <2>1. Head(events) \in Event
    BY <1>1 DEF HearsEvent, TypeOK
  <2>2. win'.phase = win.phase /\ (win' # win => win.phase = "running")
    BY <1>1, <2>1 DEF HearsEvent, TypeOK, Event
  <2>q. QED
    BY <1>1, <2>2 DEF HearsEvent, backend, CallsInv, At
<1>2. ASSUME NEW g \in Runs, AppUp, HearsEnd(g) PROVE CallsInv'
  <2>1. g = gen /\ win.phase = "running" /\ At("none")
    BY <1>2 DEF HearsEnd, CallsInv, At
  <2>2. /\ win'.phase \in {"none", "finished", "failed"}
        /\ win'.panel = NoPause /\ win'.wait = NoPause
    BY <1>2, <2>1 DEF HearsEnd, NoWindow
  <2>q. QED
    BY <1>2, <2>1, <2>2 DEF HearsEnd, backend, CallsInv, TypeOK, At
<1>3. ASSUME NEW r \in replies, AppUp, HearsReply(r) PROVE CallsInv'
  BY <1>3, RunAssumption DEF HearsReply, NoPause, NoRun, backend, CallsInv, Run, Window,
    PauseInv, TypeOK, Paused, At, NoWait, NothingGoes, NoWindow, Runs
<1>4. ASSUME NEW a \in asks, AppUp, HandlesCancel(a) PROVE CallsInv'
  BY <1>4, RunAssumption DEF HandlesCancel, Handled, window, CallsInv, Run, Window,
    PauseInv, TypeOK, Paused, At, NoPause, NoWait, NoRun, NothingGoes, NoWindow, Runs
<1>5. ASSUME NEW a \in asks, AppUp, HandlesAnswer(a) PROVE CallsInv'
  BY <1>5, RunAssumption DEF HandlesAnswer, NoPause, NoRun, Handled, window, CallsInv, Run,
    Window, PauseInv, TypeOK, Paused, At, NoWait, NothingGoes, NoWindow, Runs
<1>6. ASSUME NEW a \in asks, AppUp, HandlesStopWait(a) PROVE CallsInv'
  BY <1>6, RunAssumption DEF HandlesStopWait, Handled, window, CallsInv, Run, Window,
    PauseInv, TypeOK, Paused, At, NoPause, NoWait, NoRun, NothingGoes, NoWindow, Runs
<1>7. ASSUME AppUp, OpensSetup PROVE CallsInv'
  BY <1>7, RunAssumption DEF OpensSetup, NoWindow, NoRun, NoPause, backend, wires, CallsInv,
    Run, Window, PauseInv, TypeOK, Paused, At, NoWait, NothingGoes, Runs
<1>8. ASSUME AppUp, Starts PROVE CallsInv'
  <2>1. \A g \in Runs : call[g] \in {"none", "over"}
    BY <1>8 DEF Starts, CallsInv
  <2>2. gen + 1 \in Runs /\ \A g \in Runs : g > gen => call[g] = "none"
    BY <1>8, RunAssumption DEF Starts, CallsInv, TypeOK, Runs
  <2>3. At("none")
    BY <2>1 DEF CallsInv
  <2>4. /\ gen' = gen + 1 /\ call' = [call EXCEPT ![gen + 1] = "listening"]
        /\ win'.phase = "running" /\ win'.panel = NoPause /\ win'.wait = NoPause
        /\ run' = run
    BY <1>8 DEF Starts, NoWindow, backend
  <2>q. QED
    BY <2>1, <2>2, <2>3, <2>4, RunAssumption DEF CallsInv, TypeOK, At, Runs
<1>9. ASSUME AppUp, ClosesWindow PROVE CallsInv'
  BY <1>9, RunAssumption DEF ClosesWindow, NoWindow, NoRun, NoPause, backend, wires,
    CallsInv, Run, Window, PauseInv, TypeOK, Paused, At, NoWait, NothingGoes, Runs
<1>10. ASSUME AppUp, OpensWindow PROVE CallsInv'
  BY <1>10, RunAssumption DEF OpensWindow, NoWindow, NoRun, NoPause, backend, wires,
    CallsInv, Run, Window, PauseInv, TypeOK, Paused, At, NoWait, NothingGoes, Runs
<1>11. ASSUME AppUp, PressesStop PROVE CallsInv'
  BY <1>11, RunAssumption DEF PressesStop, Sends, NoPause, NoRun, backend, CallsInv, Run,
    Window, PauseInv, TypeOK, Paused, At, NoWait, NothingGoes, NoWindow, Runs
<1>12. ASSUME AppUp, PressesStopWait PROVE CallsInv'
  BY <1>12, RunAssumption DEF PressesStopWait, NoPause, NoRun, Sends, window, backend,
    CallsInv, Run, Window, PauseInv, TypeOK, Paused, At, NoWait, NothingGoes, NoWindow, Runs
<1>13. ASSUME NEW kind \in AnswerKinds, AppUp, Answers(kind) PROVE CallsInv'
  BY <1>13, RunAssumption DEF Answers, NoPause, NoRun, Sends, backend, CallsInv, Run,
    Window, PauseInv, TypeOK, Paused, At, NoWait, NothingGoes, NoWindow, Runs
<1>14. ASSUME AppUp, ExitStopsPause PROVE CallsInv'
  BY <1>14, RunAssumption DEF ExitStopsPause, NoPause, NoRun, window, wires, CallsInv, Run,
    Window, PauseInv, TypeOK, Paused, At, NoWait, NothingGoes, NoWindow, Runs
<1>15. ASSUME app.step # "gone", Claims PROVE CallsInv'
  <2>1. PICK g \in Runs :
          /\ call[g] = "listening" /\ call' = [call EXCEPT ![g] = "going"]
          /\ run' = [NothingGoes EXCEPT !.id = g, !.step = "claimed"]
    BY <1>15 DEF Claims
  <2>2. g = gen
    BY <2>1 DEF CallsInv
  <2>3. run'.id = gen /\ run'.step = "claimed"
    BY <2>1, <2>2 DEF NothingGoes
  <2>q. QED
    BY <1>15, <2>1, <2>2, <2>3 DEF Claims, CallsInv, TypeOK, At
<1>16. ASSUME app.step # "gone", RefusedAtStart PROVE CallsInv'
  BY <1>16, RunAssumption DEF RefusedAtStart, At, Returns, NothingGoes, NoRun, wires,
    CallsInv, Run, Window, PauseInv, TypeOK, Paused, NoPause, NoWait, NoWindow, Runs
<1>17. ASSUME app.step # "gone", ClearsCancel PROVE CallsInv'
  BY <1>17, RunAssumption DEF ClearsCancel, At, Goes, window, wires, CallsInv, Run, Window,
    PauseInv, TypeOK, Paused, NoPause, NoWait, NoRun, NothingGoes, NoWindow, Runs
<1>18. ASSUME app.step # "gone", Fails PROVE CallsInv'
  BY <1>18, RunAssumption DEF Fails, At, Returns, NothingGoes, NoRun, wires, CallsInv, Run,
    Window, PauseInv, TypeOK, Paused, NoPause, NoWait, NoWindow, Runs
<1>19. ASSUME app.step # "gone", Ends PROVE CallsInv'
  BY <1>19, RunAssumption DEF Ends, At, Returns, NothingGoes, NoRun, wires, CallsInv, Run,
    Window, PauseInv, TypeOK, Paused, NoPause, NoWait, NoWindow, Runs
<1>20. ASSUME app.step # "gone", BeginsPause PROVE CallsInv'
  BY <1>20, RunAssumption DEF BeginsPause, At, Tells, Told, window, CallsInv, Run, Window,
    PauseInv, TypeOK, Paused, NoPause, NoWait, NoRun, NothingGoes, NoWindow, Runs
<1>21. ASSUME app.step # "gone", NoPauseHere PROVE CallsInv'
  BY <1>21, RunAssumption DEF NoPauseHere, At, AllCases, Goes, window, wires, CallsInv, Run,
    Window, PauseInv, TypeOK, Paused, NoPause, NoWait, NoRun, NothingGoes, NoWindow, Runs
<1>22. ASSUME app.step # "gone", PauseContinues PROVE CallsInv'
  BY <1>22, RunAssumption DEF PauseContinues, At, PauseEnds, NoPause, NoRun, Goes, window,
    wires, CallsInv, Run, Window, PauseInv, TypeOK, Paused, NoWait, NothingGoes, NoWindow,
    Runs
<1>23. ASSUME app.step # "gone", PauseStops PROVE CallsInv'
  <2>1. LeavesRest /\ run.step \in {"paused", "down", "stopped", "found"}
    BY <1>23 DEF PauseStops, At
  <2>2. /\ run' = NothingGoes /\ call' = [call EXCEPT ![run.id] = "ok"]
        /\ saved' = kept' /\ kept' \in Seq(AllCases) /\ Len(kept') = CaseCount
        /\ \A i \in DOMAIN kept' : kept'[i] = i
    BY <2>1, RestLeft
  <2>q. QED
    BY <1>23, <2>1, <2>2, RunAssumption DEF PauseStops, CallsInv, TypeOK, At, NoRun,
      NothingGoes, Runs
<1>24. ASSUME app.step # "gone", LooksAtNetwork PROVE CallsInv'
  BY <1>24, RunAssumption DEF LooksAtNetwork, At, Unreachable, Armed, window, wires,
    CallsInv, Run, Window, PauseInv, TypeOK, Paused, NoPause, NoWait, NoRun, NothingGoes,
    NoWindow, Runs
<1>25. ASSUME app.step # "gone", OpensCase PROVE CallsInv'
  BY <1>25, RunAssumption DEF OpensCase, At, Goes, Tells, Told, window, CallsInv, Run,
    Window, PauseInv, TypeOK, Paused, NoPause, NoWait, NoRun, NothingGoes, NoWindow, Runs
<1>26. ASSUME app.step # "gone", CaseEnds PROVE CallsInv'
  BY <1>26, RunAssumption DEF CaseEnds, Goes, window, wires, CallsInv, Run, Window,
    PauseInv, TypeOK, Paused, At, NoPause, NoWait, NoRun, NothingGoes, NoWindow, Runs
<1>27. ASSUME app.step # "gone", CaseFailed PROVE CallsInv'
  BY <1>27, RunAssumption DEF CaseFailed, At, Unreachable, Armed, window, wires, CallsInv,
    Run, Window, PauseInv, TypeOK, Paused, NoPause, NoWait, NoRun, NothingGoes, NoWindow,
    Runs
<1>28. ASSUME app.step # "gone", RecordsCase PROVE CallsInv'
  BY <1>28, RunAssumption DEF RecordsCase, At, Tells, Told, window, CallsInv, Run, Window,
    PauseInv, TypeOK, Paused, NoPause, NoWait, NoRun, NothingGoes, NoWindow, Runs
<1>29. ASSUME app.step # "gone", BeginsWait PROVE CallsInv'
  BY <1>29, RunAssumption DEF BeginsWait, At, Goes, Tells, Told, window, CallsInv, Run,
    Window, PauseInv, TypeOK, Paused, NoPause, NoWait, NoRun, NothingGoes, NoWindow, Runs
<1>30. ASSUME app.step # "gone", StopsBeforeWait PROVE CallsInv'
  <2>1. LeavesRest /\ run.step \in {"paused", "down", "stopped", "found"}
    BY <1>30 DEF StopsBeforeWait, At
  <2>2. /\ run' = NothingGoes /\ call' = [call EXCEPT ![run.id] = "ok"]
        /\ saved' = kept' /\ kept' \in Seq(AllCases) /\ Len(kept') = CaseCount
        /\ \A i \in DOMAIN kept' : kept'[i] = i
    BY <2>1, RestLeft
  <2>q. QED
    BY <1>30, <2>1, <2>2, RunAssumption DEF StopsBeforeWait, CallsInv, TypeOK, At, NoRun,
      NothingGoes, Runs
<1>31. ASSUME app.step # "gone", WaitEnds PROVE CallsInv'
  BY <1>31, RunAssumption DEF WaitEnds, At, Goes, window, wires, CallsInv, Run, Window,
    PauseInv, TypeOK, Paused, NoPause, NoWait, NoRun, NothingGoes, NoWindow, Runs
<1>32. ASSUME app.step # "gone", Resumes PROVE CallsInv'
  BY <1>32, RunAssumption DEF Resumes, At, LetsWaitGo, NoWait, NoRun, Goes, Tells, Told,
    window, CallsInv, Run, Window, PauseInv, TypeOK, Paused, NoPause, NothingGoes, NoWindow,
    Runs
<1>33. ASSUME app.step # "gone", WaitStops PROVE CallsInv'
  <2>1. LeavesRest /\ run.step \in {"paused", "down", "stopped", "found"}
    BY <1>33 DEF WaitStops, At
  <2>2. /\ run' = NothingGoes /\ call' = [call EXCEPT ![run.id] = "ok"]
        /\ saved' = kept' /\ kept' \in Seq(AllCases) /\ Len(kept') = CaseCount
        /\ \A i \in DOMAIN kept' : kept'[i] = i
    BY <2>1, RestLeft
  <2>q. QED
    BY <1>33, <2>1, <2>2, RunAssumption DEF WaitStops, CallsInv, TypeOK, At, NoRun,
      NothingGoes, Runs
<1>34. ASSUME app.step # "gone", NetworkChanges PROVE CallsInv'
  BY <1>34, RunAssumption DEF NetworkChanges, window, backend, wires, CallsInv, Run, Window,
    PauseInv, TypeOK, Paused, At, NoPause, NoWait, NoRun, NothingGoes, NoWindow, Runs
<1>35. ASSUME app.step # "gone", ExitStopsWait PROVE CallsInv'
  BY <1>35, RunAssumption DEF ExitStopsWait, NoWait, NoRun, window, wires, CallsInv, Run,
    Window, PauseInv, TypeOK, Paused, At, NoPause, NothingGoes, NoWindow, Runs
<1>36. ASSUME app.step # "gone", ExitEnds PROVE CallsInv'
  BY <1>36, RunAssumption DEF ExitEnds, At, window, backend, wires, CallsInv, Run, Window,
    PauseInv, TypeOK, Paused, NoPause, NoWait, NoRun, NothingGoes, NoWindow, Runs
<1>37. CASE UNCHANGED vars
  BY <1>37 DEF vars, window, backend, wires, CallsInv, Run, Window, PauseInv, TypeOK,
    Paused, At, NoPause, NoWait, NoRun, NothingGoes, NoWindow, Runs
<1>q. QED
  BY <1>1, <1>2, <1>3, <1>4, <1>5, <1>6, <1>7, <1>8, <1>9, <1>10, <1>11, <1>12, <1>13,
     <1>14, <1>15, <1>16, <1>17, <1>18, <1>19, <1>20, <1>21, <1>22, <1>23, <1>24, <1>25,
     <1>26, <1>27, <1>28, <1>29, <1>30, <1>31, <1>32, <1>33, <1>34, <1>35, <1>36, <1>37
     DEF Next, WindowHears, CommandsAreHandled, PersonActs, RunGoesOn, ExitGoesOn, AnswerKinds

\* Waits belong to the run that goes.
LEMMA PauseStep ==
  ASSUME TypeOK, CallsInv, WiresInv, PauseInv, [Next]_vars
  PROVE  PauseInv'
<1>1. ASSUME AppUp, HearsEvent PROVE PauseInv'
  BY <1>1, RunAssumption DEF HearsEvent, NoRun, NoPause, backend, PauseInv, Run, CallsInv,
    WiresInv, OfLastStart, TypeOK, Ask, Paused, At, NoWait, NothingGoes, Runs
<1>2. ASSUME NEW g \in Runs, AppUp, HearsEnd(g) PROVE PauseInv'
  BY <1>2, RunAssumption DEF HearsEnd, NoWindow, NoRun, NoPause, backend, wires, PauseInv,
    Run, CallsInv, WiresInv, OfLastStart, TypeOK, Ask, Paused, At, NoWait, NothingGoes, Runs
<1>3. ASSUME NEW r \in replies, AppUp, HearsReply(r) PROVE PauseInv'
  BY <1>3, RunAssumption DEF HearsReply, NoPause, NoRun, backend, PauseInv, Run, CallsInv,
    WiresInv, OfLastStart, TypeOK, Ask, Paused, At, NoWait, NothingGoes, Runs
<1>4. ASSUME NEW a \in asks, AppUp, HandlesCancel(a) PROVE PauseInv'
  BY <1>4, RunAssumption DEF HandlesCancel, Handled, window, PauseInv, Run, CallsInv,
    WiresInv, OfLastStart, TypeOK, Ask, Paused, At, NoPause, NoWait, NoRun, NothingGoes,
    Runs
<1>5. ASSUME NEW a \in asks, AppUp, HandlesAnswer(a) PROVE PauseInv'
  BY <1>5, RunAssumption DEF HandlesAnswer, NoPause, NoRun, Handled, window, PauseInv, Run,
    CallsInv, WiresInv, OfLastStart, TypeOK, Ask, Paused, At, NoWait, NothingGoes, Runs
<1>6. ASSUME NEW a \in asks, AppUp, HandlesStopWait(a) PROVE PauseInv'
  <2>1. a.pause.run # NoRun
    BY <1>6 DEF HandlesStopWait, WiresInv, OfLastStart, Runs, NoRun
  <2>2. UNCHANGED <<run, pending>>
    BY <1>6 DEF HandlesStopWait
  <2>3. waits' # NoWait => waits # NoWait /\ waits'.run = waits.run
    <3>1. CASE waits.run = a.pause.run
      BY <1>6, <2>1, <3>1 DEF HandlesStopWait, TypeOK, NoWait
    <3>2. CASE waits.run # a.pause.run
      BY <1>6, <3>2 DEF HandlesStopWait
    <3>q. QED
      BY <3>1, <3>2
  <2>q. QED
    BY <2>2, <2>3 DEF PauseInv, At
<1>7. ASSUME AppUp, OpensSetup PROVE PauseInv'
  BY <1>7, RunAssumption DEF OpensSetup, NoWindow, NoRun, NoPause, backend, wires, PauseInv,
    Run, CallsInv, WiresInv, OfLastStart, TypeOK, Ask, Paused, At, NoWait, NothingGoes, Runs
<1>8. ASSUME AppUp, Starts PROVE PauseInv'
  BY <1>8, RunAssumption DEF Starts, wires, NoWindow, NoRun, NoPause, backend, PauseInv,
    Run, CallsInv, WiresInv, OfLastStart, TypeOK, Ask, Paused, At, NoWait, NothingGoes, Runs
<1>9. ASSUME AppUp, ClosesWindow PROVE PauseInv'
  BY <1>9, RunAssumption DEF ClosesWindow, NoWindow, NoRun, NoPause, backend, wires,
    PauseInv, Run, CallsInv, WiresInv, OfLastStart, TypeOK, Ask, Paused, At, NoWait,
    NothingGoes, Runs
<1>10. ASSUME AppUp, OpensWindow PROVE PauseInv'
  BY <1>10, RunAssumption DEF OpensWindow, NoWindow, NoRun, NoPause, backend, wires,
    PauseInv, Run, CallsInv, WiresInv, OfLastStart, TypeOK, Ask, Paused, At, NoWait,
    NothingGoes, Runs
<1>11. ASSUME AppUp, PressesStop PROVE PauseInv'
  BY <1>11, RunAssumption DEF PressesStop, Sends, NoPause, NoRun, backend, PauseInv, Run,
    CallsInv, WiresInv, OfLastStart, TypeOK, Ask, Paused, At, NoWait, NothingGoes, Runs
<1>12. ASSUME AppUp, PressesStopWait PROVE PauseInv'
  BY <1>12, RunAssumption DEF PressesStopWait, NoPause, NoRun, Sends, window, backend,
    PauseInv, Run, CallsInv, WiresInv, OfLastStart, TypeOK, Ask, Paused, At, NoWait,
    NothingGoes, Runs
<1>13. ASSUME NEW kind \in AnswerKinds, AppUp, Answers(kind) PROVE PauseInv'
  BY <1>13, RunAssumption DEF Answers, NoPause, NoRun, Sends, backend, PauseInv, Run,
    CallsInv, WiresInv, OfLastStart, TypeOK, Ask, Paused, At, NoWait, NothingGoes, Runs
<1>14. ASSUME AppUp, ExitStopsPause PROVE PauseInv'
  BY <1>14, RunAssumption DEF ExitStopsPause, NoPause, NoRun, window, wires, PauseInv, Run,
    CallsInv, WiresInv, OfLastStart, TypeOK, Ask, Paused, At, NoWait, NothingGoes, Runs
<1>15. ASSUME app.step # "gone", Claims PROVE PauseInv'
  BY <1>15, RunAssumption DEF Claims, Runs, NothingGoes, NoRun, wires, PauseInv, Run,
    CallsInv, WiresInv, OfLastStart, TypeOK, Ask, Paused, At, NoPause, NoWait
<1>16. ASSUME app.step # "gone", RefusedAtStart PROVE PauseInv'
  BY <1>16, RunAssumption DEF RefusedAtStart, At, Returns, NothingGoes, NoRun, wires,
    PauseInv, Run, CallsInv, WiresInv, OfLastStart, TypeOK, Ask, Paused, NoPause, NoWait,
    Runs
<1>17. ASSUME app.step # "gone", ClearsCancel PROVE PauseInv'
  BY <1>17, RunAssumption DEF ClearsCancel, At, Goes, window, wires, PauseInv, Run,
    CallsInv, WiresInv, OfLastStart, TypeOK, Ask, Paused, NoPause, NoWait, NoRun,
    NothingGoes, Runs
<1>18. ASSUME app.step # "gone", Fails PROVE PauseInv'
  BY <1>18, RunAssumption DEF Fails, At, Returns, NothingGoes, NoRun, wires, PauseInv, Run,
    CallsInv, WiresInv, OfLastStart, TypeOK, Ask, Paused, NoPause, NoWait, Runs
<1>19. ASSUME app.step # "gone", Ends PROVE PauseInv'
  BY <1>19, RunAssumption DEF Ends, At, Returns, NothingGoes, NoRun, wires, PauseInv, Run,
    CallsInv, WiresInv, OfLastStart, TypeOK, Ask, Paused, NoPause, NoWait, Runs
<1>20. ASSUME app.step # "gone", BeginsPause PROVE PauseInv'
  BY <1>20, RunAssumption DEF BeginsPause, At, Tells, Told, window, PauseInv, Run, CallsInv,
    WiresInv, OfLastStart, TypeOK, Ask, Paused, NoPause, NoWait, NoRun, NothingGoes, Runs
<1>21. ASSUME app.step # "gone", NoPauseHere PROVE PauseInv'
  BY <1>21, RunAssumption DEF NoPauseHere, At, AllCases, Goes, window, wires, PauseInv, Run,
    CallsInv, WiresInv, OfLastStart, TypeOK, Ask, Paused, NoPause, NoWait, NoRun,
    NothingGoes, Runs
<1>22. ASSUME app.step # "gone", PauseContinues PROVE PauseInv'
  BY <1>22, RunAssumption DEF PauseContinues, At, PauseEnds, NoPause, NoRun, Goes, window,
    wires, PauseInv, Run, CallsInv, WiresInv, OfLastStart, TypeOK, Ask, Paused, NoWait,
    NothingGoes, Runs
<1>23. ASSUME app.step # "gone", PauseStops PROVE PauseInv'
  BY <1>23, RunAssumption DEF PauseStops, At, PauseEnds, NoPause, NoRun, LeavesRest, Rest,
    Returns, NothingGoes, TellsRest, Told, PauseInv, Run, CallsInv, WiresInv, OfLastStart,
    TypeOK, Ask, Paused, NoWait, Runs
<1>24. ASSUME app.step # "gone", LooksAtNetwork PROVE PauseInv'
  BY <1>24, RunAssumption DEF LooksAtNetwork, At, Unreachable, Armed, window, wires,
    PauseInv, Run, CallsInv, WiresInv, OfLastStart, TypeOK, Ask, Paused, NoPause, NoWait,
    NoRun, NothingGoes, Runs
<1>25. ASSUME app.step # "gone", OpensCase PROVE PauseInv'
  BY <1>25, RunAssumption DEF OpensCase, At, Goes, Tells, Told, window, PauseInv, Run,
    CallsInv, WiresInv, OfLastStart, TypeOK, Ask, Paused, NoPause, NoWait, NoRun,
    NothingGoes, Runs
<1>26. ASSUME app.step # "gone", CaseEnds PROVE PauseInv'
  BY <1>26, RunAssumption DEF CaseEnds, Goes, window, wires, PauseInv, Run, CallsInv,
    WiresInv, OfLastStart, TypeOK, Ask, Paused, At, NoPause, NoWait, NoRun, NothingGoes,
    Runs
<1>27. ASSUME app.step # "gone", CaseFailed PROVE PauseInv'
  BY <1>27, RunAssumption DEF CaseFailed, At, Unreachable, Armed, window, wires, PauseInv,
    Run, CallsInv, WiresInv, OfLastStart, TypeOK, Ask, Paused, NoPause, NoWait, NoRun,
    NothingGoes, Runs
<1>28. ASSUME app.step # "gone", RecordsCase PROVE PauseInv'
  BY <1>28, RunAssumption DEF RecordsCase, At, Tells, Told, window, PauseInv, Run, CallsInv,
    WiresInv, OfLastStart, TypeOK, Ask, Paused, NoPause, NoWait, NoRun, NothingGoes, Runs
<1>29. ASSUME app.step # "gone", BeginsWait PROVE PauseInv'
  BY <1>29, RunAssumption DEF BeginsWait, At, Goes, Tells, Told, window, PauseInv, Run,
    CallsInv, WiresInv, OfLastStart, TypeOK, Ask, Paused, NoPause, NoWait, NoRun,
    NothingGoes, Runs
<1>30. ASSUME app.step # "gone", StopsBeforeWait PROVE PauseInv'
  BY <1>30, RunAssumption DEF StopsBeforeWait, At, LeavesRest, Rest, Returns, NothingGoes,
    NoRun, TellsRest, Told, PauseInv, Run, CallsInv, WiresInv, OfLastStart, TypeOK, Ask,
    Paused, NoPause, NoWait, Runs
<1>31. ASSUME app.step # "gone", WaitEnds PROVE PauseInv'
  BY <1>31, RunAssumption DEF WaitEnds, At, Goes, window, wires, PauseInv, Run, CallsInv,
    WiresInv, OfLastStart, TypeOK, Ask, Paused, NoPause, NoWait, NoRun, NothingGoes, Runs
<1>32. ASSUME app.step # "gone", Resumes PROVE PauseInv'
  BY <1>32, RunAssumption DEF Resumes, At, LetsWaitGo, NoWait, NoRun, Goes, Tells, Told,
    window, PauseInv, Run, CallsInv, WiresInv, OfLastStart, TypeOK, Ask, Paused, NoPause,
    NothingGoes, Runs
<1>33. ASSUME app.step # "gone", WaitStops PROVE PauseInv'
  BY <1>33, RunAssumption DEF WaitStops, At, LetsWaitGo, NoWait, NoRun, LeavesRest, Rest,
    Returns, NothingGoes, TellsRest, Told, PauseInv, Run, CallsInv, WiresInv, OfLastStart,
    TypeOK, Ask, Paused, NoPause, Runs
<1>34. ASSUME app.step # "gone", NetworkChanges PROVE PauseInv'
  BY <1>34, RunAssumption DEF NetworkChanges, window, backend, wires, PauseInv, Run,
    CallsInv, WiresInv, OfLastStart, TypeOK, Ask, Paused, At, NoPause, NoWait, NoRun,
    NothingGoes, Runs
<1>35. ASSUME app.step # "gone", ExitStopsWait PROVE PauseInv'
  BY <1>35, RunAssumption DEF ExitStopsWait, NoWait, NoRun, window, wires, PauseInv, Run,
    CallsInv, WiresInv, OfLastStart, TypeOK, Ask, Paused, At, NoPause, NothingGoes, Runs
<1>36. ASSUME app.step # "gone", ExitEnds PROVE PauseInv'
  BY <1>36, RunAssumption DEF ExitEnds, At, window, backend, wires, PauseInv, Run, CallsInv,
    WiresInv, OfLastStart, TypeOK, Ask, Paused, NoPause, NoWait, NoRun, NothingGoes, Runs
<1>37. CASE UNCHANGED vars
  BY <1>37 DEF vars, window, backend, wires, PauseInv, Run, CallsInv, WiresInv, OfLastStart,
    TypeOK, Ask, Paused, At, NoPause, NoWait, NoRun, NothingGoes, Runs
<1>q. QED
  BY <1>1, <1>2, <1>3, <1>4, <1>5, <1>6, <1>7, <1>8, <1>9, <1>10, <1>11, <1>12, <1>13,
     <1>14, <1>15, <1>16, <1>17, <1>18, <1>19, <1>20, <1>21, <1>22, <1>23, <1>24, <1>25,
     <1>26, <1>27, <1>28, <1>29, <1>30, <1>31, <1>32, <1>33, <1>34, <1>35, <1>36, <1>37
     DEF Next, WindowHears, CommandsAreHandled, PersonActs, RunGoesOn, ExitGoesOn, AnswerKinds

\* The record grows in order.
LEMMA RecordStep ==
  ASSUME TypeOK, CallsInv, PauseInv, RecordInv, [Next]_vars
  PROVE  RecordInv'
<1>1. ASSUME AppUp, HearsEvent PROVE RecordInv'
  BY <1>1, RunAssumption DEF HearsEvent, NoRun, NoPause, backend, RecordInv, Run, TypeOK,
    At, NothingGoes, AllCases
<1>2. ASSUME NEW g \in Runs, AppUp, HearsEnd(g) PROVE RecordInv'
  BY <1>2, RunAssumption DEF HearsEnd, NoWindow, NoRun, NoPause, backend, wires, RecordInv,
    Run, TypeOK, At, NothingGoes, AllCases
<1>3. ASSUME NEW r \in replies, AppUp, HearsReply(r) PROVE RecordInv'
  BY <1>3, RunAssumption DEF HearsReply, NoPause, NoRun, backend, RecordInv, Run, TypeOK,
    At, NothingGoes, AllCases
<1>4. ASSUME NEW a \in asks, AppUp, HandlesCancel(a) PROVE RecordInv'
  BY <1>4, RunAssumption DEF HandlesCancel, Handled, window, RecordInv, Run, TypeOK, At,
    NothingGoes, AllCases
<1>5. ASSUME NEW a \in asks, AppUp, HandlesAnswer(a) PROVE RecordInv'
  BY <1>5, RunAssumption DEF HandlesAnswer, NoPause, NoRun, Handled, window, RecordInv, Run,
    TypeOK, At, NothingGoes, AllCases
<1>6. ASSUME NEW a \in asks, AppUp, HandlesStopWait(a) PROVE RecordInv'
  BY <1>6, RunAssumption DEF HandlesStopWait, Handled, window, RecordInv, Run, TypeOK, At,
    NothingGoes, AllCases
<1>7. ASSUME AppUp, OpensSetup PROVE RecordInv'
  BY <1>7, RunAssumption DEF OpensSetup, NoWindow, NoRun, NoPause, backend, wires,
    RecordInv, Run, TypeOK, At, NothingGoes, AllCases
<1>8. ASSUME AppUp, Starts PROVE RecordInv'
  BY <1>8, RunAssumption DEF Starts, wires, NoWindow, NoRun, NoPause, backend, RecordInv,
    Run, TypeOK, At, NothingGoes, AllCases
<1>9. ASSUME AppUp, ClosesWindow PROVE RecordInv'
  BY <1>9, RunAssumption DEF ClosesWindow, NoWindow, NoRun, NoPause, backend, wires,
    RecordInv, Run, TypeOK, At, NothingGoes, AllCases
<1>10. ASSUME AppUp, OpensWindow PROVE RecordInv'
  BY <1>10, RunAssumption DEF OpensWindow, NoWindow, NoRun, NoPause, backend, wires,
    RecordInv, Run, TypeOK, At, NothingGoes, AllCases
<1>11. ASSUME AppUp, PressesStop PROVE RecordInv'
  BY <1>11, RunAssumption DEF PressesStop, Sends, NoPause, NoRun, backend, RecordInv, Run,
    TypeOK, At, NothingGoes, AllCases
<1>12. ASSUME AppUp, PressesStopWait PROVE RecordInv'
  BY <1>12, RunAssumption DEF PressesStopWait, NoPause, NoRun, Sends, window, backend,
    RecordInv, Run, TypeOK, At, NothingGoes, AllCases
<1>13. ASSUME NEW kind \in AnswerKinds, AppUp, Answers(kind) PROVE RecordInv'
  BY <1>13, RunAssumption DEF Answers, NoPause, NoRun, Sends, backend, RecordInv, Run,
    TypeOK, At, NothingGoes, AllCases
<1>14. ASSUME AppUp, ExitStopsPause PROVE RecordInv'
  BY <1>14, RunAssumption DEF ExitStopsPause, NoPause, NoRun, window, wires, RecordInv, Run,
    TypeOK, At, NothingGoes, AllCases
<1>15. ASSUME app.step # "gone", Claims PROVE RecordInv'
  BY <1>15, RunAssumption DEF Claims, Runs, NothingGoes, NoRun, wires, RecordInv, Run,
    TypeOK, At, AllCases
<1>16. ASSUME app.step # "gone", RefusedAtStart PROVE RecordInv'
  BY <1>16, RunAssumption DEF RefusedAtStart, At, Returns, NothingGoes, NoRun, wires,
    RecordInv, Run, TypeOK, AllCases
<1>17. ASSUME app.step # "gone", ClearsCancel PROVE RecordInv'
  BY <1>17, RunAssumption DEF ClearsCancel, At, Goes, window, wires, RecordInv, Run, TypeOK,
    NothingGoes, AllCases
<1>18. ASSUME app.step # "gone", Fails PROVE RecordInv'
  BY <1>18, RunAssumption DEF Fails, At, Returns, NothingGoes, NoRun, wires, RecordInv, Run,
    TypeOK, AllCases
<1>19. ASSUME app.step # "gone", Ends PROVE RecordInv'
  BY <1>19, RunAssumption DEF Ends, At, Returns, NothingGoes, NoRun, wires, RecordInv, Run,
    TypeOK, AllCases
<1>20. ASSUME app.step # "gone", BeginsPause PROVE RecordInv'
  BY <1>20, RunAssumption DEF BeginsPause, At, Tells, Told, window, RecordInv, Run, TypeOK,
    NothingGoes, AllCases
<1>21. ASSUME app.step # "gone", NoPauseHere PROVE RecordInv'
  BY <1>21, RunAssumption DEF NoPauseHere, At, AllCases, Goes, window, wires, RecordInv,
    Run, TypeOK, NothingGoes
<1>22. ASSUME app.step # "gone", PauseContinues PROVE RecordInv'
  BY <1>22, RunAssumption DEF PauseContinues, At, PauseEnds, NoPause, NoRun, Goes, window,
    wires, RecordInv, Run, TypeOK, NothingGoes, AllCases
<1>23. ASSUME app.step # "gone", PauseStops PROVE RecordInv'
  <2>1. LeavesRest /\ run.step \in {"paused", "down", "stopped", "found"}
    BY <1>23 DEF PauseStops, At
  <2>2. /\ run' = NothingGoes /\ call' = [call EXCEPT ![run.id] = "ok"]
        /\ saved' = kept' /\ kept' \in Seq(AllCases) /\ Len(kept') = CaseCount
        /\ \A i \in DOMAIN kept' : kept'[i] = i
    BY <2>1, RestLeft
  <2>q. QED
    BY <1>23, <2>1, <2>2, RunAssumption DEF PauseStops, RecordInv, At, NothingGoes
<1>24. ASSUME app.step # "gone", LooksAtNetwork PROVE RecordInv'
  BY <1>24, RunAssumption DEF LooksAtNetwork, At, Unreachable, Armed, window, wires,
    RecordInv, Run, TypeOK, NothingGoes, AllCases
<1>25. ASSUME app.step # "gone", OpensCase PROVE RecordInv'
  BY <1>25, RunAssumption DEF OpensCase, At, Goes, Tells, Told, window, RecordInv, Run,
    TypeOK, NothingGoes, AllCases
<1>26. ASSUME app.step # "gone", CaseEnds PROVE RecordInv'
  BY <1>26, RunAssumption DEF CaseEnds, Goes, window, wires, RecordInv, Run, TypeOK, At,
    NothingGoes, AllCases
<1>27. ASSUME app.step # "gone", CaseFailed PROVE RecordInv'
  BY <1>27, RunAssumption DEF CaseFailed, At, Unreachable, Armed, window, wires, RecordInv,
    Run, TypeOK, NothingGoes, AllCases
<1>28. ASSUME app.step # "gone", RecordsCase PROVE RecordInv'
  <2>1. /\ kept \in Seq(AllCases) /\ run.at \in Nat /\ Len(kept) = run.at - 1
        /\ kept' = Append(kept, run.at) /\ saved' = kept'
        /\ run'.at = run.at + 1 /\ run'.step = "top"
    BY <1>28 DEF RecordsCase, RecordInv, TypeOK, At, Run
  <2>2. /\ DOMAIN kept' = 1 .. run.at /\ Len(kept') = run.at
        /\ \A i \in 1 .. run.at : kept'[i] = IF i < run.at THEN kept[i] ELSE run.at
    BY <2>1
  <2>q. QED
    BY <2>1, <2>2 DEF RecordInv, At
<1>29. ASSUME app.step # "gone", BeginsWait PROVE RecordInv'
  BY <1>29, RunAssumption DEF BeginsWait, At, Goes, Tells, Told, window, RecordInv, Run,
    TypeOK, NothingGoes, AllCases
<1>30. ASSUME app.step # "gone", StopsBeforeWait PROVE RecordInv'
  <2>1. LeavesRest /\ run.step \in {"paused", "down", "stopped", "found"}
    BY <1>30 DEF StopsBeforeWait, At
  <2>2. /\ run' = NothingGoes /\ call' = [call EXCEPT ![run.id] = "ok"]
        /\ saved' = kept' /\ kept' \in Seq(AllCases) /\ Len(kept') = CaseCount
        /\ \A i \in DOMAIN kept' : kept'[i] = i
    BY <2>1, RestLeft
  <2>q. QED
    BY <1>30, <2>1, <2>2, RunAssumption DEF StopsBeforeWait, RecordInv, At, NothingGoes
<1>31. ASSUME app.step # "gone", WaitEnds PROVE RecordInv'
  BY <1>31, RunAssumption DEF WaitEnds, At, Goes, window, wires, RecordInv, Run, TypeOK,
    NothingGoes, AllCases
<1>32. ASSUME app.step # "gone", Resumes PROVE RecordInv'
  BY <1>32, RunAssumption DEF Resumes, At, LetsWaitGo, NoWait, NoRun, Goes, Tells, Told,
    window, RecordInv, Run, TypeOK, NothingGoes, AllCases
<1>33. ASSUME app.step # "gone", WaitStops PROVE RecordInv'
  <2>1. LeavesRest /\ run.step \in {"paused", "down", "stopped", "found"}
    BY <1>33 DEF WaitStops, At
  <2>2. /\ run' = NothingGoes /\ call' = [call EXCEPT ![run.id] = "ok"]
        /\ saved' = kept' /\ kept' \in Seq(AllCases) /\ Len(kept') = CaseCount
        /\ \A i \in DOMAIN kept' : kept'[i] = i
    BY <2>1, RestLeft
  <2>q. QED
    BY <1>33, <2>1, <2>2, RunAssumption DEF WaitStops, RecordInv, At, NothingGoes
<1>34. ASSUME app.step # "gone", NetworkChanges PROVE RecordInv'
  BY <1>34, RunAssumption DEF NetworkChanges, window, backend, wires, RecordInv, Run,
    TypeOK, At, NothingGoes, AllCases
<1>35. ASSUME app.step # "gone", ExitStopsWait PROVE RecordInv'
  BY <1>35, RunAssumption DEF ExitStopsWait, NoWait, NoRun, window, wires, RecordInv, Run,
    TypeOK, At, NothingGoes, AllCases
<1>36. ASSUME app.step # "gone", ExitEnds PROVE RecordInv'
  BY <1>36, RunAssumption DEF ExitEnds, At, window, backend, wires, RecordInv, Run, TypeOK,
    NothingGoes, AllCases
<1>37. CASE UNCHANGED vars
  BY <1>37 DEF vars, window, backend, wires, RecordInv, Run, TypeOK, At, NothingGoes,
    AllCases
<1>q. QED
  BY <1>1, <1>2, <1>3, <1>4, <1>5, <1>6, <1>7, <1>8, <1>9, <1>10, <1>11, <1>12, <1>13,
     <1>14, <1>15, <1>16, <1>17, <1>18, <1>19, <1>20, <1>21, <1>22, <1>23, <1>24, <1>25,
     <1>26, <1>27, <1>28, <1>29, <1>30, <1>31, <1>32, <1>33, <1>34, <1>35, <1>36, <1>37
     DEF Next, WindowHears, CommandsAreHandled, PersonActs, RunGoesOn, ExitGoesOn, AnswerKinds

\* A run the exit found waiting is recorded.
LEMMA ExitStep ==
  ASSUME TypeOK, CallsInv, PauseInv, RecordInv, ExitInv, [Next]_vars
  PROVE  ExitInv'
<1>1. ASSUME AppUp, HearsEvent PROVE ExitInv'
  BY <1>1, RunAssumption DEF HearsEvent, NoRun, NoPause, backend, ExitInv, Run, RecordInv,
    PauseInv, CallsInv, TypeOK, At, NothingGoes, AllCases, AppUp
<1>2. ASSUME NEW g \in Runs, AppUp, HearsEnd(g) PROVE ExitInv'
  BY <1>2, RunAssumption DEF HearsEnd, NoWindow, NoRun, NoPause, backend, wires, ExitInv,
    Run, RecordInv, PauseInv, CallsInv, TypeOK, At, NothingGoes, AllCases, AppUp
<1>3. ASSUME NEW r \in replies, AppUp, HearsReply(r) PROVE ExitInv'
  BY <1>3, RunAssumption DEF HearsReply, NoPause, NoRun, backend, ExitInv, Run, RecordInv,
    PauseInv, CallsInv, TypeOK, At, NothingGoes, AllCases, AppUp
<1>4. ASSUME NEW a \in asks, AppUp, HandlesCancel(a) PROVE ExitInv'
  BY <1>4, RunAssumption DEF HandlesCancel, Handled, window, ExitInv, Run, RecordInv,
    PauseInv, CallsInv, TypeOK, At, NothingGoes, AllCases, AppUp
<1>5. ASSUME NEW a \in asks, AppUp, HandlesAnswer(a) PROVE ExitInv'
  BY <1>5, RunAssumption DEF HandlesAnswer, NoPause, NoRun, Handled, window, ExitInv, Run,
    RecordInv, PauseInv, CallsInv, TypeOK, At, NothingGoes, AllCases, AppUp
<1>6. ASSUME NEW a \in asks, AppUp, HandlesStopWait(a) PROVE ExitInv'
  BY <1>6, RunAssumption DEF HandlesStopWait, Handled, window, ExitInv, Run, RecordInv,
    PauseInv, CallsInv, TypeOK, At, NothingGoes, AllCases, AppUp
<1>7. ASSUME AppUp, OpensSetup PROVE ExitInv'
  BY <1>7, RunAssumption DEF OpensSetup, NoWindow, NoRun, NoPause, backend, wires, ExitInv,
    Run, RecordInv, PauseInv, CallsInv, TypeOK, At, NothingGoes, AllCases, AppUp
<1>8. ASSUME AppUp, Starts PROVE ExitInv'
  BY <1>8, RunAssumption DEF Starts, wires, NoWindow, NoRun, NoPause, backend, ExitInv, Run,
    RecordInv, PauseInv, CallsInv, TypeOK, At, NothingGoes, AllCases, AppUp
<1>9. ASSUME AppUp, ClosesWindow PROVE ExitInv'
  BY <1>9, RunAssumption DEF ClosesWindow, NoWindow, NoRun, NoPause, backend, wires,
    ExitInv, Run, RecordInv, PauseInv, CallsInv, TypeOK, At, NothingGoes, AllCases, AppUp
<1>10. ASSUME AppUp, OpensWindow PROVE ExitInv'
  BY <1>10, RunAssumption DEF OpensWindow, NoWindow, NoRun, NoPause, backend, wires,
    ExitInv, Run, RecordInv, PauseInv, CallsInv, TypeOK, At, NothingGoes, AllCases, AppUp
<1>11. ASSUME AppUp, PressesStop PROVE ExitInv'
  BY <1>11, RunAssumption DEF PressesStop, Sends, NoPause, NoRun, backend, ExitInv, Run,
    RecordInv, PauseInv, CallsInv, TypeOK, At, NothingGoes, AllCases, AppUp
<1>12. ASSUME AppUp, PressesStopWait PROVE ExitInv'
  BY <1>12, RunAssumption DEF PressesStopWait, NoPause, NoRun, Sends, window, backend,
    ExitInv, Run, RecordInv, PauseInv, CallsInv, TypeOK, At, NothingGoes, AllCases, AppUp
<1>13. ASSUME NEW kind \in AnswerKinds, AppUp, Answers(kind) PROVE ExitInv'
  BY <1>13, RunAssumption DEF Answers, NoPause, NoRun, Sends, backend, ExitInv, Run,
    RecordInv, PauseInv, CallsInv, TypeOK, At, NothingGoes, AllCases, AppUp
<1>14. ASSUME AppUp, ExitStopsPause PROVE ExitInv'
  BY <1>14, RunAssumption DEF ExitStopsPause, NoPause, NoRun, window, wires, ExitInv, Run,
    RecordInv, PauseInv, CallsInv, TypeOK, At, NothingGoes, AllCases, AppUp
<1>15. ASSUME app.step # "gone", Claims PROVE ExitInv'
  BY <1>15, RunAssumption DEF Claims, Runs, NothingGoes, NoRun, wires, ExitInv, Run,
    RecordInv, PauseInv, CallsInv, TypeOK, At, AllCases, AppUp
<1>16. ASSUME app.step # "gone", RefusedAtStart PROVE ExitInv'
  BY <1>16, RunAssumption DEF RefusedAtStart, At, Returns, NothingGoes, NoRun, wires,
    ExitInv, Run, RecordInv, PauseInv, CallsInv, TypeOK, AllCases, AppUp
<1>17. ASSUME app.step # "gone", ClearsCancel PROVE ExitInv'
  BY <1>17, RunAssumption DEF ClearsCancel, At, Goes, window, wires, ExitInv, Run,
    RecordInv, PauseInv, CallsInv, TypeOK, NothingGoes, AllCases, AppUp
<1>18. ASSUME app.step # "gone", Fails PROVE ExitInv'
  BY <1>18, RunAssumption DEF Fails, At, Returns, NothingGoes, NoRun, wires, ExitInv, Run,
    RecordInv, PauseInv, CallsInv, TypeOK, AllCases, AppUp
<1>19. ASSUME app.step # "gone", Ends PROVE ExitInv'
  BY <1>19, RunAssumption DEF Ends, At, Returns, NothingGoes, NoRun, wires, ExitInv, Run,
    RecordInv, PauseInv, CallsInv, TypeOK, AllCases, AppUp
<1>20. ASSUME app.step # "gone", BeginsPause PROVE ExitInv'
  BY <1>20, RunAssumption DEF BeginsPause, At, Tells, Told, window, ExitInv, Run, RecordInv,
    PauseInv, CallsInv, TypeOK, NothingGoes, AllCases, AppUp
<1>21. ASSUME app.step # "gone", NoPauseHere PROVE ExitInv'
  BY <1>21, RunAssumption DEF NoPauseHere, At, AllCases, Goes, window, wires, ExitInv, Run,
    RecordInv, PauseInv, CallsInv, TypeOK, NothingGoes, AppUp
<1>22. ASSUME app.step # "gone", PauseContinues PROVE ExitInv'
  BY <1>22, RunAssumption DEF PauseContinues, At, PauseEnds, NoPause, NoRun, Goes, window,
    wires, ExitInv, Run, RecordInv, PauseInv, CallsInv, TypeOK, NothingGoes, AllCases, AppUp
<1>23. ASSUME app.step # "gone", PauseStops PROVE ExitInv'
  <2>1. LeavesRest /\ run.step \in {"paused", "down", "stopped", "found"}
    BY <1>23 DEF PauseStops, At
  <2>2. /\ run' = NothingGoes /\ call' = [call EXCEPT ![run.id] = "ok"]
        /\ saved' = kept' /\ kept' \in Seq(AllCases) /\ Len(kept') = CaseCount
        /\ \A i \in DOMAIN kept' : kept'[i] = i
    BY <2>1, RestLeft
  <2>q. QED
    BY <1>23, <2>1, <2>2, RunAssumption DEF PauseStops, ExitInv, CallsInv, TypeOK, At,
      NothingGoes
<1>24. ASSUME app.step # "gone", LooksAtNetwork PROVE ExitInv'
  BY <1>24, RunAssumption DEF LooksAtNetwork, At, Unreachable, Armed, window, wires,
    ExitInv, Run, RecordInv, PauseInv, CallsInv, TypeOK, NothingGoes, AllCases, AppUp
<1>25. ASSUME app.step # "gone", OpensCase PROVE ExitInv'
  BY <1>25, RunAssumption DEF OpensCase, At, Goes, Tells, Told, window, ExitInv, Run,
    RecordInv, PauseInv, CallsInv, TypeOK, NothingGoes, AllCases, AppUp
<1>26. ASSUME app.step # "gone", CaseEnds PROVE ExitInv'
  BY <1>26, RunAssumption DEF CaseEnds, Goes, window, wires, ExitInv, Run, RecordInv,
    PauseInv, CallsInv, TypeOK, At, NothingGoes, AllCases, AppUp
<1>27. ASSUME app.step # "gone", CaseFailed PROVE ExitInv'
  BY <1>27, RunAssumption DEF CaseFailed, At, Unreachable, Armed, window, wires, ExitInv,
    Run, RecordInv, PauseInv, CallsInv, TypeOK, NothingGoes, AllCases, AppUp
<1>28. ASSUME app.step # "gone", RecordsCase PROVE ExitInv'
  BY <1>28, RunAssumption DEF RecordsCase, At, Tells, Told, window, ExitInv, Run, RecordInv,
    PauseInv, CallsInv, TypeOK, NothingGoes, AllCases, AppUp
<1>29. ASSUME app.step # "gone", BeginsWait PROVE ExitInv'
  BY <1>29, RunAssumption DEF BeginsWait, At, Goes, Tells, Told, window, ExitInv, Run,
    RecordInv, PauseInv, CallsInv, TypeOK, NothingGoes, AllCases, AppUp
<1>30. ASSUME app.step # "gone", StopsBeforeWait PROVE ExitInv'
  <2>1. LeavesRest /\ run.step \in {"paused", "down", "stopped", "found"}
    BY <1>30 DEF StopsBeforeWait, At
  <2>2. /\ run' = NothingGoes /\ call' = [call EXCEPT ![run.id] = "ok"]
        /\ saved' = kept' /\ kept' \in Seq(AllCases) /\ Len(kept') = CaseCount
        /\ \A i \in DOMAIN kept' : kept'[i] = i
    BY <2>1, RestLeft
  <2>q. QED
    BY <1>30, <2>1, <2>2, RunAssumption DEF StopsBeforeWait, ExitInv, CallsInv, TypeOK, At,
      NothingGoes
<1>31. ASSUME app.step # "gone", WaitEnds PROVE ExitInv'
  BY <1>31, RunAssumption DEF WaitEnds, At, Goes, window, wires, ExitInv, Run, RecordInv,
    PauseInv, CallsInv, TypeOK, NothingGoes, AllCases, AppUp
<1>32. ASSUME app.step # "gone", Resumes PROVE ExitInv'
  BY <1>32, RunAssumption DEF Resumes, At, LetsWaitGo, NoWait, NoRun, Goes, Tells, Told,
    window, ExitInv, Run, RecordInv, PauseInv, CallsInv, TypeOK, NothingGoes, AllCases,
    AppUp
<1>33. ASSUME app.step # "gone", WaitStops PROVE ExitInv'
  <2>1. LeavesRest /\ run.step \in {"paused", "down", "stopped", "found"}
    BY <1>33 DEF WaitStops, At
  <2>2. /\ run' = NothingGoes /\ call' = [call EXCEPT ![run.id] = "ok"]
        /\ saved' = kept' /\ kept' \in Seq(AllCases) /\ Len(kept') = CaseCount
        /\ \A i \in DOMAIN kept' : kept'[i] = i
    BY <2>1, RestLeft
  <2>q. QED
    BY <1>33, <2>1, <2>2, RunAssumption DEF WaitStops, ExitInv, CallsInv, TypeOK, At,
      NothingGoes
<1>34. ASSUME app.step # "gone", NetworkChanges PROVE ExitInv'
  BY <1>34, RunAssumption DEF NetworkChanges, window, backend, wires, ExitInv, Run,
    RecordInv, PauseInv, CallsInv, TypeOK, At, NothingGoes, AllCases, AppUp
<1>35. ASSUME app.step # "gone", ExitStopsWait PROVE ExitInv'
  BY <1>35, RunAssumption DEF ExitStopsWait, NoWait, NoRun, window, wires, ExitInv, Run,
    RecordInv, PauseInv, CallsInv, TypeOK, At, NothingGoes, AllCases, AppUp
<1>36. ASSUME app.step # "gone", ExitEnds PROVE ExitInv'
  BY <1>36, RunAssumption DEF ExitEnds, At, window, backend, wires, ExitInv, Run, RecordInv,
    PauseInv, CallsInv, TypeOK, NothingGoes, AllCases, AppUp
<1>37. CASE UNCHANGED vars
  BY <1>37 DEF vars, window, backend, wires, ExitInv, Run, RecordInv, PauseInv, CallsInv,
    TypeOK, At, NothingGoes, AllCases, AppUp
<1>q. QED
  BY <1>1, <1>2, <1>3, <1>4, <1>5, <1>6, <1>7, <1>8, <1>9, <1>10, <1>11, <1>12, <1>13,
     <1>14, <1>15, <1>16, <1>17, <1>18, <1>19, <1>20, <1>21, <1>22, <1>23, <1>24, <1>25,
     <1>26, <1>27, <1>28, <1>29, <1>30, <1>31, <1>32, <1>33, <1>34, <1>35, <1>36, <1>37
     DEF Next, WindowHears, CommandsAreHandled, PersonActs, RunGoesOn, ExitGoesOn, AnswerKinds

LEMMA NoWindowTyped ==
  NoPause \in Paused /\ NoWindow \in Window /\ NothingGoes \in Run
  BY RunAssumption DEF NoPause, NoWindow, NothingGoes, NoRun, Paused, Window, Run, RunSteps, Runs

\* The moves of the window's store.
LEMMA WindowTyped ==
  ASSUME NEW w \in Window, NEW b \in BOOLEAN, NEW c \in BOOLEAN,
         NEW n \in Runs \cup {NoRun}, NEW p \in Paused,
         NEW f \in {"setup", "running", "finished", "failed"}
  PROVE  /\ [w EXCEPT !.open = b] \in Window
         /\ [w EXCEPT !.stopping = b] \in Window
         /\ [w EXCEPT !.answering = b, !.stopping = c] \in Window
         /\ [w EXCEPT !.run = n] \in Window
         /\ [w EXCEPT !.run = n, !.panel = p] \in Window
         /\ [w EXCEPT !.panel = p, !.answering = b] \in Window
         /\ [w EXCEPT !.answering = b, !.panel = p] \in Window
         /\ [w EXCEPT !.wait = p] \in Window
         /\ [w EXCEPT !.phase = f, !.open = b] \in Window
         /\ [w EXCEPT !.phase = f, !.open = b, !.run = n] \in Window
  BY DEF Window

\* The moves of the run.
LEMMA RunTyped ==
  ASSUME NEW r \in Run
  PROVE  /\ \A k \in {"none", "continue", "stop"} : [r EXCEPT !.answer = k] \in Run
         /\ \A s \in RunSteps :
              /\ [r EXCEPT !.step = s] \in Run
              /\ \A k \in {"none", "continue", "stop"} :
                   [r EXCEPT !.step = s, !.answer = k] \in Run
              /\ \A b \in BOOLEAN : [r EXCEPT !.step = s, !.armed = b] \in Run
              /\ \A n \in 0 .. MaxReruns : [r EXCEPT !.step = s, !.reruns = n] \in Run
              /\ \A n \in 0 .. MaxReruns, m \in 1 .. CaseCount + 1 :
                   [r EXCEPT !.step = s, !.at = m, !.reruns = n] \in Run
              /\ \A g \in Runs : [r EXCEPT !.id = g, !.step = s] \in Run
  BY DEF Run

\* The window's store stays well typed.
LEMMA WindowTypesStep ==
  ASSUME TypeOK, [Next]_vars
  PROVE  WindowTypes'
<1>1. ASSUME AppUp, HearsEvent PROVE WindowTypes'
  <2>1. PICK n \in Runs \cup {NoRun}, p \in Paused :
          win' \in {win, [win EXCEPT !.run = n, !.panel = p], [win EXCEPT !.run = n],
                    [win EXCEPT !.panel = p, !.answering = FALSE], [win EXCEPT !.wait = p]}
    <3>1. Head(events) \in Event
      BY <1>1 DEF HearsEvent, TypeOK, WindowTypes
    <3>2. [run |-> Head(events).run, before |-> Head(events).case] \in Paused
      BY <3>1, RunAssumption DEF Event, Paused, AllCases, Runs
    <3>q. QED
      BY <1>1, <3>1, <3>2, NoWindowTyped DEF HearsEvent, Event
  <2>2. win \in Window
    BY DEF TypeOK
  <2>3. /\ [win EXCEPT !.run = n, !.panel = p] \in Window /\ [win EXCEPT !.run = n] \in Window
        /\ [win EXCEPT !.panel = p, !.answering = FALSE] \in Window
        /\ [win EXCEPT !.wait = p] \in Window
    BY <2>2, WindowTyped, Zenon
  <2>4. win' \in Window
    BY <2>1, <2>2, <2>3
  <2>q. QED
    BY <1>1, <2>4 DEF HearsEvent, TypeOK, WindowTypes
<1>2. ASSUME NEW g \in Runs, AppUp, HearsEnd(g) PROVE WindowTypes'
  <2>1. PICK f \in {"finished", "failed"} :
          win' \in {win, NoWindow,
                    [NoWindow EXCEPT !.phase = f, !.open = win.open, !.run = win.run]}
    BY <1>2 DEF HearsEnd
  <2>2. win \in Window /\ win.open \in BOOLEAN /\ win.run \in Runs \cup {NoRun}
    BY DEF TypeOK, Window
  <2>3. [NoWindow EXCEPT !.phase = f, !.open = win.open, !.run = win.run] \in Window
    BY <2>2, NoWindowTyped, WindowTyped, Zenon
  <2>4. win' \in Window
    BY <2>1, <2>2, <2>3, NoWindowTyped
  <2>q. QED
    BY <1>2, <2>4 DEF HearsEnd, TypeOK, WindowTypes
<1>3. ASSUME NEW r \in replies, AppUp, HearsReply(r) PROVE WindowTypes'
  <2>1. win \in Window /\ win.panel \in Paused /\ NoPause \in Paused
    BY NoWindowTyped DEF TypeOK, Window
  <2>2. PICK p \in Paused, b \in BOOLEAN :
          win' \in {win, [win EXCEPT !.stopping = b],
                    [win EXCEPT !.answering = FALSE, !.panel = p]}
    <3>1. (win.stopping \/ r.ok) \in BOOLEAN
      OBVIOUS
    <3>q. QED
      BY <1>3, <2>1, <3>1 DEF HearsReply
  <2>3. /\ [win EXCEPT !.stopping = b] \in Window
        /\ [win EXCEPT !.answering = FALSE, !.panel = p] \in Window
    BY <2>1, WindowTyped, Zenon
  <2>4. win' \in Window
    BY <2>1, <2>2, <2>3
  <2>q. QED
    BY <1>3, <2>4 DEF HearsReply, TypeOK, WindowTypes
<1>4. ASSUME NEW a \in asks, AppUp, HandlesCancel(a) PROVE WindowTypes'
  BY <1>4 DEF HandlesCancel, Handled, window, WindowTypes, TypeOK
<1>5. ASSUME NEW a \in asks, AppUp, HandlesAnswer(a) PROVE WindowTypes'
  BY <1>5 DEF HandlesAnswer, NoPause, NoRun, Handled, window, WindowTypes, TypeOK
<1>6. ASSUME NEW a \in asks, AppUp, HandlesStopWait(a) PROVE WindowTypes'
  BY <1>6 DEF HandlesStopWait, Handled, window, WindowTypes, TypeOK
<1>7. ASSUME AppUp, OpensSetup PROVE WindowTypes'
  <2>1. win' \in Window
    BY <1>7, NoWindowTyped, WindowTyped, Zenon DEF OpensSetup
  <2>q. QED
    BY <1>7, <2>1 DEF OpensSetup, TypeOK, WindowTypes
<1>8. ASSUME AppUp, Starts PROVE WindowTypes'
  <2>1. win \in Window /\ win.open \in BOOLEAN
    BY DEF TypeOK, Window
  <2>2. win' \in Window
    BY <1>8, <2>1, NoWindowTyped, WindowTyped, Zenon DEF Starts
  <2>q. QED
    BY <1>8, <2>2, RunAssumption DEF Starts, TypeOK, Runs, WindowTypes
<1>9. ASSUME AppUp, ClosesWindow PROVE WindowTypes'
  <2>1. win \in Window
    BY DEF TypeOK
  <2>2. win' \in Window
    BY <1>9, <2>1, NoWindowTyped, WindowTyped, Zenon DEF ClosesWindow
  <2>q. QED
    BY <1>9, <2>2 DEF ClosesWindow, TypeOK, WindowTypes
<1>10. ASSUME AppUp, OpensWindow PROVE WindowTypes'
  <2>1. win \in Window
    BY DEF TypeOK
  <2>2. win' \in Window
    BY <1>10, <2>1, NoWindowTyped, WindowTyped, Zenon DEF OpensWindow
  <2>q. QED
    BY <1>10, <2>2 DEF OpensWindow, TypeOK, WindowTypes
<1>11. ASSUME AppUp, PressesStop PROVE WindowTypes'
  <2>1. win \in Window
    BY DEF TypeOK
  <2>2. win' \in Window
    BY <1>11, <2>1, NoWindowTyped, WindowTyped, Zenon DEF PressesStop
  <2>q. QED
    BY <1>11, <2>2 DEF PressesStop, TypeOK, WindowTypes
<1>12. ASSUME AppUp, PressesStopWait PROVE WindowTypes'
  BY <1>12 DEF PressesStopWait, NoPause, NoRun, Sends, window, backend, WindowTypes, TypeOK
<1>13. ASSUME NEW kind \in AnswerKinds, AppUp, Answers(kind) PROVE WindowTypes'
  <2>1. win \in Window
    BY DEF TypeOK
  <2>2. (win.stopping \/ kind = "stop") \in BOOLEAN
    OBVIOUS
  <2>3. PICK b \in BOOLEAN : win' = [win EXCEPT !.answering = TRUE, !.stopping = b]
    BY <1>13, <2>2 DEF Answers
  <2>4. win' \in Window
    BY <2>1, <2>3 DEF Window
  <2>q. QED
    BY <1>13, <2>4 DEF Answers, TypeOK, WindowTypes
<1>14. ASSUME AppUp, ExitStopsPause PROVE WindowTypes'
  BY <1>14 DEF ExitStopsPause, NoPause, NoRun, window, wires, WindowTypes, TypeOK
<1>15. ASSUME app.step # "gone", Claims PROVE WindowTypes'
  BY <1>15 DEF Claims, Runs, NothingGoes, NoRun, wires, WindowTypes, TypeOK
<1>16. ASSUME app.step # "gone", RefusedAtStart PROVE WindowTypes'
  BY <1>16 DEF RefusedAtStart, At, Returns, NothingGoes, NoRun, wires, WindowTypes, TypeOK
<1>17. ASSUME app.step # "gone", ClearsCancel PROVE WindowTypes'
  BY <1>17 DEF ClearsCancel, At, Goes, window, wires, WindowTypes, TypeOK
<1>18. ASSUME app.step # "gone", Fails PROVE WindowTypes'
  BY <1>18 DEF Fails, At, Returns, NothingGoes, NoRun, wires, WindowTypes, TypeOK
<1>19. ASSUME app.step # "gone", Ends PROVE WindowTypes'
  BY <1>19 DEF Ends, At, Returns, NothingGoes, NoRun, wires, WindowTypes, TypeOK
<1>20. ASSUME app.step # "gone", BeginsPause PROVE WindowTypes'
  BY <1>20 DEF BeginsPause, At, Tells, Told, window, WindowTypes, TypeOK
<1>21. ASSUME app.step # "gone", NoPauseHere PROVE WindowTypes'
  BY <1>21 DEF NoPauseHere, At, AllCases, Goes, window, wires, WindowTypes, TypeOK
<1>22. ASSUME app.step # "gone", PauseContinues PROVE WindowTypes'
  BY <1>22 DEF PauseContinues, At, PauseEnds, NoPause, NoRun, Goes, window, wires,
    WindowTypes, TypeOK
<1>23. ASSUME app.step # "gone", PauseStops PROVE WindowTypes'
  <2>1. UNCHANGED <<win, gen>> /\ call' = [call EXCEPT ![run.id] = "ok"]
    BY <1>23 DEF PauseStops, LeavesRest, Returns
  <2>q. QED
    BY <2>1 DEF WindowTypes, TypeOK
<1>24. ASSUME app.step # "gone", LooksAtNetwork PROVE WindowTypes'
  BY <1>24 DEF LooksAtNetwork, At, Unreachable, Armed, window, wires, WindowTypes, TypeOK
<1>25. ASSUME app.step # "gone", OpensCase PROVE WindowTypes'
  BY <1>25 DEF OpensCase, At, Goes, Tells, Told, window, WindowTypes, TypeOK
<1>26. ASSUME app.step # "gone", CaseEnds PROVE WindowTypes'
  BY <1>26 DEF CaseEnds, Goes, window, wires, WindowTypes, TypeOK
<1>27. ASSUME app.step # "gone", CaseFailed PROVE WindowTypes'
  BY <1>27 DEF CaseFailed, At, Unreachable, Armed, window, wires, WindowTypes, TypeOK
<1>28. ASSUME app.step # "gone", RecordsCase PROVE WindowTypes'
  BY <1>28 DEF RecordsCase, At, Tells, Told, window, WindowTypes, TypeOK
<1>29. ASSUME app.step # "gone", BeginsWait PROVE WindowTypes'
  BY <1>29 DEF BeginsWait, At, Goes, Tells, Told, window, WindowTypes, TypeOK
<1>30. ASSUME app.step # "gone", StopsBeforeWait PROVE WindowTypes'
  <2>1. UNCHANGED <<win, gen>> /\ call' = [call EXCEPT ![run.id] = "ok"]
    BY <1>30 DEF StopsBeforeWait, LeavesRest, Returns
  <2>q. QED
    BY <2>1 DEF WindowTypes, TypeOK
<1>31. ASSUME app.step # "gone", WaitEnds PROVE WindowTypes'
  BY <1>31 DEF WaitEnds, At, Goes, window, wires, WindowTypes, TypeOK
<1>32. ASSUME app.step # "gone", Resumes PROVE WindowTypes'
  BY <1>32 DEF Resumes, At, LetsWaitGo, NoWait, NoRun, Goes, Tells, Told, window,
    WindowTypes, TypeOK
<1>33. ASSUME app.step # "gone", WaitStops PROVE WindowTypes'
  <2>1. UNCHANGED <<win, gen>> /\ call' = [call EXCEPT ![run.id] = "ok"]
    BY <1>33 DEF WaitStops, LeavesRest, Returns
  <2>q. QED
    BY <2>1 DEF WindowTypes, TypeOK
<1>34. ASSUME app.step # "gone", NetworkChanges PROVE WindowTypes'
  BY <1>34 DEF NetworkChanges, window, backend, wires, WindowTypes, TypeOK
<1>35. ASSUME app.step # "gone", ExitStopsWait PROVE WindowTypes'
  BY <1>35 DEF ExitStopsWait, NoWait, NoRun, window, wires, WindowTypes, TypeOK
<1>36. ASSUME app.step # "gone", ExitEnds PROVE WindowTypes'
  BY <1>36 DEF ExitEnds, At, window, backend, wires, WindowTypes, TypeOK
<1>37. CASE UNCHANGED vars
  BY <1>37 DEF vars, window, backend, wires, WindowTypes, TypeOK
<1>q. QED
  BY <1>1, <1>2, <1>3, <1>4, <1>5, <1>6, <1>7, <1>8, <1>9, <1>10, <1>11, <1>12, <1>13,
     <1>14, <1>15, <1>16, <1>17, <1>18, <1>19, <1>20, <1>21, <1>22, <1>23, <1>24, <1>25,
     <1>26, <1>27, <1>28, <1>29, <1>30, <1>31, <1>32, <1>33, <1>34, <1>35, <1>36, <1>37
     DEF Next, WindowHears, CommandsAreHandled, PersonActs, RunGoesOn, ExitGoesOn, AnswerKinds

\* The head of the events is heard, and the others move up.
LEMMA Hearing ==
  ASSUME TypeOK, events # <<>>, events' = Tail(events)
  PROVE  /\ Head(events) \in Event /\ Head(events) = events[1] /\ 1 \in DOMAIN events
         /\ events' \in Seq(Event)
         /\ \A i \in DOMAIN events' :
              i \in Nat \ {0} /\ i + 1 \in DOMAIN events /\ events'[i] = events[i + 1]
<1>1. events \in Seq(Event)
  BY DEF TypeOK
<1>2. /\ Head(events) \in Event /\ Tail(events) \in Seq(Event)
      /\ Len(events) \in Nat \ {0} /\ Len(Tail(events)) = Len(events) - 1
      /\ \A i \in 1 .. Len(Tail(events)) : Tail(events)[i] = events[i + 1]
  BY <1>1, HeadTailProperties, EmptySeq, LenProperties
<1>3. DOMAIN events = 1 .. Len(events) /\ DOMAIN Tail(events) = 1 .. Len(Tail(events))
  BY <1>1, <1>2, LenProperties
<1>q. QED
  BY <1>1, <1>2, <1>3

\* What an event does to the panel of a pause and to the shown wait.
LEMMA EventHeard ==
  ASSUME TypeOK, HearsEvent
  PROVE  LET e == Head(events)
             p == [run |-> e.run, before |-> e.case]
         IN /\ \/ win'.panel = win.panel /\ win'.answering = win.answering
               \/ win'.panel = NoPause
               \/ e.kind = "reset" /\ win'.panel = p /\ win'.answering = FALSE
            /\ win'.wait = win.wait \/ win'.wait = NoPause \/ win'.wait = p
            /\ p.run = e.run
<1>. DEFINE e == Head(events)
            p == [run |-> e.run, before |-> e.case]
<1>1. win \in Window /\ e.kind \in {"opening", "done", "reset", "waits", "waited"}
  BY Hearing DEF TypeOK, HearsEvent, Event
<1>2. \/ win' = win
      \/ win' = [win EXCEPT !.run = e.run, !.panel = NoPause]
      \/ win' = [win EXCEPT !.run = e.run]
      \/ e.kind = "reset" /\ win' = [win EXCEPT !.panel = p, !.answering = FALSE]
      \/ win' = [win EXCEPT !.wait = p]
      \/ win' = [win EXCEPT !.wait = NoPause]
  BY <1>1 DEF HearsEvent
<1>. HIDE DEF e, p
<1>3. \A m, q :
        LET a == [win EXCEPT !.run = m, !.panel = q]
            b == [win EXCEPT !.run = m]
            c == [win EXCEPT !.panel = q, !.answering = FALSE]
            d == [win EXCEPT !.wait = q]
        IN /\ a.panel = q /\ a.wait = win.wait
           /\ b.panel = win.panel /\ b.answering = win.answering /\ b.wait = win.wait
           /\ c.panel = q /\ c.answering = FALSE /\ c.wait = win.wait
           /\ d.panel = win.panel /\ d.answering = win.answering /\ d.wait = q
  BY <1>1 DEF Window
<1>4. CASE win' = win
  BY <1>4
<1>5. CASE win' = [win EXCEPT !.run = e.run, !.panel = NoPause]
  BY <1>3, <1>5
<1>6. CASE win' = [win EXCEPT !.run = e.run]
  BY <1>3, <1>6
<1>7. CASE e.kind = "reset" /\ win' = [win EXCEPT !.panel = p, !.answering = FALSE]
  BY <1>3, <1>7 DEF e, p
<1>8. CASE win' = [win EXCEPT !.wait = p]
  BY <1>3, <1>8 DEF e, p
<1>9. CASE win' = [win EXCEPT !.wait = NoPause]
  BY <1>3, <1>9
<1>q. QED
  BY <1>2, <1>4, <1>5, <1>6, <1>7, <1>8, <1>9

\* The run of the last start tells one thing more.
LEMMA Telling ==
  ASSUME TypeOK, CallsInv, run.at \in AllCases, ~At("none"),
         NEW k \in {"opening", "done", "reset", "waits", "waited"}, Tells(k)
  PROVE  /\ Told(k, run.at) \in Event /\ Told(k, run.at).kind = k
         /\ Told(k, run.at).run = gen /\ Told(k, run.at).case = run.at
         /\ events' \in Seq(Event)
         /\ \A i \in DOMAIN events' :
              \/ i \in DOMAIN events /\ events'[i] = events[i]
              \/ i = Len(events) + 1 /\ events'[i] = Told(k, run.at)
<1>1. run.id = gen /\ gen \in Runs
  BY DEF CallsInv
<1>2. /\ Told(k, run.at) \in Event /\ Told(k, run.at).kind = k
      /\ Told(k, run.at).run = gen /\ Told(k, run.at).case = run.at
  BY <1>1 DEF Told, Event
<1>3. events \in Seq(Event) /\ events' = Append(events, Told(k, run.at))
  BY DEF TypeOK, Tells
<1>q. QED
  BY <1>2, <1>3, AppendProperties, LenProperties

\* A run that ends tells of the rest of the cases.
LEMMA TellingRest ==
  ASSUME TypeOK, CallsInv, RecordInv, run.at \in AllCases, ~At("none"),
         NEW told \in Seq(Event), \A i \in DOMAIN told : told[i].run = gen, TellsRest(told)
  PROVE  /\ events' \in Seq(Event)
         /\ \A i \in DOMAIN events' :
              \/ i \in DOMAIN events /\ events'[i] = events[i]
              \/ events'[i].run = gen
<1>. DEFINE rest == [i \in DOMAIN Rest |-> Told("done", Rest[i])]
<1>1. run.id = gen /\ gen \in Runs /\ events \in Seq(Event)
  BY DEF CallsInv, TypeOK
<1>2. Rest \in Seq(AllCases)
  BY RestTyped
<1>3. \A c \in AllCases : Told("done", c) \in Event /\ Told("done", c).run = gen
  BY <1>1 DEF Told, Event
<1>4. DOMAIN Rest = 1 .. Len(Rest) /\ Len(Rest) \in Nat /\ Rest \in [1 .. Len(Rest) -> AllCases]
  BY <1>2, LenProperties
<1>5. rest \in [1 .. Len(Rest) -> Event] /\ \A i \in 1 .. Len(Rest) : rest[i].run = gen
  BY <1>3, <1>4
<1>6. rest \in Seq(Event) /\ DOMAIN rest = 1 .. Len(Rest)
  BY <1>4, <1>5, SeqDef
<1>7. Len(rest) = Len(Rest)
  BY <1>4, <1>6, LenProperties
<1>8. events' = events \o told \o rest
  BY DEF TellsRest
<1>. HIDE DEF rest
<1>9. /\ events \o told \in Seq(Event) /\ Len(events \o told) = Len(events) + Len(told)
      /\ \A i \in 1 .. Len(events) + Len(told) :
           (events \o told)[i] = IF i <= Len(events) THEN events[i] ELSE told[i - Len(events)]
  BY <1>1, ConcatProperties
<1>10. /\ events' \in Seq(Event)
       /\ Len(events') = Len(events \o told) + Len(rest)
       /\ \A i \in 1 .. Len(events \o told) + Len(rest) :
            events'[i] = IF i <= Len(events \o told) THEN (events \o told)[i]
                         ELSE rest[i - Len(events \o told)]
  BY <1>6, <1>8, <1>9, ConcatProperties
<1>11. /\ Len(events) \in Nat /\ DOMAIN events = 1 .. Len(events)
       /\ Len(told) \in Nat /\ DOMAIN told = 1 .. Len(told)
       /\ DOMAIN events' = 1 .. Len(events')
  BY <1>1, <1>10, LenProperties
<1>12. ASSUME NEW i \in DOMAIN events'
       PROVE  \/ i \in DOMAIN events /\ events'[i] = events[i]
              \/ events'[i].run = gen
  <2>1. CASE i <= Len(events)
    BY <1>4, <1>7, <1>9, <1>10, <1>11, <2>1
  <2>2. CASE i > Len(events) /\ i <= Len(events) + Len(told)
    <3>1. i - Len(events) \in DOMAIN told /\ events'[i] = told[i - Len(events)]
      BY <1>4, <1>7, <1>9, <1>10, <1>11, <2>2
    <3>q. QED
      BY <3>1
  <2>3. CASE i > Len(events) + Len(told)
    <3>1. /\ i - (Len(events) + Len(told)) \in 1 .. Len(Rest)
          /\ events'[i] = rest[i - (Len(events) + Len(told))]
      BY <1>4, <1>7, <1>9, <1>10, <1>11, <2>3
    <3>q. QED
      BY <1>5, <3>1
  <2>4. i \in Nat
    BY <1>10, <1>11
  <2>q. QED
    BY <1>11, <2>1, <2>2, <2>3, <2>4
<1>q. QED
  BY <1>10, <1>12

\* What is on its way stays well typed.
LEMMA WireTypesStep ==
  ASSUME TypeOK, CallsInv, RecordInv, [Next]_vars
  PROVE  WireTypes'
<1>1. ASSUME AppUp, HearsEvent PROVE WireTypes'
  <2>1. events # <<>> /\ events' = Tail(events)
    BY <1>1 DEF HearsEvent
  <2>q. QED
    BY <1>1, <2>1, Hearing DEF HearsEvent, TypeOK, WireTypes
<1>2. ASSUME NEW g \in Runs, AppUp, HearsEnd(g) PROVE WireTypes'
  BY <1>2, RunAssumption DEF HearsEnd, NoWindow, NoRun, NoPause, backend, wires, WireTypes,
    TypeOK, Ask, Reply, Window, Paused, AnswerKinds
<1>3. ASSUME NEW r \in replies, AppUp, HearsReply(r) PROVE WireTypes'
  BY <1>3, RunAssumption DEF HearsReply, NoPause, NoRun, backend, WireTypes, TypeOK, Ask,
    Reply, Window, Paused, AnswerKinds
<1>4. ASSUME NEW a \in asks, AppUp, HandlesCancel(a) PROVE WireTypes'
  BY <1>4, RunAssumption DEF HandlesCancel, Handled, window, WireTypes, TypeOK, Ask, Reply,
    Window, Paused, NoPause, NoRun, AnswerKinds
<1>5. ASSUME NEW a \in asks, AppUp, HandlesAnswer(a) PROVE WireTypes'
  <2>1. PICK ok \in BOOLEAN :
          asks' = asks \ {a} /\ replies' = replies \cup {[ask |-> a, ok |-> ok]}
    BY <1>5, Zenon DEF HandlesAnswer, Handled
  <2>2. [ask |-> a, ok |-> ok] \in Reply
    BY DEF TypeOK, Reply
  <2>q. QED
    BY <1>5, <2>1, <2>2 DEF HandlesAnswer, TypeOK, WireTypes
<1>6. ASSUME NEW a \in asks, AppUp, HandlesStopWait(a) PROVE WireTypes'
  <2>1. PICK ok \in BOOLEAN :
          asks' = asks \ {a} /\ replies' = replies \cup {[ask |-> a, ok |-> ok]}
    BY <1>6, Zenon DEF HandlesStopWait, Handled
  <2>2. [ask |-> a, ok |-> ok] \in Reply
    BY DEF TypeOK, Reply
  <2>q. QED
    BY <1>6, <2>1, <2>2 DEF HandlesStopWait, TypeOK, WireTypes
<1>7. ASSUME AppUp, OpensSetup PROVE WireTypes'
  BY <1>7, RunAssumption DEF OpensSetup, NoWindow, NoRun, NoPause, backend, wires,
    WireTypes, TypeOK, Ask, Reply, Window, Paused, AnswerKinds
<1>8. ASSUME AppUp, Starts PROVE WireTypes'
  BY <1>8, RunAssumption DEF Starts, wires, NoWindow, NoRun, NoPause, backend, WireTypes,
    TypeOK, Ask, Reply, Window, Paused, AnswerKinds
<1>9. ASSUME AppUp, ClosesWindow PROVE WireTypes'
  BY <1>9, RunAssumption DEF ClosesWindow, NoWindow, NoRun, NoPause, backend, wires,
    WireTypes, TypeOK, Ask, Reply, Window, Paused, AnswerKinds
<1>10. ASSUME AppUp, OpensWindow PROVE WireTypes'
  BY <1>10, RunAssumption DEF OpensWindow, NoWindow, NoRun, NoPause, backend, wires,
    WireTypes, TypeOK, Ask, Reply, Window, Paused, AnswerKinds
<1>11. ASSUME AppUp, PressesStop PROVE WireTypes'
  BY <1>11, RunAssumption DEF PressesStop, Sends, NoPause, NoRun, backend, WireTypes,
    TypeOK, Ask, Reply, Window, Paused, AnswerKinds
<1>12. ASSUME AppUp, PressesStopWait PROVE WireTypes'
  BY <1>12, RunAssumption DEF PressesStopWait, NoPause, NoRun, Sends, window, backend,
    WireTypes, TypeOK, Ask, Reply, Window, Paused, AnswerKinds
<1>13. ASSUME NEW kind \in AnswerKinds, AppUp, Answers(kind) PROVE WireTypes'
  BY <1>13, RunAssumption DEF Answers, NoPause, NoRun, Sends, backend, WireTypes, TypeOK,
    Ask, Reply, Window, Paused, AnswerKinds
<1>14. ASSUME AppUp, ExitStopsPause PROVE WireTypes'
  BY <1>14, RunAssumption DEF ExitStopsPause, NoPause, NoRun, window, wires, WireTypes,
    TypeOK, Ask, Reply, Window, Paused, AnswerKinds
<1>15. ASSUME app.step # "gone", Claims PROVE WireTypes'
  BY <1>15, RunAssumption DEF Claims, Runs, NothingGoes, NoRun, wires, WireTypes, TypeOK,
    Ask, Reply, Window, Paused, NoPause, AnswerKinds
<1>16. ASSUME app.step # "gone", RefusedAtStart PROVE WireTypes'
  BY <1>16, RunAssumption DEF RefusedAtStart, At, Returns, NothingGoes, NoRun, wires,
    WireTypes, TypeOK, Ask, Reply, Window, Paused, NoPause, AnswerKinds
<1>17. ASSUME app.step # "gone", ClearsCancel PROVE WireTypes'
  BY <1>17, RunAssumption DEF ClearsCancel, At, Goes, window, wires, WireTypes, TypeOK, Ask,
    Reply, Window, Paused, NoPause, NoRun, AnswerKinds
<1>18. ASSUME app.step # "gone", Fails PROVE WireTypes'
  BY <1>18, RunAssumption DEF Fails, At, Returns, NothingGoes, NoRun, wires, WireTypes,
    TypeOK, Ask, Reply, Window, Paused, NoPause, AnswerKinds
<1>19. ASSUME app.step # "gone", Ends PROVE WireTypes'
  BY <1>19, RunAssumption DEF Ends, At, Returns, NothingGoes, NoRun, wires, WireTypes,
    TypeOK, Ask, Reply, Window, Paused, NoPause, AnswerKinds
<1>20. ASSUME app.step # "gone", BeginsPause PROVE WireTypes'
  <2>1. run.at \in AllCases /\ ~At("none") /\ Tells("reset")
    BY <1>20, RunAssumption DEF BeginsPause, RecordInv, At
  <2>q. QED
    BY <1>20, <2>1, Telling DEF BeginsPause, TypeOK, WireTypes
<1>21. ASSUME app.step # "gone", NoPauseHere PROVE WireTypes'
  BY <1>21, RunAssumption DEF NoPauseHere, At, AllCases, Goes, window, wires, WireTypes,
    TypeOK, Ask, Reply, Window, Paused, NoPause, NoRun, AnswerKinds
<1>22. ASSUME app.step # "gone", PauseContinues PROVE WireTypes'
  BY <1>22, RunAssumption DEF PauseContinues, At, PauseEnds, NoPause, NoRun, Goes, window,
    wires, WireTypes, TypeOK, Ask, Reply, Window, Paused, AnswerKinds
<1>23. ASSUME app.step # "gone", PauseStops PROVE WireTypes'
  <2>1. run.at \in AllCases /\ ~At("none") /\ TellsRest(<<>>)
    BY <1>23 DEF PauseStops, RecordInv, At
  <2>2. <<>> \in Seq(Event) /\ \A i \in DOMAIN <<>> : <<>>[i].run = gen
    BY <2>1, EmptySeq
  <2>q. QED
    BY <1>23, <2>1, <2>2, TellingRest DEF PauseStops, TypeOK, WireTypes
<1>24. ASSUME app.step # "gone", LooksAtNetwork PROVE WireTypes'
  BY <1>24, RunAssumption DEF LooksAtNetwork, At, Unreachable, Armed, window, wires,
    WireTypes, TypeOK, Ask, Reply, Window, Paused, NoPause, NoRun, AnswerKinds
<1>25. ASSUME app.step # "gone", OpensCase PROVE WireTypes'
  <2>1. run.at \in AllCases /\ ~At("none") /\ Tells("opening")
    BY <1>25 DEF OpensCase, RecordInv, At
  <2>q. QED
    BY <1>25, <2>1, Telling DEF OpensCase, TypeOK, WireTypes
<1>26. ASSUME app.step # "gone", CaseEnds PROVE WireTypes'
  BY <1>26, RunAssumption DEF CaseEnds, Goes, window, wires, WireTypes, TypeOK, Ask, Reply,
    Window, Paused, NoPause, NoRun, AnswerKinds
<1>27. ASSUME app.step # "gone", CaseFailed PROVE WireTypes'
  BY <1>27, RunAssumption DEF CaseFailed, At, Unreachable, Armed, window, wires, WireTypes,
    TypeOK, Ask, Reply, Window, Paused, NoPause, NoRun, AnswerKinds
<1>28. ASSUME app.step # "gone", RecordsCase PROVE WireTypes'
  <2>1. run.at \in AllCases /\ ~At("none") /\ Tells("done")
    BY <1>28 DEF RecordsCase, RecordInv, At
  <2>q. QED
    BY <1>28, <2>1, Telling DEF RecordsCase, TypeOK, WireTypes
<1>29. ASSUME app.step # "gone", BeginsWait PROVE WireTypes'
  <2>1. run.at \in AllCases /\ ~At("none") /\ Tells("waits")
    BY <1>29 DEF BeginsWait, RecordInv, At
  <2>q. QED
    BY <1>29, <2>1, Telling DEF BeginsWait, TypeOK, WireTypes
<1>30. ASSUME app.step # "gone", StopsBeforeWait PROVE WireTypes'
  <2>1. run.at \in AllCases /\ ~At("none") /\ TellsRest(<<>>)
    BY <1>30 DEF StopsBeforeWait, RecordInv, At
  <2>2. <<>> \in Seq(Event) /\ \A i \in DOMAIN <<>> : <<>>[i].run = gen
    BY <2>1, EmptySeq
  <2>q. QED
    BY <1>30, <2>1, <2>2, TellingRest DEF StopsBeforeWait, TypeOK, WireTypes
<1>31. ASSUME app.step # "gone", WaitEnds PROVE WireTypes'
  BY <1>31, RunAssumption DEF WaitEnds, At, Goes, window, wires, WireTypes, TypeOK, Ask,
    Reply, Window, Paused, NoPause, NoRun, AnswerKinds
<1>32. ASSUME app.step # "gone", Resumes PROVE WireTypes'
  <2>1. run.at \in AllCases /\ ~At("none") /\ Tells("waited")
    BY <1>32 DEF Resumes, RecordInv, At
  <2>q. QED
    BY <1>32, <2>1, Telling DEF Resumes, TypeOK, WireTypes
<1>33. ASSUME app.step # "gone", WaitStops PROVE WireTypes'
  <2>1. run.at \in AllCases /\ ~At("none") /\ TellsRest(<<Told("waited", run.at)>>)
    BY <1>33 DEF WaitStops, RecordInv, At
  <2>2. <<Told("waited", run.at)>> \in Seq(Event) /\ \A i \in DOMAIN <<Told("waited", run.at)>> : <<Told("waited", run.at)>>[i].run = gen
    BY <2>1 DEF Told, Event, CallsInv
  <2>q. QED
    BY <1>33, <2>1, <2>2, TellingRest DEF WaitStops, TypeOK, WireTypes
<1>34. ASSUME app.step # "gone", NetworkChanges PROVE WireTypes'
  BY <1>34, RunAssumption DEF NetworkChanges, window, backend, wires, WireTypes, TypeOK,
    Ask, Reply, Window, Paused, NoPause, NoRun, AnswerKinds
<1>35. ASSUME app.step # "gone", ExitStopsWait PROVE WireTypes'
  BY <1>35, RunAssumption DEF ExitStopsWait, NoWait, NoRun, window, wires, WireTypes,
    TypeOK, Ask, Reply, Window, Paused, NoPause, AnswerKinds
<1>36. ASSUME app.step # "gone", ExitEnds PROVE WireTypes'
  BY <1>36, RunAssumption DEF ExitEnds, At, window, backend, wires, WireTypes, TypeOK, Ask,
    Reply, Window, Paused, NoPause, NoRun, AnswerKinds
<1>37. CASE UNCHANGED vars
  BY <1>37 DEF vars, window, backend, wires, WireTypes, TypeOK, Ask, Reply, Window, Paused,
    NoPause, NoRun, AnswerKinds
<1>q. QED
  BY <1>1, <1>2, <1>3, <1>4, <1>5, <1>6, <1>7, <1>8, <1>9, <1>10, <1>11, <1>12, <1>13,
     <1>14, <1>15, <1>16, <1>17, <1>18, <1>19, <1>20, <1>21, <1>22, <1>23, <1>24, <1>25,
     <1>26, <1>27, <1>28, <1>29, <1>30, <1>31, <1>32, <1>33, <1>34, <1>35, <1>36, <1>37
     DEF Next, WindowHears, CommandsAreHandled, PersonActs, RunGoesOn, ExitGoesOn, AnswerKinds

\* What is on its way is of the last start.
LEMMA WiresStep ==
  ASSUME TypeOK, CallsInv, WiresInv, RecordInv, [Next]_vars
  PROVE  WiresInv'
<1>1. ASSUME AppUp, HearsEvent PROVE WiresInv'
  <2>1. events # <<>> /\ events' = Tail(events)
    BY <1>1 DEF HearsEvent
  <2>2. /\ Head(events).run = gen /\ gen \in Runs
        /\ \A i \in DOMAIN events' : OfLastStart(events'[i])
    BY <2>1, Hearing DEF WiresInv, OfLastStart, HearsEvent
  <2>3. /\ win'.panel # NoPause => win'.panel = win.panel \/ win'.panel.run = gen
        /\ win'.wait # NoPause => win'.wait = win.wait \/ win'.wait.run = gen
    BY <1>1, <2>2, EventHeard
  <2>4. ~(gen \in Runs /\ call[gen] = "listening")
    BY <2>1 DEF WiresInv
  <2>q. QED
    BY <1>1, <2>2, <2>3, <2>4 DEF HearsEvent, WiresInv, OfLastStart
<1>2. ASSUME NEW g \in Runs, AppUp, HearsEnd(g) PROVE WiresInv'
  BY <1>2, RunAssumption DEF HearsEnd, NoWindow, NoRun, NoPause, backend, wires, WiresInv,
    OfLastStart, CallsInv, TypeOK, Window, Paused, Event, Ask, Reply, At, Runs
<1>3. ASSUME NEW r \in replies, AppUp, HearsReply(r) PROVE WiresInv'
  BY <1>3, RunAssumption DEF HearsReply, NoPause, NoRun, backend, WiresInv, OfLastStart,
    CallsInv, TypeOK, Window, Paused, Event, Ask, Reply, At, NoWindow, Runs
<1>4. ASSUME NEW a \in asks, AppUp, HandlesCancel(a) PROVE WiresInv'
  BY <1>4, RunAssumption DEF HandlesCancel, Handled, window, WiresInv, OfLastStart,
    CallsInv, TypeOK, Window, Paused, Event, Ask, Reply, At, NoPause, NoRun, NoWindow, Runs
<1>5. ASSUME NEW a \in asks, AppUp, HandlesAnswer(a) PROVE WiresInv'
  <2>1. PICK ok \in BOOLEAN :
          asks' = asks \ {a} /\ replies' = replies \cup {[ask |-> a, ok |-> ok]}
    BY <1>5, Zenon DEF HandlesAnswer, Handled
  <2>2. UNCHANGED <<win, gen, call, events>> /\ a.kind \in AnswerKinds
    BY <1>5 DEF HandlesAnswer, window, AnswerKinds
  <2>q. QED
    BY <2>1, <2>2 DEF WiresInv, OfLastStart, AnswerKinds
<1>6. ASSUME NEW a \in asks, AppUp, HandlesStopWait(a) PROVE WiresInv'
  <2>1. PICK ok \in BOOLEAN :
          asks' = asks \ {a} /\ replies' = replies \cup {[ask |-> a, ok |-> ok]}
    BY <1>6, Zenon DEF HandlesStopWait, Handled
  <2>2. UNCHANGED <<win, gen, call, events>> /\ a.kind = "stopWait"
    BY <1>6 DEF HandlesStopWait, window
  <2>q. QED
    BY <2>1, <2>2 DEF WiresInv, OfLastStart
<1>7. ASSUME AppUp, OpensSetup PROVE WiresInv'
  BY <1>7, RunAssumption DEF OpensSetup, NoWindow, NoRun, NoPause, backend, wires, WiresInv,
    OfLastStart, CallsInv, TypeOK, Window, Paused, Event, Ask, Reply, At, Runs
<1>8. ASSUME AppUp, Starts PROVE WiresInv'
  BY <1>8, RunAssumption DEF Starts, wires, NoWindow, NoRun, NoPause, backend, WiresInv,
    OfLastStart, CallsInv, TypeOK, Window, Paused, Event, Ask, Reply, At, Runs
<1>9. ASSUME AppUp, ClosesWindow PROVE WiresInv'
  BY <1>9, RunAssumption DEF ClosesWindow, NoWindow, NoRun, NoPause, backend, wires,
    WiresInv, OfLastStart, CallsInv, TypeOK, Window, Paused, Event, Ask, Reply, At, Runs
<1>10. ASSUME AppUp, OpensWindow PROVE WiresInv'
  BY <1>10, RunAssumption DEF OpensWindow, NoWindow, NoRun, NoPause, backend, wires,
    WiresInv, OfLastStart, CallsInv, TypeOK, Window, Paused, Event, Ask, Reply, At, Runs
<1>11. ASSUME AppUp, PressesStop PROVE WiresInv'
  BY <1>11, RunAssumption DEF PressesStop, Sends, NoPause, NoRun, backend, WiresInv,
    OfLastStart, CallsInv, TypeOK, Window, Paused, Event, Ask, Reply, At, NoWindow, Runs
<1>12. ASSUME AppUp, PressesStopWait PROVE WiresInv'
  BY <1>12, RunAssumption DEF PressesStopWait, NoPause, NoRun, Sends, window, backend,
    WiresInv, OfLastStart, CallsInv, TypeOK, Window, Paused, Event, Ask, Reply, At,
    NoWindow, Runs
<1>13. ASSUME NEW kind \in AnswerKinds, AppUp, Answers(kind) PROVE WiresInv'
  BY <1>13, RunAssumption DEF Answers, NoPause, NoRun, Sends, backend, WiresInv,
    OfLastStart, CallsInv, TypeOK, Window, Paused, Event, Ask, Reply, At, NoWindow, Runs
<1>14. ASSUME AppUp, ExitStopsPause PROVE WiresInv'
  BY <1>14, RunAssumption DEF ExitStopsPause, NoPause, NoRun, window, wires, WiresInv,
    OfLastStart, CallsInv, TypeOK, Window, Paused, Event, Ask, Reply, At, NoWindow, Runs
<1>15. ASSUME app.step # "gone", Claims PROVE WiresInv'
  BY <1>15, RunAssumption DEF Claims, Runs, NothingGoes, NoRun, wires, WiresInv,
    OfLastStart, CallsInv, TypeOK, Window, Paused, Event, Ask, Reply, At, NoPause, NoWindow
<1>16. ASSUME app.step # "gone", RefusedAtStart PROVE WiresInv'
  BY <1>16, RunAssumption DEF RefusedAtStart, At, Returns, NothingGoes, NoRun, wires,
    WiresInv, OfLastStart, CallsInv, TypeOK, Window, Paused, Event, Ask, Reply, NoPause,
    NoWindow, Runs
<1>17. ASSUME app.step # "gone", ClearsCancel PROVE WiresInv'
  BY <1>17, RunAssumption DEF ClearsCancel, At, Goes, window, wires, WiresInv, OfLastStart,
    CallsInv, TypeOK, Window, Paused, Event, Ask, Reply, NoPause, NoRun, NoWindow, Runs
<1>18. ASSUME app.step # "gone", Fails PROVE WiresInv'
  BY <1>18, RunAssumption DEF Fails, At, Returns, NothingGoes, NoRun, wires, WiresInv,
    OfLastStart, CallsInv, TypeOK, Window, Paused, Event, Ask, Reply, NoPause, NoWindow,
    Runs
<1>19. ASSUME app.step # "gone", Ends PROVE WiresInv'
  BY <1>19, RunAssumption DEF Ends, At, Returns, NothingGoes, NoRun, wires, WiresInv,
    OfLastStart, CallsInv, TypeOK, Window, Paused, Event, Ask, Reply, NoPause, NoWindow,
    Runs
<1>20. ASSUME app.step # "gone", BeginsPause PROVE WiresInv'
  <2>1. run.at \in AllCases /\ ~At("none") /\ Tells("reset")
    BY <1>20, RunAssumption DEF BeginsPause, RecordInv, At
  <2>2. \A i \in DOMAIN events' : OfLastStart(events'[i])
    BY <2>1, Telling DEF CallsInv, WiresInv, OfLastStart, BeginsPause, window
  <2>3. gen \in Runs /\ call[gen] # "listening"
    BY <2>1 DEF CallsInv
  <2>q. QED
    BY <1>20, <2>2, <2>3 DEF BeginsPause, WiresInv, OfLastStart, window
<1>21. ASSUME app.step # "gone", NoPauseHere PROVE WiresInv'
  BY <1>21, RunAssumption DEF NoPauseHere, At, AllCases, Goes, window, wires, WiresInv,
    OfLastStart, CallsInv, TypeOK, Window, Paused, Event, Ask, Reply, NoPause, NoRun,
    NoWindow, Runs
<1>22. ASSUME app.step # "gone", PauseContinues PROVE WiresInv'
  BY <1>22, RunAssumption DEF PauseContinues, At, PauseEnds, NoPause, NoRun, Goes, window,
    wires, WiresInv, OfLastStart, CallsInv, TypeOK, Window, Paused, Event, Ask, Reply,
    NoWindow, Runs
<1>23. ASSUME app.step # "gone", PauseStops PROVE WiresInv'
  <2>1. run.at \in AllCases /\ ~At("none") /\ TellsRest(<<>>)
    BY <1>23 DEF PauseStops, RecordInv, At
  <2>2. <<>> \in Seq(Event) /\ \A i \in DOMAIN <<>> : <<>>[i].run = gen
    BY <2>1, EmptySeq
  <2>3. gen \in Runs /\ call[gen] = "going" /\ run.id = gen
    BY <2>1 DEF CallsInv
  <2>4. \A i \in DOMAIN events' : events'[i].run = gen
    BY <2>1, <2>2, TellingRest DEF WiresInv, OfLastStart
  <2>5. /\ UNCHANGED <<win, gen, asks, replies>>
        /\ call' = [call EXCEPT ![run.id] = "ok"]
    BY <1>23 DEF PauseStops, LeavesRest, Returns
  <2>q. QED
    BY <2>3, <2>4, <2>5 DEF WiresInv, OfLastStart, TypeOK
<1>24. ASSUME app.step # "gone", LooksAtNetwork PROVE WiresInv'
  BY <1>24, RunAssumption DEF LooksAtNetwork, At, Unreachable, Armed, window, wires,
    WiresInv, OfLastStart, CallsInv, TypeOK, Window, Paused, Event, Ask, Reply, NoPause,
    NoRun, NoWindow, Runs
<1>25. ASSUME app.step # "gone", OpensCase PROVE WiresInv'
  <2>1. run.at \in AllCases /\ ~At("none") /\ Tells("opening")
    BY <1>25 DEF OpensCase, RecordInv, At
  <2>2. \A i \in DOMAIN events' : OfLastStart(events'[i])
    BY <2>1, Telling DEF CallsInv, WiresInv, OfLastStart, OpensCase, window
  <2>3. gen \in Runs /\ call[gen] # "listening"
    BY <2>1 DEF CallsInv
  <2>q. QED
    BY <1>25, <2>2, <2>3 DEF OpensCase, WiresInv, OfLastStart, window
<1>26. ASSUME app.step # "gone", CaseEnds PROVE WiresInv'
  BY <1>26, RunAssumption DEF CaseEnds, Goes, window, wires, WiresInv, OfLastStart,
    CallsInv, TypeOK, Window, Paused, Event, Ask, Reply, At, NoPause, NoRun, NoWindow, Runs
<1>27. ASSUME app.step # "gone", CaseFailed PROVE WiresInv'
  BY <1>27, RunAssumption DEF CaseFailed, At, Unreachable, Armed, window, wires, WiresInv,
    OfLastStart, CallsInv, TypeOK, Window, Paused, Event, Ask, Reply, NoPause, NoRun,
    NoWindow, Runs
<1>28. ASSUME app.step # "gone", RecordsCase PROVE WiresInv'
  <2>1. run.at \in AllCases /\ ~At("none") /\ Tells("done")
    BY <1>28 DEF RecordsCase, RecordInv, At
  <2>2. \A i \in DOMAIN events' : OfLastStart(events'[i])
    BY <2>1, Telling DEF CallsInv, WiresInv, OfLastStart, RecordsCase, window
  <2>3. gen \in Runs /\ call[gen] # "listening"
    BY <2>1 DEF CallsInv
  <2>q. QED
    BY <1>28, <2>2, <2>3 DEF RecordsCase, WiresInv, OfLastStart, window
<1>29. ASSUME app.step # "gone", BeginsWait PROVE WiresInv'
  <2>1. run.at \in AllCases /\ ~At("none") /\ Tells("waits")
    BY <1>29 DEF BeginsWait, RecordInv, At
  <2>2. \A i \in DOMAIN events' : OfLastStart(events'[i])
    BY <2>1, Telling DEF CallsInv, WiresInv, OfLastStart, BeginsWait, window
  <2>3. gen \in Runs /\ call[gen] # "listening"
    BY <2>1 DEF CallsInv
  <2>q. QED
    BY <1>29, <2>2, <2>3 DEF BeginsWait, WiresInv, OfLastStart, window
<1>30. ASSUME app.step # "gone", StopsBeforeWait PROVE WiresInv'
  <2>1. run.at \in AllCases /\ ~At("none") /\ TellsRest(<<>>)
    BY <1>30 DEF StopsBeforeWait, RecordInv, At
  <2>2. <<>> \in Seq(Event) /\ \A i \in DOMAIN <<>> : <<>>[i].run = gen
    BY <2>1, EmptySeq
  <2>3. gen \in Runs /\ call[gen] = "going" /\ run.id = gen
    BY <2>1 DEF CallsInv
  <2>4. \A i \in DOMAIN events' : events'[i].run = gen
    BY <2>1, <2>2, TellingRest DEF WiresInv, OfLastStart
  <2>5. /\ UNCHANGED <<win, gen, asks, replies>>
        /\ call' = [call EXCEPT ![run.id] = "ok"]
    BY <1>30 DEF StopsBeforeWait, LeavesRest, Returns
  <2>q. QED
    BY <2>3, <2>4, <2>5 DEF WiresInv, OfLastStart, TypeOK
<1>31. ASSUME app.step # "gone", WaitEnds PROVE WiresInv'
  BY <1>31, RunAssumption DEF WaitEnds, At, Goes, window, wires, WiresInv, OfLastStart,
    CallsInv, TypeOK, Window, Paused, Event, Ask, Reply, NoPause, NoRun, NoWindow, Runs
<1>32. ASSUME app.step # "gone", Resumes PROVE WiresInv'
  <2>1. run.at \in AllCases /\ ~At("none") /\ Tells("waited")
    BY <1>32 DEF Resumes, RecordInv, At
  <2>2. \A i \in DOMAIN events' : OfLastStart(events'[i])
    BY <2>1, Telling DEF CallsInv, WiresInv, OfLastStart, Resumes, window
  <2>3. gen \in Runs /\ call[gen] # "listening"
    BY <2>1 DEF CallsInv
  <2>q. QED
    BY <1>32, <2>2, <2>3 DEF Resumes, WiresInv, OfLastStart, window
<1>33. ASSUME app.step # "gone", WaitStops PROVE WiresInv'
  <2>1. run.at \in AllCases /\ ~At("none") /\ TellsRest(<<Told("waited", run.at)>>)
    BY <1>33 DEF WaitStops, RecordInv, At
  <2>2. <<Told("waited", run.at)>> \in Seq(Event) /\ \A i \in DOMAIN <<Told("waited", run.at)>> : <<Told("waited", run.at)>>[i].run = gen
    BY <2>1 DEF Told, Event, CallsInv
  <2>3. gen \in Runs /\ call[gen] = "going" /\ run.id = gen
    BY <2>1 DEF CallsInv
  <2>4. \A i \in DOMAIN events' : events'[i].run = gen
    BY <2>1, <2>2, TellingRest DEF WiresInv, OfLastStart
  <2>5. /\ UNCHANGED <<win, gen, asks, replies>>
        /\ call' = [call EXCEPT ![run.id] = "ok"]
    BY <1>33 DEF WaitStops, LeavesRest, Returns
  <2>q. QED
    BY <2>3, <2>4, <2>5 DEF WiresInv, OfLastStart, TypeOK
<1>34. ASSUME app.step # "gone", NetworkChanges PROVE WiresInv'
  BY <1>34, RunAssumption DEF NetworkChanges, window, backend, wires, WiresInv, OfLastStart,
    CallsInv, TypeOK, Window, Paused, Event, Ask, Reply, At, NoPause, NoRun, NoWindow, Runs
<1>35. ASSUME app.step # "gone", ExitStopsWait PROVE WiresInv'
  BY <1>35, RunAssumption DEF ExitStopsWait, NoWait, NoRun, window, wires, WiresInv,
    OfLastStart, CallsInv, TypeOK, Window, Paused, Event, Ask, Reply, At, NoPause, NoWindow,
    Runs
<1>36. ASSUME app.step # "gone", ExitEnds PROVE WiresInv'
  BY <1>36, RunAssumption DEF ExitEnds, At, window, backend, wires, WiresInv, OfLastStart,
    CallsInv, TypeOK, Window, Paused, Event, Ask, Reply, NoPause, NoRun, NoWindow, Runs
<1>37. CASE UNCHANGED vars
  BY <1>37 DEF vars, window, backend, wires, WiresInv, OfLastStart, CallsInv, TypeOK,
    Window, Paused, Event, Ask, Reply, At, NoPause, NoRun, NoWindow, Runs
<1>q. QED
  BY <1>1, <1>2, <1>3, <1>4, <1>5, <1>6, <1>7, <1>8, <1>9, <1>10, <1>11, <1>12, <1>13,
     <1>14, <1>15, <1>16, <1>17, <1>18, <1>19, <1>20, <1>21, <1>22, <1>23, <1>24, <1>25,
     <1>26, <1>27, <1>28, <1>29, <1>30, <1>31, <1>32, <1>33, <1>34, <1>35, <1>36, <1>37
     DEF Next, WindowHears, CommandsAreHandled, PersonActs, RunGoesOn, ExitGoesOn, AnswerKinds

\* The run and what it keeps stay well typed.
LEMMA BackendTypesStep ==
  ASSUME TypeOK, CallsInv, RecordInv, [Next]_vars
  PROVE  BackendTypes'
<1>1. ASSUME AppUp, HearsEvent PROVE BackendTypes'
  BY <1>1, RunAssumption, NoWindowTyped DEF HearsEvent, NoRun, NoPause, backend,
    BackendTypes, TypeOK
<1>2. ASSUME NEW g \in Runs, AppUp, HearsEnd(g) PROVE BackendTypes'
  BY <1>2, RunAssumption, NoWindowTyped DEF HearsEnd, NoWindow, NoRun, NoPause, backend,
    wires, BackendTypes, TypeOK
<1>3. ASSUME NEW r \in replies, AppUp, HearsReply(r) PROVE BackendTypes'
  BY <1>3, RunAssumption, NoWindowTyped DEF HearsReply, NoPause, NoRun, backend,
    BackendTypes, TypeOK
<1>4. ASSUME NEW a \in asks, AppUp, HandlesCancel(a) PROVE BackendTypes'
  BY <1>4, RunAssumption, NoWindowTyped DEF HandlesCancel, Handled, window, BackendTypes,
    TypeOK
<1>5. ASSUME NEW a \in asks, AppUp, HandlesAnswer(a) PROVE BackendTypes'
  <2>1. run \in Run /\ (run' = run \/ run' = [run EXCEPT !.answer = a.kind])
    BY <1>5 DEF HandlesAnswer, TypeOK
  <2>2. a.kind \in {"none", "continue", "stop"}
    BY <1>5 DEF HandlesAnswer
  <2>3. run' \in Run
    BY <2>1, <2>2, RunTyped, Zenon
  <2>q. QED
    BY <1>5, <2>3, NoWindowTyped DEF HandlesAnswer, Handled, window, TypeOK,
      BackendTypes
<1>6. ASSUME NEW a \in asks, AppUp, HandlesStopWait(a) PROVE BackendTypes'
  BY <1>6, RunAssumption, NoWindowTyped DEF HandlesStopWait, Handled, window, BackendTypes,
    TypeOK
<1>7. ASSUME AppUp, OpensSetup PROVE BackendTypes'
  BY <1>7, RunAssumption, NoWindowTyped DEF OpensSetup, NoWindow, NoRun, NoPause, backend,
    wires, BackendTypes, TypeOK
<1>8. ASSUME AppUp, Starts PROVE BackendTypes'
  BY <1>8, RunAssumption, NoWindowTyped DEF Starts, wires, NoWindow, NoRun, NoPause,
    backend, BackendTypes, TypeOK
<1>9. ASSUME AppUp, ClosesWindow PROVE BackendTypes'
  BY <1>9, RunAssumption, NoWindowTyped DEF ClosesWindow, NoWindow, NoRun, NoPause, backend,
    wires, BackendTypes, TypeOK
<1>10. ASSUME AppUp, OpensWindow PROVE BackendTypes'
  BY <1>10, RunAssumption, NoWindowTyped DEF OpensWindow, NoWindow, NoRun, NoPause, backend,
    wires, BackendTypes, TypeOK
<1>11. ASSUME AppUp, PressesStop PROVE BackendTypes'
  BY <1>11, RunAssumption, NoWindowTyped DEF PressesStop, Sends, NoPause, NoRun, backend,
    BackendTypes, TypeOK
<1>12. ASSUME AppUp, PressesStopWait PROVE BackendTypes'
  BY <1>12, RunAssumption, NoWindowTyped DEF PressesStopWait, NoPause, NoRun, Sends, window,
    backend, BackendTypes, TypeOK
<1>13. ASSUME NEW kind \in AnswerKinds, AppUp, Answers(kind) PROVE BackendTypes'
  BY <1>13, RunAssumption, NoWindowTyped DEF Answers, NoPause, NoRun, Sends, backend,
    BackendTypes, TypeOK
<1>14. ASSUME AppUp, ExitStopsPause PROVE BackendTypes'
  <2>1. run \in Run /\ (run' = run \/ run' = [run EXCEPT !.answer = "stop"])
    BY <1>14 DEF ExitStopsPause, TypeOK
  <2>2. run' \in Run
    BY <2>1, RunTyped
  <2>q. QED
    BY <1>14, <2>2, NoWindowTyped DEF ExitStopsPause, window, wires, TypeOK,
      BackendTypes
<1>15. ASSUME app.step # "gone", Claims PROVE BackendTypes'
  <2>1. PICK g \in Runs : run' = [NothingGoes EXCEPT !.id = g, !.step = "claimed"]
    BY <1>15 DEF Claims
  <2>2. "claimed" \in RunSteps
    BY DEF RunSteps
  <2>3. run' \in Run
    BY <2>1, <2>2, NoWindowTyped, RunTyped, Zenon
  <2>q. QED
    BY <1>15, <2>3, RunAssumption, EmptySeq DEF Claims, Runs, NothingGoes, wires,
      TypeOK, BackendTypes
<1>16. ASSUME app.step # "gone", RefusedAtStart PROVE BackendTypes'
  BY <1>16, RunAssumption, NoWindowTyped DEF RefusedAtStart, At, Returns, NothingGoes,
    NoRun, wires, BackendTypes, TypeOK
<1>17. ASSUME app.step # "gone", ClearsCancel PROVE BackendTypes'
  <2>1. run \in Run /\ "top" \in RunSteps /\ run' = [run EXCEPT !.step = "top"]
    BY <1>17 DEF ClearsCancel, Goes, TypeOK, RunSteps
  <2>2. run' \in Run
    BY <2>1, RunTyped, Zenon
  <2>q. QED
    BY <1>17, <2>1, <2>2 DEF ClearsCancel, At, Goes, window, wires, TypeOK,
      BackendTypes
<1>18. ASSUME app.step # "gone", Fails PROVE BackendTypes'
  BY <1>18, RunAssumption, NoWindowTyped DEF Fails, At, Returns, NothingGoes, NoRun, wires,
    BackendTypes, TypeOK
<1>19. ASSUME app.step # "gone", Ends PROVE BackendTypes'
  BY <1>19, RunAssumption, NoWindowTyped DEF Ends, At, Returns, NothingGoes, NoRun, wires,
    BackendTypes, TypeOK
<1>20. ASSUME app.step # "gone", BeginsPause PROVE BackendTypes'
  <2>1. run \in Run /\ run' = [run EXCEPT !.step = "paused", !.answer = "none"]
    BY <1>20 DEF BeginsPause, TypeOK
  <2>2. run' \in Run
    BY <2>1, RunTyped DEF RunSteps
  <2>3. run.id \in Runs \cup {NoRun} /\ run.at \in 0 .. CaseCount
    BY <1>20, RunAssumption DEF BeginsPause, TypeOK, Run, AllCases
  <2>q. QED
    BY <1>20, <2>2, <2>3 DEF BeginsPause, Paused, TypeOK, BackendTypes
<1>21. ASSUME app.step # "gone", NoPauseHere PROVE BackendTypes'
  <2>1. run \in Run /\ "look" \in RunSteps /\ run' = [run EXCEPT !.step = "look"]
    BY <1>21 DEF NoPauseHere, Goes, TypeOK, RunSteps
  <2>2. run' \in Run
    BY <2>1, RunTyped, Zenon
  <2>q. QED
    BY <1>21, <2>1, <2>2 DEF NoPauseHere, At, AllCases, Goes, window, wires,
      TypeOK, BackendTypes
<1>22. ASSUME app.step # "gone", PauseContinues PROVE BackendTypes'
  <2>1. run \in Run /\ "look" \in RunSteps /\ run' = [run EXCEPT !.step = "look"]
    BY <1>22 DEF PauseContinues, Goes, TypeOK, RunSteps
  <2>2. run' \in Run
    BY <2>1, RunTyped, Zenon
  <2>q. QED
    BY <1>22, <2>1, <2>2, NoWindowTyped, RunAssumption DEF PauseContinues, At,
      PauseEnds, Goes, window, wires, TypeOK, BackendTypes
<1>23. ASSUME app.step # "gone", PauseStops PROVE BackendTypes'
  <2>1. LeavesRest /\ run.step \in {"paused", "down", "stopped", "found"}
    BY <1>23 DEF PauseStops, At
  <2>2. /\ run' = NothingGoes /\ saved' = kept' /\ kept' \in Seq(AllCases)
        /\ Len(kept') = CaseCount
    BY <2>1, RestLeft
  <2>3. CaseCount <= CaseCount
    BY RunAssumption
  <2>q. QED
    BY <1>23, <2>2, <2>3, NoWindowTyped DEF PauseStops, PauseEnds, TypeOK, BackendTypes
<1>24. ASSUME app.step # "gone", LooksAtNetwork PROVE BackendTypes'
  <2>1. (IF cancel THEN run.armed ELSE Armed) \in BOOLEAN
    BY DEF TypeOK, Run, Armed
  <2>2. PICK b \in BOOLEAN : \/ run' = [run EXCEPT !.step = "down"]
                             \/ run' = [run EXCEPT !.step = "case", !.armed = b]
    BY <1>24, <2>1 DEF LooksAtNetwork
  <2>3. run \in Run /\ "down" \in RunSteps /\ "case" \in RunSteps
    BY DEF TypeOK, RunSteps
  <2>4. /\ [run EXCEPT !.step = "down"] \in Run
        /\ [run EXCEPT !.step = "case", !.armed = b] \in Run
    BY <2>3, RunTyped, Zenon
  <2>5. run' \in Run
    BY <2>2, <2>4
  <2>q. QED
    BY <1>24, <2>5 DEF LooksAtNetwork, At, window, wires, TypeOK, BackendTypes
<1>25. ASSUME app.step # "gone", OpensCase PROVE BackendTypes'
  <2>1. run \in Run /\ "running" \in RunSteps /\ run' = [run EXCEPT !.step = "running"]
    BY <1>25 DEF OpensCase, Goes, TypeOK, RunSteps
  <2>2. run' \in Run
    BY <2>1, RunTyped, Zenon
  <2>q. QED
    BY <1>25, <2>1, <2>2 DEF OpensCase, At, Goes, Tells, Told, window, TypeOK,
      BackendTypes
<1>26. ASSUME app.step # "gone", CaseEnds PROVE BackendTypes'
  <2>1. PICK s \in {"record", "failed"} : run' = [run EXCEPT !.step = s]
    BY <1>26 DEF CaseEnds, Goes
  <2>2. run \in Run /\ s \in RunSteps
    BY DEF TypeOK, RunSteps
  <2>3. run' \in Run
    BY <2>1, <2>2, RunTyped, Zenon
  <2>q. QED
    BY <1>26, <2>3 DEF CaseEnds, Goes, window, wires, TypeOK, BackendTypes
<1>27. ASSUME app.step # "gone", CaseFailed PROVE BackendTypes'
  <2>1. Armed \in BOOLEAN
    BY DEF TypeOK, Run, Armed
  <2>2. run \in Run /\ "down" \in RunSteps /\ "record" \in RunSteps
    BY DEF TypeOK, RunSteps
  <2>3. ASSUME Unreachable, run.reruns < MaxReruns PROVE run' \in Run
    <3>1. run.reruns + 1 \in 0 .. MaxReruns
      BY <2>2, <2>3, RunAssumption DEF Run
    <3>2. [run EXCEPT !.step = "down", !.reruns = run.reruns + 1] \in Run
      BY <2>2, <3>1, RunTyped, Zenon
    <3>q. QED
      BY <1>27, <2>3, <3>2 DEF CaseFailed
  <2>4. ASSUME ~(Unreachable /\ run.reruns < MaxReruns) PROVE run' \in Run
    <3>1. [run EXCEPT !.step = "record", !.armed = Armed] \in Run
      BY <2>1, <2>2, RunTyped, Zenon
    <3>q. QED
      BY <1>27, <2>4, <3>1 DEF CaseFailed
  <2>5. run' \in Run
    BY <2>3, <2>4
  <2>q. QED
    BY <1>27, <2>5 DEF CaseFailed, At, window, wires, TypeOK, BackendTypes
<1>28. ASSUME app.step # "gone", RecordsCase PROVE BackendTypes'
  <2>1. run \in Run /\ "top" \in RunSteps
    BY DEF TypeOK, RunSteps
  <2>2. run.at \in AllCases /\ Len(kept) = run.at - 1
    BY <1>28 DEF RecordsCase, RecordInv, At
  <2>3. /\ run.at + 1 \in 1 .. CaseCount + 1 /\ 0 \in 0 .. MaxReruns
        /\ run' = [run EXCEPT !.step = "top", !.at = run.at + 1, !.reruns = 0]
    BY <1>28, <2>2, RunAssumption DEF RecordsCase, AllCases
  <2>4. run' \in Run
    BY <2>1, <2>3, RunTyped, Zenon
  <2>5. kept \in Seq(AllCases) /\ kept' = Append(kept, run.at) /\ saved' = kept'
    BY <1>28 DEF RecordsCase, TypeOK
  <2>6. kept' \in Seq(AllCases) /\ Len(kept') = Len(kept) + 1
    BY <2>2, <2>5, AppendProperties
  <2>7. Len(kept') \in Nat /\ Len(kept') <= CaseCount
    BY <2>2, <2>6, RunAssumption DEF AllCases
  <2>q. QED
    BY <1>28, <2>4, <2>5, <2>6, <2>7 DEF RecordsCase, TypeOK, BackendTypes
<1>29. ASSUME app.step # "gone", BeginsWait PROVE BackendTypes'
  <2>1. run \in Run /\ "waiting" \in RunSteps /\ run' = [run EXCEPT !.step = "waiting"]
    BY <1>29 DEF BeginsWait, Goes, TypeOK, RunSteps
  <2>2. run' \in Run
    BY <2>1, RunTyped, Zenon
  <2>q. QED
    BY <1>29, <2>1, <2>2, NoWindowTyped, RunAssumption DEF BeginsWait, At, Goes,
      Tells, Told, window, TypeOK, BackendTypes, Run, NoWait, NoRun
<1>30. ASSUME app.step # "gone", StopsBeforeWait PROVE BackendTypes'
  <2>1. LeavesRest /\ run.step \in {"paused", "down", "stopped", "found"}
    BY <1>30 DEF StopsBeforeWait, At
  <2>2. /\ run' = NothingGoes /\ saved' = kept' /\ kept' \in Seq(AllCases)
        /\ Len(kept') = CaseCount
    BY <2>1, RestLeft
  <2>3. CaseCount <= CaseCount
    BY RunAssumption
  <2>q. QED
    BY <1>30, <2>2, <2>3, NoWindowTyped DEF StopsBeforeWait, At, TypeOK, BackendTypes
<1>31. ASSUME app.step # "gone", WaitEnds PROVE BackendTypes'
  <2>1. run \in Run /\ "found" \in RunSteps /\ "stopped" \in RunSteps
    BY DEF TypeOK, RunSteps
  <2>2. \/ run' = [run EXCEPT !.step = "found", !.armed = TRUE]
        \/ run' = [run EXCEPT !.step = "stopped"]
    BY <1>31 DEF WaitEnds, Goes
  <2>3. run' \in Run
    BY <2>1, <2>2, RunTyped, Zenon
  <2>q. QED
    BY <1>31, <2>3 DEF WaitEnds, At, Goes, window, wires, TypeOK, BackendTypes
<1>32. ASSUME app.step # "gone", Resumes PROVE BackendTypes'
  <2>1. run \in Run /\ "case" \in RunSteps /\ run' = [run EXCEPT !.step = "case"]
    BY <1>32 DEF Resumes, Goes, TypeOK, RunSteps
  <2>2. run' \in Run
    BY <2>1, RunTyped, Zenon
  <2>q. QED
    BY <1>32, <2>1, <2>2, NoWindowTyped, RunAssumption DEF Resumes, At,
      LetsWaitGo, Goes, Tells, Told, window, TypeOK, BackendTypes, Run, NoWait, NoRun
<1>33. ASSUME app.step # "gone", WaitStops PROVE BackendTypes'
  <2>1. LeavesRest /\ run.step \in {"paused", "down", "stopped", "found"}
    BY <1>33 DEF WaitStops, At
  <2>2. /\ run' = NothingGoes /\ saved' = kept' /\ kept' \in Seq(AllCases)
        /\ Len(kept') = CaseCount
    BY <2>1, RestLeft
  <2>3. CaseCount <= CaseCount
    BY RunAssumption
  <2>q. QED
    BY <1>33, <2>2, <2>3, NoWindowTyped DEF WaitStops, LetsWaitGo, NoWait, NoRun, TypeOK, BackendTypes
<1>34. ASSUME app.step # "gone", NetworkChanges PROVE BackendTypes'
  BY <1>34, RunAssumption, NoWindowTyped DEF NetworkChanges, window, backend, wires,
    BackendTypes, TypeOK
<1>35. ASSUME app.step # "gone", ExitStopsWait PROVE BackendTypes'
  BY <1>35, RunAssumption, NoWindowTyped DEF ExitStopsWait, NoWait, NoRun, window, wires,
    BackendTypes, TypeOK
<1>36. ASSUME app.step # "gone", ExitEnds PROVE BackendTypes'
  BY <1>36, RunAssumption, NoWindowTyped DEF ExitEnds, At, window, backend, wires,
    BackendTypes, TypeOK
<1>37. CASE UNCHANGED vars
  BY <1>37 DEF vars, window, backend, wires, BackendTypes, TypeOK
<1>q. QED
  BY <1>1, <1>2, <1>3, <1>4, <1>5, <1>6, <1>7, <1>8, <1>9, <1>10, <1>11, <1>12, <1>13,
     <1>14, <1>15, <1>16, <1>17, <1>18, <1>19, <1>20, <1>21, <1>22, <1>23, <1>24, <1>25,
     <1>26, <1>27, <1>28, <1>29, <1>30, <1>31, <1>32, <1>33, <1>34, <1>35, <1>36, <1>37
     DEF Next, WindowHears, CommandsAreHandled, PersonActs, RunGoesOn, ExitGoesOn, AnswerKinds

\* A pause is told of, shown and answered once.
LEMMA AnswersStep ==
  ASSUME TypeOK, CallsInv, WiresInv, PauseInv, RecordInv, AnswersInv, [Next]_vars
  PROVE  AnswersInv'
<1>1. ASSUME AppUp, HearsEvent PROVE AnswersInv'
  <2>1. events # <<>> /\ events' = Tail(events)
    BY <1>1 DEF HearsEvent
  <2>2. SUFFICES ASSUME AppUp', ~At("none")'
                 PROVE  AnswersInv'
    BY DEF AnswersInv
  <2>3. AppUp /\ ~At("none")
    BY <1>1, <2>2 DEF HearsEvent, backend, AppUp, At
  <2>4. /\ pending' = pending /\ asks' = asks
        /\ \A i \in DOMAIN events' :
             i \in Nat \ {0} /\ i + 1 \in DOMAIN events /\ events'[i] = events[i + 1]
        /\ Head(events) = events[1] /\ 1 \in DOMAIN events
    BY <1>1, <2>1, Hearing DEF HearsEvent, backend
  <2>5. CASE Head(events).kind = "reset"
    <3>1. /\ pending = [run |-> Head(events).run, before |-> Head(events).case]
          /\ \A j \in DOMAIN events : events[j].kind = "reset" => j = 1
          /\ \A a \in asks : a.kind \notin AnswerKinds
      BY <2>3, <2>4, <2>5 DEF AnswersInv
    <3>2. \A i \in DOMAIN events' : events'[i].kind # "reset"
      BY <2>4, <3>1
    <3>3. win'.panel # NoPause /\ ~win'.answering => pending = win'.panel
      BY <1>1, <2>3, <3>1, EventHeard DEF AnswersInv
    <3>q. QED
      BY <2>4, <3>1, <3>2, <3>3 DEF AnswersInv
  <2>6. CASE Head(events).kind # "reset"
    <3>1. win'.panel = NoPause \/ (win'.panel = win.panel /\ win'.answering = win.answering)
      BY <1>1, <2>6, EventHeard
    <3>2. \A i, j \in DOMAIN events' :
            events'[i].kind = "reset" /\ events'[j].kind = "reset" => i = j
      BY <2>3, <2>4 DEF AnswersInv
    <3>3. /\ \A i \in DOMAIN events' : events'[i].kind = "reset" =>
               /\ pending = [run |-> events'[i].run, before |-> events'[i].case]
               /\ win.panel = NoPause \/ win.answering
          /\ \A a \in asks : a.kind \in AnswerKinds =>
               \A i \in DOMAIN events' : events'[i].kind # "reset"
      BY <2>3, <2>4 DEF AnswersInv
    <3>4. /\ win.panel # NoPause /\ ~win.answering => pending = win.panel
          /\ \A a \in asks : a.kind \in AnswerKinds =>
               /\ a.pause = pending
               /\ \A b \in asks : b.kind \in AnswerKinds => a = b
               /\ win.panel = NoPause \/ win.answering
      BY <2>3 DEF AnswersInv
    <3>q. QED
      BY <2>4, <3>1, <3>2, <3>3, <3>4 DEF AnswersInv
  <2>q. QED
    BY <2>5, <2>6
<1>2. ASSUME NEW g \in Runs, AppUp, HearsEnd(g) PROVE AnswersInv'
  BY <1>2, RunAssumption DEF HearsEnd, NoWindow, NoRun, NoPause, backend, wires, AnswersInv,
    PauseInv, WiresInv, OfLastStart, CallsInv, TypeOK, Paused, Event, Ask, At, NothingGoes,
    Runs, AppUp, AnswerKinds
<1>3. ASSUME NEW r \in replies, AppUp, HearsReply(r) PROVE AnswersInv'
  BY <1>3, RunAssumption DEF HearsReply, NoPause, NoRun, backend, AnswersInv, PauseInv,
    WiresInv, OfLastStart, CallsInv, TypeOK, Paused, Event, Ask, At, NothingGoes, NoWindow,
    Runs, AppUp, AnswerKinds
<1>4. ASSUME NEW a \in asks, AppUp, HandlesCancel(a) PROVE AnswersInv'
  <2>1. /\ asks' = asks \ {a} /\ run' = run
        /\ UNCHANGED <<win, gen, call, pending, events, app>>
    BY <1>4 DEF HandlesCancel, Handled, window
  <2>q. QED
    BY <2>1 DEF AnswersInv, At, AppUp
<1>5. ASSUME NEW a \in asks, AppUp, HandlesAnswer(a) PROVE AnswersInv'
  <2>1. SUFFICES ASSUME AppUp', ~At("none")'
                 PROVE  AnswersInv'
    BY DEF AnswersInv
  <2>2. /\ UNCHANGED <<win, events, app>> /\ asks' = asks \ {a}
        /\ a.kind \in AnswerKinds /\ run' \in {run, [run EXCEPT !.answer = a.kind]}
        /\ pending' = IF pending # NoPause /\ pending.run = a.pause.run
                      THEN NoPause ELSE pending
    BY <1>5 DEF HandlesAnswer, Handled, window, AnswerKinds
  <2>3. run'.step = run.step
    BY <2>2 DEF TypeOK, Run
  <2>4. AppUp /\ ~At("none")
    BY <2>1, <2>2, <2>3 DEF AppUp, At
  <2>5. /\ a.pause = pending /\ (win.panel = NoPause \/ win.answering)
        /\ \A b \in asks : b.kind \in AnswerKinds => a = b
        /\ \A i \in DOMAIN events : events[i].kind # "reset"
    BY <2>2, <2>4 DEF AnswersInv
  <2>q. QED
    BY <2>2, <2>5 DEF AnswersInv
<1>6. ASSUME NEW a \in asks, AppUp, HandlesStopWait(a) PROVE AnswersInv'
  <2>1. /\ asks' = asks \ {a} /\ run' = run
        /\ UNCHANGED <<win, gen, call, pending, events, app>>
    BY <1>6 DEF HandlesStopWait, Handled, window
  <2>q. QED
    BY <2>1 DEF AnswersInv, At, AppUp
<1>7. ASSUME AppUp, OpensSetup PROVE AnswersInv'
  BY <1>7, RunAssumption DEF OpensSetup, NoWindow, NoRun, NoPause, backend, wires,
    AnswersInv, PauseInv, WiresInv, OfLastStart, CallsInv, TypeOK, Paused, Event, Ask, At,
    NothingGoes, Runs, AppUp, AnswerKinds
<1>8. ASSUME AppUp, Starts PROVE AnswersInv'
  BY <1>8, RunAssumption DEF Starts, wires, NoWindow, NoRun, NoPause, backend, AnswersInv,
    PauseInv, WiresInv, OfLastStart, CallsInv, TypeOK, Paused, Event, Ask, At, NothingGoes,
    Runs, AppUp, AnswerKinds
<1>9. ASSUME AppUp, ClosesWindow PROVE AnswersInv'
  <2>1. /\ UNCHANGED <<run, pending, events, asks, app>>
        /\ \/ win'.panel = NoPause
           \/ win'.panel = win.panel /\ win'.answering = win.answering
    BY <1>9 DEF ClosesWindow, backend, wires, NoWindow, TypeOK, Window
  <2>q. QED
    BY <2>1 DEF AnswersInv, At, AppUp
<1>10. ASSUME AppUp, OpensWindow PROVE AnswersInv'
  <2>1. /\ UNCHANGED <<run, pending, events, asks, app>>
        /\ \/ win'.panel = NoPause
           \/ win'.panel = win.panel /\ win'.answering = win.answering
    BY <1>10 DEF OpensWindow, backend, wires, NoWindow, TypeOK, Window
  <2>q. QED
    BY <2>1 DEF AnswersInv, At, AppUp
<1>11. ASSUME AppUp, PressesStop PROVE AnswersInv'
  BY <1>11, RunAssumption DEF PressesStop, Sends, NoPause, NoRun, backend, AnswersInv,
    PauseInv, WiresInv, OfLastStart, CallsInv, TypeOK, Paused, Event, Ask, At, NothingGoes,
    NoWindow, Runs, AppUp, AnswerKinds
<1>12. ASSUME AppUp, PressesStopWait PROVE AnswersInv'
  <2>1. /\ UNCHANGED <<win, run, pending, events, app>>
        /\ asks' = asks \cup {[kind |-> "stopWait", pause |-> win.wait]}
    BY <1>12 DEF PressesStopWait, Sends, window, backend
  <2>2. \A b \in asks' : b.kind \in AnswerKinds => b \in asks
    BY <2>1 DEF AnswerKinds
  <2>q. QED
    BY <2>1, <2>2 DEF AnswersInv, At, AppUp
<1>13. ASSUME NEW kind \in AnswerKinds, AppUp, Answers(kind) PROVE AnswersInv'
  <2>1. SUFFICES ASSUME AppUp', ~At("none")'
                 PROVE  AnswersInv'
    BY DEF AnswersInv
  <2>2. /\ UNCHANGED <<run, pending, events, app>>
        /\ asks' = asks \cup {[kind |-> kind, pause |-> win.panel]}
        /\ win.panel # NoPause /\ ~win.answering
    BY <1>13 DEF Answers, Sends, backend
  <2>3. AppUp /\ ~At("none")
    BY <2>1, <2>2 DEF AppUp, At
  <2>4. /\ pending = win.panel
        /\ \A i \in DOMAIN events : events[i].kind # "reset"
        /\ \A b \in asks : b.kind \notin AnswerKinds
    BY <2>2, <2>3 DEF AnswersInv
  <2>5. win'.answering
    BY <1>13 DEF Answers, TypeOK, Window
  <2>q. QED
    BY <2>2, <2>4, <2>5 DEF AnswersInv
<1>14. ASSUME AppUp, ExitStopsPause PROVE AnswersInv'
  BY <1>14, RunAssumption DEF ExitStopsPause, NoPause, NoRun, window, wires, AnswersInv,
    PauseInv, WiresInv, OfLastStart, CallsInv, TypeOK, Paused, Event, Ask, At, NothingGoes,
    NoWindow, Runs, AppUp, AnswerKinds
<1>15. ASSUME app.step # "gone", Claims PROVE AnswersInv'
  <2>1. gen \in Runs /\ call[gen] = "listening" /\ UNCHANGED <<win, events, asks>>
    BY <1>15 DEF Claims, CallsInv, wires
  <2>2. /\ events = <<>> /\ \A a \in asks : a.kind \notin AnswerKinds
        /\ win.panel = NoPause
    BY <2>1 DEF WiresInv, AnswerKinds
  <2>q. QED
    BY <2>1, <2>2 DEF AnswersInv
<1>16. ASSUME app.step # "gone", RefusedAtStart PROVE AnswersInv'
  BY <1>16, RunAssumption DEF RefusedAtStart, At, Returns, NothingGoes, NoRun, wires,
    AnswersInv, PauseInv, WiresInv, OfLastStart, CallsInv, TypeOK, Paused, Event, Ask,
    NoPause, NoWindow, Runs, AppUp, AnswerKinds
<1>17. ASSUME app.step # "gone", ClearsCancel PROVE AnswersInv'
  BY <1>17, RunAssumption DEF ClearsCancel, At, Goes, window, wires, AnswersInv, PauseInv,
    WiresInv, OfLastStart, CallsInv, TypeOK, Paused, Event, Ask, NoPause, NoRun,
    NothingGoes, NoWindow, Runs, AppUp, AnswerKinds
<1>18. ASSUME app.step # "gone", Fails PROVE AnswersInv'
  BY <1>18, RunAssumption DEF Fails, At, Returns, NothingGoes, NoRun, wires, AnswersInv,
    PauseInv, WiresInv, OfLastStart, CallsInv, TypeOK, Paused, Event, Ask, NoPause,
    NoWindow, Runs, AppUp, AnswerKinds
<1>19. ASSUME app.step # "gone", Ends PROVE AnswersInv'
  BY <1>19, RunAssumption DEF Ends, At, Returns, NothingGoes, NoRun, wires, AnswersInv,
    PauseInv, WiresInv, OfLastStart, CallsInv, TypeOK, Paused, Event, Ask, NoPause,
    NoWindow, Runs, AppUp, AnswerKinds
<1>20. ASSUME app.step # "gone", BeginsPause PROVE AnswersInv'
  <2>1. SUFFICES ASSUME AppUp', ~At("none")'
                 PROVE  AnswersInv'
    BY DEF AnswersInv
  <2>2. /\ run.at \in AllCases /\ At("top") /\ Tells("reset")
        /\ UNCHANGED <<win, asks, app>>
        /\ pending' = [run |-> run.id, before |-> run.at]
    BY <1>20, RunAssumption DEF BeginsPause, window
  <2>3. AppUp /\ ~At("none")
    BY <2>1, <2>2 DEF AppUp, At
  <2>4. gen \in Runs /\ pending = NoPause /\ NoPause.run = NoRun /\ NoRun \notin Runs
    BY <2>2, <2>3 DEF CallsInv, PauseInv, NoPause, NoRun, Runs, At
  <2>5. /\ \A i \in DOMAIN events : events[i].kind # "reset"
        /\ \A a \in asks : a.kind \notin AnswerKinds
        /\ win.panel = NoPause \/ win.answering
    BY <2>3, <2>4 DEF AnswersInv, WiresInv, OfLastStart, AnswerKinds
  <2>6. \A i \in DOMAIN events' : events'[i].kind = "reset" =>
          i = Len(events) + 1 /\ events'[i] = Told("reset", run.at)
    BY <2>2, <2>3, <2>5, Telling
  <2>7. Told("reset", run.at).run = run.id /\ Told("reset", run.at).case = run.at
    BY DEF Told
  <2>q. QED
    BY <2>2, <2>5, <2>6, <2>7 DEF AnswersInv
<1>21. ASSUME app.step # "gone", NoPauseHere PROVE AnswersInv'
  BY <1>21, RunAssumption DEF NoPauseHere, At, AllCases, Goes, window, wires, AnswersInv,
    PauseInv, WiresInv, OfLastStart, CallsInv, TypeOK, Paused, Event, Ask, NoPause, NoRun,
    NothingGoes, NoWindow, Runs, AppUp, AnswerKinds
<1>22. ASSUME app.step # "gone", PauseContinues PROVE AnswersInv'
  <2>1. pending = NoPause
    BY <1>22 DEF PauseContinues, PauseInv
  <2>2. /\ UNCHANGED <<win, events, asks, app>> /\ pending' = pending
    BY <1>22, <2>1 DEF PauseContinues, PauseEnds, window, wires
  <2>3. ~At("none")
    BY <1>22 DEF PauseContinues, At
  <2>q. QED
    BY <2>2, <2>3 DEF AnswersInv, AppUp
<1>23. ASSUME app.step # "gone", PauseStops PROVE AnswersInv'
  BY <1>23, RunAssumption DEF PauseStops, At, PauseEnds, NoPause, NoRun, LeavesRest, Rest,
    Returns, NothingGoes, TellsRest, Told, AnswersInv, PauseInv, WiresInv, OfLastStart,
    CallsInv, TypeOK, Paused, Event, Ask, NoWindow, Runs, AppUp, AnswerKinds
<1>24. ASSUME app.step # "gone", LooksAtNetwork PROVE AnswersInv'
  BY <1>24, RunAssumption DEF LooksAtNetwork, At, Unreachable, Armed, window, wires,
    AnswersInv, PauseInv, WiresInv, OfLastStart, CallsInv, TypeOK, Paused, Event, Ask,
    NoPause, NoRun, NothingGoes, NoWindow, Runs, AppUp, AnswerKinds
<1>25. ASSUME app.step # "gone", OpensCase PROVE AnswersInv'
  <2>1. run.at \in AllCases /\ ~At("none") /\ Tells("opening")
    BY <1>25 DEF OpensCase, RecordInv, At
  <2>2. UNCHANGED <<win, asks, pending, app>>
    BY <1>25 DEF OpensCase, window
  <2>3. \A i \in DOMAIN events' : events'[i].kind = "reset" =>
          i \in DOMAIN events /\ events'[i] = events[i]
    BY <2>1, Telling
  <2>q. QED
    BY <2>1, <2>2, <2>3 DEF AnswersInv, AppUp
<1>26. ASSUME app.step # "gone", CaseEnds PROVE AnswersInv'
  BY <1>26, RunAssumption DEF CaseEnds, Goes, window, wires, AnswersInv, PauseInv, WiresInv,
    OfLastStart, CallsInv, TypeOK, Paused, Event, Ask, At, NoPause, NoRun, NothingGoes,
    NoWindow, Runs, AppUp, AnswerKinds
<1>27. ASSUME app.step # "gone", CaseFailed PROVE AnswersInv'
  BY <1>27, RunAssumption DEF CaseFailed, At, Unreachable, Armed, window, wires, AnswersInv,
    PauseInv, WiresInv, OfLastStart, CallsInv, TypeOK, Paused, Event, Ask, NoPause, NoRun,
    NothingGoes, NoWindow, Runs, AppUp, AnswerKinds
<1>28. ASSUME app.step # "gone", RecordsCase PROVE AnswersInv'
  <2>1. run.at \in AllCases /\ ~At("none") /\ Tells("done")
    BY <1>28 DEF RecordsCase, RecordInv, At
  <2>2. UNCHANGED <<win, asks, pending, app>>
    BY <1>28 DEF RecordsCase, window
  <2>3. \A i \in DOMAIN events' : events'[i].kind = "reset" =>
          i \in DOMAIN events /\ events'[i] = events[i]
    BY <2>1, Telling
  <2>q. QED
    BY <2>1, <2>2, <2>3 DEF AnswersInv, AppUp
<1>29. ASSUME app.step # "gone", BeginsWait PROVE AnswersInv'
  <2>1. run.at \in AllCases /\ ~At("none") /\ Tells("waits")
    BY <1>29 DEF BeginsWait, RecordInv, At
  <2>2. UNCHANGED <<win, asks, pending, app>>
    BY <1>29 DEF BeginsWait, window
  <2>3. \A i \in DOMAIN events' : events'[i].kind = "reset" =>
          i \in DOMAIN events /\ events'[i] = events[i]
    BY <2>1, Telling
  <2>q. QED
    BY <2>1, <2>2, <2>3 DEF AnswersInv, AppUp
<1>30. ASSUME app.step # "gone", StopsBeforeWait PROVE AnswersInv'
  BY <1>30, RunAssumption DEF StopsBeforeWait, At, LeavesRest, Rest, Returns, NothingGoes,
    NoRun, TellsRest, Told, AnswersInv, PauseInv, WiresInv, OfLastStart, CallsInv, TypeOK,
    Paused, Event, Ask, NoPause, NoWindow, Runs, AppUp, AnswerKinds
<1>31. ASSUME app.step # "gone", WaitEnds PROVE AnswersInv'
  BY <1>31, RunAssumption DEF WaitEnds, At, Goes, window, wires, AnswersInv, PauseInv,
    WiresInv, OfLastStart, CallsInv, TypeOK, Paused, Event, Ask, NoPause, NoRun,
    NothingGoes, NoWindow, Runs, AppUp, AnswerKinds
<1>32. ASSUME app.step # "gone", Resumes PROVE AnswersInv'
  <2>1. run.at \in AllCases /\ ~At("none") /\ Tells("waited")
    BY <1>32 DEF Resumes, RecordInv, At
  <2>2. UNCHANGED <<win, asks, pending, app>>
    BY <1>32 DEF Resumes, window
  <2>3. \A i \in DOMAIN events' : events'[i].kind = "reset" =>
          i \in DOMAIN events /\ events'[i] = events[i]
    BY <2>1, Telling
  <2>q. QED
    BY <2>1, <2>2, <2>3 DEF AnswersInv, AppUp
<1>33. ASSUME app.step # "gone", WaitStops PROVE AnswersInv'
  BY <1>33, RunAssumption DEF WaitStops, At, LetsWaitGo, NoWait, NoRun, LeavesRest, Rest,
    Returns, NothingGoes, TellsRest, Told, AnswersInv, PauseInv, WiresInv, OfLastStart,
    CallsInv, TypeOK, Paused, Event, Ask, NoPause, NoWindow, Runs, AppUp, AnswerKinds
<1>34. ASSUME app.step # "gone", NetworkChanges PROVE AnswersInv'
  BY <1>34, RunAssumption DEF NetworkChanges, window, backend, wires, AnswersInv, PauseInv,
    WiresInv, OfLastStart, CallsInv, TypeOK, Paused, Event, Ask, At, NoPause, NoRun,
    NothingGoes, NoWindow, Runs, AppUp, AnswerKinds
<1>35. ASSUME app.step # "gone", ExitStopsWait PROVE AnswersInv'
  BY <1>35, RunAssumption DEF ExitStopsWait, NoWait, NoRun, window, wires, AnswersInv,
    PauseInv, WiresInv, OfLastStart, CallsInv, TypeOK, Paused, Event, Ask, At, NoPause,
    NothingGoes, NoWindow, Runs, AppUp, AnswerKinds
<1>36. ASSUME app.step # "gone", ExitEnds PROVE AnswersInv'
  BY <1>36, RunAssumption DEF ExitEnds, At, window, backend, wires, AnswersInv, PauseInv,
    WiresInv, OfLastStart, CallsInv, TypeOK, Paused, Event, Ask, NoPause, NoRun,
    NothingGoes, NoWindow, Runs, AppUp, AnswerKinds
<1>37. CASE UNCHANGED vars
  BY <1>37 DEF vars, window, backend, wires, AnswersInv, PauseInv, WiresInv, OfLastStart,
    CallsInv, TypeOK, Paused, Event, Ask, At, NoPause, NoRun, NothingGoes, NoWindow, Runs,
    AppUp, AnswerKinds
<1>q. QED
  BY <1>1, <1>2, <1>3, <1>4, <1>5, <1>6, <1>7, <1>8, <1>9, <1>10, <1>11, <1>12, <1>13,
     <1>14, <1>15, <1>16, <1>17, <1>18, <1>19, <1>20, <1>21, <1>22, <1>23, <1>24, <1>25,
     <1>26, <1>27, <1>28, <1>29, <1>30, <1>31, <1>32, <1>33, <1>34, <1>35, <1>36, <1>37
     DEF Next, WindowHears, CommandsAreHandled, PersonActs, RunGoesOn, ExitGoesOn, AnswerKinds

\* A disabled panel waits for its answer.
LEMMA PanelStep ==
  ASSUME TypeOK, CallsInv, WiresInv, PanelInv, [Next]_vars
  PROVE  PanelInv'
<1>1. ASSUME AppUp, HearsEvent PROVE PanelInv'
  <2>1. /\ UNCHANGED <<asks, replies>>
        /\ \/ win'.panel = NoPause \/ ~win'.answering
           \/ win'.panel = win.panel /\ win'.answering = win.answering
    BY <1>1, EventHeard DEF HearsEvent
  <2>q. QED
    BY <2>1 DEF PanelInv
<1>2. ASSUME NEW g \in Runs, AppUp, HearsEnd(g) PROVE PanelInv'
  BY <1>2, RunAssumption DEF HearsEnd, NoWindow, NoRun, NoPause, backend, wires, PanelInv,
    WiresInv, OfLastStart, TypeOK, Event, Paused, Ask, AnswerKinds
<1>3. ASSUME NEW r \in replies, AppUp, HearsReply(r) PROVE PanelInv'
  <2>1. SUFFICES ASSUME win'.panel # NoPause, win'.answering
                 PROVE  PanelInv'
    BY DEF PanelInv
  <2>2. r.ask.kind \notin AnswerKinds /\ win'.panel = win.panel /\ win'.answering = win.answering
    <3>1. win.panel = NoPause \/ win.panel.run = r.ask.pause.run
      BY DEF WiresInv, OfLastStart
    <3>2. r.ask.kind \in {"continue", "stop", "stopWait"}
      BY DEF WiresInv, TypeOK, Reply, Ask
    <3>3. win.phase = "none" => win.panel = NoPause
      BY DEF CallsInv
    <3>q. QED
      BY <1>3, <2>1, <3>1, <3>2, <3>3 DEF HearsReply, TypeOK, Window, AnswerKinds
  <2>3. asks' = asks /\ replies' = replies \ {r}
    BY <1>3 DEF HearsReply
  <2>q. QED
    BY <2>1, <2>2, <2>3 DEF PanelInv
<1>4. ASSUME NEW a \in asks, AppUp, HandlesCancel(a) PROVE PanelInv'
  BY <1>4, RunAssumption DEF HandlesCancel, Handled, window, PanelInv, WiresInv,
    OfLastStart, TypeOK, Event, Paused, Ask, NoPause, NoWindow, NoRun, AnswerKinds
<1>5. ASSUME NEW a \in asks, AppUp, HandlesAnswer(a) PROVE PanelInv'
  <2>1. PICK ok \in BOOLEAN :
          asks' = asks \ {a} /\ replies' = replies \cup {[ask |-> a, ok |-> ok]}
    BY <1>5, Zenon DEF HandlesAnswer, Handled
  <2>2. win' = win
    BY <1>5 DEF HandlesAnswer, window
  <2>3. [ask |-> a, ok |-> ok].ask = a /\ [ask |-> a, ok |-> ok] \in replies'
    BY <2>1
  <2>q. QED
    BY <2>1, <2>2, <2>3 DEF PanelInv
<1>6. ASSUME NEW a \in asks, AppUp, HandlesStopWait(a) PROVE PanelInv'
  BY <1>6, RunAssumption DEF HandlesStopWait, Handled, window, PanelInv, WiresInv,
    OfLastStart, TypeOK, Event, Paused, Ask, NoPause, NoWindow, NoRun, AnswerKinds
<1>7. ASSUME AppUp, OpensSetup PROVE PanelInv'
  BY <1>7, RunAssumption DEF OpensSetup, NoWindow, NoRun, NoPause, backend, wires, PanelInv,
    WiresInv, OfLastStart, TypeOK, Event, Paused, Ask, AnswerKinds
<1>8. ASSUME AppUp, Starts PROVE PanelInv'
  BY <1>8, RunAssumption DEF Starts, wires, NoWindow, NoRun, NoPause, backend, PanelInv,
    WiresInv, OfLastStart, TypeOK, Event, Paused, Ask, AnswerKinds
<1>9. ASSUME AppUp, ClosesWindow PROVE PanelInv'
  BY <1>9, RunAssumption DEF ClosesWindow, NoWindow, NoRun, NoPause, backend, wires,
    PanelInv, WiresInv, OfLastStart, TypeOK, Event, Paused, Ask, AnswerKinds
<1>10. ASSUME AppUp, OpensWindow PROVE PanelInv'
  BY <1>10, RunAssumption DEF OpensWindow, NoWindow, NoRun, NoPause, backend, wires,
    PanelInv, WiresInv, OfLastStart, TypeOK, Event, Paused, Ask, AnswerKinds
<1>11. ASSUME AppUp, PressesStop PROVE PanelInv'
  BY <1>11, RunAssumption DEF PressesStop, Sends, NoPause, NoRun, backend, PanelInv,
    WiresInv, OfLastStart, TypeOK, Event, Paused, Ask, NoWindow, AnswerKinds
<1>12. ASSUME AppUp, PressesStopWait PROVE PanelInv'
  BY <1>12, RunAssumption DEF PressesStopWait, NoPause, NoRun, Sends, window, backend,
    PanelInv, WiresInv, OfLastStart, TypeOK, Event, Paused, Ask, NoWindow, AnswerKinds
<1>13. ASSUME NEW kind \in AnswerKinds, AppUp, Answers(kind) PROVE PanelInv'
  <2>1. /\ [kind |-> kind, pause |-> win.panel] \in asks'
        /\ win'.panel = win.panel
    BY <1>13 DEF Answers, Sends, TypeOK, Window
  <2>q. QED
    BY <2>1 DEF PanelInv
<1>14. ASSUME AppUp, ExitStopsPause PROVE PanelInv'
  BY <1>14, RunAssumption DEF ExitStopsPause, NoPause, NoRun, window, wires, PanelInv,
    WiresInv, OfLastStart, TypeOK, Event, Paused, Ask, NoWindow, AnswerKinds
<1>15. ASSUME app.step # "gone", Claims PROVE PanelInv'
  BY <1>15, RunAssumption DEF Claims, Runs, NothingGoes, NoRun, wires, PanelInv, WiresInv,
    OfLastStart, TypeOK, Event, Paused, Ask, NoPause, NoWindow, AnswerKinds
<1>16. ASSUME app.step # "gone", RefusedAtStart PROVE PanelInv'
  BY <1>16, RunAssumption DEF RefusedAtStart, At, Returns, NothingGoes, NoRun, wires,
    PanelInv, WiresInv, OfLastStart, TypeOK, Event, Paused, Ask, NoPause, NoWindow,
    AnswerKinds
<1>17. ASSUME app.step # "gone", ClearsCancel PROVE PanelInv'
  BY <1>17, RunAssumption DEF ClearsCancel, At, Goes, window, wires, PanelInv, WiresInv,
    OfLastStart, TypeOK, Event, Paused, Ask, NoPause, NoWindow, NoRun, AnswerKinds
<1>18. ASSUME app.step # "gone", Fails PROVE PanelInv'
  BY <1>18, RunAssumption DEF Fails, At, Returns, NothingGoes, NoRun, wires, PanelInv,
    WiresInv, OfLastStart, TypeOK, Event, Paused, Ask, NoPause, NoWindow, AnswerKinds
<1>19. ASSUME app.step # "gone", Ends PROVE PanelInv'
  BY <1>19, RunAssumption DEF Ends, At, Returns, NothingGoes, NoRun, wires, PanelInv,
    WiresInv, OfLastStart, TypeOK, Event, Paused, Ask, NoPause, NoWindow, AnswerKinds
<1>20. ASSUME app.step # "gone", BeginsPause PROVE PanelInv'
  BY <1>20, RunAssumption DEF BeginsPause, At, Tells, Told, window, PanelInv, WiresInv,
    OfLastStart, TypeOK, Event, Paused, Ask, NoPause, NoWindow, NoRun, AnswerKinds
<1>21. ASSUME app.step # "gone", NoPauseHere PROVE PanelInv'
  BY <1>21, RunAssumption DEF NoPauseHere, At, AllCases, Goes, window, wires, PanelInv,
    WiresInv, OfLastStart, TypeOK, Event, Paused, Ask, NoPause, NoWindow, NoRun, AnswerKinds
<1>22. ASSUME app.step # "gone", PauseContinues PROVE PanelInv'
  BY <1>22, RunAssumption DEF PauseContinues, At, PauseEnds, NoPause, NoRun, Goes, window,
    wires, PanelInv, WiresInv, OfLastStart, TypeOK, Event, Paused, Ask, NoWindow,
    AnswerKinds
<1>23. ASSUME app.step # "gone", PauseStops PROVE PanelInv'
  BY <1>23, RunAssumption DEF PauseStops, At, PauseEnds, NoPause, NoRun, LeavesRest, Rest,
    Returns, NothingGoes, TellsRest, Told, PanelInv, WiresInv, OfLastStart, TypeOK, Event,
    Paused, Ask, NoWindow, AnswerKinds
<1>24. ASSUME app.step # "gone", LooksAtNetwork PROVE PanelInv'
  BY <1>24, RunAssumption DEF LooksAtNetwork, At, Unreachable, Armed, window, wires,
    PanelInv, WiresInv, OfLastStart, TypeOK, Event, Paused, Ask, NoPause, NoWindow, NoRun,
    AnswerKinds
<1>25. ASSUME app.step # "gone", OpensCase PROVE PanelInv'
  BY <1>25, RunAssumption DEF OpensCase, At, Goes, Tells, Told, window, PanelInv, WiresInv,
    OfLastStart, TypeOK, Event, Paused, Ask, NoPause, NoWindow, NoRun, AnswerKinds
<1>26. ASSUME app.step # "gone", CaseEnds PROVE PanelInv'
  BY <1>26, RunAssumption DEF CaseEnds, Goes, window, wires, PanelInv, WiresInv,
    OfLastStart, TypeOK, Event, Paused, Ask, NoPause, NoWindow, NoRun, AnswerKinds
<1>27. ASSUME app.step # "gone", CaseFailed PROVE PanelInv'
  BY <1>27, RunAssumption DEF CaseFailed, At, Unreachable, Armed, window, wires, PanelInv,
    WiresInv, OfLastStart, TypeOK, Event, Paused, Ask, NoPause, NoWindow, NoRun, AnswerKinds
<1>28. ASSUME app.step # "gone", RecordsCase PROVE PanelInv'
  BY <1>28, RunAssumption DEF RecordsCase, At, Tells, Told, window, PanelInv, WiresInv,
    OfLastStart, TypeOK, Event, Paused, Ask, NoPause, NoWindow, NoRun, AnswerKinds
<1>29. ASSUME app.step # "gone", BeginsWait PROVE PanelInv'
  BY <1>29, RunAssumption DEF BeginsWait, At, Goes, Tells, Told, window, PanelInv, WiresInv,
    OfLastStart, TypeOK, Event, Paused, Ask, NoPause, NoWindow, NoRun, AnswerKinds
<1>30. ASSUME app.step # "gone", StopsBeforeWait PROVE PanelInv'
  BY <1>30, RunAssumption DEF StopsBeforeWait, At, LeavesRest, Rest, Returns, NothingGoes,
    NoRun, TellsRest, Told, PanelInv, WiresInv, OfLastStart, TypeOK, Event, Paused, Ask,
    NoPause, NoWindow, AnswerKinds
<1>31. ASSUME app.step # "gone", WaitEnds PROVE PanelInv'
  BY <1>31, RunAssumption DEF WaitEnds, At, Goes, window, wires, PanelInv, WiresInv,
    OfLastStart, TypeOK, Event, Paused, Ask, NoPause, NoWindow, NoRun, AnswerKinds
<1>32. ASSUME app.step # "gone", Resumes PROVE PanelInv'
  BY <1>32, RunAssumption DEF Resumes, At, LetsWaitGo, NoWait, NoRun, Goes, Tells, Told,
    window, PanelInv, WiresInv, OfLastStart, TypeOK, Event, Paused, Ask, NoPause, NoWindow,
    AnswerKinds
<1>33. ASSUME app.step # "gone", WaitStops PROVE PanelInv'
  BY <1>33, RunAssumption DEF WaitStops, At, LetsWaitGo, NoWait, NoRun, LeavesRest, Rest,
    Returns, NothingGoes, TellsRest, Told, PanelInv, WiresInv, OfLastStart, TypeOK, Event,
    Paused, Ask, NoPause, NoWindow, AnswerKinds
<1>34. ASSUME app.step # "gone", NetworkChanges PROVE PanelInv'
  BY <1>34, RunAssumption DEF NetworkChanges, window, backend, wires, PanelInv, WiresInv,
    OfLastStart, TypeOK, Event, Paused, Ask, NoPause, NoWindow, NoRun, AnswerKinds
<1>35. ASSUME app.step # "gone", ExitStopsWait PROVE PanelInv'
  BY <1>35, RunAssumption DEF ExitStopsWait, NoWait, NoRun, window, wires, PanelInv,
    WiresInv, OfLastStart, TypeOK, Event, Paused, Ask, NoPause, NoWindow, AnswerKinds
<1>36. ASSUME app.step # "gone", ExitEnds PROVE PanelInv'
  BY <1>36, RunAssumption DEF ExitEnds, At, window, backend, wires, PanelInv, WiresInv,
    OfLastStart, TypeOK, Event, Paused, Ask, NoPause, NoWindow, NoRun, AnswerKinds
<1>37. CASE UNCHANGED vars
  BY <1>37 DEF vars, window, backend, wires, PanelInv, WiresInv, OfLastStart, TypeOK, Event,
    Paused, Ask, NoPause, NoWindow, NoRun, AnswerKinds
<1>q. QED
  BY <1>1, <1>2, <1>3, <1>4, <1>5, <1>6, <1>7, <1>8, <1>9, <1>10, <1>11, <1>12, <1>13,
     <1>14, <1>15, <1>16, <1>17, <1>18, <1>19, <1>20, <1>21, <1>22, <1>23, <1>24, <1>25,
     <1>26, <1>27, <1>28, <1>29, <1>30, <1>31, <1>32, <1>33, <1>34, <1>35, <1>36, <1>37
     DEF Next, WindowHears, CommandsAreHandled, PersonActs, RunGoesOn, ExitGoesOn, AnswerKinds

-----------------------------------------------------------------------------
LEMMA InitTyped ==
  ASSUME Init
  PROVE  TypeOK
<1>1. /\ <<>> \in Seq(AllCases) /\ <<>> \in Seq(Event) /\ Len(<<>>) = 0
      /\ 0 \in Nat /\ 0 <= CaseCount
  BY RunAssumption, EmptySeq
<1>2. WindowTypes
  BY NoWindowTyped, RunAssumption DEF Init, WindowTypes
<1>3. WireTypes
  BY <1>1 DEF Init, WireTypes
<1>4. run \in Run /\ cancel \in BOOLEAN /\ pending \in Paused
  BY NoWindowTyped DEF Init
<1>5. waits \in [run : Runs \cup {NoRun}, stop : BOOLEAN]
  BY DEF Init, NoWait
<1>6. network \in [up : BOOLEAN, drops : 0 .. MaxDrops]
  BY RunAssumption DEF Init
<1>7. /\ kept \in Seq(AllCases) /\ Len(kept) <= CaseCount
      /\ saved \in Seq(AllCases) /\ Len(saved) <= Len(kept)
  BY <1>1 DEF Init
<1>8. app \in [step : {"up", "asked", "waiting", "gone"}, found : BOOLEAN, late : BOOLEAN]
  BY DEF Init
<1>q. QED
  BY <1>2, <1>3, <1>4, <1>5, <1>6, <1>7, <1>8 DEF WindowTypes, WireTypes, TypeOK

LEMMA InitHolds ==
  ASSUME Init
  PROVE  IInv
<1>1. CallsInv
  BY RunAssumption DEF Init, CallsInv, NoWindow, NothingGoes, At, Runs
<1>2. PauseInv /\ ExitInv /\ AnswersInv /\ PanelInv
  BY DEF Init, PauseInv, ExitInv, AnswersInv, PanelInv, NoWindow, NothingGoes, At
<1>3. RecordInv
  BY DEF Init, RecordInv, NothingGoes, At
<1>4. WiresInv
  BY RunAssumption DEF Init, WiresInv, NoWindow, Runs
<1>q. QED
  BY <1>1, <1>2, <1>3, <1>4, InitTyped DEF IInv

\* The inductive invariant.
LEMMA Invariant == Spec => []IInv
<1>1. Init => IInv
  BY InitHolds
<1>2. ASSUME IInv, [Next]_vars
      PROVE  IInv'
  <2>1. TypeOK'
    <3>1. WindowTypes' /\ WireTypes' /\ BackendTypes'
      BY <1>2, WindowTypesStep, WireTypesStep, BackendTypesStep DEF IInv
    <3>q. QED
      BY <3>1 DEF TypeOK, WindowTypes, WireTypes, BackendTypes
  <2>2. CallsInv' /\ WiresInv' /\ PauseInv' /\ RecordInv'
    BY <1>2, CallsStep, WiresStep, PauseStep, RecordStep DEF IInv
  <2>3. ExitInv' /\ AnswersInv' /\ PanelInv'
    BY <1>2, ExitStep, AnswersStep, PanelStep DEF IInv
  <2>q. QED
    BY <2>1, <2>2, <2>3 DEF IInv
<1>q. QED
  BY <1>1, <1>2, PTL DEF Spec

\* The window's store, the run with its record, and all that travels between
\* them stay well typed, for any number of starts and cases.
THEOREM TypeCorrect == Spec => []TypeOK
<1>1. IInv => TypeOK
  BY DEF IInv
<1>q. QED
  BY Invariant, <1>1, PTL

\* The cases are recorded in order, each once; a run that has ended has saved
\* what it recorded, and one the exit found waiting has saved all of its cases.
THEOREM EachCaseRecordedHolds == Spec => []EachCaseRecorded
<1>1. IInv => EachCaseRecorded
  BY DEF IInv, RecordInv, ExitInv, EachCaseRecorded
<1>q. QED
  BY Invariant, <1>1, PTL

\* A panel of a pause that is over is about to be taken off: it is disabled and
\* its answer is on its way, or the run has ended and the window will hear of it.
THEOREM PanelIsTakenOffHolds == Spec => []PanelIsTakenOff
<1>1. ASSUME IInv, AppUp, win.panel # NoPause, win.panel # pending
      PROVE  \/ \E a \in asks : a.pause = win.panel
             \/ \E r \in replies : r.ask.pause = win.panel
             \/ call[win.panel.run] \in {"ok", "error"}
  <2>1. /\ win.panel.run = gen /\ gen \in Runs
        /\ call[gen] \in {"going", "ok", "error"}
    BY <1>1 DEF IInv, TypeOK, CallsInv, WiresInv, OfLastStart
  <2>2. CASE call[gen] = "going"
    <3>1. win.answering
      BY <1>1, <2>1, <2>2 DEF IInv, CallsInv, AnswersInv
    <3>q. QED
      BY <1>1, <3>1 DEF IInv, PanelInv
  <2>q. QED
    BY <2>1, <2>2
<1>2. IInv => PanelIsTakenOff
  BY <1>1 DEF PanelIsTakenOff
<1>q. QED
  BY Invariant, <1>2, PTL

\* The command that answers a pause moves nothing but the pause it answers.
LEMMA AnswerStep ==
  ASSUME TypeOK, PauseInv, WiresInv, AnswersInv, AppUp, NEW a \in asks, HandlesAnswer(a),
         pending' # pending
  PROVE  asks \ asks' \subseteq {a} /\ a.pause = pending
<1>1. /\ asks' = asks \ {a} /\ a.kind \in AnswerKinds /\ pending # NoPause
  BY DEF HandlesAnswer, Handled, AnswerKinds
<1>2. ~At("none")
  BY <1>1 DEF PauseInv, At
<1>q. QED
  BY <1>1, <1>2 DEF AnswersInv

\* An answer given at one pause never ends the wait of another.
THEOREM AnswerMeetsItsPauseHolds == Spec => AnswerMeetsItsPause
<1>1. ASSUME IInv, [Next]_vars, NEW b \in asks \ asks', pending' # pending
      PROVE  pending = b.pause
  <2>1. ASSUME AppUp, HearsEvent PROVE pending = b.pause
    BY <1>1, <2>1 DEF HearsEvent, backend
  <2>2. ASSUME NEW g \in Runs, AppUp, HearsEnd(g) PROVE pending = b.pause
    BY <1>1, <2>2 DEF HearsEnd, backend, wires
  <2>3. ASSUME NEW r \in replies, AppUp, HearsReply(r) PROVE pending = b.pause
    BY <1>1, <2>3 DEF HearsReply, backend
  <2>4. ASSUME NEW a \in asks, AppUp, HandlesCancel(a) PROVE pending = b.pause
    BY <1>1, <2>4 DEF HandlesCancel, Handled, window
  <2>5. ASSUME NEW a \in asks, AppUp, HandlesAnswer(a) PROVE pending = b.pause
    BY <1>1, <2>5, AnswerStep DEF IInv
  <2>6. ASSUME NEW a \in asks, AppUp, HandlesStopWait(a) PROVE pending = b.pause
    BY <1>1, <2>6 DEF HandlesStopWait, Handled, window
  <2>7. ASSUME AppUp, OpensSetup PROVE pending = b.pause
    BY <1>1, <2>7 DEF OpensSetup, backend, wires
  <2>8. ASSUME AppUp, Starts PROVE pending = b.pause
    BY <1>1, <2>8 DEF Starts, wires, backend
  <2>9. ASSUME AppUp, ClosesWindow PROVE pending = b.pause
    BY <1>1, <2>9 DEF ClosesWindow, backend, wires
  <2>10. ASSUME AppUp, OpensWindow PROVE pending = b.pause
    BY <1>1, <2>10 DEF OpensWindow, backend, wires
  <2>11. ASSUME AppUp, PressesStop PROVE pending = b.pause
    BY <1>1, <2>11 DEF PressesStop, Sends, backend
  <2>12. ASSUME AppUp, PressesStopWait PROVE pending = b.pause
    BY <1>1, <2>12 DEF PressesStopWait, Sends, window, backend
  <2>13. ASSUME NEW kind \in AnswerKinds, AppUp, Answers(kind) PROVE pending = b.pause
    BY <1>1, <2>13 DEF Answers, Sends, backend
  <2>14. ASSUME AppUp, ExitStopsPause PROVE pending = b.pause
    BY <1>1, <2>14 DEF ExitStopsPause, window, wires
  <2>15. ASSUME app.step # "gone", Claims PROVE pending = b.pause
    BY <1>1, <2>15 DEF Claims, wires
  <2>16. ASSUME app.step # "gone", RefusedAtStart PROVE pending = b.pause
    BY <1>1, <2>16 DEF RefusedAtStart, wires
  <2>17. ASSUME app.step # "gone", ClearsCancel PROVE pending = b.pause
    BY <1>1, <2>17 DEF ClearsCancel, window, wires
  <2>18. ASSUME app.step # "gone", Fails PROVE pending = b.pause
    BY <1>1, <2>18 DEF Fails, wires
  <2>19. ASSUME app.step # "gone", Ends PROVE pending = b.pause
    BY <1>1, <2>19 DEF Ends, wires
  <2>20. ASSUME app.step # "gone", BeginsPause PROVE pending = b.pause
    BY <1>1, <2>20 DEF BeginsPause, window
  <2>21. ASSUME app.step # "gone", NoPauseHere PROVE pending = b.pause
    BY <1>1, <2>21 DEF NoPauseHere, window, wires
  <2>22. ASSUME app.step # "gone", PauseContinues PROVE pending = b.pause
    BY <1>1, <2>22 DEF PauseContinues, window, wires
  <2>23. ASSUME app.step # "gone", PauseStops PROVE pending = b.pause
    BY <1>1, <2>23 DEF PauseStops
  <2>24. ASSUME app.step # "gone", LooksAtNetwork PROVE pending = b.pause
    BY <1>1, <2>24 DEF LooksAtNetwork, window, wires
  <2>25. ASSUME app.step # "gone", OpensCase PROVE pending = b.pause
    BY <1>1, <2>25 DEF OpensCase, window
  <2>26. ASSUME app.step # "gone", CaseEnds PROVE pending = b.pause
    BY <1>1, <2>26 DEF CaseEnds, window, wires
  <2>27. ASSUME app.step # "gone", CaseFailed PROVE pending = b.pause
    BY <1>1, <2>27 DEF CaseFailed, window, wires
  <2>28. ASSUME app.step # "gone", RecordsCase PROVE pending = b.pause
    BY <1>1, <2>28 DEF RecordsCase, window
  <2>29. ASSUME app.step # "gone", BeginsWait PROVE pending = b.pause
    BY <1>1, <2>29 DEF BeginsWait, window
  <2>30. ASSUME app.step # "gone", StopsBeforeWait PROVE pending = b.pause
    BY <1>1, <2>30 DEF StopsBeforeWait
  <2>31. ASSUME app.step # "gone", WaitEnds PROVE pending = b.pause
    BY <1>1, <2>31 DEF WaitEnds, window, wires
  <2>32. ASSUME app.step # "gone", Resumes PROVE pending = b.pause
    BY <1>1, <2>32 DEF Resumes, window
  <2>33. ASSUME app.step # "gone", WaitStops PROVE pending = b.pause
    BY <1>1, <2>33 DEF WaitStops
  <2>34. ASSUME app.step # "gone", NetworkChanges PROVE pending = b.pause
    BY <1>1, <2>34 DEF NetworkChanges, window, backend, wires
  <2>35. ASSUME app.step # "gone", ExitStopsWait PROVE pending = b.pause
    BY <1>1, <2>35 DEF ExitStopsWait, window, wires
  <2>36. ASSUME app.step # "gone", ExitEnds PROVE pending = b.pause
    BY <1>1, <2>36 DEF ExitEnds, window, backend, wires
  <2>37. CASE UNCHANGED vars
    BY <1>1, <2>37 DEF vars, wires
  <2>q. QED
    BY <1>1, <2>1, <2>2, <2>3, <2>4, <2>5, <2>6, <2>7, <2>8, <2>9, <2>10, <2>11, <2>12,
       <2>13, <2>14, <2>15, <2>16, <2>17, <2>18, <2>19, <2>20, <2>21, <2>22, <2>23, <2>24,
       <2>25, <2>26, <2>27, <2>28, <2>29, <2>30, <2>31, <2>32, <2>33, <2>34, <2>35, <2>36,
       <2>37
       DEF Next, WindowHears, CommandsAreHandled, PersonActs, RunGoesOn, ExitGoesOn, AnswerKinds
<1>2. IInv /\ [Next]_vars => \A a \in asks \ asks' : pending' # pending => pending = a.pause
  BY <1>1
<1>3. [Next]_vars /\ IInv => [\A a \in asks \ asks' : pending' # pending => pending = a.pause]_vars
  BY <1>2
<1>q. QED
  BY Invariant, <1>3, PTL DEF Spec, AnswerMeetsItsPause
=============================================================================
