-------------------------- MODULE MechanismsProofs --------------------------
(***************************************************************************)
(* The mechanisms that MCMechanisms runs: the lookups of SingleFlight,     *)
(* for any number of calls and keys, the pacing of Throttle for any number *)
(* of requests, the loop of reconcile_pairs for any lists, and the watched *)
(* file of DraftFiles for any draft.                                       *)
(***************************************************************************)
EXTENDS MCMechanisms, ReconcileProofs, SequenceTheorems, TLAPS

-----------------------------------------------------------------------------
(* The inductive invariant.  OneWorkPerKey alone is not inductive: that a  *)
(* call which found no entry may start work rests on every unfinished work *)
(* having an entry, except the one whose call still holds the mutex.       *)

KeyChosen == \A a \in Asks : pc[a] # "new" => key[a] \in Keys

LockHeld == \A a \in Asks : pc[a] \in {"locked", "pushing"} <=> lock = a

WorkStarted ==
  /\ \A a \in Asks : task[a] # "none" => pc[a] \in {"pushing", "waiting", "told", "left"}
  /\ \A a \in Asks : pc[a] = "pushing" => Busy(a) /\ \A f \in open : f.key # key[a]

OverBefore == \A a \in Asks : \A b \in before[a] : task[b] = "over"

JoinedLate == \A a \in Asks : joined[a] # None <=> pc[a] \in {"waiting", "told", "left"}

IInv ==
  /\ TypeOK
  /\ KeyChosen
  /\ LockHeld
  /\ WorkStarted
  /\ OverBefore
  /\ JoinedLate
  /\ EntriesMatchWorks
  /\ OneWorkPerKey
  /\ NeverAnsweredFromThePast

-----------------------------------------------------------------------------
USE DEF Flight, Outcomes

LEMMA InitIInv == Init => IInv
  BY KeysAssumption, AsksAssumption
  DEF Init, IInv, TypeOK, KeyChosen, LockHeld, WorkStarted, OverBefore, JoinedLate,
      EntriesMatchWorks, OneWorkPerKey, NeverAnsweredFromThePast, Busy

\* Making a call changes the caller's own row only, and starts nothing.
LEMMA AskStep ==
  ASSUME IInv, NEW a \in Asks, NEW k \in Keys, NEW k2 \in Keys \cup {NoKey}, Ask(a, k, k2)
  PROVE  IInv'
<1> USE DEF IInv, TypeOK, Ask
<1>1. TypeOK'
  OBVIOUS
<1>2. (KeyChosen /\ LockHeld /\ JoinedLate)'
  BY DEF KeyChosen, LockHeld, JoinedLate
<1>3. task[a] = "none" /\ joined[a] = None
  BY DEF WorkStarted, JoinedLate
<1>4. WorkStarted'
  BY <1>3 DEF WorkStarted, Busy
<1>5. (OverBefore /\ NeverAnsweredFromThePast)'
  BY <1>3 DEF OverBefore, NeverAnsweredFromThePast
<1>6. (EntriesMatchWorks /\ OneWorkPerKey)'
  BY <1>3 DEF EntriesMatchWorks, OneWorkPerKey, Busy
<1>7. QED
  BY <1>1, <1>2, <1>4, <1>5, <1>6

LEMMA EnterStep == ASSUME IInv, NEW a \in Asks, Enter(a) PROVE IInv'
<1> USE DEF IInv, TypeOK, Enter
<1>1. TypeOK'
  OBVIOUS
<1>2. (KeyChosen /\ LockHeld /\ JoinedLate /\ WorkStarted)'
  BY AsksAssumption DEF KeyChosen, LockHeld, JoinedLate, WorkStarted, Busy
<1>3. (OverBefore /\ NeverAnsweredFromThePast /\ OneWorkPerKey /\ EntriesMatchWorks)'
  BY DEF OverBefore, NeverAnsweredFromThePast, EntriesMatchWorks, OneWorkPerKey, Busy
<1>4. QED
  BY <1>1, <1>2, <1>3

\* What a call joins is an entry's work, which is not over, so it is not one
\* of those that were over when the call was made.
LEMMA JoinStep == ASSUME IInv, NEW a \in Asks, Join(a) PROVE IInv'
<1> USE DEF IInv, TypeOK
<1>1. PICK f \in Running(a) : joined' = [joined EXCEPT ![a] = f.by]
  BY DEF Join
<1>2. f \in open /\ f.by \in Asks /\ Busy(f.by)
  BY <1>1 DEF Running, EntriesMatchWorks
<1>3. TypeOK'
  BY <1>1, <1>2 DEF Join
<1>4. (KeyChosen /\ LockHeld /\ JoinedLate /\ WorkStarted)'
  BY <1>1, <1>2, AsksAssumption DEF Join, KeyChosen, LockHeld, JoinedLate, WorkStarted, Busy
<1>5. (OverBefore /\ NeverAnsweredFromThePast)'
  BY <1>1, <1>2 DEF Join, OverBefore, NeverAnsweredFromThePast, Busy
<1>6. (OneWorkPerKey /\ EntriesMatchWorks)'
  BY DEF Join, EntriesMatchWorks, OneWorkPerKey, Busy
<1>7. QED
  BY <1>3, <1>4, <1>5, <1>6

\* No entry under the call's key means no unfinished work under it: the one
\* work without an entry would be the mutex holder's, and that is this call.
LEMMA SpawnStep == ASSUME IInv, NEW a \in Asks, Spawn(a) PROVE IInv'
<1> USE DEF IInv, TypeOK
<1>1. pc[a] = "locked" /\ lock = a /\ task[a] = "none" /\ joined[a] = None
  BY DEF Spawn, LockHeld, WorkStarted, JoinedLate
<1>2. \A f \in open : f.key # key[a]
  BY DEF Spawn, Running
<1>3. \A b \in Asks : Busy(b) => key[b] # key[a]
  <2>1. SUFFICES ASSUME NEW b \in Asks, Busy(b) PROVE key[b] # key[a]
    OBVIOUS
  <2>2. b # a
    BY <1>1, <2>1 DEF Busy
  <2>3. pc[b] # "pushing"
    BY <1>1, <2>2 DEF LockHeld
  <2>4. [key |-> key[b], by |-> b] \in open
    BY <2>1, <2>3 DEF EntriesMatchWorks
  <2>5. QED
    BY <1>2, <2>4
<1>4. TypeOK'
  BY DEF Spawn
<1>5. (KeyChosen /\ LockHeld /\ JoinedLate)'
  BY <1>1 DEF Spawn, KeyChosen, LockHeld, JoinedLate
<1>6. WorkStarted'
  BY <1>1, <1>2 DEF Spawn, WorkStarted, Busy
<1>7. (OverBefore /\ NeverAnsweredFromThePast)'
  BY <1>1 DEF Spawn, OverBefore, NeverAnsweredFromThePast
<1>8. OneWorkPerKey'
  BY <1>1, <1>3 DEF Spawn, OneWorkPerKey, Busy
<1>9. EntriesMatchWorks'
  BY <1>1 DEF Spawn, EntriesMatchWorks, Busy
<1>10. QED
  BY <1>4, <1>5, <1>6, <1>7, <1>8, <1>9

LEMMA PushStep == ASSUME IInv, NEW a \in Asks, Push(a) PROVE IInv'
<1> USE DEF IInv, TypeOK
<1>1. lock = a /\ Busy(a) /\ key[a] \in Keys /\ pc[a] = "pushing"
  BY DEF Push, LockHeld, WorkStarted, KeyChosen
<1>2. TypeOK'
  BY <1>1 DEF Push
<1>3. (KeyChosen /\ LockHeld /\ JoinedLate)'
  BY <1>1, AsksAssumption DEF Push, KeyChosen, LockHeld, JoinedLate
<1>4. WorkStarted'
  BY <1>1 DEF Push, WorkStarted, LockHeld, Busy
<1>5. (OverBefore /\ NeverAnsweredFromThePast)'
  BY <1>1 DEF Push, OverBefore, NeverAnsweredFromThePast, Busy
<1>6. OneWorkPerKey'
  BY DEF Push, OneWorkPerKey, Busy
<1>7. EntriesMatchWorks'
  <2>1. \A f \in open' : Busy(f.by)' /\ f.key = key'[f.by]
    BY <1>1 DEF Push, EntriesMatchWorks, Busy
  <2>2. ASSUME NEW b \in Asks, Busy(b)', pc'[b] # "pushing"
        PROVE  [key |-> key'[b], by |-> b] \in open'
    BY <1>1, <2>2 DEF Push, EntriesMatchWorks, Busy
  <2>3. QED
    BY <2>1, <2>2 DEF EntriesMatchWorks
<1>8. QED
  BY <1>2, <1>3, <1>4, <1>5, <1>6, <1>7

LEMMA WorkEndsStep ==
  ASSUME IInv, NEW a \in Asks, NEW o \in Outcomes, WorkEnds(a, o) PROVE IInv'
<1> USE DEF IInv, TypeOK, WorkEnds
<1>1. TypeOK'
  OBVIOUS
<1>2. (KeyChosen /\ LockHeld /\ JoinedLate /\ WorkStarted)'
  BY DEF KeyChosen, LockHeld, JoinedLate, WorkStarted, Busy
<1>3. (OverBefore /\ NeverAnsweredFromThePast)'
  BY DEF OverBefore, NeverAnsweredFromThePast
<1>4. (OneWorkPerKey /\ EntriesMatchWorks)'
  BY DEF EntriesMatchWorks, OneWorkPerKey, Busy
<1>5. QED
  BY <1>1, <1>2, <1>3, <1>4

\* `finish` removes by key.  Every entry's work is unfinished, and no other
\* unfinished work has this key, so the entry that goes is this work's own.
LEMMA FinishStep == ASSUME IInv, NEW a \in Asks, Finish(a) PROVE IInv'
<1> USE DEF IInv, TypeOK
<1>1. task[a] = "finishing" /\ Busy(a) /\ pc[a] # "pushing"
  BY AsksAssumption DEF Finish, Busy, LockHeld
<1>2. open' = open \ {[key |-> key[a], by |-> a]}
  <2>1. [key |-> key[a], by |-> a] \in open
    BY <1>1 DEF EntriesMatchWorks
  <2>2. \A f \in open : f.key = key[a] => f = [key |-> key[a], by |-> a]
    BY <1>1 DEF EntriesMatchWorks, OneWorkPerKey
  <2>3. QED
    BY <2>1, <2>2 DEF Finish
<1>3. \A f \in open' : f \in open /\ f.by # a
  BY <1>2 DEF EntriesMatchWorks
<1>4. TypeOK'
  BY <1>3 DEF Finish
<1>5. (KeyChosen /\ LockHeld /\ JoinedLate)'
  BY DEF Finish, KeyChosen, LockHeld, JoinedLate
<1>6. WorkStarted'
  BY <1>1, <1>3 DEF Finish, WorkStarted, Busy
<1>7. (OverBefore /\ NeverAnsweredFromThePast)'
  BY DEF Finish, OverBefore, NeverAnsweredFromThePast
<1>8. OneWorkPerKey'
  BY DEF Finish, OneWorkPerKey, Busy
<1>9. EntriesMatchWorks'
  <2>1. \A f \in open' : Busy(f.by)' /\ f.key = key'[f.by]
    BY <1>3 DEF Finish, EntriesMatchWorks, Busy
  <2>2. ASSUME NEW b \in Asks, Busy(b)', pc'[b] # "pushing"
        PROVE  [key |-> key'[b], by |-> b] \in open'
    <3>1. b # a /\ Busy(b) /\ pc[b] # "pushing"
      BY <2>2 DEF Finish, Busy
    <3>2. [key |-> key[b], by |-> b] \in open
      BY <3>1 DEF EntriesMatchWorks
    <3>3. QED
      BY <1>2, <3>1, <3>2 DEF Finish
  <2>3. QED
    BY <2>1, <2>2 DEF EntriesMatchWorks
<1>10. QED
  BY <1>4, <1>5, <1>6, <1>7, <1>8, <1>9

\* A call that is answered, or goes, touches no work and no entry.
LEMMA EndStep == ASSUME IInv, NEW a \in Asks, Answer(a) \/ Leave(a) PROVE IInv'
<1> USE DEF IInv, TypeOK, Answer, Leave
<1>1. TypeOK'
  BY DEF JoinedLate
<1>2. (KeyChosen /\ LockHeld /\ JoinedLate /\ WorkStarted)'
  BY DEF KeyChosen, LockHeld, JoinedLate, WorkStarted, Busy
<1>3. (OverBefore /\ NeverAnsweredFromThePast)'
  BY DEF OverBefore, NeverAnsweredFromThePast
<1>4. (OneWorkPerKey /\ EntriesMatchWorks)'
  BY DEF EntriesMatchWorks, OneWorkPerKey, Busy
<1>5. QED
  BY <1>1, <1>2, <1>3, <1>4

LEMMA StutterStep == ASSUME IInv, UNCHANGED vars PROVE IInv'
  BY DEF vars, IInv, TypeOK, KeyChosen, LockHeld, WorkStarted, OverBefore, JoinedLate,
         EntriesMatchWorks, OneWorkPerKey, NeverAnsweredFromThePast, Busy

LEMMA IInvStep == IInv /\ [Next]_vars => IInv'
  BY AskStep, EnterStep, JoinStep, SpawnStep, PushStep, WorkEndsStep, FinishStep, EndStep,
     StutterStep
  DEF Next

\* The inductive invariant holds in every reachable state.
THEOREM IInvHolds == Spec => []IInv
  BY InitIInv, IInvStep, PTL DEF Spec

\* Every variable of the coordinator keeps its type (`Flights`, `Flight`).
THEOREM TypeCorrect == Spec => []TypeOK
  BY IInvHolds, PTL DEF IInv

\* However many screens ask at once, two pieces of work never run together
\* under one key (`Flights::run` holds its mutex from lookup to push).
THEOREM OneWorkPerKeyHolds == Spec => []OneWorkPerKey
  BY IInvHolds, PTL DEF IInv

\* Nothing is remembered: an entry is removed with its work, so a call never
\* waits for a work that was over when it was made.
THEOREM NeverAnsweredFromThePastHolds == Spec => []NeverAnsweredFromThePast
  BY IInvHolds, PTL DEF IInv

-----------------------------------------------------------------------------
(* The pacing of Throttle, for any number of requests and any gaps, delays *)
(* and cap.  A hold that was asked for is either over or in force          *)
(* (HoldInv), and what a request read of it is not before its end          *)
(* (DueInv).  Who sleeps at the gate has its lock and wakes a gap after    *)
(* the last one that went (GateInv), which no other has overtaken          *)
(* (LastInv).                                                              *)

RequestSteps == {"new", "held", "queued", "gate", "sent", "over"}

Request == [step : RequestSteps, wake : Nat, gap : Nat, sent : Nat, due : Nat]

PaceTypes ==
  /\ now \in 0 .. MaxTime /\ gap \in Gaps
  /\ until \in Nat /\ due \in Nat /\ last \in Nat
  /\ gate \in Pace!Requests \cup {None}
  /\ req \in [Pace!Requests -> Request]

HoldInv == due <= now \/ due <= until

DueInv ==
  \A r \in Pace!Requests :
    /\ Pace!At(r, "held") => req[r].due <= req[r].wake
    /\ req[r].step \in {"queued", "gate"} => req[r].due <= now

GateInv ==
  \A r \in Pace!Requests :
    /\ gate = r <=> Pace!At(r, "gate")
    /\ Pace!At(r, "gate") /\ last # Pace!Never => last + req[r].gap <= req[r].wake

LastInv ==
  /\ last = Pace!Never \/ last <= now
  /\ \A r \in Pace!Requests :
       /\ req[r].step \in {"new", "held"} => req[r].gap = 0
       /\ Pace!Gone(r) /\ req[r].gap # 0 => last # Pace!Never /\ req[r].sent <= last

PaceInv == PaceTypes /\ HoldInv /\ DueInv /\ GateInv /\ LastInv /\ Pace!Spaced /\ Pace!HoldsAreKept

-----------------------------------------------------------------------------
\* What the proofs use of the constants.
LEMMA PaceFacts ==
  /\ MaxRequests \in Nat /\ MaxBackoff \in Nat /\ MaxTime \in Nat
  /\ Gaps \subseteq Nat /\ Delays \subseteq Nat
  /\ None \notin Pace!Requests
  BY SharedAssumption DEF Pace!Requests

LEMMA CappedTyped == ASSUME NEW d \in Delays PROVE Pace!Capped(d) \in Nat
  BY PaceFacts DEF Pace!Capped

\* The moves of a request.
LEMMA RequestTyped ==
  ASSUME NEW q \in Request, NEW n \in Nat, NEW m \in Nat
  PROVE  /\ [q EXCEPT !.step = "held", !.due = n, !.wake = m] \in Request
         /\ [q EXCEPT !.step = "queued", !.gap = n] \in Request
         /\ [q EXCEPT !.step = "gate", !.wake = n] \in Request
         /\ [q EXCEPT !.step = "sent", !.sent = n] \in Request
  BY DEF Request, RequestSteps

LEMMA PaceInitially == ASSUME Pace!Init PROVE PaceInv
  BY PaceFacts DEF Pace!Init, PaceInv, PaceTypes, HoldInv, DueInv, GateInv, LastInv,
    Pace!Spaced, Pace!HoldsAreKept, Pace!At, Pace!Gone, RequestSteps, Request,
    Pace!Never, Pace!Requests

LEMMA PaceTypesStep == ASSUME PaceTypes, [Pace!Next]_(Pace!vars) PROVE PaceTypes'
<1>1. ASSUME NEW r \in Pace!Requests, Pace!ReadsHold(r) PROVE PaceTypes'
  <2>1. req[r] \in Request /\ due \in Nat /\ until \in Nat /\ now \in Nat
    BY PaceFacts DEF PaceTypes
  <2>2. PICK m \in Nat :
          req'[r] = [req[r] EXCEPT !.step = "held", !.due = due, !.wake = m]
    BY <1>1, <2>1 DEF PaceTypes, Pace!ReadsHold
  <2>3. req'[r] \in Request
    BY <2>1, <2>2 DEF Request, RequestSteps
  <2>q. QED
    BY <1>1, <2>3 DEF PaceTypes, Pace!ReadsHold
<1>2. ASSUME NEW r \in Pace!Requests, Pace!Wakes(r) PROVE PaceTypes'
  <2>1. /\ req[r] \in Request
        /\ \/ req'[r] = [req[r] EXCEPT !.step = "sent", !.sent = now]
           \/ req'[r] = [req[r] EXCEPT !.step = "queued", !.gap = gap]
    BY <1>2 DEF PaceTypes, Pace!Wakes
  <2>2. now \in Nat /\ gap \in Nat
    BY <2>1, PaceFacts DEF PaceTypes, Request
  <2>3. req'[r] \in Request
    BY <2>1, <2>2, RequestTyped, Zenon
  <2>q. QED
    BY <1>2, <2>3 DEF PaceTypes, Pace!Wakes
<1>3. ASSUME NEW r \in Pace!Requests, Pace!EntersGate(r) PROVE PaceTypes'
  <2>1. req[r] \in Request /\ last + req[r].gap \in Nat /\ now \in Nat
    BY PaceFacts DEF PaceTypes, Request
  <2>2. PICK m \in Nat : req'[r] = [req[r] EXCEPT !.step = "gate", !.wake = m]
    BY <1>3, <2>1 DEF PaceTypes, Pace!EntersGate
  <2>3. req'[r] \in Request
    BY <2>1, <2>2, RequestTyped, Zenon
  <2>q. QED
    BY <1>3, <2>3 DEF PaceTypes, Pace!EntersGate
<1>4. ASSUME NEW r \in Pace!Requests, Pace!Goes(r) PROVE PaceTypes'
  <2>1. req[r] \in Request /\ req'[r] = [req[r] EXCEPT !.step = "sent", !.sent = now]
    BY <1>4 DEF PaceTypes, Pace!Goes
  <2>2. now \in Nat
    BY <2>1, PaceFacts DEF PaceTypes, Request
  <2>3. req'[r] \in Request
    BY <2>1, <2>2, RequestTyped, Zenon
  <2>q. QED
    BY <1>4, <2>3 DEF PaceTypes, Pace!Goes
<1>5. ASSUME NEW r \in Pace!Requests, NEW d \in Delays, Pace!Responds(r, d) PROVE PaceTypes'
  BY <1>5, CappedTyped, PaceFacts DEF PaceTypes, Request, Pace!Responds,
    Pace!HeldUntil, Pace!Later, RequestSteps
<1>6. ASSUME NEW g \in Gaps, Pace!SetsLevel(g) PROVE PaceTypes'
  BY <1>6 DEF PaceTypes, Pace!SetsLevel
<1>7. CASE Pace!Tick
  BY <1>7, PaceFacts DEF PaceTypes, Pace!Tick
<1>8. CASE UNCHANGED Pace!vars
  BY <1>8 DEF PaceTypes, Pace!vars
<1>q. QED
  BY <1>1, <1>2, <1>3, <1>4, <1>5, <1>6, <1>7, <1>8 DEF Pace!Next

\* Holds: what was asked for, and what a request must outwait.
LEMMA PaceHoldsStep ==
  ASSUME PaceTypes, HoldInv, DueInv, Pace!HoldsAreKept, [Pace!Next]_(Pace!vars)
  PROVE  HoldInv' /\ DueInv' /\ Pace!HoldsAreKept'
<1> USE DEF HoldInv, DueInv, Pace!HoldsAreKept, Pace!At, Pace!Gone
<1>1. ASSUME NEW r \in Pace!Requests, Pace!ReadsHold(r) PROVE HoldInv' /\ DueInv' /\ Pace!HoldsAreKept'
  BY <1>1 DEF PaceTypes, Request, Pace!ReadsHold, RequestSteps
<1>2. ASSUME NEW r \in Pace!Requests, Pace!Wakes(r) PROVE HoldInv' /\ DueInv' /\ Pace!HoldsAreKept'
  BY <1>2 DEF PaceTypes, Request, Pace!Wakes, RequestSteps
<1>3. ASSUME NEW r \in Pace!Requests, Pace!EntersGate(r) PROVE HoldInv' /\ DueInv' /\ Pace!HoldsAreKept'
  BY <1>3 DEF PaceTypes, Request, Pace!EntersGate, RequestSteps
<1>4. ASSUME NEW r \in Pace!Requests, Pace!Goes(r) PROVE HoldInv' /\ DueInv' /\ Pace!HoldsAreKept'
  BY <1>4 DEF PaceTypes, Request, Pace!Goes, RequestSteps
<1>5. ASSUME NEW r \in Pace!Requests, NEW d \in Delays, Pace!Responds(r, d)
      PROVE HoldInv' /\ DueInv' /\ Pace!HoldsAreKept'
  BY <1>5, CappedTyped DEF PaceTypes, Request, Pace!Responds, Pace!HeldUntil,
    Pace!Later, RequestSteps
<1>6. ASSUME NEW g \in Gaps, Pace!SetsLevel(g) PROVE HoldInv' /\ DueInv' /\ Pace!HoldsAreKept'
  BY <1>6 DEF Pace!SetsLevel
<1>7. CASE Pace!Tick
  BY <1>7 DEF PaceTypes, Request, Pace!Tick
<1>8. CASE UNCHANGED Pace!vars
  BY <1>8 DEF Pace!vars
<1>q. QED
  BY <1>1, <1>2, <1>3, <1>4, <1>5, <1>6, <1>7, <1>8 DEF Pace!Next

\* The gate: one at a time, a gap after the one before.
LEMMA PaceGateStep ==
  ASSUME PaceTypes, GateInv, LastInv, Pace!Spaced, [Pace!Next]_(Pace!vars)
  PROVE  GateInv' /\ LastInv' /\ Pace!Spaced'
<1> USE DEF GateInv, LastInv, Pace!Spaced, Pace!At, Pace!Gone
<1>1. ASSUME NEW r \in Pace!Requests, Pace!ReadsHold(r) PROVE GateInv' /\ LastInv' /\ Pace!Spaced'
  BY <1>1, PaceFacts DEF PaceTypes, Request, Pace!ReadsHold, RequestSteps, Pace!Never
<1>2. ASSUME NEW r \in Pace!Requests, Pace!Wakes(r) PROVE GateInv' /\ LastInv' /\ Pace!Spaced'
  BY <1>2, PaceFacts DEF PaceTypes, Request, Pace!Wakes, RequestSteps, Pace!Never
<1>3. ASSUME NEW r \in Pace!Requests, Pace!EntersGate(r) PROVE GateInv' /\ LastInv' /\ Pace!Spaced'
  BY <1>3, PaceFacts DEF PaceTypes, Request, Pace!EntersGate, RequestSteps, Pace!Never
<1>4. ASSUME NEW r \in Pace!Requests, Pace!Goes(r) PROVE GateInv' /\ LastInv' /\ Pace!Spaced'
  BY <1>4, PaceFacts DEF PaceTypes, Request, Pace!Goes, RequestSteps, Pace!Never
<1>5. ASSUME NEW r \in Pace!Requests, NEW d \in Delays, Pace!Responds(r, d)
      PROVE GateInv' /\ LastInv' /\ Pace!Spaced'
  BY <1>5, PaceFacts DEF PaceTypes, Request, Pace!Responds, RequestSteps, Pace!Never
<1>6. ASSUME NEW g \in Gaps, Pace!SetsLevel(g) PROVE GateInv' /\ LastInv' /\ Pace!Spaced'
  BY <1>6 DEF Pace!SetsLevel, Pace!Never
<1>7. CASE Pace!Tick
  BY <1>7 DEF PaceTypes, Request, Pace!Tick, Pace!Never
<1>8. CASE UNCHANGED Pace!vars
  BY <1>8 DEF Pace!vars, Pace!Never
<1>q. QED
  BY <1>1, <1>2, <1>3, <1>4, <1>5, <1>6, <1>7, <1>8 DEF Pace!Next

\* Each behaviour runs one of the mechanisms; in the two others the pacing
\* does not move.
LEMMA PaceInvariant == MCSpec => [](part = "pace" => PaceInv)
<1>1. MCInit => (part = "pace" => PaceInv)
  BY PaceInitially DEF MCInit
<1>2. (part = "pace" => PaceInv) /\ [MCNext]_mcvars
        => (part = "pace" => PaceInv)'
  <2>1. SUFFICES ASSUME part = "pace" => PaceInv,
                        [MCNext]_mcvars, part' = "pace"
                 PROVE  PaceInv'
    OBVIOUS
  <2>2. CASE part = "pace" /\ Pace!Next /\ UNCHANGED <<part, vars, pairing, drafts>>
    BY <2>1, <2>2, PaceTypesStep, PaceHoldsStep, PaceGateStep DEF PaceInv
  <2>3. CASE UNCHANGED <<part, pace>>
    <3>1. part = "pace" /\ UNCHANGED Pace!vars
      BY <2>1, <2>3 DEF pace, Pace!vars
    <3> QED BY <2>1, <3>1, PaceTypesStep, PaceHoldsStep, PaceGateStep DEF PaceInv
  <2> QED BY <2>1, <2>2, <2>3 DEF MCNext, mcvars
<1> QED BY <1>1, <1>2, PTL DEF MCSpec

\* Of two requests that pass the gate, the later goes its gap after the other:
\* any number of them at once, any gaps, and a setting that changes meanwhile
\* (`pace` in ado/throttle.rs).
THEOREM SpacedHolds == MCSpec => []Spaced
<1>1. (part = "pace" => PaceInv) => Spaced
  BY DEF PaceInv, Spaced
<1> QED BY <1>1, PaceInvariant, PTL

\* No request goes before the end of a hold that had been asked for before the
\* request asked to go, whatever responses came later and in whatever order
\* (`note_server_delay` keeps the later of two holds).
THEOREM HoldsAreKeptHolds == MCSpec => []HoldsAreKept
<1>1. (part = "pace" => PaceInv) => HoldsAreKept
  BY DEF PaceInv, HoldsAreKept
<1> QED BY <1>1, PaceInvariant, PTL

-----------------------------------------------------------------------------
(* The loop of reconcile_pairs, for any creates and any answer.  What it   *)
(* has pushed are the pairs of the creates it has passed, and the cursor   *)
(* of a title is how many of those creates wanted it, or its whole pool.   *)

\* The creates of a title that the loop has passed.
Passed(t) == {i \in DOMAIN creates : creates[i] = t /\ i < Loop!At}

Least(m, n) == IF m < n THEN m ELSE n

LoopTypes ==
  /\ Len(creates) \in Nat /\ creates \in [1..Len(creates) -> Titles]
  /\ left \in 0 .. Len(creates)
  /\ \A t \in Titles : IsFiniteSet(Pool(found, t)) /\ Pool(found, t) \subseteq Nat
  /\ out \in Seq(Nat \X Nat)

PoolsInv == \A t \in Titles : Ascends(pools[t], Pool(found, t))

CursorInv ==
  cursor = [t \in Titles |-> IF t \in Ambiguous(creates, found) THEN 0
                             ELSE Least(Cardinality(Passed(t)), Cardinality(Pool(found, t)))]

OutInv == Loop!ToSet(out) = {p \in Pairs(creates, found) : p[1] < Loop!At}

LoopInv == LoopTypes /\ PoolsInv /\ CursorInv /\ OutInv

\* The operators the instance brings along are the ones the lemmas are about.
LEMMA LoopCounts == \A S : Loop!Cardinality(S) = Cardinality(S)
  BY DEF Loop!Cardinality, Cardinality

\* What a list of a set is, to the loop.
LEMMA SortedAscends ==
  ASSUME NEW S, S \subseteq Nat, IsFiniteSet(S) PROVE Ascends(Loop!Sorted(S), S)
<1>1. \E s \in [1..Cardinality(S) -> S] :
        \A i, j \in 1..Cardinality(S) : i < j => s[i] < s[j]
  BY SortedExists DEF Ascends
<1>2. Loop!Sorted(S) = CHOOSE s \in [1..Cardinality(S) -> S] :
                         \A i, j \in 1..Cardinality(S) : i < j => s[i] < s[j]
  BY LoopCounts DEF Loop!Sorted
<1> QED BY <1>1, <1>2, Zenon DEF Ascends

LEMMA AscendsLen ==
  ASSUME NEW S, IsFiniteSet(S), NEW s, Ascends(s, S) PROVE Len(s) = Cardinality(S)
<1>1. Cardinality(S) \in Nat /\ s \in [1..Cardinality(S) -> S]
  BY FS_CardinalityType DEF Ascends
<1>2. s \in Seq(S)
  BY <1>1, SeqDef
<1> QED BY <1>1, <1>2, LenProperties

LEMMA LoopInitially == ASSUME Loop!Init PROVE LoopInv
<1>1. Len(creates) \in Nat /\ creates \in [1..Len(creates) -> Titles]
  <2>1. PICK m \in 0 .. MaxCreates : creates \in [1..m -> Titles]
    BY DEF Loop!Init, Loop!BoundedSeq, Loop!SeqOf
  <2>2. m \in Nat
    BY <2>1, SharedAssumption
  <2>3. creates \in Seq(Titles)
    BY <2>1, <2>2, SeqDef
  <2> QED BY <2>1, <2>2, <2>3, LenProperties
<1>2. ASSUME NEW t \in Titles
      PROVE  IsFiniteSet(Pool(found, t)) /\ Pool(found, t) \subseteq Nat
  <2>1. PICK S \in SUBSET Ids : \E f \in [S -> Titles] : found = Loop!AsSet(f)
    BY DEF Loop!Init, Loop!Found
  <2>2. PICK f \in [S -> Titles] : found = Loop!AsSet(f)
    BY <2>1
  <2>3. Pool(found, t) \subseteq Ids
    BY <2>1, <2>2 DEF Pool, Loop!AsSet
  <2> QED BY <2>3, SharedAssumption, FS_Subset
<1>3. LoopTypes
  <2>1. left = Len(creates) /\ out = << >>
    BY DEF Loop!Init
  <2> QED BY <1>1, <1>2, <2>1, EmptySeq DEF LoopTypes
<1>4. \A t \in Titles : Pool(found, t) = Loop!Pool(found, t)
  BY DEF Pool, Loop!Pool
<1>5. PoolsInv
  BY <1>2, <1>4, SortedAscends DEF PoolsInv, Loop!Init
<1>6. Loop!At = 1
  BY <1>1 DEF Loop!At, Loop!Init
<1>7. \A t \in Titles : Cardinality(Passed(t)) = 0
  <2>1. \A t \in Titles : Passed(t) = {}
    BY <1>1, <1>6 DEF Passed
  <2> QED BY <2>1, FS_EmptySet
<1>8. CursorInv
  <2>1. cursor = [t \in Titles |-> 0]
    BY DEF Loop!Init
  <2>2. \A t \in Titles : Least(0, Cardinality(Pool(found, t))) = 0
    BY <1>2, FS_CardinalityType DEF Least
  <2> QED BY <1>7, <2>1, <2>2 DEF CursorInv
<1>9. OutInv
  <2>1. out = << >> /\ Loop!ToSet(out) = {}
    BY DEF Loop!Init, Loop!ToSet
  <2>2. \A p \in Pairs(creates, found) : p[1] \in DOMAIN creates
    BY DEF Pairs
  <2>3. \A p \in Pairs(creates, found) : ~(p[1] < Loop!At)
    BY <1>1, <1>6, <2>2
  <2> QED BY <2>1, <2>3 DEF OutInv
<1> QED BY <1>3, <1>5, <1>8, <1>9 DEF LoopInv

\* The create the loop looks at, and what it knows of its title.
LEMMA LoopLooks ==
  ASSUME LoopInv, left > 0, NEW t, t = creates[Loop!At]
  PROVE  /\ Loop!At \in DOMAIN creates /\ t \in Titles /\ Loop!At \in Nat
         /\ IsFiniteSet(DOMAIN creates)
         /\ Passed(t) = {i \in Claimants(creates, t) : i < Loop!At}
         /\ Cardinality(Passed(t)) = RankIn(Claimants(creates, t), Loop!At)
         /\ Cardinality(Passed(t)) \in Nat /\ Cardinality(Pool(found, t)) \in Nat
         /\ Len(pools[t]) = Cardinality(Pool(found, t))
         /\ Loop!Crowded(t) <=> t \in Ambiguous(creates, found)
<1>1. Loop!At \in DOMAIN creates /\ Loop!At \in Nat /\ t \in Titles
  <2>1. Loop!At \in 1..Len(creates) /\ Loop!At \in Nat
    BY DEF LoopInv, LoopTypes, Loop!At
  <2> QED BY <2>1 DEF LoopInv, LoopTypes
<1>2. DOMAIN creates = 1..Len(creates) /\ IsFiniteSet(DOMAIN creates)
  <2>1. Len(creates) \in Int /\ 1 \in Int /\ DOMAIN creates = 1..Len(creates)
    BY DEF LoopInv, LoopTypes
  <2> QED BY <2>1, FS_Interval
<1>3. Passed(t) = {i \in Claimants(creates, t) : i < Loop!At}
  BY DEF Passed, Claimants
<1>4. IsFiniteSet(Passed(t)) /\ IsFiniteSet(Pool(found, t))
  <2>1. Passed(t) \subseteq DOMAIN creates
    BY DEF Passed
  <2> QED BY <1>1, <1>2, <2>1, FS_Subset DEF LoopInv, LoopTypes
<1>5. Len(pools[t]) = Cardinality(Pool(found, t))
  BY <1>1, <1>4, AscendsLen DEF LoopInv, PoolsInv
<1>6. Loop!Crowded(t) <=> t \in Ambiguous(creates, found)
  <2>1. Claimants(creates, t) = {i \in DOMAIN creates : creates[i] = t}
    BY DEF Claimants
  <2>2. t \in Ambiguous(creates, found)
          <=> Cardinality(Pool(found, t)) > Cardinality(Claimants(creates, t))
    BY <1>2, <1>4, AmbiguousIsMore
  <2> QED BY <1>5, <2>1, <2>2, LoopCounts DEF Loop!Crowded
<1> QED BY <1>1, <1>2, <1>3, <1>4, <1>5, <1>6, FS_CardinalityType DEF RankIn

\* The loop goes on to the next create: one more of this title is passed.
LEMMA LoopPasses ==
  ASSUME LoopInv, left > 0, left' = left - 1, UNCHANGED <<creates, found>>,
         NEW u \in Titles
  PROVE  /\ (Loop!At)' = Loop!At + 1
         /\ Cardinality(Passed(u))' = IF u = creates[Loop!At] THEN Cardinality(Passed(u)) + 1
                                       ELSE Cardinality(Passed(u))
         /\ Cardinality(Passed(u)) \in Nat
<1> DEFINE at == Loop!At
<1>1. (Loop!At)' = at + 1 /\ at \in DOMAIN creates /\ DOMAIN creates \subseteq Nat
  BY DEF LoopInv, LoopTypes, Loop!At
<1>2. Passed(u)' = {i \in DOMAIN creates : creates[i] = u /\ i < at + 1}
  BY <1>1 DEF Passed
<1>3. Passed(u) = {i \in DOMAIN creates : creates[i] = u /\ i < at}
  BY DEF Passed
<1>4. IsFiniteSet(Passed(u))
  <2>1. IsFiniteSet(DOMAIN creates)
    BY LoopLooks
  <2>2. Passed(u) \subseteq DOMAIN creates
    BY DEF Passed
  <2> QED BY <2>1, <2>2, FS_Subset
<1> HIDE DEF at
<1>5. CASE u = creates[at]
  <2>1. Passed(u)' = Passed(u) \cup {at} /\ at \notin Passed(u)
    BY <1>1, <1>2, <1>3, <1>5
  <2>2. Cardinality(Passed(u) \cup {at}) = Cardinality(Passed(u)) + 1
    BY <1>4, <2>1, FS_AddElement
  <2> QED BY <1>1, <1>4, <1>5, <2>1, <2>2, FS_CardinalityType DEF at
<1>6. CASE u # creates[at]
  <2>1. Passed(u)' = Passed(u)
    BY <1>1, <1>2, <1>3, <1>6
  <2> QED BY <1>1, <1>4, <1>6, <2>1, FS_CardinalityType DEF at
<1> QED BY <1>5, <1>6

\* The pairs of a create further on are the pairs before, and its own.
LEMMA PairsGrow ==
  ASSUME LoopInv, left > 0, left' = left - 1, UNCHANGED <<creates, found>>
  PROVE  {p \in Pairs(creates, found) : p[1] < (Loop!At)'}
           = {p \in Pairs(creates, found) : p[1] < Loop!At}
               \cup {p \in Pairs(creates, found) : p[1] = Loop!At}
<1>1. (Loop!At)' = Loop!At + 1 /\ Loop!At \in Nat
  BY DEF LoopInv, LoopTypes, Loop!At
<1>2. \A p \in Pairs(creates, found) : p[1] \in Nat
  BY DEF Pairs, LoopInv, LoopTypes
<1>3. \A p \in Pairs(creates, found) : p[1] < Loop!At + 1 <=> p[1] < Loop!At \/ p[1] = Loop!At
  BY <1>1, <1>2
<1> QED BY <1>1, <1>3

\* The next id of the pool is the one of this create.
LEMMA TakeStep == ASSUME LoopInv, Loop!Take PROVE LoopInv'
<1> DEFINE at == Loop!At
           t == creates[at]
           k == cursor[t]
           n == Cardinality(Pool(found, t))
           pair == <<at, pools[t][k + 1]>>
<1>1. /\ left > 0 /\ left' = left - 1 /\ UNCHANGED <<creates, found, pools>>
      /\ ~Loop!Crowded(t) /\ k < Len(pools[t])
      /\ out' = Append(out, pair) /\ cursor' = [cursor EXCEPT ![t] = @ + 1]
  BY DEF Loop!Take
<1>2. /\ at \in DOMAIN creates /\ at \in Nat /\ t \in Titles /\ IsFiniteSet(DOMAIN creates)
      /\ Cardinality(Passed(t)) = RankIn(Claimants(creates, t), at)
      /\ Cardinality(Passed(t)) \in Nat /\ n \in Nat
      /\ Len(pools[t]) = n /\ t \notin Ambiguous(creates, found)
  BY <1>1, LoopLooks
<1>3. k = Cardinality(Passed(t)) /\ k < n /\ k + 1 \in 1..n
  <2>1. k = Least(Cardinality(Passed(t)), n)
    BY <1>2 DEF LoopInv, CursorInv
  <2> HIDE DEF k, n, t
  <2> QED BY <1>1, <1>2, <2>1 DEF Least
<1>4. /\ Ascends(pools[t], Pool(found, t))
      /\ IsFiniteSet(Pool(found, t)) /\ Pool(found, t) \subseteq Nat
  BY <1>2 DEF LoopInv, LoopTypes, PoolsInv
<1>5. pools[t][k + 1] \in Nat
  BY <1>3, <1>4 DEF Ascends
<1>6. LoopTypes'
  <2>1. out' \in Seq(Nat \X Nat)
    <3>1. out \in Seq(Nat \X Nat) /\ pair \in Nat \X Nat
      BY <1>2, <1>5 DEF LoopInv, LoopTypes
    <3> QED BY <1>1, <3>1, AppendProperties
  <2> QED BY <1>1, <2>1 DEF LoopInv, LoopTypes
<1>7. PoolsInv'
  BY <1>1 DEF LoopInv, PoolsInv
<1>8. CursorInv'
  <2>1. ASSUME NEW u \in Titles
        PROVE  cursor'[u] = IF u \in Ambiguous(creates, found) THEN 0
                 ELSE Least(Cardinality(Passed(u))', Cardinality(Pool(found, u)))
    <3>1. cursor[u] = IF u \in Ambiguous(creates, found) THEN 0
                      ELSE Least(Cardinality(Passed(u)), Cardinality(Pool(found, u)))
      BY DEF LoopInv, CursorInv
    <3>2. CASE u = t
      <4>1. cursor'[u] = k + 1
        BY <1>1, <3>2 DEF LoopInv, CursorInv
      <4>2. Cardinality(Passed(u))' = k + 1
        BY <1>1, <1>3, <3>2, LoopPasses
      <4> HIDE DEF k, n
      <4>3. Least(k + 1, n) = k + 1
        BY <1>2, <1>3 DEF Least
      <4> QED BY <1>2, <3>2, <4>1, <4>2, <4>3 DEF n
    <3>3. CASE u # t
      <4>1. Cardinality(Passed(u))' = Cardinality(Passed(u))
        BY <1>1, <3>3, LoopPasses
      <4>2. cursor'[u] = cursor[u]
        BY <1>1, <3>3 DEF LoopInv, CursorInv
      <4> QED BY <3>1, <4>1, <4>2
    <3> QED BY <3>2, <3>3
  <2>2. cursor' = [u \in Titles |-> cursor'[u]]
    BY <1>1 DEF LoopInv, CursorInv
  <2> QED BY <1>1, <2>1, <2>2 DEF CursorInv
<1>9. OutInv'
  <2>1. Loop!ToSet(out)' = Loop!ToSet(out) \cup {pair}
    <3>1. out \in Seq(Nat \X Nat) /\ pair \in Nat \X Nat
      BY <1>2, <1>5 DEF LoopInv, LoopTypes
    <3> HIDE DEF pair
    <3>2. /\ Len(out') = Len(out) + 1 /\ out' \in Seq(Nat \X Nat)
          /\ \A i \in 1..Len(out) : out'[i] = out[i]
          /\ out'[Len(out) + 1] = pair
      BY <1>1, <3>1, AppendProperties
    <3>3. DOMAIN out = 1..Len(out) /\ DOMAIN out' = 1..(Len(out) + 1) /\ Len(out) \in Nat
      BY <3>1, <3>2, LenProperties
    <3>4. DOMAIN out' = DOMAIN out \cup {Len(out) + 1}
      BY <3>3
    <3>5. Loop!ToSet(out)' = {out'[i] : i \in DOMAIN out'}
      BY DEF Loop!ToSet
    <3>6. \A i \in DOMAIN out : out'[i] = out[i]
      BY <3>2, <3>3
    <3>7. \A x \in Loop!ToSet(out)' : x \in Loop!ToSet(out) \cup {pair}
      BY <3>2, <3>4, <3>5, <3>6 DEF Loop!ToSet
    <3>8. \A x \in Loop!ToSet(out) : x \in Loop!ToSet(out)'
      BY <3>4, <3>5, <3>6 DEF Loop!ToSet
    <3>9. pair \in Loop!ToSet(out)'
      BY <3>2, <3>4, <3>5
    <3> QED BY <3>7, <3>8, <3>9, Zenon
  <2>2. {p \in Pairs(creates, found) : p[1] = at} = {pair}
    <3>1. \A x : <<at, x>> \in Pairs(creates, found) <=> x = pools[t][k + 1]
      <4>1. ASSUME NEW x
            PROVE  <<at, x>> \in Pairs(creates, found) <=> x = pools[t][k + 1]
        <5>1. <<at, x>> \in Pairs(creates, found)
                <=> /\ t \notin Ambiguous(creates, found)
                    /\ RankIn(Claimants(creates, t), at) < n
                    /\ x = pools[t][RankIn(Claimants(creates, t), at) + 1]
          BY <1>2, <1>4, PairOfCreate
        <5> HIDE DEF at, t, k, n
        <5> QED BY <1>2, <1>3, <5>1
      <4> QED BY <4>1
    <3>2. \A p \in Pairs(creates, found) : p = <<p[1], p[2]>>
      BY DEF Pairs
    <3> HIDE DEF at, t, k
    <3> QED BY <3>1, <3>2
  <2>3. {p \in Pairs(creates, found) : p[1] < (Loop!At)'}
          = {p \in Pairs(creates, found) : p[1] < at} \cup {pair}
    BY <1>1, <2>2, PairsGrow
  <2> HIDE DEF at, pair
  <2> QED BY <1>1, <2>1, <2>3 DEF at, LoopInv, OutInv
<1> QED BY <1>6, <1>7, <1>8, <1>9 DEF LoopInv

\* An ambiguous title, or one whose pool is used up, has no pair to give.
LEMMA SkipStep == ASSUME LoopInv, Loop!Skip PROVE LoopInv'
<1> DEFINE at == Loop!At
           t == creates[at]
           k == cursor[t]
           n == Cardinality(Pool(found, t))
<1>1. /\ left > 0 /\ left' = left - 1 /\ UNCHANGED <<creates, found, pools, cursor, out>>
      /\ Loop!Crowded(t) \/ k >= Len(pools[t])
  BY DEF Loop!Skip
<1>2. /\ at \in DOMAIN creates /\ t \in Titles /\ IsFiniteSet(DOMAIN creates)
      /\ Cardinality(Passed(t)) = RankIn(Claimants(creates, t), at)
      /\ Cardinality(Passed(t)) \in Nat /\ n \in Nat
      /\ Len(pools[t]) = n
      /\ Loop!Crowded(t) <=> t \in Ambiguous(creates, found)
  BY <1>1, LoopLooks
<1>3. t \in Ambiguous(creates, found) \/ Cardinality(Passed(t)) >= n
  <2>1. k = IF t \in Ambiguous(creates, found) THEN 0 ELSE Least(Cardinality(Passed(t)), n)
    BY <1>2 DEF LoopInv, CursorInv
  <2> HIDE DEF k, n, t
  <2> QED BY <1>1, <1>2, <2>1 DEF Least
<1>4. LoopTypes' /\ PoolsInv'
  BY <1>1 DEF LoopInv, LoopTypes, PoolsInv
<1>5. CursorInv'
  <2>1. ASSUME NEW u \in Titles, u \notin Ambiguous(creates, found)
        PROVE  Least(Cardinality(Passed(u))', Cardinality(Pool(found, u)))
                 = Least(Cardinality(Passed(u)), Cardinality(Pool(found, u)))
    <3>1. CASE u = t
      <4>1. Cardinality(Passed(u))' = Cardinality(Passed(u)) + 1
        BY <1>1, <3>1, LoopPasses
      <4>2. Cardinality(Passed(u)) >= Cardinality(Pool(found, u))
        BY <1>3, <2>1, <3>1
      <4>3. Cardinality(Passed(u)) \in Nat /\ Cardinality(Pool(found, u)) \in Nat
        BY <1>2, <3>1
      <4> QED BY <4>1, <4>2, <4>3 DEF Least
    <3>2. CASE u # t
      BY <1>1, <3>2, LoopPasses
    <3> QED BY <3>1, <3>2
  <2> QED BY <1>1, <2>1 DEF LoopInv, CursorInv
<1>6. OutInv'
  <2>1. {p \in Pairs(creates, found) : p[1] = at} = {}
    <3>1. \A x : <<at, x>> \notin Pairs(creates, found)
      <4>1. ASSUME NEW x PROVE <<at, x>> \notin Pairs(creates, found)
        <5>1. /\ Ascends(pools[t], Pool(found, t))
              /\ IsFiniteSet(Pool(found, t)) /\ Pool(found, t) \subseteq Nat
          BY <1>2 DEF LoopInv, LoopTypes, PoolsInv
        <5>2. <<at, x>> \in Pairs(creates, found)
                => /\ t \notin Ambiguous(creates, found)
                   /\ RankIn(Claimants(creates, t), at) < n
          BY <1>2, <5>1, PairOfCreate
        <5> HIDE DEF at, t, n
        <5> QED BY <1>2, <1>3, <5>2
      <4> QED BY <4>1
    <3>2. \A p \in Pairs(creates, found) : p = <<p[1], p[2]>>
      BY DEF Pairs
    <3> HIDE DEF at
    <3> QED BY <3>1, <3>2
  <2>2. {p \in Pairs(creates, found) : p[1] < (Loop!At)'}
          = {p \in Pairs(creates, found) : p[1] < at}
    BY <1>1, <2>1, PairsGrow
  <2> HIDE DEF at
  <2> QED BY <1>1, <2>2 DEF at, LoopInv, OutInv, Loop!ToSet
<1> QED BY <1>4, <1>5, <1>6 DEF LoopInv

LEMMA LoopInvariant == MCSpec => [](part = "loop" => LoopInv)
<1>1. MCInit => (part = "loop" => LoopInv)
  BY LoopInitially DEF MCInit
<1>2. (part = "loop" => LoopInv) /\ [MCNext]_mcvars
        => (part = "loop" => LoopInv)'
  <2>1. SUFFICES ASSUME part = "loop" => LoopInv,
                        [MCNext]_mcvars, part' = "loop"
                 PROVE  LoopInv'
    OBVIOUS
  <2>2. CASE part = "loop" /\ Loop!Next /\ UNCHANGED <<part, vars, pace, drafts>>
    BY <2>1, <2>2, TakeStep, SkipStep DEF Loop!Next
  <2>3. CASE UNCHANGED <<part, pairing>>
    BY <2>1, <2>3
    DEF pairing, LoopInv, LoopTypes, PoolsInv, CursorInv, OutInv, Passed, Loop!At, Loop!ToSet
  <2> QED BY <2>1, <2>2, <2>3 DEF MCNext, mcvars
<1> QED BY <1>1, <1>2, PTL DEF MCSpec

\* When the loop of reconcile_pairs ends, what it has pushed is the pairing the
\* other modules take it to compute, for any queue and any answer of the lookup:
\* the cursors of the titles never get ahead of each other or of their pools.
THEOREM LoopComputesPairsHolds == MCSpec => []LoopComputesPairs
<1>1. (part = "loop" => LoopInv) => LoopComputesPairs
  <2>1. SUFFICES ASSUME part = "loop", LoopInv, left = 0
                 PROVE  Loop!ToSet(out) = Loop!Pairs(creates, found)
    BY DEF LoopComputesPairs, Loop!LoopComputesPairs
  <2>2. \A p \in Pairs(creates, found) : p[1] \in 1..Len(creates) /\ Len(creates) \in Nat
    BY <2>1 DEF Pairs, LoopInv, LoopTypes
  <2>3. \A p \in Pairs(creates, found) : p[1] < Loop!At
    BY <2>1, <2>2 DEF Loop!At
  <2>4. Loop!ToSet(out) = Pairs(creates, found)
    BY <2>1, <2>3 DEF LoopInv, OutInv
  <2>5. Loop!Pairs(creates, found) = Pairs(creates, found)
    BY LoopCounts DEF Loop!Pairs, Loop!Ambiguous, Loop!Pool, Loop!Claimants, Loop!RankIn,
      Pairs, Ambiguous, Pool, Claimants, RankIn
  <2> QED BY <2>4, <2>5
<1> QED BY <1>1, LoopInvariant, PTL

-----------------------------------------------------------------------------
(* The watched draft file.  The story of a file is what it is when each    *)
(* write-back of its chain begins; the rows of a write-back are led by the *)
(* file it will find, so that a row's slot is its own place (LeadsSlot).   *)

\* The operators the instance brings along are the ones the lemmas are about.
LEMMA DraftsCounts == \A S : Drafts!Cardinality(S) = Cardinality(S)
  BY DEF Drafts!Cardinality, Cardinality

\* Counting the element itself: one more than come before it.
LEMMA RankOf ==
  ASSUME NEW S, S \subseteq Nat, IsFiniteSet(S), NEW i \in S
  PROVE  Drafts!Rank(S, i) = RankIn(S, i) + 1
<1> DEFINE A == {y \in S : y < i}
<1>1. {j \in S : j <= i} = A \cup {i}
  <2>1. ASSUME NEW j \in S PROVE j <= i <=> (j < i \/ j = i)
    <3>1. j \in Nat /\ i \in Nat
      OBVIOUS
    <3> QED BY <3>1
  <2> QED BY <2>1
<1>2. i \notin A
  <2>1. i \in Nat
    OBVIOUS
  <2> QED BY <2>1
<1>3. IsFiniteSet(A)
  <2>1. A \subseteq S
    OBVIOUS
  <2> QED BY <2>1, FS_Subset
<1>4. Cardinality(A \cup {i}) = Cardinality(A) + 1
  <2> HIDE DEF A
  <2> QED BY <1>2, <1>3, FS_AddElement
<1> QED BY <1>1, <1>4, DraftsCounts DEF Drafts!Rank, RankIn

LEMMA RankApart ==
  ASSUME NEW S, S \subseteq Nat, IsFiniteSet(S), NEW i \in S, NEW j \in S, Drafts!Rank(S, i) = Drafts!Rank(S, j)
  PROVE  i = j
<1>1. RankIn(S, i) \in Nat /\ RankIn(S, j) \in Nat
  BY RankType
<1>2. RankIn(S, i) = RankIn(S, j)
  <2>1. Drafts!Rank(S, i) = RankIn(S, i) + 1
    BY RankOf
  <2>2. Drafts!Rank(S, j) = RankIn(S, j) + 1
    BY RankOf
  <2>3. \A a, b \in Nat : a + 1 = b + 1 => a = b
    OBVIOUS
  <2> QED BY <1>1, <2>1, <2>2, <2>3, Zenon
<1> QED BY <1>2, RankInjective

\* The elements in order are a list of them.
LEMMA InOrderType ==
  ASSUME NEW S, S \subseteq Nat, IsFiniteSet(S)
  PROVE  Drafts!InOrder(S) \in Seq(S) /\ Cardinality(S) \in Nat
<1>1. Cardinality(S) \in Nat
  BY FS_CardinalityType
<1>2. ASSUME NEW n \in 1 .. Cardinality(S)
      PROVE  (CHOOSE i \in S : Drafts!Rank(S, i) = n) \in S
  <2>1. n - 1 \in Nat /\ n - 1 < Cardinality(S)
    BY <1>1
  <2>2. PICK x \in S : RankIn(S, x) = n - 1
    BY <2>1, RankSurjective
  <2>3. Drafts!Rank(S, x) = RankIn(S, x) + 1
    BY RankOf
  <2>4. Drafts!Rank(S, x) = n
    BY <2>2, <2>3, <1>1
  <2> QED BY <2>4
<1>3. Drafts!InOrder(S) \in [1 .. Cardinality(S) -> S]
  BY <1>2, DraftsCounts DEF Drafts!InOrder
<1> QED BY <1>1, <1>3

-----------------------------------------------------------------------------
(* The lists.                                                              *)

LEMMA DomFinite ==
  ASSUME NEW S, NEW s \in Seq(S)
  PROVE  /\ DOMAIN s \subseteq Nat /\ IsFiniteSet(DOMAIN s)
         /\ \A A : A \subseteq DOMAIN s => A \subseteq Nat /\ IsFiniteSet(A)
<1>1. DOMAIN s = 1 .. Len(s) /\ Len(s) \in Nat
  OBVIOUS
<1>2. IsFiniteSet(1 .. Len(s))
  BY <1>1, FS_Interval
<1> QED BY <1>1, <1>2, FS_Subset

LEMMA StampType ==
  ASSUME NEW cases \in Seq(Drafts!Case)
  PROVE  Drafts!Stamp(cases) \in Seq(Texts)
<1>1. DOMAIN cases = 1 .. Len(cases) /\ Len(cases) \in Nat /\ \A i \in DOMAIN cases : cases[i] \in Drafts!Case
  OBVIOUS
<1>2. \A i \in DOMAIN cases : cases[i].text \in Texts
  BY <1>1 DEF Drafts!Case
<1>3. Drafts!Stamp(cases) \in [1 .. Len(cases) -> Texts]
  BY <1>1, <1>2 DEF Drafts!Stamp
<1> QED BY <1>1, <1>3

LEMMA RemoveType ==
  ASSUME NEW S, NEW s \in Seq(S), NEW i \in DOMAIN s
  PROVE  /\ Drafts!RemoveAt(s, i) \in Seq(S)
         /\ Len(Drafts!RemoveAt(s, i)) = Len(s) - 1
         /\ \A j \in 1 .. Len(s) - 1 : Drafts!RemoveAt(s, i)[j] = IF j < i THEN s[j] ELSE s[j + 1]
<1> DEFINE a == SubSeq(s, 1, i - 1)
           b == SubSeq(s, i + 1, Len(s))
<1>1. i \in Nat /\ Len(s) \in Nat /\ 1 <= i /\ i <= Len(s)
  OBVIOUS
<1>2. a \in Seq(S) /\ Len(a) = i - 1 /\ \A j \in 1 .. i - 1 : a[j] = s[j]
  BY <1>1
<1>3. b \in Seq(S) /\ Len(b) = Len(s) - i /\ \A j \in 1 .. Len(s) - i : b[j] = s[i + j]
  BY <1>1
<1>4. Drafts!RemoveAt(s, i) = a \o b
  BY DEF Drafts!RemoveAt
<1> HIDE DEF a, b
<1>5. a \o b \in Seq(S) /\ Len(a \o b) = Len(s) - 1
  BY <1>1, <1>2, <1>3
<1>6. ASSUME NEW j \in 1 .. Len(s) - 1 PROVE (a \o b)[j] = IF j < i THEN s[j] ELSE s[j + 1]
  <2>1. CASE j < i
    BY <1>1, <1>2, <1>3, <2>1
  <2>2. CASE ~(j < i)
    <3>1. j - (i - 1) \in 1 .. Len(s) - i /\ i + (j - (i - 1)) = j + 1
      BY <1>1, <2>2
    <3>2. (a \o b)[j] = b[j - (i - 1)]
      BY <1>1, <1>2, <1>3, <2>2
    <3> QED BY <3>1, <3>2, <1>3, <2>2
  <2> QED BY <2>1, <2>2
<1> QED BY <1>4, <1>5, <1>6

LEMMA EditType ==
  ASSUME NEW s \in Seq(Drafts!Case), NEW i \in DOMAIN s, NEW t \in Texts
  PROVE  /\ [s EXCEPT ![i].text = t] \in Seq(Drafts!Case)
         /\ Len([s EXCEPT ![i].text = t]) = Len(s)
         /\ \A j \in DOMAIN s : [s EXCEPT ![i].text = t][j] = IF j = i THEN [who |-> s[i].who, text |-> t] ELSE s[j]
<1> DEFINE e == [s EXCEPT ![i].text = t]
<1>1. DOMAIN s = 1 .. Len(s) /\ Len(s) \in Nat /\ \A j \in DOMAIN s : s[j] \in Drafts!Case
  OBVIOUS
<1>2. DOMAIN e = DOMAIN s /\ \A j \in DOMAIN s : e[j] = IF j = i THEN [s[i] EXCEPT !.text = t] ELSE s[j]
  OBVIOUS
<1>3. [s[i] EXCEPT !.text = t] = [who |-> s[i].who, text |-> t] /\ [s[i] EXCEPT !.text = t] \in Drafts!Case
  BY <1>1 DEF Drafts!Case
<1>4. e = [j \in DOMAIN e |-> e[j]]
  OBVIOUS
<1> HIDE DEF e
<1>5. \A j \in DOMAIN s : e[j] \in Drafts!Case
  BY <1>1, <1>2, <1>3
<1>6. e \in [1 .. Len(s) -> Drafts!Case]
  BY <1>1, <1>2, <1>4, <1>5
<1>7. e \in Seq(Drafts!Case) /\ Len(e) = Len(s)
  BY <1>1, <1>6
<1>8. \A j \in DOMAIN s : e[j] = IF j = i THEN [who |-> s[i].who, text |-> t] ELSE s[j]
  BY <1>2, <1>3
<1> QED BY <1>7, <1>8 DEF e

\* A slot is a place in the list, or 0.
LEMMA SlotType ==
  ASSUME NEW rows \in Seq(Drafts!Case), NEW list \in Seq(Drafts!Case), NEW i
  PROVE  /\ Drafts!Slot(rows, list, i) \in Nat
         /\ (Drafts!Slot(rows, list, i) # 0 => Drafts!Slot(rows, list, i) \in DOMAIN list)
<1> DEFINE free == Drafts!Open(rows, list)
           rest == {k \in free : Drafts!Rank(free, k) = Drafts!Rank(Drafts!Loose(rows, list), i)}
           mine == IF Drafts!Exact(rows, list, i) # {} THEN Drafts!Exact(rows, list, i) ELSE rest
<1>1. free \subseteq DOMAIN list
  BY DEF Drafts!Open
<1>2. Drafts!Exact(rows, list, i) \subseteq DOMAIN list
  BY DEF Drafts!Exact, Drafts!With
<1>3. mine \subseteq DOMAIN list
  BY <1>1, <1>2
<1>4. Drafts!Slot(rows, list, i) = IF mine = {} THEN 0 ELSE CHOOSE k \in mine : TRUE
  BY DEF Drafts!Slot
<1>5. DOMAIN list \subseteq Nat
  BY DomFinite
<1> QED
  <2> HIDE DEF mine
  <2> QED BY <1>3, <1>4, <1>5

LEMMA SlotsType ==
  ASSUME NEW rows \in Seq(Drafts!Case), NEW list \in Seq(Drafts!Case)
  PROVE  /\ Drafts!Slots(rows, list) \in Seq(Nat)
         /\ DOMAIN Drafts!Slots(rows, list) = DOMAIN rows
         /\ \A i \in DOMAIN rows : Drafts!Slots(rows, list)[i] = Drafts!Slot(rows, list, i)
<1>1. \A i \in DOMAIN rows : Drafts!Slot(rows, list, i) \in Nat
  BY SlotType
<1>2. Drafts!Slots(rows, list) \in [1 .. Len(rows) -> Nat] /\ Len(rows) \in Nat
  BY <1>1 DEF Drafts!Slots
<1> QED BY <1>2 DEF Drafts!Slots

LEMMA SyncedType ==
  ASSUME NEW rows \in Seq(Drafts!Case), NEW prev \in Seq(Drafts!Case), NEW next \in Seq(Drafts!Case)
  PROVE  Drafts!Synced(rows, prev, next) \in Seq(Drafts!Case)
<1> DEFINE slot == Drafts!Slots(rows, prev)
           S == {i \in DOMAIN rows : slot[i] <= Len(next)}
           N == {k \in DOMAIN next : \A i \in DOMAIN rows : slot[i] # k}
           stays == Drafts!InOrder(S)
           new == Drafts!InOrder(N)
           kept == [n \in DOMAIN stays |->
                     IF slot[stays[n]] = 0 THEN rows[stays[n]] ELSE next[slot[stays[n]]]]
           come == [n \in DOMAIN new |-> next[new[n]]]
<1>1. S \subseteq Nat /\ IsFiniteSet(S) /\ N \subseteq Nat /\ IsFiniteSet(N)
  <2>1. S \subseteq DOMAIN rows /\ N \subseteq DOMAIN next
    OBVIOUS
  <2> HIDE DEF S, N
  <2> QED BY <2>1, DomFinite
<1>2. stays \in Seq(S) /\ new \in Seq(N)
  <2> HIDE DEF S, N
  <2> QED BY <1>1, InOrderType
<1>3. kept \in Seq(Drafts!Case)
  <2>1. ASSUME NEW n \in DOMAIN stays PROVE kept[n] \in Drafts!Case
    <3>1. stays[n] \in S
      <4> HIDE DEF S, stays
      <4> QED BY <1>2
    <3>2. stays[n] \in DOMAIN rows /\ slot[stays[n]] <= Len(next) /\ slot[stays[n]] \in Nat
      <4>1. stays[n] \in DOMAIN rows /\ slot[stays[n]] <= Len(next)
        <5> HIDE DEF stays, slot
        <5> QED BY <3>1
      <4>2. slot[stays[n]] \in Nat
        <5> HIDE DEF stays
        <5> QED BY <4>1, SlotsType, SlotType
      <4> QED BY <4>1, <4>2
    <3> HIDE DEF stays, slot
    <3>3. slot[stays[n]] # 0 => slot[stays[n]] \in DOMAIN next
      BY <3>2
    <3> QED BY <3>2, <3>3
  <2>2. DOMAIN stays = 1 .. Len(stays) /\ Len(stays) \in Nat
    <3> HIDE DEF stays, S
    <3> QED BY <1>2
  <2>3. kept \in [1 .. Len(stays) -> Drafts!Case]
    <3>1. DOMAIN kept = 1 .. Len(stays)
      BY <2>2
    <3>2. \A n \in 1 .. Len(stays) : kept[n] \in Drafts!Case
      <4> HIDE DEF kept, stays
      <4> QED BY <2>1, <2>2
    <3>3. kept = [n \in DOMAIN kept |-> kept[n]]
      OBVIOUS
    <3> HIDE DEF kept, stays
    <3> QED BY <3>1, <3>2, <3>3
  <2> HIDE DEF kept, stays
  <2> QED BY <2>2, <2>3
<1>4. come \in Seq(Drafts!Case)
  <2>1. ASSUME NEW n \in DOMAIN new PROVE come[n] \in Drafts!Case
    <3>1. new[n] \in N
      <4> HIDE DEF N, new
      <4> QED BY <1>2
    <3>2. new[n] \in DOMAIN next
      <4> HIDE DEF new
      <4> QED BY <3>1
    <3> HIDE DEF new
    <3> QED BY <3>2
  <2>2. DOMAIN new = 1 .. Len(new) /\ Len(new) \in Nat
    <3> HIDE DEF new, N
    <3> QED BY <1>2
  <2>3. come \in [1 .. Len(new) -> Drafts!Case]
    <3>1. DOMAIN come = 1 .. Len(new)
      BY <2>2
    <3>2. \A n \in 1 .. Len(new) : come[n] \in Drafts!Case
      <4> HIDE DEF come, new
      <4> QED BY <2>1, <2>2
    <3>3. come = [n \in DOMAIN come |-> come[n]]
      OBVIOUS
    <3> HIDE DEF come, new
    <3> QED BY <3>1, <3>2, <3>3
  <2> HIDE DEF come, new
  <2> QED BY <2>2, <2>3
<1>5. Drafts!Synced(rows, prev, next) = kept \o come
  BY DEF Drafts!Synced
<1> HIDE DEF kept, come
<1> QED BY <1>3, <1>4, <1>5

-----------------------------------------------------------------------------
(* Types.                                                                  *)

\* A write-back under way is the first of the chain.
UnderWay == write.step # "none" => chain # <<>>

\* Each write-back is of a row it has.
InChain == \A k \in DOMAIN chain : chain[k].at \in DOMAIN chain[k].rows

\* A sync knows the stamp it works for.
SyncFresh == sync.step # "none" => sync.fresh \in Seq(Texts)

TInv == Drafts!TypeOK /\ UnderWay /\ InChain /\ SyncFresh

LEMMA ImportedType == Drafts!Imported \in Seq(Drafts!Case) /\ Len(Drafts!Imported) = Len(Draft)
<1>1. DOMAIN Draft = 1 .. Len(Draft) /\ Len(Draft) \in Nat /\ \A i \in DOMAIN Draft : Draft[i] \in Texts
  BY SharedAssumption
<1>2. \A i \in DOMAIN Draft : [who |-> i, text |-> Draft[i]] \in Drafts!Case
  BY <1>1 DEF Drafts!Case
<1>3. Drafts!Imported \in [1 .. Len(Draft) -> Drafts!Case]
  BY <1>1, <1>2 DEF Drafts!Imported
<1> QED BY <1>1, <1>3

LEMMA TInvInit == Drafts!Init => TInv
<1> SUFFICES ASSUME Drafts!Init PROVE TInv
  OBVIOUS
<1>1. Draft \in Seq(Texts) /\ MaxEdits \in Nat /\ MaxMishaps \in Nat
  BY SharedAssumption
<1>2. watch \in Drafts!Watched
  BY <1>1, ImportedType DEF Drafts!Init, Drafts!Watched
<1>3. write = Drafts!NoWrite /\ sync = Drafts!NoSync /\ chain = <<>>
  BY DEF Drafts!Init
<1>4. write \in Drafts!Writing
  BY <1>3 DEF Drafts!NoWrite, Drafts!Writing
<1>5. sync \in Drafts!Syncing
  BY <1>3 DEF Drafts!NoSync, Drafts!Syncing
<1>6. Drafts!TypeOK
  <2>1. edits \in 0 .. MaxEdits /\ {outside, errors} \subseteq 0 .. MaxMishaps
    BY <1>1 DEF Drafts!Init
  <2>2. heard \in Seq(Seq(Texts)) /\ chain \in Seq(Drafts!Write)
    BY DEF Drafts!Init
  <2> QED BY <1>1, <1>2, <1>4, <1>5, <2>1, <2>2, ImportedType DEF Drafts!Init, Drafts!TypeOK
<1>7. write.step = "none" /\ sync.step = "none"
  BY <1>3 DEF Drafts!NoWrite, Drafts!NoSync
<1> QED BY <1>3, <1>6, <1>7 DEF TInv, UnderWay, InChain, SyncFresh

\* Queueing a write-back.
LEMMA QueuesType ==
  ASSUME TInv, NEW w \in Drafts!Write, w.at \in DOMAIN w.rows, Drafts!Queues(w)
  PROVE  chain' \in Seq(Drafts!Write) /\ (chain # <<>> => chain' # <<>>)
         /\ \A k \in DOMAIN chain' : chain'[k].at \in DOMAIN chain'[k].rows
<1>1. chain \in Seq(Drafts!Write) /\ \A k \in DOMAIN chain : chain[k].at \in DOMAIN chain[k].rows
  BY DEF TInv, Drafts!TypeOK, InChain
<1>2. CASE chain' = chain
  BY <1>1, <1>2
<1>3. CASE chain' = Append(chain, w)
  <2>1. chain' \in Seq(Drafts!Write) /\ Len(chain') = Len(chain) + 1 /\ Len(chain) \in Nat
    BY <1>1, <1>3
  <2>2. \A k \in 1 .. Len(chain') : chain'[k] = IF k = Len(chain) + 1 THEN w ELSE chain[k]
    BY <1>1, <1>3
  <2>3. DOMAIN chain' = 1 .. Len(chain') /\ DOMAIN chain = 1 .. Len(chain)
    BY <1>1, <2>1
  <2>4. ASSUME NEW k \in DOMAIN chain' PROVE chain'[k].at \in DOMAIN chain'[k].rows
    <3>1. CASE k = Len(chain) + 1
      BY <2>1, <2>2, <2>3, <3>1
    <3>2. CASE k # Len(chain) + 1
      <4>1. k \in DOMAIN chain /\ chain'[k] = chain[k]
        BY <2>1, <2>2, <2>3, <3>2
      <4> QED BY <4>1, <1>1
    <3> QED BY <3>1, <3>2
  <2>5. chain' # <<>>
    BY <2>1
  <2> QED BY <2>1, <2>4, <2>5
<1> QED BY <1>2, <1>3 DEF Drafts!Queues

LEMMA EditedType ==
  ASSUME TInv, NEW i \in DOMAIN queue, NEW to \in Texts \cup {Removed}, Drafts!Edited(i, to)
  PROVE  TInv'
<1>1. queue \in Seq(Drafts!Case) /\ queue' \in Seq(Drafts!Case)
  <2>1. queue \in Seq(Drafts!Case)
    BY DEF TInv, Drafts!TypeOK
  <2>2. CASE to = Removed
    BY <2>1, <2>2, RemoveType DEF Drafts!Edited
  <2>3. CASE to # Removed
    BY <2>1, <2>3, EditType DEF Drafts!Edited
  <2> QED BY <2>1, <2>2, <2>3
<1> DEFINE w == [rows |-> queue, at |-> i, to |-> to]
<1>2. w \in Drafts!Write /\ w.at \in DOMAIN w.rows
  <2>1. i \in Nat \ {0}
    BY <1>1
  <2> QED BY <1>1, <2>1 DEF Drafts!Write
<1>3. Drafts!Queues(w)
  BY DEF Drafts!Edited
<1>4. /\ chain' \in Seq(Drafts!Write) /\ (chain # <<>> => chain' # <<>>)
      /\ \A k \in DOMAIN chain' : chain'[k].at \in DOMAIN chain'[k].rows
  <2> HIDE DEF w
  <2> QED BY <1>2, <1>3, QueuesType
<1>5. edits' \in 0 .. MaxEdits
  BY SharedAssumption DEF Drafts!Edited, TInv, Drafts!TypeOK
<1>6. chain' = <<>> => latest' = Drafts!Nothing
  BY <1>4 DEF Drafts!Edited, TInv, Drafts!TypeOK
<1>7. Drafts!TypeOK'
  BY <1>1, <1>4, <1>5, <1>6 DEF Drafts!Edited, TInv, Drafts!TypeOK, Drafts!watcher
<1> QED BY <1>4, <1>7 DEF Drafts!Edited, TInv, UnderWay, InChain, SyncFresh

LEMMA TypesRowType ==
  ASSUME TInv, NEW t \in Texts, Drafts!TypesRow(t)
  PROVE  TInv'
<1>1. [who |-> Drafts!HandTyped, text |-> t] \in Drafts!Case
  <2>1. Len(Draft) \in Nat /\ MaxMishaps \in Nat /\ edits \in Nat
    BY SharedAssumption DEF TInv, Drafts!TypeOK
  <2> QED BY <2>1 DEF Drafts!Case, Drafts!HandTyped
<1>2. queue' \in Seq(Drafts!Case)
  BY <1>1 DEF TInv, Drafts!TypeOK, Drafts!TypesRow
<1>3. edits' \in 0 .. MaxEdits
  BY SharedAssumption DEF Drafts!TypesRow, TInv, Drafts!TypeOK
<1>4. Drafts!TypeOK'
  BY <1>2, <1>3 DEF Drafts!TypesRow, TInv, Drafts!TypeOK, Drafts!watcher
<1> QED BY <1>4 DEF Drafts!TypesRow, TInv, UnderWay, InChain, SyncFresh

\* A sync begun, or cancelled.
LEMMA BegunType ==
  ASSUME NEW w \in Drafts!Watched, NEW d \in Seq(Texts)
  PROVE  /\ Drafts!Begun(w, d) \in Drafts!Syncing
         /\ Drafts!Begun(w, d).step # "none" => Drafts!Begun(w, d).fresh \in Seq(Texts)
<1>1. w.snapshot \in Seq(Drafts!Case)
  BY DEF Drafts!Watched
<1>2. Drafts!NoSync \in Drafts!Syncing /\ Drafts!NoSync.step = "none"
  BY DEF Drafts!NoSync, Drafts!Syncing
<1> QED BY <1>1, <1>2 DEF Drafts!Begun, Drafts!Syncing

LEMMA RerendersType ==
  ASSUME TInv, NEW w \in Drafts!Watched, NEW d \in Seq(Texts), Drafts!Rerenders(w, d)
  PROVE  /\ watch' \in Drafts!Watched /\ detected' \in Seq(Texts)
         /\ sync' \in Drafts!Syncing
         /\ SyncFresh'
<1>1. CASE sync.step # "none"
  BY <1>1 DEF Drafts!Rerenders, TInv, Drafts!TypeOK, SyncFresh, Drafts!Syncing
<1>2. CASE sync.step = "none"
  BY <1>2, BegunType DEF Drafts!Rerenders, SyncFresh
<1> QED BY <1>1, <1>2

LEMMA HearsType == ASSUME TInv, Drafts!HearsChange PROVE TInv'
<1>1. heard \in Seq(Seq(Texts)) /\ heard # <<>>
  BY DEF TInv, Drafts!TypeOK, Drafts!HearsChange
<1>2. heard' \in Seq(Seq(Texts)) /\ Head(heard) \in Seq(Texts)
  BY <1>1 DEF Drafts!HearsChange
<1>3. watch \in Drafts!Watched
  BY DEF TInv, Drafts!TypeOK
<1>4. Drafts!Rerenders(watch, Head(heard))
  BY DEF Drafts!HearsChange
<1>5. /\ watch' \in Drafts!Watched /\ detected' \in Seq(Texts)
      /\ sync' \in Drafts!Syncing
      /\ SyncFresh'
  BY <1>2, <1>3, <1>4, RerendersType
<1>6. Drafts!TypeOK'
  BY <1>2, <1>5 DEF Drafts!HearsChange, TInv, Drafts!TypeOK, Drafts!watcher, Drafts!counters
<1> QED BY <1>5, <1>6 DEF Drafts!HearsChange, TInv, UnderWay, InChain

LEMMA SyncType ==
  ASSUME TInv, Drafts!SyncReads \/ Drafts!SyncCannotRead \/ Drafts!SyncLands \/ Drafts!SyncIsRetried
  PROVE  TInv'
<1>1. /\ file \in Seq(Drafts!Case) /\ queue \in Seq(Drafts!Case) /\ watch \in Drafts!Watched /\ detected \in Seq(Texts)
      /\ sync \in Drafts!Syncing
  BY DEF TInv, Drafts!TypeOK
<1>2. CASE Drafts!SyncReads
  <2>1. /\ sync' \in Drafts!Syncing
        /\ SyncFresh'
    BY <1>1, <1>2 DEF Drafts!SyncReads, TInv, SyncFresh, Drafts!Syncing
  <2> QED BY <1>2, <2>1
    DEF Drafts!SyncReads, TInv, Drafts!TypeOK, UnderWay, InChain, Drafts!watcher, Drafts!counters
<1>3. CASE Drafts!SyncCannotRead
  <2>1. /\ sync' \in Drafts!Syncing
        /\ SyncFresh'
    BY <1>1, <1>3 DEF Drafts!SyncCannotRead, TInv, SyncFresh, Drafts!Syncing
  <2>2. errors' \in 0 .. MaxMishaps
    BY <1>3, SharedAssumption DEF Drafts!SyncCannotRead, TInv, Drafts!TypeOK
  <2> QED BY <1>3, <2>1, <2>2
    DEF Drafts!SyncCannotRead, TInv, Drafts!TypeOK, UnderWay, InChain, Drafts!watcher
<1>4. CASE Drafts!SyncLands
  <2>1. sync.fresh \in Seq(Texts) /\ sync.read \in Seq(Drafts!Case) /\ sync.snap \in Seq(Drafts!Case)
    BY <1>1, <1>4 DEF Drafts!SyncLands, TInv, SyncFresh, Drafts!Syncing
  <2>2. queue' \in Seq(Drafts!Case) /\ watch' \in Drafts!Watched
    <3>1. CASE sync.step = "unread"
      BY <1>1, <1>4, <2>1, <3>1 DEF Drafts!SyncLands, Drafts!Watched
    <3>2. CASE sync.step # "unread"
      <4>1. Drafts!Synced(queue, sync.snap, sync.read) \in Seq(Drafts!Case)
        BY <1>1, <2>1, SyncedType
      <4> QED BY <1>4, <2>1, <3>2, <4>1 DEF Drafts!SyncLands, Drafts!Watched
    <3> QED BY <3>1, <3>2
  <2>3. sync' = Drafts!NoSync
    BY <1>4 DEF Drafts!SyncLands
  <2>4. /\ sync' \in Drafts!Syncing
        /\ SyncFresh'
    BY <2>3 DEF Drafts!NoSync, SyncFresh, Drafts!Syncing
  <2> QED BY <1>4, <2>2, <2>4
    DEF Drafts!SyncLands, TInv, Drafts!TypeOK, UnderWay, InChain, Drafts!watcher, Drafts!counters
<1>5. CASE Drafts!SyncIsRetried
  <2>1. sync' = Drafts!Begun(watch, detected)
    BY <1>5 DEF Drafts!SyncIsRetried
  <2>2. /\ sync' \in Drafts!Syncing
        /\ SyncFresh'
    BY <1>1, <2>1, BegunType DEF SyncFresh
  <2> QED BY <1>5, <2>2
    DEF Drafts!SyncIsRetried, TInv, Drafts!TypeOK, UnderWay, InChain, Drafts!watcher, Drafts!counters
<1> QED BY <1>2, <1>3, <1>4, <1>5

\* A write-back over.
LEMMA SettlesType ==
  ASSUME TInv, chain # <<>>, NEW memory \in Drafts!Watched \cup {Drafts!Nothing}, Drafts!Settles(memory)
  PROVE  /\ chain' \in Seq(Drafts!Write) /\ latest' \in Drafts!Watched \cup {Drafts!Nothing} /\ write' \in Drafts!Writing
         /\ chain' = <<>> => latest' = Drafts!Nothing
         /\ UnderWay' /\ InChain'
<1>1. chain \in Seq(Drafts!Write) /\ \A k \in DOMAIN chain : chain[k].at \in DOMAIN chain[k].rows
  BY DEF TInv, Drafts!TypeOK, InChain
<1>2. /\ chain' \in Seq(Drafts!Write) /\ Len(chain') = Len(chain) - 1
      /\ Len(chain) \in Nat /\ Len(chain) # 0
  BY <1>1 DEF Drafts!Settles
<1>3. \A k \in 1 .. Len(chain') : chain'[k] = chain[k + 1]
  BY <1>1, <1>2 DEF Drafts!Settles
<1>4. InChain'
  <2>1. ASSUME NEW k \in DOMAIN chain' PROVE chain'[k].at \in DOMAIN chain'[k].rows
    <3>1. k \in 1 .. Len(chain') /\ k + 1 \in DOMAIN chain
      BY <1>1, <1>2
    <3>2. chain'[k] = chain[k + 1]
      BY <3>1, <1>3
    <3> QED BY <3>1, <3>2, <1>1
  <2> QED BY <2>1 DEF InChain
<1>5. write' = Drafts!NoWrite /\ Drafts!NoWrite \in Drafts!Writing /\ Drafts!NoWrite.step = "none"
  BY DEF Drafts!Settles, Drafts!NoWrite, Drafts!Writing
<1>6. chain' = <<>> => Len(chain) = 1
  BY <1>2
<1> QED BY <1>2, <1>4, <1>5, <1>6 DEF Drafts!Settles, UnderWay

LEMMA BeginsType == ASSUME TInv, Drafts!WriteBegins PROVE TInv'
<1>1. /\ chain # <<>> /\ chain \in Seq(Drafts!Write) /\ watch \in Drafts!Watched
      /\ latest \in Drafts!Watched \cup {Drafts!Nothing}
  BY DEF TInv, Drafts!TypeOK, Drafts!WriteBegins
<1>2. Head(chain) \in Drafts!Write
  BY <1>1
<1>3. Drafts!Fresh \in Seq(Drafts!Case)
  <2>1. Drafts!Nothing.snapshot \in Seq(Drafts!Case)
    BY DEF Drafts!Nothing
  <2> QED BY <1>1, <2>1 DEF Drafts!Fresh, Drafts!Watched
<1> DEFINE slots == Drafts!Slots(Head(chain).rows, Drafts!Fresh)
<1>4. slots \in Seq(Nat)
  BY <1>2, <1>3, SlotsType DEF Drafts!Write
<1>5. CASE Drafts!Settles(latest)
  <2>1. /\ chain' \in Seq(Drafts!Write) /\ latest' \in Drafts!Watched \cup {Drafts!Nothing} /\ write' \in Drafts!Writing
        /\ chain' = <<>> => latest' = Drafts!Nothing
        /\ UnderWay' /\ InChain'
    BY <1>1, <1>5, SettlesType
  <2> QED BY <2>1 DEF Drafts!WriteBegins, TInv, Drafts!TypeOK, SyncFresh, Drafts!watcher, Drafts!counters
<1>6. CASE write' = [Drafts!NoWrite EXCEPT !.step = "asked", !.slots = slots] /\ UNCHANGED <<chain, latest>>
  <2> HIDE DEF slots
  <2>1. Drafts!NoWrite \in Drafts!Writing
    BY DEF Drafts!NoWrite, Drafts!Writing
  <2>2. write' \in Drafts!Writing
    BY <1>4, <1>6, <2>1 DEF Drafts!Writing
  <2> QED BY <1>1, <1>6, <2>2
    DEF Drafts!WriteBegins, TInv, Drafts!TypeOK, UnderWay, InChain, SyncFresh, Drafts!watcher, Drafts!counters
<1> QED BY <1>5, <1>6 DEF Drafts!WriteBegins

\* The case a write-back goes to.
LEMMA TargetType ==
  ASSUME file \in Seq(Drafts!Case), NEW slots, NEW i
  PROVE  Drafts!Target(slots, i) = 0 \/ Drafts!Target(slots, i) \in DOMAIN file
<1> DEFINE first == {k \in Drafts!Unnamed(slots) : Drafts!Rank(Drafts!Unnamed(slots), k) = Drafts!Rank(Drafts!Missing(slots), i)}
<1>1. first \subseteq DOMAIN file
  BY DEF Drafts!Unnamed
<1>2. Drafts!Target(slots, i) = IF slots[i] \in DOMAIN file THEN slots[i]
                         ELSE IF first = {} THEN 0 ELSE CHOOSE k \in first : TRUE
  BY DEF Drafts!Target
<1> HIDE DEF first
<1> QED BY <1>1, <1>2

LEMMA AppliedType ==
  ASSUME file \in Seq(Drafts!Case), NEW w \in Drafts!Write, w.at \in DOMAIN w.rows,
         NEW k, k = 0 \/ k \in DOMAIN file
  PROVE  Drafts!Applied(w, k) \in Seq(Drafts!Case)
<1>1. w.rows \in Seq(Drafts!Case) /\ w.to \in Texts \cup {Removed}
  BY DEF Drafts!Write
<1> DEFINE case == [who |-> w.rows[w.at].who, text |-> w.to]
<1>2. w.to # Removed => case \in Drafts!Case
  <2>1. w.rows[w.at] \in Drafts!Case
    BY <1>1
  <2> QED BY <1>1, <2>1 DEF Drafts!Case
<1>3. 0 \notin DOMAIN file
  OBVIOUS
<1>4. CASE w.to = Removed
  <2>1. k \in DOMAIN file => Drafts!RemoveAt(file, k) \in Seq(Drafts!Case)
    BY RemoveType
  <2> QED BY <1>3, <1>4, <2>1 DEF Drafts!Applied
<1>5. CASE w.to # Removed
  <2>1. case \in Drafts!Case
    BY <1>2, <1>5
  <2>2. Append(file, case) \in Seq(Drafts!Case) /\ (k \in DOMAIN file => [file EXCEPT ![k] = case] \in Seq(Drafts!Case))
    <3> HIDE DEF case
    <3> QED BY <2>1
  <2>3. Drafts!Applied(w, k) = IF k = 0 THEN Append(file, case) ELSE [file EXCEPT ![k] = case]
    BY <1>5 DEF Drafts!Applied
  <2> HIDE DEF case
  <2> QED BY <2>2, <2>3
<1> QED BY <1>4, <1>5

LEMMA ReadsType == ASSUME TInv, Drafts!SaveReads PROVE TInv'
<1>1. /\ chain # <<>> /\ chain \in Seq(Drafts!Write) /\ file \in Seq(Drafts!Case) /\ write \in Drafts!Writing
      /\ \A k \in DOMAIN chain : chain[k].at \in DOMAIN chain[k].rows
  BY DEF TInv, Drafts!TypeOK, Drafts!SaveReads, UnderWay, InChain
<1> DEFINE w == Head(chain)
           k == Drafts!Target(write.slots, w.at)
<1>2. w \in Drafts!Write /\ w.at \in DOMAIN w.rows
  <2>1. w = chain[1] /\ 1 \in DOMAIN chain
    BY <1>1
  <2> QED BY <1>1, <2>1
<1>3. k = 0 \/ k \in DOMAIN file
  BY <1>1, TargetType
<1> HIDE DEF w, k
<1>4. Drafts!Applied(w, k) \in Seq(Drafts!Case)
  BY <1>1, <1>2, <1>3, AppliedType
<1>5. Drafts!Stamp(Drafts!Applied(w, k)) \in Seq(Texts)
  BY <1>4, StampType
<1>6. (IF k = 0 THEN Drafts!NoCase ELSE file[k]) \in Drafts!Case \cup {Drafts!NoCase}
  BY <1>1, <1>3
<1>7. /\ write' = [write EXCEPT !.step = "renaming", !.out = Drafts!Applied(w, k),
                                !.hit = IF k = 0 THEN Drafts!NoCase ELSE file[k]]
      /\ expected' = Drafts!Stamp(Drafts!Applied(w, k))
  BY DEF Drafts!SaveReads, w, k
<1>8. write' \in Drafts!Writing
  BY <1>1, <1>4, <1>6, <1>7 DEF Drafts!Writing
<1> QED BY <1>1, <1>5, <1>7, <1>8
    DEF Drafts!SaveReads, TInv, Drafts!TypeOK, UnderWay, InChain, SyncFresh, Drafts!window, Drafts!counters

LEMMA SavesType == ASSUME TInv, Drafts!SaveRenames \/ Drafts!SaveFails PROVE TInv'
<1>1. write \in Drafts!Writing /\ chain # <<>>
  BY DEF TInv, Drafts!TypeOK, UnderWay, Drafts!SaveRenames, Drafts!SaveFails
<1>2. CASE Drafts!SaveRenames
  <2>1. write' \in Drafts!Writing /\ write.out \in Seq(Drafts!Case)
    BY <1>1, <1>2 DEF Drafts!SaveRenames, Drafts!Writing
  <2> QED BY <1>1, <1>2, <2>1
      DEF Drafts!SaveRenames, TInv, Drafts!TypeOK, UnderWay, InChain, SyncFresh, Drafts!window, Drafts!watcher, Drafts!counters
<1>3. CASE Drafts!SaveFails
  <2>1. write' \in Drafts!Writing
    BY <1>1, <1>3 DEF Drafts!SaveFails, Drafts!Writing
  <2>2. errors' \in 0 .. MaxMishaps
    BY <1>3, SharedAssumption DEF Drafts!SaveFails, TInv, Drafts!TypeOK
  <2> QED BY <1>1, <1>3, <2>1, <2>2
      DEF Drafts!SaveFails, TInv, Drafts!TypeOK, UnderWay, InChain, SyncFresh, Drafts!window, Drafts!watcher
<1> QED BY <1>2, <1>3

LEMMA EndsType == ASSUME TInv, Drafts!WriteReturns \/ Drafts!WriteFails PROVE TInv'
<1>1. write \in Drafts!Writing /\ chain # <<>> /\ latest \in Drafts!Watched \cup {Drafts!Nothing}
  BY DEF TInv, Drafts!TypeOK, UnderWay, Drafts!WriteReturns, Drafts!WriteFails
<1>2. CASE Drafts!WriteReturns
  <2> DEFINE w == [stamp |-> Drafts!Stamp(write.out), snapshot |-> write.out]
  <2>1. write.out \in Seq(Drafts!Case)
    BY <1>1 DEF Drafts!Writing
  <2>2. w \in Drafts!Watched /\ w.stamp \in Seq(Texts)
    BY <2>1, StampType DEF Drafts!Watched
  <2>3. Drafts!Settles(w) /\ Drafts!Rerenders(w, w.stamp)
    BY <1>2 DEF Drafts!WriteReturns
  <2> HIDE DEF w
  <2>4. /\ chain' \in Seq(Drafts!Write) /\ latest' \in Drafts!Watched \cup {Drafts!Nothing} /\ write' \in Drafts!Writing
        /\ chain' = <<>> => latest' = Drafts!Nothing
        /\ UnderWay' /\ InChain'
    BY <1>1, <2>2, <2>3, SettlesType
  <2>5. watch' \in Drafts!Watched /\ detected' \in Seq(Texts) /\ sync' \in Drafts!Syncing /\ SyncFresh'
    BY <2>2, <2>3, RerendersType
  <2> QED BY <1>2, <2>4, <2>5 DEF Drafts!WriteReturns, TInv, Drafts!TypeOK, Drafts!watcher, Drafts!counters
<1>3. CASE Drafts!WriteFails
  <2>1. /\ chain' \in Seq(Drafts!Write) /\ latest' \in Drafts!Watched \cup {Drafts!Nothing} /\ write' \in Drafts!Writing
        /\ chain' = <<>> => latest' = Drafts!Nothing
        /\ UnderWay' /\ InChain'
    BY <1>1, <1>3, SettlesType DEF Drafts!WriteFails
  <2> QED BY <1>3, <2>1
    DEF Drafts!WriteFails, TInv, Drafts!TypeOK, SyncFresh, Drafts!watcher, Drafts!counters
<1> QED BY <1>2, <1>3

LEMMA LooksType == ASSUME TInv, Drafts!WatchLooks PROVE TInv'
<1>1. Drafts!Stamp(file) \in Seq(Texts)
  BY StampType DEF TInv, Drafts!TypeOK
<1>2. heard \in Seq(Seq(Texts)) /\ Append(heard, Drafts!Stamp(file)) \in Seq(Seq(Texts))
  BY <1>1 DEF TInv, Drafts!TypeOK
<1>3. Drafts!TypeOK'
  BY <1>1, <1>2 DEF Drafts!WatchLooks, TInv, Drafts!TypeOK, Drafts!window, Drafts!counters
<1> QED BY <1>3 DEF Drafts!WatchLooks, TInv, UnderWay, InChain, SyncFresh, Drafts!window

\* Someone else writes the file.
LEMMA OutsideType ==
  ASSUME TInv, NEW cases \in Seq(Drafts!Case), Drafts!Outside(cases)
  PROVE  TInv'
<1>1. outside' \in 0 .. MaxMishaps
  BY SharedAssumption DEF Drafts!Outside, TInv, Drafts!TypeOK
<1>2. Drafts!TypeOK'
  BY <1>1 DEF Drafts!Outside, TInv, Drafts!TypeOK, Drafts!window, Drafts!watcher
<1> QED BY <1>2 DEF Drafts!Outside, TInv, UnderWay, InChain, SyncFresh, Drafts!window

LEMMA AssistantType ==
  ASSUME TInv, Drafts!AssistantWrites
  PROVE  \E cases \in Seq(Drafts!Case) : Drafts!Outside(cases)
<1>1. file \in Seq(Drafts!Case)
  BY DEF TInv, Drafts!TypeOK
<1>2. ASSUME NEW t \in Texts, Drafts!AssistantAdds(t)
      PROVE  \E cases \in Seq(Drafts!Case) : Drafts!Outside(cases)
  <2>1. [who |-> Drafts!Newcomer, text |-> t] \in Drafts!Case
    <3>1. Len(Draft) \in Nat /\ outside \in Nat
      BY SharedAssumption DEF TInv, Drafts!TypeOK
    <3> QED BY <3>1 DEF Drafts!Case, Drafts!Newcomer
  <2>2. Append(file, [who |-> Drafts!Newcomer, text |-> t]) \in Seq(Drafts!Case)
    BY <1>1, <2>1
  <2> QED BY <1>2, <2>2 DEF Drafts!AssistantAdds
<1>3. ASSUME NEW t \in Texts, NEW i \in Drafts!Places, Drafts!AssistantEdits(i, t)
      PROVE  \E cases \in Seq(Drafts!Case) : Drafts!Outside(cases)
  <2>1. i \in DOMAIN file
    BY <1>3 DEF Drafts!AssistantEdits
  <2>2. [file EXCEPT ![i].text = t] \in Seq(Drafts!Case)
    BY <1>1, <2>1, EditType
  <2> QED BY <1>3, <2>2 DEF Drafts!AssistantEdits
<1>4. ASSUME NEW i \in Drafts!Places, Drafts!AssistantRemoves(i)
      PROVE  \E cases \in Seq(Drafts!Case) : Drafts!Outside(cases)
  <2>1. i \in DOMAIN file
    BY <1>4 DEF Drafts!AssistantRemoves
  <2>2. Drafts!RemoveAt(file, i) \in Seq(Drafts!Case)
    BY <1>1, <2>1, RemoveType
  <2> QED BY <1>4, <2>2 DEF Drafts!AssistantRemoves
<1> QED BY <1>2, <1>3, <1>4 DEF Drafts!AssistantWrites

LEMMA TInvStep == TInv /\ [Drafts!Next]_(Drafts!vars) => TInv'
<1> SUFFICES ASSUME TInv, [Drafts!Next]_(Drafts!vars) PROVE TInv'
  OBVIOUS
<1>1. CASE Drafts!PersonEdits
  <2>1. ASSUME NEW t \in Texts, Drafts!TypesRow(t) PROVE TInv'
    BY <2>1, TypesRowType
  <2>2. ASSUME NEW t \in Texts, NEW i \in Drafts!Places, Drafts!EditsRow(i, t) PROVE TInv'
    BY <2>2, EditedType DEF Drafts!EditsRow
  <2>3. ASSUME NEW i \in Drafts!Places, Drafts!RemovesRow(i) PROVE TInv'
    BY <2>3, EditedType DEF Drafts!RemovesRow
  <2> QED BY <1>1, <2>1, <2>2, <2>3 DEF Drafts!PersonEdits
<1>2. CASE Drafts!AssistantWrites
  BY <1>2, AssistantType, OutsideType
<1>3. CASE Drafts!WriteGoesOn
  BY <1>3, BeginsType, ReadsType, SavesType, EndsType DEF Drafts!WriteGoesOn
<1>4. CASE Drafts!SyncGoesOn
  BY <1>4, SyncType DEF Drafts!SyncGoesOn
<1>5. CASE Drafts!HearsChange
  BY <1>5, HearsType
<1>6. CASE Drafts!WatchLooks
  BY <1>6, LooksType
<1>7. CASE UNCHANGED Drafts!vars
  BY <1>7
    DEF Drafts!vars, Drafts!window, Drafts!watcher, Drafts!counters, TInv, Drafts!TypeOK, UnderWay, InChain, SyncFresh
<1> QED BY <1>1, <1>2, <1>3, <1>4, <1>5, <1>6, <1>7 DEF Drafts!Next

-----------------------------------------------------------------------------
(* Twins: the app's write-backs alone.                                     *)

Calm == outside = 0 /\ errors = 0 /\ ~landed

\* A file leads a list of rows that begins with its cases; what was typed by
\* hand comes after them.
Leads(f, rows) == Len(f) <= Len(rows) /\ \A i \in 1 .. Len(f) : rows[i] = f[i]

\* What a write-back makes of a file that leads its rows.
After(w, f) ==
  IF w.at \notin 1 .. Len(f) THEN f
  ELSE IF w.to = Removed THEN Drafts!RemoveAt(f, w.at) ELSE [f EXCEPT ![w.at].text = w.to]

\* files[k] is what the file is when the k-th write-back of the chain begins.
Story(files, ch, rows) ==
  /\ files \in Seq(Seq(Drafts!Case)) /\ Len(files) = Len(ch) + 1
  /\ \A k \in 1 .. Len(ch) : Leads(files[k], ch[k].rows) /\ files[k + 1] = After(ch[k], files[k])
  /\ Leads(files[Len(ch) + 1], rows)
  /\ \A j, k \in 1 .. Len(ch) + 1 : j <= k => Len(files[k]) <= Len(files[j])

\* How far the write-back under way has taken the file.
StandsAt(files) ==
  /\ watch.snapshot = files[1] /\ latest \in {Drafts!Nothing, watch}
  /\ file = IF write.step = "written" THEN files[2] ELSE files[1]
  /\ write.step # "failed"
  /\ write.step # "none" => chain[1].at \in 1 .. Len(files[1])
  /\ write.step = "asked" => write.slots = Drafts!Slots(chain[1].rows, files[1])
  /\ write.step \in {"renaming", "written"} => write.out = files[2]
  /\ write.step = "renaming" => write.hit = files[1][chain[1].at]

Twins == Calm => \E files \in Seq(Seq(Drafts!Case)) : Story(files, chain, queue) /\ StandsAt(files)

\* The rows a file leads: each of its cases is the row in its place, and no
\* other row has a slot.
LEMMA LeadsSlot ==
  ASSUME NEW f \in Seq(Drafts!Case), NEW rows \in Seq(Drafts!Case), Leads(f, rows), NEW i \in DOMAIN rows
  PROVE  Drafts!Slot(rows, f, i) = IF i \in 1 .. Len(f) THEN i ELSE 0
<1>0. /\ DOMAIN f = 1 .. Len(f) /\ DOMAIN rows = 1 .. Len(rows) /\ Len(f) \in Nat /\ Len(rows) \in Nat
      /\ Len(f) <= Len(rows) /\ \A j \in 1 .. Len(f) : rows[j] = f[j]
  BY DEF Leads
<1>1. ASSUME NEW j \in DOMAIN rows
      PROVE  Drafts!Exact(rows, f, j) = IF j \in 1 .. Len(f) THEN {j} ELSE {}
  <2> DEFINE t == rows[j].text
             F == Drafts!With(f, t)
             R == Drafts!With(rows, t)
  <2>1. F = {k \in 1 .. Len(f) : f[k].text = t} /\ R = {k \in 1 .. Len(rows) : rows[k].text = t}
    BY <1>0 DEF Drafts!With
  <2>2. F \subseteq R /\ \A k \in R : k <= Len(f) => k \in F
    BY <1>0, <2>1
  <2>3. F \subseteq Nat /\ IsFiniteSet(F) /\ R \subseteq Nat /\ IsFiniteSet(R)
    <3>1. F \subseteq DOMAIN f /\ R \subseteq DOMAIN rows
      BY <1>0, <2>1
    <3> HIDE DEF F, R
    <3> QED BY <3>1, DomFinite
  <2>4. j \in R
    BY <1>0, <2>1
  <2>5. Drafts!Exact(rows, f, j) = {k \in F : Drafts!Rank(F, k) = Drafts!Rank(R, j)}
    BY DEF Drafts!Exact
  <2>6. CASE j \in 1 .. Len(f)
    <3>1. j \in F
      BY <1>0, <2>1, <2>6
    <3>2. {k \in F : k <= j} = {k \in R : k <= j}
      <4>1. \A k \in R : k <= j => k \in F
        BY <1>0, <2>2, <2>3, <2>6
      <4> HIDE DEF F, R
      <4> QED BY <4>1, <2>2
    <3>3. Drafts!Rank(F, j) = Drafts!Rank(R, j)
      BY <3>2 DEF Drafts!Rank
    <3>4. ASSUME NEW k \in F, Drafts!Rank(F, k) = Drafts!Rank(R, j) PROVE k = j
      <4> HIDE DEF F, R
      <4> QED BY <2>3, <3>1, <3>3, <3>4, RankApart
    <3> HIDE DEF F, R
    <3> QED BY <2>5, <2>6, <3>1, <3>3, <3>4
  <2>7. CASE j \notin 1 .. Len(f)
    <3>1. ASSUME NEW k \in F PROVE Drafts!Rank(F, k) # Drafts!Rank(R, j)
      <4> DEFINE A == {x \in F : x <= k}
                 B == {x \in R : x <= j}
      <4>1. k < j
        BY <1>0, <2>1, <2>7
      <4>2. A \subseteq B /\ j \in B /\ j \notin A
        <5>1. \A x \in F : x <= k => x \in R /\ x <= j
          BY <2>2, <2>3, <4>1, <1>0
        <5>2. j <= j /\ ~(j <= k)
          BY <4>1, <2>3, <1>0
        <5> HIDE DEF F, R
        <5> QED BY <5>1, <5>2, <2>4
      <4>3. IsFiniteSet(B)
        <5>1. B \subseteq R
          OBVIOUS
        <5> HIDE DEF B, R
        <5> QED BY <5>1, <2>3, FS_Subset
      <4>4. Cardinality(A) # Cardinality(B)
        <5> HIDE DEF A, B
        <5> QED BY <4>2, <4>3, FS_Subset
      <4> QED BY <4>4, DraftsCounts DEF Drafts!Rank
    <3> HIDE DEF F, R
    <3> QED BY <2>5, <2>7, <3>1
  <2> QED BY <2>6, <2>7
<1>2. Drafts!Open(rows, f) = {}
  <2>1. \A k \in 1 .. Len(f) : k \in DOMAIN rows /\ k \in Drafts!Exact(rows, f, k)
    BY <1>0, <1>1
  <2> QED BY <1>0, <2>1 DEF Drafts!Open
<1>3. CASE i \in 1 .. Len(f)
  <2>1. Drafts!Exact(rows, f, i) = {i}
    BY <1>1, <1>3
  <2>2. Drafts!Slot(rows, f, i) = CHOOSE k \in {i} : TRUE
    BY <2>1 DEF Drafts!Slot
  <2> QED BY <2>2, <1>3
<1>4. CASE i \notin 1 .. Len(f)
  <2>1. Drafts!Exact(rows, f, i) = {}
    BY <1>1, <1>4
  <2> QED BY <2>1, <1>2, <1>4 DEF Drafts!Slot
<1> QED BY <1>3, <1>4

\* A file with cases owns a row of any list: an edit is then queued.
LEMMA SomeSlot ==
  ASSUME NEW f \in Seq(Drafts!Case), NEW rows \in Seq(Drafts!Case), f # <<>>, rows # <<>>
  PROVE  \E i \in DOMAIN rows : Drafts!Slot(rows, f, i) # 0
<1>0. /\ DOMAIN f = 1 .. Len(f) /\ DOMAIN rows = 1 .. Len(rows) /\ Len(f) \in Nat /\ Len(rows) \in Nat
      /\ 1 \in DOMAIN f /\ 1 \in DOMAIN rows
  OBVIOUS
<1>1. CASE \E i \in DOMAIN rows : Drafts!Exact(rows, f, i) # {}
  <2>1. PICK i \in DOMAIN rows : Drafts!Exact(rows, f, i) # {}
    BY <1>1
  <2>2. Drafts!Slot(rows, f, i) = CHOOSE k \in Drafts!Exact(rows, f, i) : TRUE
    BY <2>1 DEF Drafts!Slot
  <2>3. Drafts!Slot(rows, f, i) \in Drafts!Exact(rows, f, i)
    BY <2>1, <2>2
  <2>4. Drafts!Slot(rows, f, i) \in DOMAIN f
    BY <2>3 DEF Drafts!Exact, Drafts!With
  <2> QED BY <1>0, <2>1, <2>4
<1>2. CASE \A i \in DOMAIN rows : Drafts!Exact(rows, f, i) = {}
  <2>1. Drafts!Loose(rows, f) = 1 .. Len(rows) /\ Drafts!Open(rows, f) = 1 .. Len(f)
    BY <1>0, <1>2 DEF Drafts!Loose, Drafts!Open
  <2>2. {j \in 1 .. Len(rows) : j <= 1} = {1} /\ {j \in 1 .. Len(f) : j <= 1} = {1}
    BY <1>0
  <2>3. Drafts!Rank(Drafts!Open(rows, f), 1) = Drafts!Rank(Drafts!Loose(rows, f), 1)
    BY <2>1, <2>2 DEF Drafts!Rank
  <2> DEFINE rest == {k \in Drafts!Open(rows, f) : Drafts!Rank(Drafts!Open(rows, f), k) = Drafts!Rank(Drafts!Loose(rows, f), 1)}
  <2>4. 1 \in rest /\ rest \subseteq DOMAIN f
    BY <1>0, <2>1, <2>3
  <2>5. Drafts!Slot(rows, f, 1) = CHOOSE k \in rest : TRUE
    <3>1. Drafts!Exact(rows, f, 1) = {}
      BY <1>0, <1>2
    <3> DEFINE mine == IF Drafts!Exact(rows, f, 1) # {} THEN Drafts!Exact(rows, f, 1) ELSE rest
    <3>2. Drafts!Slot(rows, f, 1) = IF mine = {} THEN 0 ELSE CHOOSE k \in mine : TRUE
      BY DEF Drafts!Slot
    <3>3. mine = rest
      BY <3>1
    <3> HIDE DEF mine
    <3> HIDE DEF rest
    <3> QED BY <3>2, <3>3, <2>4
  <2>6. Drafts!Slot(rows, f, 1) \in DOMAIN f
    <3> HIDE DEF rest
    <3> QED BY <2>4, <2>5
  <2> QED BY <1>0, <2>6
<1> QED BY <1>1, <1>2

\* An edit leaves the file it will make in the lead.
LEMMA LeadsAfter ==
  ASSUME NEW f \in Seq(Drafts!Case), NEW rows \in Seq(Drafts!Case), Leads(f, rows),
         NEW i \in DOMAIN rows, NEW to \in Texts \cup {Removed},
         NEW w, w.at = i, w.to = to
  PROVE  /\ After(w, f) \in Seq(Drafts!Case) /\ Len(After(w, f)) <= Len(f)
         /\ Leads(After(w, f), IF to = Removed THEN Drafts!RemoveAt(rows, i) ELSE [rows EXCEPT ![i].text = to])
<1>0. /\ DOMAIN f = 1 .. Len(f) /\ DOMAIN rows = 1 .. Len(rows) /\ Len(f) \in Nat /\ Len(rows) \in Nat
      /\ Len(f) <= Len(rows) /\ \A j \in 1 .. Len(f) : rows[j] = f[j]
  BY DEF Leads
<1>1. CASE to = Removed
  <2> DEFINE new == Drafts!RemoveAt(rows, i)
  <2>1. /\ new \in Seq(Drafts!Case) /\ Len(new) = Len(rows) - 1
        /\ \A j \in 1 .. Len(rows) - 1 : new[j] = IF j < i THEN rows[j] ELSE rows[j + 1]
    BY RemoveType
  <2>2. CASE i \in 1 .. Len(f)
    <3> DEFINE g == Drafts!RemoveAt(f, i)
    <3>1. /\ g \in Seq(Drafts!Case) /\ Len(g) = Len(f) - 1
          /\ \A j \in 1 .. Len(f) - 1 : g[j] = IF j < i THEN f[j] ELSE f[j + 1]
      BY <1>0, <2>2, RemoveType
    <3>2. After(w, f) = g
      BY <1>1, <2>2 DEF After
    <3> HIDE DEF g, new
    <3>3. ASSUME NEW j \in 1 .. Len(g) PROVE new[j] = g[j]
      <4>1. j \in 1 .. Len(f) - 1 /\ j \in 1 .. Len(rows) - 1 /\ j \in 1 .. Len(f) /\ j + 1 \in 1 .. Len(f)
        BY <1>0, <3>1
      <4> QED BY <1>0, <2>1, <3>1, <4>1
    <3>4. Leads(g, new)
      BY <1>0, <2>1, <3>1, <3>3 DEF Leads
    <3> QED BY <1>0, <1>1, <3>1, <3>2, <3>4 DEF new
  <2>3. CASE i \notin 1 .. Len(f)
    <3>1. After(w, f) = f /\ Len(f) < i
      BY <1>0, <2>3 DEF After
    <3> HIDE DEF new
    <3>2. ASSUME NEW j \in 1 .. Len(f) PROVE new[j] = f[j]
      <4>1. j \in 1 .. Len(rows) - 1 /\ j < i
        BY <1>0, <3>1
      <4> QED BY <1>0, <2>1, <4>1
    <3>3. Len(f) <= Len(new)
      BY <1>0, <2>1, <3>1
    <3> QED BY <1>0, <1>1, <3>1, <3>2, <3>3 DEF Leads, new
  <2> QED BY <2>2, <2>3
<1>2. CASE to # Removed
  <2> DEFINE new == [rows EXCEPT ![i].text = to]
  <2>0. to \in Texts
    BY <1>2
  <2>1. /\ new \in Seq(Drafts!Case) /\ Len(new) = Len(rows)
        /\ \A j \in DOMAIN rows : new[j] = IF j = i THEN [who |-> rows[i].who, text |-> to] ELSE rows[j]
    BY <2>0, EditType
  <2>2. CASE i \in 1 .. Len(f)
    <3> DEFINE g == [f EXCEPT ![i].text = to]
    <3>1. /\ g \in Seq(Drafts!Case) /\ Len(g) = Len(f)
          /\ \A j \in DOMAIN f : g[j] = IF j = i THEN [who |-> f[i].who, text |-> to] ELSE f[j]
      BY <1>0, <2>0, <2>2, EditType
    <3>2. After(w, f) = g
      BY <1>2, <2>2 DEF After
    <3> HIDE DEF g, new
    <3>3. ASSUME NEW j \in 1 .. Len(g) PROVE new[j] = g[j]
      <4>1. j \in DOMAIN f /\ j \in DOMAIN rows /\ rows[j] = f[j] /\ rows[i] = f[i]
        BY <1>0, <2>2, <3>1
      <4> QED BY <2>1, <3>1, <4>1
    <3>4. Leads(g, new)
      BY <1>0, <2>1, <3>1, <3>3 DEF Leads
    <3> QED BY <1>0, <1>2, <3>1, <3>2, <3>4 DEF new
  <2>3. CASE i \notin 1 .. Len(f)
    <3>1. After(w, f) = f
      BY <2>3 DEF After
    <3> HIDE DEF new
    <3>2. Leads(f, new)
      BY <1>0, <2>1, <2>3 DEF Leads
    <3> QED BY <1>0, <1>2, <3>1, <3>2 DEF new
  <2> QED BY <2>2, <2>3
<1> QED BY <1>1, <1>2

\* What a write-back makes of its rows.
Became(w) == IF w.to = Removed THEN Drafts!RemoveAt(w.rows, w.at) ELSE [w.rows EXCEPT ![w.at].text = w.to]

\* An edit that is queued.
LEMMA StoryGoesOn ==
  ASSUME NEW files, NEW ch \in Seq(Drafts!Write), NEW w \in Drafts!Write, w.at \in DOMAIN w.rows,
         Story(files, ch, w.rows)
  PROVE  \E more \in Seq(Seq(Drafts!Case)) :
           Story(more, Append(ch, w), Became(w)) /\ \A k \in 1 .. Len(ch) + 1 : more[k] = files[k]
<1> DEFINE n == Len(ch) + 1
           f == files[n]
           g == After(w, f)
           more == Append(files, g)
           ch2 == Append(ch, w)
<1>0. /\ Len(ch) \in Nat /\ files \in Seq(Seq(Drafts!Case)) /\ Len(files) = Len(ch) + 1
      /\ \A k \in 1 .. Len(ch) : Leads(files[k], ch[k].rows) /\ files[k + 1] = After(ch[k], files[k])
      /\ Leads(f, w.rows)
      /\ \A j, k \in 1 .. Len(ch) + 1 : j <= k => Len(files[k]) <= Len(files[j])
  BY DEF Story
<1>1. \A k \in 1 .. n : files[k] \in Seq(Drafts!Case) /\ Len(files[k]) \in Nat
  BY <1>0
<1>2. n \in 1 .. n /\ f \in Seq(Drafts!Case)
  BY <1>0, <1>1
<1>3. w.to \in Texts \cup {Removed} /\ w.rows \in Seq(Drafts!Case)
  BY DEF Drafts!Write
<1>4. g \in Seq(Drafts!Case) /\ Len(g) <= Len(f) /\ Leads(g, Became(w))
  <2> HIDE DEF f
  <2> QED BY <1>0, <1>2, <1>3, LeadsAfter DEF Became
<1> HIDE DEF g
<1>5. /\ more \in Seq(Seq(Drafts!Case)) /\ Len(more) = n + 1
      /\ \A k \in 1 .. n : more[k] = files[k]
      /\ more[n + 1] = g
  BY <1>0, <1>4
<1>6. /\ Len(ch2) = n /\ \A k \in 1 .. Len(ch) : ch2[k] = ch[k]
      /\ ch2[n] = w
  BY <1>0
<1> HIDE DEF more, ch2
<1>7. ASSUME NEW k \in 1 .. n PROVE Leads(more[k], ch2[k].rows) /\ more[k + 1] = After(ch2[k], more[k])
  <2>1. CASE k = n
    BY <1>0, <1>5, <1>6, <2>1 DEF g
  <2>2. CASE k # n
    <3>1. k \in 1 .. Len(ch) /\ k + 1 \in 1 .. n
      BY <1>0, <2>2
    <3> QED BY <1>0, <1>5, <1>6, <3>1
  <2> QED BY <2>1, <2>2
<1>8. ASSUME NEW j \in 1 .. n + 1, NEW k \in 1 .. n + 1, j <= k PROVE Len(more[k]) <= Len(more[j])
  <2>1. CASE k \in 1 .. n
    <3>1. j \in 1 .. n
      BY <1>0, <1>8, <2>1
    <3> QED BY <1>0, <1>5, <1>8, <2>1, <3>1
  <2>2. CASE k = n + 1
    <3>1. CASE j = n + 1
      <4>1. Len(more[j]) \in Nat
        BY <1>4, <1>5, <3>1
      <4> QED BY <2>2, <3>1, <4>1
    <3>2. CASE j \in 1 .. n
      <4>1. Len(f) <= Len(files[j])
        BY <1>0, <1>2, <3>2
      <4>2. Len(f) \in Nat /\ Len(files[j]) \in Nat /\ Len(g) \in Nat
        BY <1>1, <1>2, <1>4, <3>2
      <4> QED BY <1>4, <1>5, <2>2, <3>2, <4>1, <4>2
    <3> QED BY <1>0, <3>1, <3>2
  <2> QED BY <1>0, <2>1, <2>2
<1>9. Story(more, ch2, Became(w))
  BY <1>4, <1>5, <1>6, <1>7, <1>8 DEF Story
<1> QED BY <1>5, <1>9 DEF ch2

\* An edit that is not queued, of a file with no cases left.
LEMMA StoryWithout ==
  ASSUME NEW files, NEW ch \in Seq(Drafts!Write), NEW rows \in Seq(Drafts!Case), Story(files, ch, rows),
         files[1] = <<>>, NEW rows2 \in Seq(Drafts!Case)
  PROVE  Story(files, ch, rows2)
<1>1. Len(ch) + 1 \in 1 .. Len(ch) + 1 /\ 1 \in 1 .. Len(ch) + 1 /\ Len(ch) \in Nat
  OBVIOUS
<1>2. Len(files[Len(ch) + 1]) <= 0 /\ Len(files[Len(ch) + 1]) \in Nat
  BY <1>1 DEF Story
<1>3. Len(rows2) \in Nat
  OBVIOUS
<1>4. Leads(files[Len(ch) + 1], rows2)
  BY <1>2, <1>3 DEF Leads
<1> QED BY <1>4 DEF Story

\* A row typed by hand comes seen.
LEMMA StoryTyped ==
  ASSUME NEW files, NEW ch \in Seq(Drafts!Write), NEW rows \in Seq(Drafts!Case), Story(files, ch, rows), NEW c \in Drafts!Case
  PROVE  Story(files, ch, Append(rows, c))
<1> DEFINE f == files[Len(ch) + 1]
           rows2 == Append(rows, c)
<1>1. Leads(f, rows) /\ Len(f) \in Nat
  BY DEF Story
<1>2. Len(rows2) = Len(rows) + 1 /\ Len(rows) \in Nat /\ \A i \in 1 .. Len(rows) : rows2[i] = rows[i]
  OBVIOUS
<1>3. Leads(f, rows2)
  <2> HIDE DEF f, rows2
  <2> QED BY <1>1, <1>2 DEF Leads
<1> QED BY <1>3 DEF Story

\* The first write-back is over.
LEMMA StoryTail ==
  ASSUME NEW files, NEW ch \in Seq(Drafts!Write), ch # <<>>, NEW rows, Story(files, ch, rows)
  PROVE  /\ Tail(files) \in Seq(Seq(Drafts!Case)) /\ Story(Tail(files), Tail(ch), rows)
         /\ Tail(files)[1] = files[2]
<1> DEFINE rest == Tail(files)
           ch2 == Tail(ch)
           n == Len(ch)
<1>0. /\ n \in Nat /\ n # 0 /\ files \in Seq(Seq(Drafts!Case)) /\ Len(files) = n + 1
      /\ \A k \in 1 .. n : Leads(files[k], ch[k].rows) /\ files[k + 1] = After(ch[k], files[k])
      /\ Leads(files[n + 1], rows)
      /\ \A j, k \in 1 .. n + 1 : j <= k => Len(files[k]) <= Len(files[j])
  BY DEF Story
<1>1. rest \in Seq(Seq(Drafts!Case)) /\ Len(rest) = n /\ \A k \in 1 .. n : rest[k] = files[k + 1]
  BY <1>0
<1>2. Len(ch2) = n - 1 /\ \A k \in 1 .. n - 1 : ch2[k] = ch[k + 1]
  BY <1>0
<1> HIDE DEF rest, ch2, n
<1>3. ASSUME NEW k \in 1 .. n - 1 PROVE Leads(rest[k], ch2[k].rows) /\ rest[k + 1] = After(ch2[k], rest[k])
  <2>1. k \in 1 .. n /\ k + 1 \in 1 .. n
    BY <1>0
  <2> QED BY <1>0, <1>1, <1>2, <2>1
<1>4. ASSUME NEW j \in 1 .. n, NEW k \in 1 .. n, j <= k PROVE Len(rest[k]) <= Len(rest[j])
  <2>1. j + 1 \in 1 .. n + 1 /\ k + 1 \in 1 .. n + 1 /\ j + 1 <= k + 1
    BY <1>0, <1>4
  <2> QED BY <1>0, <1>1, <2>1
<1>5. Leads(rest[n], rows) /\ Len(ch2) + 1 = n
  BY <1>0, <1>1, <1>2
<1>6. Story(rest, ch2, rows)
  BY <1>1, <1>2, <1>3, <1>4, <1>5 DEF Story
<1>7. rest[1] = files[2]
  <2>1. 1 \in 1 .. n
    BY <1>0
  <2> QED BY <1>1, <2>1
<1> QED BY <1>1, <1>6, <1>7 DEF rest, ch2

LEMMA TwinsInit == Drafts!Init => Twins
<1> SUFFICES ASSUME Drafts!Init PROVE \E files \in Seq(Seq(Drafts!Case)) : Story(files, chain, queue) /\ StandsAt(files)
  BY DEF Twins
<1> DEFINE files == << Drafts!Imported >>
<1>1. files \in Seq(Seq(Drafts!Case)) /\ Len(files) = 1 /\ files[1] = Drafts!Imported /\ Len(Drafts!Imported) \in Nat
  BY ImportedType
<1>2. chain = <<>> /\ Len(chain) = 0 /\ queue = Drafts!Imported /\ file = Drafts!Imported
  BY DEF Drafts!Init
<1> HIDE DEF files
<1>3. Leads(Drafts!Imported, Drafts!Imported)
  BY <1>1 DEF Leads
<1>4. Story(files, chain, queue)
  <2>1. \A k \in 1 .. Len(chain) : FALSE
    BY <1>2
  <2>2. \A j, k \in 1 .. Len(chain) + 1 : j = 1 /\ k = 1
    BY <1>2
  <2>3. Len(files) = Len(chain) + 1 /\ files[Len(chain) + 1] = Drafts!Imported
    BY <1>1, <1>2
  <2> QED BY <1>1, <1>2, <1>3, <2>1, <2>2, <2>3 DEF Story
<1>5. write.step = "none" /\ watch.snapshot = Drafts!Imported /\ latest = Drafts!Nothing
  BY DEF Drafts!Init, Drafts!NoWrite
<1>6. StandsAt(files)
  BY <1>1, <1>2, <1>5 DEF StandsAt
<1> QED BY <1>1, <1>4, <1>6

LEMMA TwinsEdited ==
  ASSUME TInv, Twins, NEW i \in DOMAIN queue, NEW to \in Texts \cup {Removed}, Drafts!Edited(i, to)
  PROVE  Twins'
<1> SUFFICES ASSUME Calm'
             PROVE  \E more \in Seq(Seq(Drafts!Case)) : (Story(more, chain', queue') /\ StandsAt(more)')
  BY DEF Twins
<1>1. Calm
  BY DEF Calm, Drafts!Edited
<1>2. PICK files \in Seq(Seq(Drafts!Case)) : Story(files, chain, queue) /\ StandsAt(files)
  BY <1>1 DEF Twins
<1>3. queue \in Seq(Drafts!Case) /\ chain \in Seq(Drafts!Write) /\ UnderWay
  BY DEF TInv, Drafts!TypeOK
<1> DEFINE w == [rows |-> queue, at |-> i, to |-> to]
<1>4. w \in Drafts!Write /\ w.rows = queue /\ w.at \in DOMAIN queue /\ w.at = i /\ w.to = to
  <2>1. i \in Nat \ {0}
    BY <1>3
  <2> QED BY <1>3, <2>1 DEF Drafts!Write
<1>5. /\ queue' = IF to = Removed THEN Drafts!RemoveAt(queue, i) ELSE [queue EXCEPT ![i].text = to]
      /\ Drafts!Queues(w)
      /\ UNCHANGED <<file, watch, latest, write>>
  BY DEF Drafts!Edited
<1> HIDE DEF w
<1>6. CASE chain' = Append(chain, w)
  <2>0. queue' = Became(w)
    BY <1>4, <1>5 DEF Became
  <2>1. PICK more \in Seq(Seq(Drafts!Case)) :
          Story(more, Append(chain, w), Became(w)) /\ \A k \in 1 .. Len(chain) + 1 : more[k] = files[k]
    BY <1>2, <1>3, <1>4, StoryGoesOn
  <2>2. Len(chain) \in Nat /\ 1 \in 1 .. Len(chain) + 1 /\ (chain # <<>> => 2 \in 1 .. Len(chain) + 1 /\ chain'[1] = chain[1])
    BY <1>3, <1>6
  <2>3. more[1] = files[1] /\ (write.step # "none" => more[2] = files[2] /\ chain'[1] = chain[1])
    BY <1>3, <2>1, <2>2 DEF UnderWay
  <2>4. StandsAt(more)'
    BY <1>2, <1>5, <2>3 DEF StandsAt
  <2> QED BY <1>6, <2>0, <2>1, <2>4
<1>7. CASE chain' # Append(chain, w)
  <2>1. chain' = chain /\ \A j \in DOMAIN queue : Drafts!Slot(queue, watch.snapshot, j) = 0
    BY <1>4, <1>5, <1>7 DEF Drafts!Queues
  <2>2. watch.snapshot \in Seq(Drafts!Case) /\ watch.snapshot = files[1]
    BY <1>2 DEF TInv, Drafts!TypeOK, Drafts!Watched, StandsAt
  <2>3. queue # <<>>
    BY <1>3
  <2>4. files[1] = <<>>
    BY <1>3, <2>1, <2>2, <2>3, SomeSlot
  <2>5. queue' \in Seq(Drafts!Case)
    BY <1>3, <1>5, RemoveType, EditType
  <2>6. Story(files, chain', queue')
    BY <1>2, <1>3, <2>1, <2>4, <2>5, StoryWithout
  <2>7. StandsAt(files)'
    BY <1>2, <1>5, <2>1 DEF StandsAt
  <2> QED BY <2>6, <2>7
<1> QED BY <1>6, <1>7

\* Steps that leave what is written, and what is to be, alone.
LEMMA TwinsKept ==
  ASSUME TInv, Twins, Calm' => Calm, UNCHANGED <<file, watch, latest, chain, write>>,
         queue' = queue \/ \E c \in Drafts!Case : queue' = Append(queue, c)
  PROVE  Twins'
<1> SUFFICES ASSUME Calm'
             PROVE  \E more \in Seq(Seq(Drafts!Case)) : (Story(more, chain', queue') /\ StandsAt(more)')
  BY DEF Twins
<1>1. PICK files \in Seq(Seq(Drafts!Case)) : Story(files, chain, queue) /\ StandsAt(files)
  BY DEF Twins
<1>2. StandsAt(files)'
  BY <1>1 DEF StandsAt
<1>3. Story(files, chain', queue')
  <2>1. queue \in Seq(Drafts!Case) /\ chain \in Seq(Drafts!Write)
    BY DEF TInv, Drafts!TypeOK
  <2> QED BY <1>1, <2>1, StoryTyped
<1> QED BY <1>2, <1>3

LEMMA TwinsBegins == ASSUME TInv, Twins, Drafts!WriteBegins PROVE Twins'
<1> SUFFICES ASSUME Calm'
             PROVE  \E more \in Seq(Seq(Drafts!Case)) : (Story(more, chain', queue') /\ StandsAt(more)')
  BY DEF Twins
<1>1. Calm
  BY DEF Calm, Drafts!WriteBegins, Drafts!counters
<1>2. PICK files \in Seq(Seq(Drafts!Case)) : Story(files, chain, queue) /\ StandsAt(files)
  BY <1>1 DEF Twins
<1>3. /\ chain # <<>> /\ chain \in Seq(Drafts!Write) /\ queue \in Seq(Drafts!Case) /\ watch \in Drafts!Watched
      /\ \A k \in DOMAIN chain : chain[k].at \in DOMAIN chain[k].rows
  BY DEF TInv, Drafts!TypeOK, InChain, Drafts!WriteBegins
<1> DEFINE w == Head(chain)
<1>4. w = chain[1] /\ w \in Drafts!Write /\ w.at \in DOMAIN w.rows /\ w.rows \in Seq(Drafts!Case)
      /\ 1 \in 1 .. Len(chain) /\ Len(chain) \in Nat
  <2>1. w = chain[1] /\ 1 \in DOMAIN chain /\ 1 \in 1 .. Len(chain) /\ Len(chain) \in Nat
    BY <1>3
  <2>2. w \in Drafts!Write /\ w.at \in DOMAIN w.rows
    BY <1>3, <2>1
  <2> HIDE DEF w
  <2> QED BY <2>1, <2>2 DEF Drafts!Write
<1>5. Drafts!Fresh = files[1]
  <2>1. watch.snapshot = files[1] /\ latest \in {Drafts!Nothing, watch}
    BY <1>2 DEF StandsAt
  <2>2. Drafts!Nothing.stamp # watch.stamp
    <3>1. Drafts!NoStamp \notin Seq(Texts)
      <4>1. DOMAIN Drafts!NoStamp = {1} /\ Drafts!NoStamp[1] = Removed /\ Removed \notin Texts
        BY SharedAssumption DEF Drafts!NoStamp
      <4>2. ASSUME Drafts!NoStamp \in Seq(Texts) PROVE FALSE
        <5>1. \A s \in Seq(Texts) : 1 \in DOMAIN s => s[1] \in Texts
          OBVIOUS
        <5> QED BY <4>1, <4>2, <5>1
      <4> QED BY <4>2
    <3> QED BY <1>3, <3>1 DEF Drafts!Nothing, Drafts!Watched
  <2> QED BY <2>1, <2>2 DEF Drafts!Fresh
<1>6. files[1] \in Seq(Drafts!Case) /\ Leads(files[1], w.rows) /\ files[2] = After(w, files[1])
  <2>1. files[1] \in Seq(Drafts!Case)
    BY <1>2, <1>4 DEF Story
  <2>2. Leads(files[1], chain[1].rows) /\ files[1 + 1] = After(chain[1], files[1])
    BY <1>2, <1>4 DEF Story
  <2> QED BY <1>4, <2>1, <2>2
<1> DEFINE slots == Drafts!Slots(w.rows, Drafts!Fresh)
<1>7. slots[w.at] = IF w.at \in 1 .. Len(files[1]) THEN w.at ELSE 0
  <2>1. slots[w.at] = Drafts!Slot(w.rows, files[1], w.at)
    BY <1>4, <1>5, <1>6, SlotsType
  <2> QED BY <1>4, <1>6, <2>1, LeadsSlot
<1>8. write.step = "none" /\ queue' = queue /\ file' = file /\ watch' = watch
  BY DEF Drafts!WriteBegins
<1>9. CASE slots[w.at] = 0
  <2>1. Drafts!Settles(latest)
    BY <1>9 DEF Drafts!WriteBegins
  <2>2. w.at \notin 1 .. Len(files[1])
    <3>1. w.at \in Nat \ {0}
      BY <1>4 DEF Drafts!Write
    <3> QED BY <1>7, <1>9, <3>1
  <2>3. files[2] = files[1]
    BY <1>6, <2>2 DEF After
  <2>4. Tail(files) \in Seq(Seq(Drafts!Case)) /\ Story(Tail(files), Tail(chain), queue) /\ Tail(files)[1] = files[1]
    BY <1>2, <1>3, <2>3, StoryTail
  <2>5. chain' = Tail(chain) /\ latest' \in {Drafts!Nothing, latest} /\ write'.step = "none"
    BY <2>1 DEF Drafts!Settles, Drafts!NoWrite
  <2>6. StandsAt(Tail(files))'
    BY <1>2, <1>8, <2>4, <2>5 DEF StandsAt
  <2> QED BY <1>8, <2>4, <2>5, <2>6
<1>10. CASE slots[w.at] # 0
  <2>1. write' = [Drafts!NoWrite EXCEPT !.step = "asked", !.slots = slots] /\ UNCHANGED <<chain, latest>>
    BY <1>10 DEF Drafts!WriteBegins
  <2>2. write'.step = "asked" /\ write'.slots = slots
    <3> HIDE DEF slots
    <3> QED BY <2>1 DEF Drafts!NoWrite
  <2>3. w.at \in 1 .. Len(files[1])
    BY <1>7, <1>10
  <2>4. StandsAt(files)'
    BY <1>2, <1>4, <1>5, <1>8, <2>1, <2>2, <2>3 DEF StandsAt
  <2> QED BY <1>2, <1>8, <2>1, <2>4
<1> QED BY <1>9, <1>10

LEMMA TwinsReads == ASSUME TInv, Twins, Drafts!SaveReads PROVE Twins'
<1> SUFFICES ASSUME Calm'
             PROVE  \E more \in Seq(Seq(Drafts!Case)) : (Story(more, chain', queue') /\ StandsAt(more)')
  BY DEF Twins
<1>1. Calm
  BY DEF Calm, Drafts!SaveReads, Drafts!counters
<1>2. PICK files \in Seq(Seq(Drafts!Case)) : Story(files, chain, queue) /\ StandsAt(files)
  BY <1>1 DEF Twins
<1>3. chain # <<>> /\ chain \in Seq(Drafts!Write) /\ write.step = "asked"
  BY DEF TInv, Drafts!TypeOK, UnderWay, Drafts!SaveReads
<1> DEFINE w == Head(chain)
<1>4. w = chain[1] /\ w \in Drafts!Write /\ w.rows \in Seq(Drafts!Case) /\ 1 \in 1 .. Len(chain) /\ 1 \in 1 .. Len(chain) + 1
  <2>1. w = chain[1] /\ 1 \in DOMAIN chain /\ 1 \in 1 .. Len(chain) /\ 1 \in 1 .. Len(chain) + 1
    BY <1>3
  <2>2. w \in Drafts!Write
    BY <1>3, <2>1
  <2> HIDE DEF w
  <2> QED BY <2>1, <2>2 DEF Drafts!Write
<1>5. files[1] \in Seq(Drafts!Case) /\ Leads(files[1], w.rows) /\ files[2] = After(w, files[1])
  <2>1. files[1] \in Seq(Drafts!Case)
    BY <1>2, <1>4 DEF Story
  <2>2. Leads(files[1], chain[1].rows) /\ files[1 + 1] = After(chain[1], files[1])
    BY <1>2, <1>4 DEF Story
  <2> QED BY <1>4, <2>1, <2>2
<1>6. file = files[1] /\ w.at \in 1 .. Len(files[1]) /\ write.slots = Drafts!Slots(w.rows, files[1])
  BY <1>2, <1>3, <1>4 DEF StandsAt
<1> HIDE DEF w
<1>7. w.at \in DOMAIN w.rows /\ w.at \in DOMAIN file /\ w.at \in Nat \ {0}
  BY <1>4, <1>5, <1>6 DEF Leads
<1>8. write.slots[w.at] = w.at
  <2>1. \A i \in DOMAIN w.rows : Drafts!Slots(w.rows, files[1])[i] = Drafts!Slot(w.rows, files[1], i)
    BY <1>4, <1>5, SlotsType
  <2>2. write.slots[w.at] = Drafts!Slot(w.rows, files[1], w.at)
    BY <1>6, <1>7, <2>1
  <2> QED BY <1>4, <1>5, <1>6, <1>7, <2>2, LeadsSlot
<1>9. Drafts!Target(write.slots, w.at) = w.at
  BY <1>7, <1>8 DEF Drafts!Target
<1>10. w.to \in Texts \cup {Removed} /\ file \in Seq(Drafts!Case) /\ w.rows[w.at] = file[w.at]
  BY <1>4, <1>5, <1>6 DEF Drafts!Write, Leads
<1>11. Drafts!Applied(w, w.at) = files[2]
  <2>1. CASE w.to = Removed
    BY <1>5, <1>6, <1>7, <2>1 DEF Drafts!Applied, After
  <2>2. CASE w.to # Removed
    <3>1. w.to \in Texts
      BY <1>10, <2>2
    <3> DEFINE e == [file EXCEPT ![w.at].text = w.to]
               f == [file EXCEPT ![w.at] = [who |-> w.rows[w.at].who, text |-> w.to]]
    <3>2. files[2] = e /\ Drafts!Applied(w, w.at) = f
      BY <1>5, <1>6, <1>7, <2>2 DEF Drafts!Applied, After
    <3>3. file[w.at] \in Drafts!Case
      BY <1>7, <1>10
    <3>a. \A t : \A c \in Drafts!Case : [c EXCEPT !.text = t] = [who |-> c.who, text |-> t]
      BY DEF Drafts!Case
    <3>4. [file[w.at] EXCEPT !.text = w.to] = [who |-> file[w.at].who, text |-> w.to]
      BY <3>3, <3>a
    <3>5. e = f
      BY <1>10, <3>4
    <3> QED BY <3>2, <3>5
  <2> QED BY <2>1, <2>2
<1>12. /\ write' = [write EXCEPT !.step = "renaming", !.out = Drafts!Applied(w, w.at), !.hit = file[w.at]]
       /\ UNCHANGED <<file, queue, watch, latest, chain>>
  <2>1. w.at # 0
    BY <1>7
  <2> QED BY <1>9, <2>1 DEF Drafts!SaveReads, Drafts!window, Drafts!counters, w
<1>13. write'.step = "renaming" /\ write'.out = files[2] /\ write'.hit = files[1][w.at]
  BY <1>6, <1>11, <1>12 DEF TInv, Drafts!TypeOK, Drafts!Writing
<1>14. StandsAt(files)'
  BY <1>2, <1>3, <1>4, <1>12, <1>13 DEF StandsAt
<1> QED BY <1>2, <1>12, <1>14

LEMMA TwinsRenames == ASSUME TInv, Twins, Drafts!SaveRenames PROVE Twins'
<1> SUFFICES ASSUME Calm'
             PROVE  \E more \in Seq(Seq(Drafts!Case)) : (Story(more, chain', queue') /\ StandsAt(more)')
  BY DEF Twins
<1>1. Calm
  BY DEF Calm, Drafts!SaveRenames, Drafts!counters
<1>2. PICK files \in Seq(Seq(Drafts!Case)) : Story(files, chain, queue) /\ StandsAt(files)
  BY <1>1 DEF Twins
<1>3. write.step = "renaming" /\ file' = write.out /\ UNCHANGED <<chain, queue, watch, latest>>
  BY DEF Drafts!SaveRenames, Drafts!window
<1>4. write'.step = "written" /\ write'.out = write.out
  BY DEF Drafts!SaveRenames, TInv, Drafts!TypeOK, Drafts!Writing
<1>5. StandsAt(files)'
  BY <1>2, <1>3, <1>4 DEF StandsAt
<1> QED BY <1>2, <1>3, <1>5

LEMMA TwinsReturns == ASSUME TInv, Twins, Drafts!WriteReturns PROVE Twins'
<1> SUFFICES ASSUME Calm'
             PROVE  \E more \in Seq(Seq(Drafts!Case)) : (Story(more, chain', queue') /\ StandsAt(more)')
  BY DEF Twins
<1>1. Calm
  BY DEF Calm, Drafts!WriteReturns, Drafts!counters
<1>2. PICK files \in Seq(Seq(Drafts!Case)) : Story(files, chain, queue) /\ StandsAt(files)
  BY <1>1 DEF Twins
<1>3. chain # <<>> /\ chain \in Seq(Drafts!Write) /\ write.step = "written"
  BY DEF TInv, Drafts!TypeOK, UnderWay, Drafts!WriteReturns
<1> DEFINE w == [stamp |-> Drafts!Stamp(write.out), snapshot |-> write.out]
<1>4. /\ chain' = Tail(chain) /\ latest' \in {Drafts!Nothing, w} /\ write' = Drafts!NoWrite /\ watch' = w
      /\ UNCHANGED <<file, queue>>
  BY DEF Drafts!WriteReturns, Drafts!Settles, Drafts!Rerenders
<1>5. file = files[2] /\ write.out = files[2]
  BY <1>2, <1>3 DEF StandsAt
<1>6. Tail(files) \in Seq(Seq(Drafts!Case)) /\ Story(Tail(files), Tail(chain), queue) /\ Tail(files)[1] = files[2]
  BY <1>2, <1>3, StoryTail
<1>7. write'.step = "none"
  BY <1>4 DEF Drafts!NoWrite
<1>8. watch'.snapshot = files[2]
  BY <1>4, <1>5
<1>9. StandsAt(Tail(files))'
  <2> HIDE DEF w
  <2> QED BY <1>4, <1>5, <1>6, <1>7, <1>8 DEF StandsAt
<1> QED BY <1>4, <1>6, <1>9

LEMMA TwinsStep == TInv /\ Twins /\ [Drafts!Next]_(Drafts!vars) => Twins'
<1> SUFFICES ASSUME TInv, Twins, [Drafts!Next]_(Drafts!vars) PROVE Twins'
  OBVIOUS
<1>0. outside \in Nat /\ errors \in Nat
  BY SharedAssumption DEF TInv, Drafts!TypeOK
<1>1. CASE Drafts!PersonEdits
  <2>1. ASSUME NEW t \in Texts, Drafts!TypesRow(t) PROVE Twins'
    <3>1. [who |-> Drafts!HandTyped, text |-> t] \in Drafts!Case
      <4>1. Len(Draft) \in Nat /\ MaxMishaps \in Nat /\ edits \in Nat
        BY SharedAssumption DEF TInv, Drafts!TypeOK
      <4> QED BY <4>1 DEF Drafts!Case, Drafts!HandTyped
    <3>2. UNCHANGED <<file, watch, latest, chain, write>> /\ (Calm' => Calm)
      BY <2>1 DEF Drafts!TypesRow, Calm
    <3>3. queue' = Append(queue, [who |-> Drafts!HandTyped, text |-> t])
      BY <2>1 DEF Drafts!TypesRow
    <3> QED BY <3>1, <3>2, <3>3, TwinsKept
  <2>2. ASSUME NEW t \in Texts, NEW i \in Drafts!Places, Drafts!EditsRow(i, t) PROVE Twins'
    BY <2>2, TwinsEdited DEF Drafts!EditsRow
  <2>3. ASSUME NEW i \in Drafts!Places, Drafts!RemovesRow(i) PROVE Twins'
    BY <2>3, TwinsEdited DEF Drafts!RemovesRow
  <2> QED BY <1>1, <2>1, <2>2, <2>3 DEF Drafts!PersonEdits
<1>2. CASE Drafts!AssistantWrites
  <2>1. PICK cases \in Seq(Drafts!Case) : Drafts!Outside(cases)
    BY <1>2, AssistantType
  <2>2. ~Calm'
    BY <1>0, <2>1 DEF Drafts!Outside, Calm
  <2> QED BY <2>2 DEF Twins
<1>3. CASE Drafts!WriteGoesOn
  <2>1. CASE Drafts!SaveFails
    <3>1. ~Calm'
      BY <1>0, <2>1 DEF Drafts!SaveFails, Calm
    <3> QED BY <3>1 DEF Twins
  <2>2. CASE Drafts!WriteFails
    <3>1. write.step = "failed" /\ (Calm' => Calm)
      BY <2>2 DEF Drafts!WriteFails, Calm, Drafts!counters
    <3> QED BY <3>1 DEF Twins, StandsAt
  <2> QED BY <1>3, <2>1, <2>2, TwinsBegins, TwinsReads, TwinsRenames, TwinsReturns DEF Drafts!WriteGoesOn
<1>4. CASE Drafts!SyncGoesOn
  <2>1. CASE Drafts!SyncCannotRead
    <3>1. ~Calm'
      BY <1>0, <2>1 DEF Drafts!SyncCannotRead, Calm
    <3> QED BY <3>1 DEF Twins
  <2>2. CASE Drafts!SyncLands
    <3>1. ~Calm'
      BY <2>2 DEF Drafts!SyncLands, Calm
    <3> QED BY <3>1 DEF Twins
  <2>3. CASE Drafts!SyncReads \/ Drafts!SyncIsRetried
    <3>1. UNCHANGED <<file, watch, latest, chain, write, queue>> /\ (Calm' => Calm)
      BY <2>3 DEF Drafts!SyncReads, Drafts!SyncIsRetried, Calm, Drafts!counters
    <3> QED BY <3>1, TwinsKept
  <2> QED BY <1>4, <2>1, <2>2, <2>3 DEF Drafts!SyncGoesOn
<1>5. CASE Drafts!HearsChange
  <2>1. UNCHANGED <<file, watch, latest, chain, write, queue>> /\ (Calm' => Calm)
    BY <1>5 DEF Drafts!HearsChange, Drafts!Rerenders, Calm, Drafts!counters
  <2> QED BY <2>1, TwinsKept
<1>6. CASE Drafts!WatchLooks
  <2>1. UNCHANGED <<file, watch, latest, chain, write, queue>> /\ (Calm' => Calm)
    BY <1>6 DEF Drafts!WatchLooks, Drafts!window, Calm, Drafts!counters
  <2> QED BY <2>1, TwinsKept
<1>7. CASE UNCHANGED Drafts!vars
  <2>1. UNCHANGED <<file, watch, latest, chain, write, queue>> /\ (Calm' => Calm)
    BY <1>7 DEF Drafts!vars, Drafts!window, Calm, Drafts!counters
  <2> QED BY <2>1, TwinsKept
<1> QED BY <1>1, <1>2, <1>3, <1>4, <1>5, <1>6, <1>7 DEF Drafts!Next

LEMMA TwinsApart == TInv /\ Twins => Drafts!TwinsKeepApart
<1> SUFFICES ASSUME TInv, Twins, write.step = "renaming", Calm
             PROVE  write.hit.who = Head(chain).rows[Head(chain).at].who
  BY DEF Drafts!TwinsKeepApart, Calm
<1>1. PICK files \in Seq(Seq(Drafts!Case)) : Story(files, chain, queue) /\ StandsAt(files)
  BY DEF Twins
<1>2. chain # <<>> /\ chain \in Seq(Drafts!Write)
  BY DEF TInv, Drafts!TypeOK, UnderWay
<1>3. Head(chain) = chain[1] /\ 1 \in 1 .. Len(chain)
  BY <1>2
<1>4. write.hit = files[1][chain[1].at] /\ chain[1].at \in 1 .. Len(files[1])
  BY <1>1 DEF StandsAt
<1>5. Leads(files[1], chain[1].rows)
  BY <1>1, <1>3 DEF Story
<1>6. chain[1].rows[chain[1].at] = files[1][chain[1].at]
  BY <1>4, <1>5 DEF Leads
<1> QED BY <1>3, <1>4, <1>6

-----------------------------------------------------------------------------
DraftsInv == TInv /\ Twins

LEMMA DraftsInvariant == MCSpec => [](part = "drafts" => DraftsInv)
<1>1. MCInit => (part = "drafts" => DraftsInv)
  BY TInvInit, TwinsInit DEF MCInit, DraftsInv
<1>2. (part = "drafts" => DraftsInv) /\ [MCNext]_mcvars => (part = "drafts" => DraftsInv)'
  <2>1. SUFFICES ASSUME part = "drafts" => DraftsInv, [MCNext]_mcvars, part' = "drafts"
                 PROVE  DraftsInv'
    OBVIOUS
  <2>2. part = "drafts" /\ [Drafts!Next]_(Drafts!vars)
    BY <2>1 DEF MCNext, mcvars, drafts, Drafts!vars, Drafts!watcher, Drafts!window, Drafts!counters
  <2> QED BY <2>1, <2>2, TInvStep, TwinsStep DEF DraftsInv
<1> QED BY <1>1, <1>2, PTL DEF MCSpec

\* The watched file, its queue, the chain of its write-backs and its sync stay
\* well typed, for any file and any number of edits and mishaps: nothing is
\* remembered of a chain that has ended (`runOnFileChain`).
THEOREM DraftsTypedHolds == MCSpec => []DraftsTyped
<1>1. (part = "drafts" => DraftsInv) => DraftsTyped
  BY DEF DraftsInv, TInv, DraftsTyped
<1> QED BY <1>1, DraftsInvariant, PTL

\* While only the app writes the file and no sync has touched the rows, every
\* write-back changes the case of the row that was edited: any file, any
\* number of equal cases, and any number of edits made while earlier ones
\* wait on the chain (`freshWatches` and `claimRows`, `apply_draft_edits`).
THEOREM TwinsKeepApartHolds == MCSpec => []TwinsKeepApart
<1>1. (part = "drafts" => DraftsInv) => TwinsKeepApart
  BY TwinsApart DEF DraftsInv, TwinsKeepApart
<1> QED BY <1>1, DraftsInvariant, PTL
=============================================================================
