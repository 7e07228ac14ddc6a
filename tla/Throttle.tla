------------------------------- MODULE Throttle -------------------------------
(***************************************************************************)
(* The pacing of every Azure DevOps request (ado/throttle.rs): a hold the  *)
(* server asked for, and a gap between requests that the setting chooses.  *)
(* A sender asks pace() when it may go, sends, and notes the delay its     *)
(* response asks for (ado/transport.rs, ado/deletion.rs).                  *)
(*                                                                         *)
(* A request is sent once.  A sleep ends when its time has come, or later. *)
(***************************************************************************)
EXTENDS Naturals

CONSTANTS MaxRequests,  \* how many requests ask to go
          None,
          Gaps,         \* the gaps of the levels in Settings; 0 is Full speed
          Delays,       \* what responses ask for, in ticks
          MaxBackoff,   \* MAX_BACKOFF_SECS
          MaxTime       \* how long the clock runs

VARIABLES now, gap,    \* the clock, and MIN_INTERVAL_MS
          until,       \* the end of the hold in force; 0 is none
          last, gate,  \* last_send, and the request that has its lock
          req,         \* per request: where it is, until when it sleeps, the
                       \* gap it read, when it went, and (history) the end of
                       \* the longest hold asked for before it asked to go
          asked        \* history: that end, now

vars == <<now, gap, until, last, gate, req, asked>>

\* In the order in which they ask.
Requests == 1 .. MaxRequests

\* No request has gone yet.
Never == MaxTime + 1

Init ==
  /\ now = 0 /\ gap \in Gaps
  /\ until = 0 /\ asked = 0
  /\ last = Never /\ gate = None
  /\ req = [r \in Requests |->
              [step |-> "new", wake |-> 0, gap |-> 0, sent |-> 0, due |-> 0]]

-----------------------------------------------------------------------------
At(r, step) == req[r].step = step

\* A hold in force is read once, and slept; one that is over is forgotten.
ReadsHold(r) ==
  /\ At(r, "new") /\ \A q \in Requests : q < r => ~At(q, "new")
  /\ req' = [req EXCEPT ![r] = [@ EXCEPT !.step = "held", !.due = asked,
                                        !.wake = IF until > now THEN until ELSE now]]
  /\ until' = IF until > now THEN until ELSE 0
  /\ UNCHANGED <<now, gap, last, gate, asked>>

\* At Full speed it goes without a look at the gate.
Wakes(r) ==
  /\ At(r, "held") /\ now >= req[r].wake
  /\ req' = IF gap = 0
            THEN [req EXCEPT ![r] = [@ EXCEPT !.step = "sent", !.sent = now]]
            ELSE [req EXCEPT ![r] = [@ EXCEPT !.step = "queued", !.gap = gap]]
  /\ UNCHANGED <<now, gap, until, last, gate, asked>>

\* Mutant: the lock is let go before the sleep.
EntersGateUnlocked(r) ==
  /\ At(r, "queued") /\ gate = None
  /\ req' = [req EXCEPT ![r] = [@ EXCEPT !.step = "gate",
       !.wake = IF last # Never /\ now < last + req[r].gap
                   THEN last + req[r].gap ELSE now]]
  /\ UNCHANGED <<now, gap, until, last, gate, asked>>

\* The lock is held across the sleep.
EntersGate(r) ==
  /\ At(r, "queued") /\ gate = None
  /\ gate' = r
  /\ req' = [req EXCEPT ![r] = [@ EXCEPT !.step = "gate",
       !.wake = IF last # Never /\ now < last + req[r].gap
                   THEN last + req[r].gap ELSE now]]
  /\ UNCHANGED <<now, gap, until, last, asked>>

Goes(r) ==
  /\ At(r, "gate") /\ now >= req[r].wake
  /\ req' = [req EXCEPT ![r] = [@ EXCEPT !.step = "sent", !.sent = now]]
  /\ last' = now
  /\ gate' = None
  /\ UNCHANGED <<now, gap, until, asked>>

Capped(d) == IF d < MaxBackoff THEN d ELSE MaxBackoff
Later(s, t) == IF s < t THEN t ELSE s

\* Mutant: the newest response is taken at its word.
HeldUntilNewest(d) == now + Capped(d)

\* The later of the hold in force and the new one.
HeldUntil(d) == Later(until, now + Capped(d))

\* A response, on any status, that asks for a delay.  One that does not, or
\* asks for 0, changes nothing.
Responds(r, d) ==
  /\ At(r, "sent")
  /\ req' = [req EXCEPT ![r].step = "over"]
  /\ until' = HeldUntil(d)
  /\ asked' = Later(asked, now + Capped(d))
  /\ UNCHANGED <<now, gap, last, gate>>

SetsLevel(g) ==
  /\ g # gap
  /\ gap' = g
  /\ UNCHANGED <<now, until, last, gate, req, asked>>

Tick ==
  /\ now < MaxTime
  /\ now' = now + 1
  /\ UNCHANGED <<gap, until, last, gate, req, asked>>

Next ==
  \/ \E r \in Requests : ReadsHold(r) \/ Wakes(r) \/ EntersGate(r) \/ Goes(r)
  \/ \E r \in Requests, d \in Delays : Responds(r, d)
  \/ \E g \in Gaps : SetsLevel(g)
  \/ Tick

Spec == Init /\ [][Next]_vars

-----------------------------------------------------------------------------
Gone(r) == req[r].step \in {"sent", "over"}

\* Requests share one budget: of two that went through the gate, the later
\* went its gap after the other, however they waited and whatever the setting
\* became meanwhile.
Spaced ==
  \A q, r \in Requests :
    q # r /\ Gone(q) /\ Gone(r) /\ req[q].gap # 0 /\ req[r].gap # 0
      => (req[q].sent <= req[r].sent => req[q].sent + req[r].gap <= req[r].sent)

\* A request goes after the end of every hold that a response had asked for
\* before the request asked to go, in whatever order the responses came.
HoldsAreKept == \A r \in Requests : Gone(r) => req[r].due <= req[r].sent

\* "A server-requested hold outranks the local pace": no request goes during a
\* hold.  (Expected to be violated.)
NobodyGoesInAHold ==
  [][\A r \in Requests : ~Gone(r) /\ (Gone(r))' => until <= now]_vars
===============================================================================
