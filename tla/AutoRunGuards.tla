---------------------------- MODULE AutoRunGuards ----------------------------
(***************************************************************************)
(* Who may use an Auto Run browser, and when the environment may change.   *)
(*                                                                         *)
(* The rule the code follows is "take your own claim first, look at the    *)
(* others second": an unattended run, a recording, a template run and a    *)
(* sign-in check each own a process-wide flag (claim), a replay owns its   *)
(* slot's flag (replaying), and whoever works on a slot's browser owns     *)
(* that slot's session lock.  A browser that opens holds the opening lock  *)
(* for reading; the environment switch and Release hold it for writing and *)
(* then lock every slot in order.  Everything is owned by a Rust guard, so *)
(* a call that returns, however it returns, gives all of it back           *)
(* (Returns).                                                              *)
(*                                                                         *)
(* A process is one call of a command.  Its looks at the others are steps  *)
(* of their own, so the others move between them.                          *)
(***************************************************************************)
EXTENDS Naturals

CONSTANTS Procs,      \* calls that may go at once
          SlotCount,  \* browser slots; slot 0 is the person's
          Envs,       \* environments (an address saved anew counts as one)
          None        \* nobody

ASSUME GuardsAssumption == /\ SlotCount \in Nat \ {0}
                           /\ None \notin Procs

VARIABLES at,           \* where each call is
          claim,        \* who owns each process-wide flag
          replaying,    \* who owns each slot's replay
          lock,         \* who owns each slot's session lock
          readers,      \* who reads the opening lock
          writer,       \* who writes it
          session,      \* the browser each slot holds
          discovering,  \* per slot, the published discovery flag
          env           \* the active environment

owned == <<claim, replaying, lock, readers, writer>>
world == <<session, discovering, env>>
vars == <<at, owned, world>>

Main == 0
Last == SlotCount - 1
Slots == 0 .. Last
Claims == {"run", "record", "template", "check"}
Ops == {"none", "run", "record", "template", "check", "open", "discover",
        "replay", "assistantReplay", "switch", "release"}
Steps == {"idle", "hearRun", "hearRecording", "hearReplay", "hearCheck",
          "hearDiscovery", "look", "begin", "lock", "opening", "launching",
          "going", "record", "template", "write", "slots", "moving", "closing"}
Replays == {"replay", "assistantReplay"}

NoSession == [by |-> "nobody", discovery |-> FALSE, gone |-> FALSE]
Sessions == [by : {"nobody", "person", "assistant"},
             discovery : BOOLEAN, gone : BOOLEAN]

\* The steps each operation goes through.
Placed(a) ==
  \/ a.op = "none" /\ a.step = "idle"
  \/ a.op = "run" /\ a.step \in {"look", "hearRecording", "going"}
  \/ a.op = "record" /\ a.step \in {"hearRun", "look", "going"}
  \/ a.op = "template" /\ a.step = "going"
  \/ a.op = "check" /\ a.step \in {"look", "begin", "going"}
  \/ /\ a.op = "open" /\ a.slot = Main
     /\ a.step \in {"hearDiscovery", "lock", "opening", "launching"}
  \/ a.op = "discover" /\ a.step \in {"hearRecording", "hearReplay", "lock",
                                      "opening", "launching"}
  \/ a.op \in Replays /\ a.step \in {"hearCheck", "lock", "hearRun", "opening",
                                     "launching", "going"}
  \/ a.op = "switch" /\ a.step \in {"write", "slots", "hearRecording", "hearRun",
                                    "template", "moving", "closing"}
  \/ a.op = "release" /\ a.step \in {"record", "template", "write", "slots",
                                     "moving", "closing"}

AtTypes ==
  /\ at \in [Procs -> [op : Ops, step : Steps, slot : Slots]]
  /\ \A p \in Procs : Placed(at[p])

OwnedTypes ==
  /\ claim \in [Claims -> Procs \cup {None}]
  /\ replaying \in [Slots -> Procs \cup {None}]
  /\ lock \in [Slots -> Procs \cup {None}]
  /\ readers \subseteq Procs
  /\ writer \in Procs \cup {None}

WorldTypes ==
  /\ session \in [Slots -> Sessions]
  /\ discovering \in [Slots -> BOOLEAN]
  /\ env \in Envs

TypeOK == AtTypes /\ OwnedTypes /\ WorldTypes

Idle == [op |-> "none", step |-> "idle", slot |-> Main]
On(p, op, step) == at[p].op = op /\ at[p].step = step
Live(n) == session[n] # NoSession /\ ~session[n].gone
Discovers(n) == Live(n) /\ session[n].discovery

Init ==
  /\ at = [p \in Procs |-> Idle]
  /\ claim = [c \in Claims |-> None]
  /\ replaying = [n \in Slots |-> None]
  /\ lock = [n \in Slots |-> None]
  /\ readers = {}
  /\ writer = None
  /\ session = [n \in Slots |-> NoSession]
  /\ discovering = [n \in Slots |-> FALSE]
  /\ env \in Envs

-----------------------------------------------------------------------------
(* What the steps are made of.                                             *)

Goes(p, op, step, n) ==
  at' = [at EXCEPT ![p] = [op |-> op, step |-> step, slot |-> n]]
To(p, step) == Goes(p, at[p].op, step, at[p].slot)

Free(f, p) == [x \in DOMAIN f |-> IF f[x] = p THEN None ELSE f[x]]

\* The call ends: every guard it owns is dropped.
Returns(p) ==
  /\ at' = [at EXCEPT ![p] = Idle]
  /\ claim' = Free(claim, p)
  /\ replaying' = Free(replaying, p)
  /\ lock' = Free(lock, p)
  /\ readers' = readers \ {p}
  /\ writer' = IF writer = p THEN None ELSE writer

\* One look at somebody else's flag: refused, or on to the next step.
Hears(p, busy, step) ==
  \/ busy /\ Returns(p)
  \/ ~busy /\ To(p, step) /\ UNCHANGED owned

\* A call's first step: it takes the flag c, or is refused (and nothing happens).
Claiming(p, c, op, step) ==
  /\ at[p] = Idle
  /\ claim[c] = None
  /\ claim' = [claim EXCEPT ![c] = p]
  /\ Goes(p, op, step, Main)
  /\ UNCHANGED <<replaying, lock, readers, writer, world>>

Holds(n, s) ==
  /\ session' = [session EXCEPT ![n] = s]
  /\ discovering' = [discovering EXCEPT ![n] = s.discovery]

\* The session the lock's owner leaves in slot n once a gone browser is let go.
Kept(n) == IF Live(n) THEN session[n] ELSE NoSession

-----------------------------------------------------------------------------
(* Unattended run, recording, template run, sign-in check.                 *)

RunClaims(p) == Claiming(p, "run", "run", "look")
RecordClaims(p) == Claiming(p, "record", "record", "hearRun")
TemplateClaims(p) == Claiming(p, "template", "template", "going")
CheckClaims(p) == Claiming(p, "run", "check", "look")

RecordHearsRun(p) ==
  /\ On(p, "record", "hearRun")
  /\ Hears(p, claim["run"] # None, "look")
  /\ UNCHANGED world

\* slots_open, one slot: its lock waited for, a gone browser let go.
LooksAtSlot(p) ==
  LET n == at[p].slot IN
  /\ On(p, "run", "look") \/ On(p, "record", "look")
  /\ lock[n] = None
  /\ Holds(n, Kept(n))
  /\ \/ Live(n) /\ Returns(p)
     \/ /\ ~Live(n)
        /\ \/ n < Last /\ Goes(p, at[p].op, "look", n + 1)
           \/ n = Last /\ at[p].op = "run" /\ To(p, "hearRecording")
           \/ n = Last /\ at[p].op = "record" /\ To(p, "going")
        /\ UNCHANGED owned
  /\ UNCHANGED env

RunHearsRecording(p) ==
  /\ On(p, "run", "hearRecording")
  /\ Hears(p, claim["record"] # None, "going")
  /\ UNCHANGED world

\* others_busy, one slot: its two flags, without its lock.
CheckLooksAtSlot(p) ==
  LET n == at[p].slot IN
  /\ On(p, "check", "look")
  /\ \/ (replaying[n] # None \/ discovering[n]) /\ Returns(p)
     \/ /\ replaying[n] = None /\ ~discovering[n]
        /\ \/ n < Last /\ Goes(p, "check", "look", n + 1)
           \/ n = Last /\ To(p, "begin")
        /\ UNCHANGED owned
  /\ UNCHANGED world

CheckBegins(p) ==
  /\ On(p, "check", "begin")
  /\ claim' = [claim EXCEPT !["check"] = p]
  /\ To(p, "going")
  /\ UNCHANGED <<replaying, lock, readers, writer, world>>

\* The work itself ends, well or badly.
Ends(p) ==
  /\ \E op \in {"run", "record", "template", "check"} : On(p, op, "going")
  /\ Returns(p)
  /\ UNCHANGED world

-----------------------------------------------------------------------------
(* Browsers that open: the person's, a discovery's, a replay's.            *)

OpenHearsRun(p) ==
  /\ at[p] = Idle
  /\ claim["run"] = None
  /\ Goes(p, "open", "hearDiscovery", Main)
  /\ UNCHANGED <<owned, world>>

\* A bug: the lock of the first look is still in hand when the second waits for it.
OpenHearsDiscoveryKeepingLock(p) ==
  /\ On(p, "open", "hearDiscovery")
  /\ lock[Main] = None
  /\ Holds(Main, Kept(Main))
  /\ \/ Discovers(Main) /\ Returns(p)
     \/ /\ ~Discovers(Main)
        /\ lock' = [lock EXCEPT ![Main] = p]
        /\ To(p, "lock")
        /\ UNCHANGED <<claim, replaying, readers, writer>>
  /\ UNCHANGED env

\* The first look at a discovery, before a replay is told to stop.
OpenHearsDiscovery(p) ==
  /\ On(p, "open", "hearDiscovery")
  /\ \/ ~discovering[Main] /\ To(p, "lock") /\ UNCHANGED <<owned, world>>
     \/ /\ discovering[Main]
        /\ lock[Main] = None
        /\ Holds(Main, Kept(Main))
        /\ Hears(p, Discovers(Main), "lock")
        /\ UNCHANGED env

Takes(p, n) == lock' = [lock EXCEPT ![n] = p]

OpenLocks(p) ==
  /\ On(p, "open", "lock")
  /\ lock[Main] = None
  /\ Holds(Main, Kept(Main))
  /\ \/ Discovers(Main) /\ Returns(p)
     \/ /\ ~Discovers(Main)
        /\ Takes(p, Main)
        /\ To(p, "opening")
        /\ UNCHANGED <<claim, replaying, readers, writer>>
  /\ UNCHANGED env

DiscoverHearsRun(p, n) ==
  /\ at[p] = Idle
  /\ claim["run"] = None
  /\ Goes(p, "discover", "hearRecording", n)
  /\ UNCHANGED <<owned, world>>

DiscoverHearsRecording(p) ==
  /\ On(p, "discover", "hearRecording")
  /\ Hears(p, claim["record"] # None, "hearReplay")
  /\ UNCHANGED world

DiscoverHearsReplay(p) ==
  /\ On(p, "discover", "hearReplay")
  /\ Hears(p, replaying[at[p].slot] # None, "lock")
  /\ UNCHANGED world

\* make_way_for_discovery: the person's browser, or another discovery's,
\* refuses; the assistant's own is taken over, or closed for the other kind.
DiscoverLocks(p) ==
  LET n == at[p].slot
      left == Live(n) /\ session[n].by = "assistant" /\ ~session[n].discovery IN
  /\ On(p, "discover", "lock")
  /\ lock[n] = None
  /\ \/ Live(n) /\ ~left /\ Returns(p) /\ UNCHANGED <<session, discovering>>
     \/ left /\ Returns(p) /\ Holds(n, [session[n] EXCEPT !.discovery = TRUE])
     \/ /\ left \/ ~Live(n)
        /\ Takes(p, n)
        /\ Holds(n, NoSession)
        /\ To(p, "opening")
        /\ UNCHANGED <<claim, replaying, readers, writer>>
  /\ UNCHANGED env

ReplayClaims(p, op, n) ==
  /\ at[p] = Idle
  /\ op = "replay" => n = Main
  /\ replaying[n] = None
  /\ replaying' = [replaying EXCEPT ![n] = p]
  /\ Goes(p, op, "hearCheck", n)
  /\ UNCHANGED <<claim, lock, readers, writer, world>>

ReplayHearsCheck(p) ==
  /\ at[p].op \in Replays /\ at[p].step = "hearCheck"
  /\ Hears(p, claim["check"] # None, "lock")
  /\ UNCHANGED world

\* Under the lock: stopped meanwhile, refused for a discovery (the person's),
\* on in the browser that is open (the person's replay makes it theirs, the
\* assistant's ends its discovery), or on to open one.
ReplayLocks(p) ==
  LET n == at[p].slot
      mine == at[p].op = "assistantReplay" IN
  /\ at[p].op \in Replays /\ at[p].step = "lock"
  /\ lock[n] = None
  /\ \/ Returns(p) /\ UNCHANGED <<session, discovering>>
     \/ Discovers(n) /\ ~mine /\ Returns(p) /\ UNCHANGED <<session, discovering>>
     \/ /\ Live(n) /\ (Discovers(n) => mine)
        /\ Holds(n, [session[n] EXCEPT !.discovery = FALSE,
                                       !.by = IF mine THEN @ ELSE "person"])
        /\ Takes(p, n) /\ To(p, "going")
        /\ UNCHANGED <<claim, replaying, readers, writer>>
     \/ /\ ~Live(n)
        /\ Holds(n, NoSession)
        /\ Takes(p, n) /\ To(p, "hearRun")
        /\ UNCHANGED <<claim, replaying, readers, writer>>
  /\ UNCHANGED env

ReplayHearsRun(p) ==
  /\ at[p].op \in Replays /\ at[p].step = "hearRun"
  /\ Hears(p, claim["run"] # None, "opening")
  /\ UNCHANGED world

\* A writer that waits already turns a try_read away (the lock is fair).
OpeningTaken == writer # None \/ \E q \in Procs : at[q].step = "write"

\* A bug: a recording that claimed since the command's first looks is not asked for.
OpensIntoOverRecording(p) ==
  /\ at[p].step = "opening"
  /\ \/ OpeningTaken /\ Returns(p) /\ UNCHANGED <<session, discovering>>
     \/ /\ ~OpeningTaken
        /\ readers' = readers \cup {p}
        /\ Holds(at[p].slot, NoSession)
        /\ To(p, "launching")
        /\ UNCHANGED <<claim, replaying, lock, writer>>
  /\ UNCHANGED env

\* A bug: an open waits for the opening lock, its slot's lock in hand.
OpensIntoWaiting(p) ==
  /\ at[p].step = "opening"
  /\ ~OpeningTaken
  /\ \/ claim["record"] # None /\ Returns(p) /\ UNCHANGED <<session, discovering>>
     \/ /\ claim["record"] = None
        /\ readers' = readers \cup {p}
        /\ Holds(at[p].slot, NoSession)
        /\ To(p, "launching")
        /\ UNCHANGED <<claim, replaying, lock, writer>>
  /\ UNCHANGED env

\* open_into up to the launch: refused, or the browser already there closed.
OpensInto(p) ==
  LET n == at[p].slot
      refused == OpeningTaken \/ claim["record"] # None IN
  /\ at[p].step = "opening"
  /\ \/ refused /\ Returns(p) /\ UNCHANGED <<session, discovering>>
     \/ /\ ~refused
        /\ readers' = readers \cup {p}
        /\ Holds(n, NoSession)
        /\ To(p, "launching")
        /\ UNCHANGED <<claim, replaying, lock, writer>>
  /\ UNCHANGED env

\* The browser answers, or never does; a replay goes on in it.
Launches(p) ==
  LET n == at[p].slot
      new == [by |-> IF at[p].op \in {"open", "replay"} THEN "person" ELSE "assistant",
              discovery |-> at[p].op = "discover", gone |-> FALSE] IN
  /\ at[p].step = "launching"
  /\ \/ Returns(p) /\ UNCHANGED <<session, discovering>>
     \/ at[p].op \notin Replays /\ Holds(n, new) /\ Returns(p)
     \/ /\ at[p].op \in Replays
        /\ Holds(n, new)
        /\ readers' = readers \ {p}
        /\ To(p, "going")
        /\ UNCHANGED <<claim, replaying, lock, writer>>
  /\ UNCHANGED env

\* A replay ends, its browser left open or closed.
ReplayEnds(p) ==
  LET n == at[p].slot IN
  /\ at[p].op \in Replays /\ at[p].step = "going"
  /\ Returns(p)
  /\ Holds(n, session[n]) \/ Holds(n, NoSession)
  /\ UNCHANGED env

\* Close browser, End discovery, an assistant's release: the slot is emptied.
ClosesBrowser(n) ==
  /\ lock[n] = None
  /\ session[n] # NoSession
  /\ Holds(n, NoSession)
  /\ UNCHANGED <<at, owned, env>>

\* An assistant's End discovery that keeps its browser.
KeepsBrowser(n) ==
  /\ lock[n] = None
  /\ Discovers(n)
  /\ Holds(n, [session[n] EXCEPT !.discovery = FALSE])
  /\ UNCHANGED <<at, owned, env>>

\* The browser's window is closed, or it stops answering.
BrowserGoes(n) ==
  /\ Live(n)
  /\ session' = [session EXCEPT ![n].gone = TRUE]
  /\ UNCHANGED <<at, owned, discovering, env>>

-----------------------------------------------------------------------------
(* The environment switch (an address saved and an import do the same) and *)
(* Release.                                                                *)

SwitchCalls(p) ==
  /\ at[p] = Idle
  /\ Goes(p, "switch", "write", Main)
  /\ UNCHANGED <<owned, world>>

\* No reader and no writer is left: the call goes on as the writer.
Writes(p) ==
  /\ at[p].step = "write"
  /\ writer = None /\ readers = {}
  /\ writer' = p
  /\ Goes(p, at[p].op, "slots", Main)
  /\ UNCHANGED <<claim, replaying, lock, readers, world>>

\* A bug: the loop over the slots runs one too far.
LocksSlotPastTheLast(p, step) ==
  LET n == at[p].slot IN
  /\ lock[n] = None
  /\ Takes(p, n)
  /\ Goes(p, at[p].op, "slots", n + 1)
  /\ UNCHANGED <<claim, replaying, readers, writer, world>>

\* The next slot's lock, in slot order; then on to step.
LocksSlot(p, step) ==
  LET n == at[p].slot IN
  /\ lock[n] = None
  /\ Takes(p, n)
  /\ IF n < Last THEN Goes(p, at[p].op, "slots", n + 1)
                 ELSE Goes(p, at[p].op, step, Main)
  /\ UNCHANGED <<claim, replaying, readers, writer, world>>

\* Main's lock is waited for, an assistant's only tried.
SwitchLocks(p) ==
  /\ On(p, "switch", "slots")
  /\ \/ LocksSlot(p, "hearRecording")
     \/ /\ at[p].slot # Main
        /\ lock[at[p].slot] # None
        /\ Returns(p)
        /\ UNCHANGED world

SwitchHearsRecording(p) ==
  /\ On(p, "switch", "hearRecording")
  /\ Hears(p, claim["record"] # None, "hearRun")
  /\ UNCHANGED world

\* The rest of refuse_switch; an account some browser holds refuses too.
SwitchHearsRest(p) ==
  /\ On(p, "switch", "hearRun")
  /\ \/ Returns(p)
     \/ Hears(p, \/ claim["run"] # None
                 \/ claim["template"] # None
                 \/ \E n \in Slots : session[n] # NoSession, "template")
  /\ UNCHANGED world

\* The next claim of a call that takes several: taken, or the call is refused.
ClaimsNext(p, c, step) ==
  \/ claim[c] # None /\ Returns(p)
  \/ /\ claim[c] = None
     /\ claim' = [claim EXCEPT ![c] = p]
     /\ To(p, step)
     /\ UNCHANGED <<replaying, lock, readers, writer>>

\* A bug: the template runs are looked at, not kept out.
SwitchLooksAtTemplate(p) ==
  /\ On(p, "switch", "template")
  /\ Hears(p, claim["template"] # None, "moving")
  /\ UNCHANGED world

SwitchClaimsTemplate(p) ==
  /\ On(p, "switch", "template")
  /\ ClaimsNext(p, "template", "moving")
  /\ UNCHANGED world

\* The write, which may fail; what is held for the old environment is closed after.
SwitchMoves(p) ==
  /\ On(p, "switch", "moving")
  /\ \/ Returns(p) /\ UNCHANGED world
     \/ /\ env' \in Envs \ {env}
        /\ To(p, "closing")
        /\ UNCHANGED <<owned, session, discovering>>

SwitchEnds(p) == On(p, "switch", "closing") /\ Returns(p) /\ UNCHANGED world

ReleaseClaimsRun(p) == Claiming(p, "run", "release", "record")

ReleaseClaimsRecord(p) ==
  /\ On(p, "release", "record")
  /\ ClaimsNext(p, "record", "template")
  /\ UNCHANGED world

ReleaseClaimsTemplate(p) ==
  /\ On(p, "release", "template")
  /\ ClaimsNext(p, "template", "write")
  /\ UNCHANGED world

\* A bug: only the person's slot is waited for.
ReleaseLocksMain(p) ==
  /\ On(p, "release", "slots")
  /\ lock[Main] = None
  /\ Takes(p, Main)
  /\ Goes(p, "release", "moving", Main)
  /\ UNCHANGED <<claim, replaying, readers, writer, world>>

ReleaseLocks(p) == On(p, "release", "slots") /\ LocksSlot(p, "moving")

\* RELEASE_WAIT passes while the opening lock or a slot's stays taken.
ReleaseTimesOut(p) ==
  /\ \/ On(p, "release", "write") /\ (writer # None \/ readers # {})
     \/ On(p, "release", "slots") /\ lock[at[p].slot] # None
  /\ Returns(p)
  /\ UNCHANGED world

ReleaseCloses(p) ==
  /\ On(p, "release", "moving")
  /\ session' = [n \in Slots |-> NoSession]
  /\ discovering' = [n \in Slots |-> FALSE]
  /\ To(p, "closing")
  /\ UNCHANGED <<owned, env>>

ReleaseEnds(p) == On(p, "release", "closing") /\ Returns(p) /\ UNCHANGED world

-----------------------------------------------------------------------------

Starts(p) ==
  \/ RunClaims(p) \/ RecordClaims(p) \/ TemplateClaims(p) \/ CheckClaims(p)
  \/ OpenHearsRun(p) \/ SwitchCalls(p) \/ ReleaseClaimsRun(p)
  \/ \E n \in Slots :
       DiscoverHearsRun(p, n) \/ \E op \in Replays : ReplayClaims(p, op, n)

\* The steps that wait for a lock, which tokio hands over in order.
Acquires(p) ==
  \/ LooksAtSlot(p) \/ OpenHearsDiscovery(p) \/ OpenLocks(p)
  \/ DiscoverLocks(p) \/ ReplayLocks(p)
  \/ Writes(p) \/ SwitchLocks(p) \/ ReleaseLocks(p)

Continues(p) ==
  \/ RecordHearsRun(p) \/ RunHearsRecording(p)
  \/ CheckLooksAtSlot(p) \/ CheckBegins(p) \/ Ends(p)
  \/ DiscoverHearsRecording(p) \/ DiscoverHearsReplay(p)
  \/ ReplayHearsCheck(p) \/ ReplayHearsRun(p)
  \/ OpensInto(p) \/ Launches(p) \/ ReplayEnds(p)
  \/ SwitchHearsRecording(p) \/ SwitchHearsRest(p)
  \/ SwitchClaimsTemplate(p) \/ SwitchMoves(p) \/ SwitchEnds(p)
  \/ ReleaseClaimsRecord(p) \/ ReleaseClaimsTemplate(p)
  \/ ReleaseTimesOut(p) \/ ReleaseCloses(p) \/ ReleaseEnds(p)

Next ==
  \/ \E p \in Procs : Starts(p) \/ Acquires(p) \/ Continues(p)
  \/ \E n \in Slots : ClosesBrowser(n) \/ KeepsBrowser(n) \/ BrowserGoes(n)

Spec == Init /\ [][Next]_vars

-----------------------------------------------------------------------------
(* What the guards promise.                                                *)

Going(p, op) == On(p, op, "going")

\* A recording past its guards has the browsers to itself: none is open or
\* being opened in any slot, and no unattended run is past its own guards -
\* "two that start at the same moment cannot both miss each other"
\* (claim_the_recorder).
RecordingAlone ==
  \A p \in Procs : Going(p, "record") =>
    /\ \A n \in Slots : session[n] = NoSession
    /\ \A q \in Procs : at[q].step # "launching" /\ ~Going(q, "run")

\* Once Release has closed every browser, and until it returns, nothing can
\* start one: no run, recording, check, template run or replay is going, and
\* no slot's browser is open or being opened (release_autorun_browsers).
ReleaseAlone ==
  \A p \in Procs : On(p, "release", "closing") =>
    /\ \A n \in Slots : session[n] = NoSession
    /\ \A q \in Procs : at[q].step \notin {"launching", "going"}

\* Who signs in to the active environment's site.
EnvironmentInUse ==
  \/ \E p \in Procs : \/ \E op \in {"run", "record", "template"} : Going(p, op)
                      \/ at[p].step = "launching"
  \/ \E n \in Slots : session[n] # NoSession

\* The environment never changes under a run, a recording, a template run or
\* a browser open or being opened (switch_with and the guards it looks at).
EnvironmentStays == [][env' # env => ~EnvironmentInUse]_vars

\* Who is in p's way: it owns the lock p's next step waits for.
Blocks(q, p) ==
  \/ at[p].step = "write" /\ (writer = q \/ q \in readers)
  \/ /\ at[p].step \in {"look", "lock", "slots"}
     /\ at[p].op # "check"
     /\ lock[at[p].slot] = q
  \/ On(p, "open", "hearDiscovery") /\ discovering[Main] /\ lock[Main] = q

\* No set of calls waits in a circle, each for a lock another of them owns
\* ("the two never wait on each other", commands/autorun_slots.rs, opening):
\* a switch that waits for a slot, the open that holds it, and whoever waits
\* behind them.
NoCircularWait ==
  \A S \in (SUBSET Procs) \ {{}} :
    \E p \in S : \A q \in S : ~Blocks(q, p)

\* An unattended run and the browser of a person, of a replay or of a
\* discovery are never open at once: "the two kinds of session must never run
\* at once" (replay_is_running).  The code can break it: Open browser and a
\* discovery look at the run before they wait for the slot, not under its lock.
RunAlone ==
  \A p \in Procs : Going(p, "run") => \A n \in Slots : ~Live(n)
=============================================================================
