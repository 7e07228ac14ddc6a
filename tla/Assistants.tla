------------------------------ MODULE Assistants ------------------------------
(***************************************************************************)
(* Assistants at the AI bridge: who is connected (autorun/agents.rs), who  *)
(* works on which case (autorun/claims.rs), whose each browser slot is     *)
(* (commands/autorun_slots.rs), the calls that claim, pick, open and let   *)
(* go (ai_bridge.rs), the person's Release, and the sweeper that lets go   *)
(* of what an assistant left behind (commands/ai_bridge.rs).               *)
(*                                                                         *)
(* The registry, the claims and the bindings are three mutexes that no     *)
(* code holds across an await: one critical section is one step, and calls,*)
(* releases and the sweeper interleave between them.  A slot's session     *)
(* lock is held across awaits.                                             *)
(*                                                                         *)
(* A time stamp is the age of what it stamps: Tick lets time pass for all  *)
(* of them, and an age stops at the last one anybody asks about.           *)
(***************************************************************************)
EXTENDS Naturals

CONSTANTS Agents,       \* an assistant: a session, or a subagent it named
          Named,        \* the named subagents
          Proxies,      \* the processes assistants call through
          ProxyOf,      \* an assistant's process
          Cases,        \* test cases
          Calls,        \* calls under way at once
          Kinds,        \* what calls ask for
          SlotCount,    \* browser slots; slot 0 is main
          None,         \* nobody
          Person,       \* the person's Release
          Grace, ForgetAfter, NamedHold, ClaimTimeout, IdleAfter, QuietAfter

Main == 0
Slots == 0 .. SlotCount - 1
Extras == Slots \ {Main}
Claiming == {"start", "replay", "try", "save"}
Opening == {"start", "replay"}
AllKinds == Claiming \cup {"act", "end", "release"}
Releasers == Extras \cup {Person}

ASSUME AssistantsAssumption ==
  /\ SlotCount \in Nat \ {0}
  /\ Named \subseteq Agents
  /\ ProxyOf \in [Agents -> Proxies]
  /\ Kinds \subseteq AllKinds
  /\ None \notin Agents \cup Calls
  /\ Person \notin Slots
  /\ {Grace, ForgetAfter, NamedHold, ClaimTimeout, IdleAfter, QuietAfter}
       \subseteq Nat \ {0}
  /\ Grace <= ForgetAfter /\ NamedHold <= ClaimTimeout
  /\ ClaimTimeout <= IdleAfter /\ IdleAfter <= QuietAfter

VARIABLES running,   \* the proxies whose process runs
          reg,       \* the registry: what the app knows of each assistant
          claims,    \* who works on each case, and how long ago it claimed
          bound,     \* the assistant each slot's browser is in use by
          held,      \* the assistant replacing the browser in a slot
          notices,   \* released for idleness and not told yet
          retries,   \* <<slot, assistant>> whose release found it busy
          lock,      \* the call working in each slot
          session,   \* the browser in each slot, and what for
          call,      \* the calls
          release,   \* the releases by the person and by the sweeper
          sweep,     \* the sweeper
          judged     \* per slot, whom it was judged idle for

registry == <<running, reg>>
slots == <<bound, held>>
browsers == <<lock, session>>
told == <<notices, retries>>
sweeper == <<sweep, judged>>
vars == <<registry, claims, slots, told, browsers, call, release, sweeper>>

Steps == {"idle", "claim", "look", "pick", "hear", "lock", "hold", "launch",
          "relock", "sign", "work", "endClaims", "free", "freeing", "giveUp"}
Unknown == [state |-> "unknown", last |-> 0, gone |-> 0, reported |-> FALSE]
NoClaim == [holder |-> None, age |-> 0]
NoCall == [step |-> "idle", by |-> None, kind |-> "act", case |-> None,
           slot |-> Main, seen |-> {}, made |-> FALSE]
NoRelease == [step |-> "idle", slot |-> Main, key |-> None]
Asleep == [step |-> "asleep", dead |-> {}, past |-> {}, quiet |-> {}]
NotJudged == [step |-> "no", key |-> None, called |-> FALSE]

TypeOK ==
  /\ running \subseteq Proxies
  /\ reg \in [Agents -> [state : {"unknown", "live", "gone"}, last : 0 .. QuietAfter,
                         gone : 0 .. ForgetAfter, reported : BOOLEAN]]
  /\ claims \in [Cases -> [holder : Agents \cup {None}, age : 0 .. ClaimTimeout]]
  /\ bound \in [Slots -> Agents \cup {None}]
  /\ held \in [Slots -> Agents \cup {None}]
  /\ notices \subseteq Agents
  /\ retries \subseteq Extras \X Agents
  /\ lock \in [Slots -> Calls \cup {None}]
  /\ session \in [Slots -> {"none", "person", "kept", "discovery", "gone"}]
  /\ call \in [Calls -> [step : Steps, by : Agents \cup {None}, kind : AllKinds,
                         case : Cases \cup {None}, slot : Slots,
                         seen : SUBSET Extras, made : BOOLEAN]]
  /\ release \in [Releasers -> [step : {"idle", "asked", "closed"}, slot : Slots,
                                key : Agents \cup {None}]]
  /\ sweep \in [step : {"asleep", "asked", "swept", "releasing", "idling"},
                dead : SUBSET Agents, past : SUBSET Agents, quiet : SUBSET Agents]
  /\ judged \in [Slots -> [step : {"no", "judged", "closed"},
                           key : Agents \cup {None}, called : BOOLEAN]]

\* Nothing under way.
Unused ==
  /\ running = Proxies
  /\ claims = [x \in Cases |-> NoClaim]
  /\ held = [n \in Slots |-> None]
  /\ notices = {}
  /\ retries = {}
  /\ lock = [n \in Slots |-> None]
  /\ call = [c \in Calls |-> NoCall]
  /\ release = [r \in Releasers |-> NoRelease]
  /\ sweep = Asleep
  /\ judged = [n \in Slots |-> NotJudged]

Init ==
  /\ Unused
  /\ reg = [k \in Agents |-> Unknown]
  /\ bound = [n \in Slots |-> None]
  /\ session = [n \in Slots |-> "none"]

-----------------------------------------------------------------------------
(* What the steps ask and do.                                              *)

Live(k) == k # None /\ reg[k].state = "live"
QuietFor(k, t) == reg[k].state = "unknown" \/ reg[k].last >= t

\* A replay of slot n owns OneReplay from its claim to its end.
ReplaySteps == {"lock", "hold", "launch", "work"}
Replaying(n) == \E c \in Calls : /\ call[c].kind = "replay" /\ call[c].slot = n
                                 /\ call[c].step \in ReplaySteps

SlotBusy(n) == Replaying(n) \/ lock[n] # None
AgentBusy(k) == \E n \in Slots : bound[n] = k /\ SlotBusy(n)

\* Mutant: a named subagent's claim expires while its browser works.
ExpiredWhileWorking(x) ==
  \/ claims[x].age >= ClaimTimeout
  \/ /\ claims[x].holder \in Named /\ claims[x].age >= NamedHold
     /\ QuietFor(claims[x].holder, NamedHold)

Expired(x) ==
  \/ claims[x].age >= ClaimTimeout
  \/ /\ claims[x].holder \in Named /\ claims[x].age >= NamedHold
     /\ ~AgentBusy(claims[x].holder) /\ QuietFor(claims[x].holder, NamedHold)

Retained == [x \in Cases |-> IF Expired(x) THEN NoClaim ELSE claims[x]]

Ended(x) == [claims EXCEPT ![x] = NoClaim]
EndedAt(xs) == [x \in Cases |-> IF x \in xs THEN NoClaim ELSE claims[x]]

EndedFor(ks) ==
  [x \in Cases |-> IF claims[x].holder \in ks THEN NoClaim ELSE claims[x]]

\* Mutant: unbound under an open that holds it.
UnboundAnyway(n) == [bound EXCEPT ![n] = None]

\* The bindings once slot n is unbound: an open that holds it keeps it.
Unbound(n) == IF held[n] # None /\ held[n] = bound[n]
              THEN bound ELSE [bound EXCEPT ![n] = None]

\* Mutant: bind_if_free asks only about the slot.
BoundIfSlotFree(n, k) ==
  IF Live(k) /\ bound[n] = None THEN [bound EXCEPT ![n] = k] ELSE bound

\* bind_if_free.
BoundIfFree(n, k) ==
  IF Live(k) /\ bound[n] = None /\ \A i \in Slots : bound[i] # k
  THEN [bound EXCEPT ![n] = k] ELSE bound

\* Slot n's browser closes, which unbinds it, when there is one.
Closes(n) == /\ session[n] # "none"
             /\ session' = [session EXCEPT ![n] = "none"]
             /\ bound' = Unbound(n)

At(c, step) == call[c].step = step
To(c, step) == call' = [call EXCEPT ![c].step = step]
Returns(c) == call' = [call EXCEPT ![c] = NoCall]
Unlocks(c) == lock' = [n \in Slots |-> IF lock[n] = c THEN None ELSE lock[n]]

\* A start that made its claim gives it up; any other call just answers.
Answers(c) == IF call[c].kind = "start" /\ call[c].made THEN To(c, "giveUp")
                                                        ELSE Returns(c)
\* Answered 400 or more: an open first gives back the extra it reserved.
Fails(c) == IF call[c].kind \in Opening THEN To(c, "free") ELSE Returns(c)

-----------------------------------------------------------------------------
(* A call, to the browser it picks.                                        *)

\* A call of every assistant in ks came in: they are known, live and fresh,
\* and whoever is judging one of them idle will find that it called.
Noted(ks) ==
  /\ reg' = [k \in Agents |-> IF k \in ks
                              THEN [Unknown EXCEPT !.state = "live"] ELSE reg[k]]
  /\ judged' = [n \in Slots |->
                  [judged[n] EXCEPT !.called = @ \/ judged[n].key \in ks]]

CallArrives(c, k, kind, x) ==
  /\ At(c, "idle")
  /\ ProxyOf[k] \in running
  /\ (x = None) <=> (kind \notin Claiming)
  /\ Noted({k})
  /\ call' = [call EXCEPT ![c] =
       [NoCall EXCEPT !.step = IF kind \in Claiming THEN "claim" ELSE "pick",
                      !.by = k, !.kind = kind, !.case = x]]
  /\ UNCHANGED <<running, claims, slots, told, browsers, release, sweep>>

\* A lookup, which cannot name its subagent, counts as a call of every named
\* subagent of its proxy that is live, beside the session's own.
LookupArrives(p) ==
  /\ p \in running
  /\ Noted({k \in Agents : ProxyOf[k] = p /\ (k \in Named => Live(k))})
  /\ UNCHANGED <<running, claims, slots, told, browsers, call, release, sweep>>

ClaimsCase(c) ==
  LET x == call[c].case
      k == call[c].by
      holder == Retained[x].holder
  IN /\ At(c, "claim")
     /\ \/ /\ holder \in {None, k} \/ ~Live(holder)
           /\ claims' = [Retained EXCEPT ![x] = [holder |-> k, age |-> 0]]
           /\ IF call[c].kind = "save" THEN Returns(c)
              ELSE call' = [call EXCEPT
                     ![c].step = IF call[c].kind \in Opening THEN "look" ELSE "pick",
                     ![c].made = (holder # k)]
        \/ /\ holder \notin {None, k} /\ Live(holder)
           /\ claims' = Retained
           /\ Returns(c)
     /\ UNCHANGED <<registry, slots, told, browsers, release, sweeper>>

\* slot_for looks at the extras before it takes the bindings' lock.
LooksForEmpty(c) ==
  /\ At(c, "look")
  /\ call' = [call EXCEPT ![c].step = "pick",
       ![c].seen = {n \in Extras : lock[n] = None /\ session[n] = "none"}]
  /\ UNCHANGED <<registry, claims, slots, told, browsers, release, sweeper>>

MainIsFreeFor(k) == bound[Main] \in {None, k} \/ ~Live(bound[Main])
Lowest(ns) == CHOOSE n \in ns : \A i \in ns : n <= i

GoesTo(c, n) ==
  call' = [call EXCEPT ![c].step = "hear", ![c].slot = n, ![c].seen = {}]

Picks(c) ==
  LET k == call[c].by
      open == call[c].kind \in Opening
      mine == {n \in Slots : bound[n] = k}
      free == {n \in call[c].seen : bound[n] = None}
  IN /\ At(c, "pick")
     /\ notices' = notices \ {k}
     /\ \/ /\ mine # {}
           /\ GoesTo(c, Lowest(mine))
           /\ UNCHANGED bound
        \/ /\ mine = {} /\ k \in notices /\ ~open
           /\ Answers(c)
           /\ UNCHANGED bound
        \/ /\ mine = {} /\ (k \in notices => open) /\ MainIsFreeFor(k)
           /\ bound' = [bound EXCEPT ![Main] = k]
           /\ GoesTo(c, Main)
        \/ /\ mine = {} /\ (k \in notices => open) /\ ~MainIsFreeFor(k)
           /\ IF open /\ free # {}
              THEN /\ bound' = [bound EXCEPT ![Lowest(free)] = k]
                   /\ GoesTo(c, Lowest(free))
              ELSE Answers(c) /\ UNCHANGED bound
     /\ UNCHANGED <<registry, claims, held, retries, browsers, release, sweeper>>

-----------------------------------------------------------------------------
(* A call in its slot.                                                     *)

\* Refused for a replay going, or (an open) for what AutoRunGuards models.
Refused(c) ==
  /\ At(c, "hear")
  /\ Replaying(call[c].slot) \/ call[c].kind \in Opening
  /\ Fails(c)
  /\ UNCHANGED <<registry, claims, slots, told, browsers, release, sweeper>>

Goes(c) ==
  /\ At(c, "hear")
  /\ ~Replaying(call[c].slot)
  /\ To(c, "lock")
  /\ UNCHANGED <<registry, claims, slots, told, browsers, release, sweeper>>

TakesLock(c) ==
  LET n == call[c].slot
  IN /\ call[c].step \in {"lock", "relock"}
     /\ lock[n] = None
     /\ lock' = [lock EXCEPT ![n] = c]
     /\ To(c, CASE At(c, "relock") -> "sign"
                [] At(c, "lock") /\ call[c].kind \in Opening -> "hold"
                [] OTHER -> "work")
     /\ UNCHANGED <<registry, claims, slots, told, session, release, sweeper>>

\* Only the assistant's release does not wait for ever.
LockTimesOut(c) ==
  /\ At(c, "lock") /\ call[c].kind = "release"
  /\ lock[call[c].slot] # None
  /\ Returns(c)
  /\ UNCHANGED <<registry, claims, slots, told, browsers, release, sweeper>>

\* An open holds the binding and makes way: a browser that has gone, or is
\* another than the start wants, is closed; a replay ends the discovery.
HoldsAndMakesWay(c) ==
  LET n == call[c].slot
      h == [held EXCEPT ![n] = call[c].by]
  IN /\ At(c, "hold")
     /\ held' = h
     /\ \/ /\ session[n] = "gone" \/ (session[n] = "kept" /\ call[c].kind = "start")
           /\ session' = [session EXCEPT ![n] = "none"]
           /\ bound' = IF bound[n] = call[c].by THEN bound
                       ELSE [bound EXCEPT ![n] = None]
        \/ /\ \/ session[n] \in {"none", "kept"}
              \/ call[c].kind = "replay" /\ session[n] # "gone"
           /\ session' = [session EXCEPT ![n] = IF @ = "discovery" THEN "kept" ELSE @]
           /\ UNCHANGED bound
     /\ To(c, "launch")
     /\ UNCHANGED <<registry, claims, told, lock, release, sweeper>>

\* A start finds the person's browser, or a discovery; a replay was stopped.
HoldRefuses(c) ==
  LET n == call[c].slot
  IN /\ At(c, "hold")
     /\ call[c].kind = "replay" \/ session[n] \in {"person", "discovery"}
     /\ Unlocks(c)
     /\ Fails(c)
     /\ UNCHANGED <<registry, claims, slots, told, session, release, sweeper>>

Launches(c) ==
  LET n == call[c].slot
      s == session[n]
  IN /\ At(c, "launch")
     /\ bound' = BoundIfFree(n, call[c].by)
     /\ held' = [held EXCEPT ![n] = None]
     /\ IF call[c].kind = "start"
        THEN /\ session' = [session EXCEPT ![n] = "discovery"]
             /\ Unlocks(c)
             /\ To(c, "relock")
        ELSE /\ session' = [session EXCEPT ![n] = IF s = "none" THEN "kept" ELSE s]
             /\ UNCHANGED lock
             /\ To(c, "work")
     /\ UNCHANGED <<registry, claims, told, release, sweeper>>

LaunchFails(c) ==
  /\ At(c, "launch")
  /\ session[call[c].slot] = "none"
  /\ held' = [held EXCEPT ![call[c].slot] = None]
  /\ Unlocks(c)
  /\ Fails(c)
  /\ UNCHANGED <<registry, claims, bound, told, session, release, sweeper>>

\* The start's second hold of the lock: its sign-in, if its discovery is still
\* there; one that fails closes the browser.
SignsIn(c) ==
  LET n == call[c].slot
  IN /\ At(c, "sign")
     /\ \/ session[n] = "discovery" /\ Returns(c) /\ UNCHANGED <<session, bound>>
        \/ session[n] \in {"discovery", "gone"} /\ Closes(n) /\ Fails(c)
        \/ session[n] \in {"none", "person", "kept"} /\ Fails(c)
           /\ UNCHANGED <<session, bound>>
     /\ Unlocks(c)
     /\ UNCHANGED <<registry, claims, held, told, release, sweeper>>

\* A replay, a try or an action ends; a browser that has gone is let go.
WorkEnds(c) ==
  /\ At(c, "work") /\ call[c].kind \in {"replay", "try", "act"}
  /\ \/ session[call[c].slot] # "gone" /\ UNCHANGED <<session, bound>> /\ Returns(c)
     \/ session[call[c].slot] = "gone" /\ Closes(call[c].slot) /\ Fails(c)
  /\ Unlocks(c)
  /\ UNCHANGED <<registry, claims, held, told, release, sweeper>>

\* The assistant's end of its discovery: the browser is closed, or kept.
EndsDiscovery(c) ==
  LET n == call[c].slot
  IN /\ At(c, "work") /\ call[c].kind = "end"
     /\ \/ session[n] \in {"kept", "discovery", "gone"} /\ Closes(n)
        \/ /\ session[n] # "gone"
           /\ session' = [session EXCEPT ![n] = IF @ = "discovery" THEN "kept" ELSE @]
           /\ UNCHANGED bound
     /\ Unlocks(c)
     /\ To(c, "endClaims")
     /\ UNCHANGED <<registry, claims, held, told, release, sweeper>>

\* Mutant: the assistant's release closes whatever is in its slot.
LetsGoOfAny(c) ==
  LET n == call[c].slot
  IN /\ At(c, "work") /\ call[c].kind = "release"
     /\ session' = [session EXCEPT ![n] = "none"]
     /\ bound' = Unbound(n)
     /\ Unlocks(c)
     /\ To(c, "endClaims")
     /\ UNCHANGED <<registry, claims, held, told, release, sweeper>>

\* The assistant's release: its own browser is closed, the person's stays,
\* and either way it no longer has the slot.
LetsGo(c) ==
  LET n == call[c].slot
  IN /\ At(c, "work") /\ call[c].kind = "release"
     /\ session' = [session EXCEPT ![n] = IF @ = "person" THEN @ ELSE "none"]
     /\ bound' = Unbound(n)
     /\ Unlocks(c)
     /\ To(c, "endClaims")
     /\ UNCHANGED <<registry, claims, held, told, release, sweeper>>

EndsClaims(c) ==
  /\ At(c, "endClaims")
  /\ claims' = EndedFor({call[c].by})
  /\ Returns(c)
  /\ UNCHANGED <<registry, slots, told, browsers, release, sweeper>>

\* free_extra_if_unused looks at the slot, then takes the bindings' lock.
LooksAtUnused(c) ==
  LET n == call[c].slot
  IN /\ At(c, "free")
     /\ IF n # Main /\ lock[n] = None /\ session[n] = "none"
        THEN To(c, "freeing") ELSE Answers(c)
     /\ UNCHANGED <<registry, claims, slots, told, browsers, release, sweeper>>

FreesUnused(c) ==
  LET n == call[c].slot
  IN /\ At(c, "freeing")
     /\ bound' = IF bound[n] = call[c].by /\ held[n] = None
                 THEN [bound EXCEPT ![n] = None] ELSE bound
     /\ Answers(c)
     /\ UNCHANGED <<registry, claims, held, told, browsers, release, sweeper>>

GivesUpClaim(c) ==
  LET x == call[c].case
  IN /\ At(c, "giveUp")
     /\ claims' = IF claims[x].holder = call[c].by THEN Ended(x) ELSE claims
     /\ Returns(c)
     /\ UNCHANGED <<registry, slots, told, browsers, release, sweeper>>

-----------------------------------------------------------------------------
(* The person, the processes and the clock.                                *)

PersonOpens ==
  /\ lock[Main] = None
  /\ session[Main] # "discovery"
  /\ session' = [session EXCEPT ![Main] = "person"]
  /\ bound' = Unbound(Main)
  /\ UNCHANGED <<registry, claims, held, told, lock, call, release, sweeper>>

PersonCloses ==
  /\ lock[Main] = None
  /\ Closes(Main)
  /\ UNCHANGED <<registry, claims, held, told, lock, call, release, sweeper>>

BrowserGoes(n) ==
  /\ session[n] \in {"person", "kept", "discovery"}
  /\ session' = [session EXCEPT ![n] = "gone"]
  /\ UNCHANGED <<registry, claims, slots, told, lock, call, release, sweeper>>

\* A proxy's process ends, with a goodbye or without.
GoodbyeArrives(p) ==
  /\ p \in running
  /\ running' = running \ {p}
  /\ reg' = [k \in Agents |-> IF ProxyOf[k] = p /\ Live(k)
       THEN [reg[k] EXCEPT !.state = "gone", !.gone = 0, !.reported = FALSE] ELSE reg[k]]
  /\ UNCHANGED <<claims, slots, told, browsers, call, release, sweeper>>

Dies(p) ==
  /\ p \in running
  /\ running' = running \ {p}
  /\ UNCHANGED <<reg, claims, slots, told, browsers, call, release, sweeper>>

Older(t, limit) == IF t < limit THEN t + 1 ELSE t
AgedReg == [k \in Agents |->
  [reg[k] EXCEPT
     !.last = IF reg[k].state = "unknown" THEN @ ELSE Older(@, QuietAfter),
     !.gone = IF reg[k].state = "gone" THEN Older(@, ForgetAfter) ELSE @]]
AgedClaims == [x \in Cases |->
  [claims[x] EXCEPT !.age = IF claims[x].holder = None THEN @
                            ELSE Older(@, ClaimTimeout)]]

Tick ==
  /\ reg' = AgedReg
  /\ claims' = AgedClaims
  /\ <<reg, claims>>' # <<reg, claims>>
  /\ UNCHANGED <<running, slots, told, browsers, call, release, sweeper>>

-----------------------------------------------------------------------------
(* A release of a slot, by the person or by the sweeper.                   *)

\* Read before the unbind: whose claims end with the release.
Asked(n) == [step |-> "asked", slot |-> n, key |-> bound[n]]

PersonReleases(n) ==
  /\ release[Person].step = "idle"
  /\ release' = [release EXCEPT ![Person] = Asked(n)]
  /\ UNCHANGED <<registry, claims, slots, told, browsers, call, sweeper>>

ReleaseCloses(r) ==
  LET n == release[r].slot
  IN /\ release[r].step = "asked"
     /\ lock[n] = None
     /\ \/ session[n] \in {"kept", "discovery", "gone"} /\ Closes(n)
        \/ session[n] \in {"none", "person"} /\ UNCHANGED <<session, bound>>
     /\ release' = [release EXCEPT ![r].step = "closed"]
     /\ UNCHANGED <<registry, claims, held, told, lock, call, sweeper>>

\* Mutant: the person's release is asked again too.
EveryReleaseTimesOut(r) ==
  LET n == release[r].slot
  IN /\ release[r].step = "asked"
     /\ lock[n] # None
     /\ release' = [release EXCEPT ![r] = NoRelease]
     /\ retries' = retries \cup {<<n, release[r].key>>}
     /\ UNCHANGED <<registry, claims, slots, notices, browsers, call, sweeper>>

\* The sweeper's is asked again on its next round.
ReleaseTimesOut(r) ==
  LET n == release[r].slot
  IN /\ release[r].step = "asked"
     /\ lock[n] # None
     /\ release' = [release EXCEPT ![r] = NoRelease]
     /\ retries' = IF r = Person THEN retries
                   ELSE retries \cup {<<n, release[r].key>>}
     /\ UNCHANGED <<registry, claims, slots, notices, browsers, call, sweeper>>

\* The claims end of whoever held the slot when the release was asked for; of
\* a slot nobody held, those that one who let it go, and has no other, made
\* before it did.
ReleaseUnbinds(r) ==
  LET k == release[r].key
  IN /\ release[r].step = "closed"
     /\ bound' = Unbound(release[r].slot)
     /\ \/ k # None /\ claims' = EndedFor({k})
        \/ k = None /\ UNCHANGED claims
        \/ /\ k = None
           /\ \E last \in Agents :
                /\ \A n \in Slots : bound'[n] # last
                /\ \E xs \in SUBSET {x \in Cases : claims[x].holder = last} : claims' = EndedAt(xs)
     /\ release' = [release EXCEPT ![r] = NoRelease]
     /\ UNCHANGED <<registry, held, told, browsers, call, sweeper>>

-----------------------------------------------------------------------------
(* The sweeper: one sweep of the registry, what it found, then idleness.   *)

Sweeps(step) == sweep' = [Asleep EXCEPT !.step = step]

\* Asked without the registry's lock.
SweepAsks ==
  /\ sweep.step = "asleep"
  /\ sweep' = [Asleep EXCEPT !.step = "asked",
                 !.dead = {k \in Agents : Live(k) /\ ProxyOf[k] \notin running}]
  /\ UNCHANGED <<registry, claims, slots, told, browsers, call, release, judged>>

SweepJudges ==
  LET newly == {k \in sweep.dead : Live(k)}
      quiet == {k \in Named \ newly : Live(k) /\ reg[k].last >= QuietAfter}
      gone == {k \in Agents : reg[k].state = "gone"}
      past == {k \in gone : ~reg[k].reported /\ reg[k].gone >= Grace}
      forget == {k \in gone : reg[k].reported /\ reg[k].gone >= ForgetAfter}
  IN /\ sweep.step = "asked"
     /\ reg' = [k \in Agents |->
          CASE k \in newly \cup quiet ->
                 [reg[k] EXCEPT !.state = "gone", !.gone = 0, !.reported = (k \in quiet)]
            [] k \in past -> [reg[k] EXCEPT !.reported = TRUE]
            [] k \in forget -> Unknown
            [] OTHER -> reg[k]]
     /\ sweep' = [step |-> "swept", dead |-> {}, past |-> past, quiet |-> quiet]
     /\ UNCHANGED <<running, claims, slots, told, browsers, call, release, judged>>

\* One past its grace loses its claims and main, and its extra is released,
\* as is one whose release found it busy before; a quiet one loses main.
HandlesSweep ==
  LET again == {n \in Extras : \/ bound[n] \in sweep.past
                               \/ <<n, bound[n]>> \in retries}
  IN /\ sweep.step = "swept"
     /\ claims' = EndedFor(sweep.past)
     /\ bound' = IF bound[Main] \in sweep.past \cup sweep.quiet
                 THEN [bound EXCEPT ![Main] = None] ELSE bound
     /\ release' = [r \in Releasers |-> IF r \in again THEN Asked(r) ELSE release[r]]
     /\ retries' = {}
     /\ Sweeps("releasing")
     /\ UNCHANGED <<registry, held, notices, browsers, call, judged>>

IdleFor(k) == IF k \in Named THEN NamedHold ELSE IdleAfter
Idle(n) ==
  LET k == bound[n]
  IN /\ k # None
     /\ n = Main => k \in Named /\ session[n] \in {"kept", "discovery", "gone"}
     /\ QuietFor(k, IdleFor(k))
     /\ ~SlotBusy(n)

JudgesIdle ==
  /\ sweep.step = "releasing"
  /\ \A r \in Extras : release[r].step = "idle"
  /\ judged' = [n \in Slots |->
       IF Idle(n) THEN [step |-> "judged", key |-> bound[n], called |-> FALSE]
                  ELSE NotJudged]
  /\ Sweeps("idling")
  /\ UNCHANGED <<registry, claims, slots, told, browsers, call, release>>

Unchanged(n) == bound[n] = judged[n].key /\ ~judged[n].called

IdleSpares(n) ==
  /\ judged[n].step = "judged"
  /\ ~Unchanged(n) \/ SlotBusy(n) \/ (n = Main /\ session[n] \in {"none", "person"})
  /\ judged' = [judged EXCEPT ![n] = NotJudged]
  /\ UNCHANGED <<registry, claims, slots, told, browsers, call, release, sweep>>

IdleCloses(n) ==
  /\ judged[n].step = "judged"
  /\ Unchanged(n) /\ ~SlotBusy(n)
  /\ \/ session[n] \in {"kept", "discovery", "gone"} /\ Closes(n)
     \/ n # Main /\ session[n] = "none" /\ UNCHANGED <<session, bound>>
  /\ judged' = [judged EXCEPT ![n].step = "closed"]
  /\ UNCHANGED <<registry, claims, held, told, lock, call, release, sweep>>

\* Unbound and told only if the assistant has made no call since it was
\* judged; the claims it made before its last call end.
IdleUnbinds(n) ==
  LET k == judged[n].key
      kept == held[n] # None /\ held[n] = bound[n]
      old(x) == claims[x].holder = k
                /\ (reg[k].state = "unknown" \/ claims[x].age > reg[k].last)
      same(x) == claims[x].holder = k /\ claims[x].age = reg[k].last
  IN /\ judged[n].step = "closed"
     /\ IF judged[n].called \/ kept THEN UNCHANGED <<claims, bound, notices>>
        ELSE /\ bound' = Unbound(n)
             /\ notices' = notices \cup {k}
             /\ \E xs \in SUBSET {x \in Cases : same(x)} :
                  claims' = EndedAt(xs \cup {x \in Cases : old(x)})
     /\ judged' = [judged EXCEPT ![n] = NotJudged]
     /\ UNCHANGED <<registry, held, retries, browsers, call, release, sweep>>

SweepEnds ==
  /\ sweep.step = "idling"
  /\ \A n \in Slots : judged[n].step = "no"
  /\ Sweeps("asleep")
  /\ UNCHANGED <<registry, claims, slots, told, browsers, call, release, judged>>

-----------------------------------------------------------------------------

CallMoves(c) ==
  \/ ClaimsCase(c) \/ LooksForEmpty(c) \/ Picks(c) \/ Refused(c) \/ Goes(c)
  \/ TakesLock(c) \/ LockTimesOut(c) \/ HoldsAndMakesWay(c) \/ HoldRefuses(c)
  \/ Launches(c) \/ LaunchFails(c) \/ SignsIn(c) \/ WorkEnds(c)
  \/ EndsDiscovery(c) \/ LetsGo(c) \/ EndsClaims(c) \/ LooksAtUnused(c)
  \/ FreesUnused(c) \/ GivesUpClaim(c)

ReleaseMoves(r) == ReleaseCloses(r) \/ ReleaseTimesOut(r) \/ ReleaseUnbinds(r)

SweepGoesOn ==
  \/ SweepJudges \/ HandlesSweep \/ JudgesIdle \/ SweepEnds
  \/ \E n \in Slots : IdleSpares(n) \/ IdleCloses(n) \/ IdleUnbinds(n)

Next ==
  \/ \E c \in Calls, k \in Agents, kind \in Kinds, x \in Cases \cup {None} :
       CallArrives(c, k, kind, x)
  \/ \E p \in Proxies : LookupArrives(p) \/ GoodbyeArrives(p) \/ Dies(p)
  \/ \E c \in Calls : CallMoves(c)
  \/ PersonOpens \/ PersonCloses \/ Tick
  \/ \E n \in Slots : BrowserGoes(n) \/ PersonReleases(n)
  \/ \E r \in Releasers : ReleaseMoves(r)
  \/ SweepAsks \/ SweepGoesOn

Spec == Init /\ [][Next]_vars

-----------------------------------------------------------------------------
(* Properties.                                                             *)

\* An assistant is bound to at most one slot, whatever binds, takes over,
\* lets go and binds again at the same time.
BoundOnce ==
  \A m, n \in Slots : bound[m] # None /\ bound[m] = bound[n] => m = n

\* While an assistant's open replaces the browser of its extra slot, nothing
\* takes the slot from it: not the close of the old browser, not a release
\* that let the lock go a moment ago, not the sweeper.
HoldKeepsSlot ==
  [][\A n \in Extras : held[n] # None /\ held'[n] = held[n] /\ bound[n] = held[n]
                       => bound'[n] = bound[n]]_vars

\* A browser the person opened is closed by the person, or has gone.
PersonsStays ==
  [][\A n \in Slots : session[n] = "person" /\ session'[n] # "person"
                      => session'[n] = "gone" \/ PersonCloses]_vars

\* Nobody takes over the case of a live assistant while its browser works,
\* until the longest a claim lasts.
WorkerKeepsCase ==
  [][\A x \in Cases :
       LET k == claims[x].holder
       IN k # None /\ claims'[x].holder \notin {None, k}
          => ~Live(k) \/ ~AgentBusy(k) \/ claims[x].age >= ClaimTimeout]_vars

\* An idle release never takes the slot of another assistant than the one it
\* judged.
IdleTakesItsOwn ==
  [][\A n \in Slots : IdleUnbinds(n) /\ bound'[n] # bound[n]
                      => bound[n] = judged[n].key]_vars
===============================================================================
