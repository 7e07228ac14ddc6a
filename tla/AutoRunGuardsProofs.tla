------------------------- MODULE AutoRunGuardsProofs -------------------------
(***************************************************************************)
(* Proofs about AutoRunGuards, for any set of calls and any number of      *)
(* slots.  The inductive invariant says who owns what by where each call   *)
(* is (Owned), and then what the three operations that need the browsers   *)
(* to themselves have already made sure of on their way (RecordInv,        *)
(* ReleaseInv, SwitchInv).                                                 *)
(***************************************************************************)
EXTENDS AutoRunGuards, TLAPS

\* The steps of a call that has every slot's lock.
LockedAfterSlots == {"hearRecording", "hearRun", "template", "moving", "closing"}

\* Where a call is when it owns a claim, a replay slot, a slot's lock or the
\* opening lock for writing.
OwnsClaim(a, c) ==
  \/ c = "run" /\ a.op \in {"run", "check", "release"}
  \/ c = "record" /\ (a.op = "record" \/ (a.op = "release" /\ a.step # "record"))
  \/ /\ c = "template"
     /\ \/ a.op = "template"
        \/ a.op = "release" /\ a.step \notin {"record", "template"}
        \/ a.op = "switch" /\ a.step \in {"moving", "closing"}
  \/ c = "check" /\ a.op = "check" /\ a.step = "going"

OwnsReplay(a, n) == a.op \in Replays /\ a.slot = n

OwnsLock(a, n) ==
  \/ /\ a.op \in {"open", "discover"} \cup Replays
     /\ a.step \in {"opening", "launching", "going"}
     /\ a.slot = n
  \/ a.op \in Replays /\ a.step = "hearRun" /\ a.slot = n
  \/ a.op \in {"switch", "release"} /\ a.step = "slots" /\ n < a.slot
  \/ a.op = "switch" /\ a.step \in LockedAfterSlots
  \/ a.op = "release" /\ a.step \in {"moving", "closing"}

IsWriter(a) ==
  \/ a.op = "switch" /\ a.step # "write"
  \/ a.op = "release" /\ a.step \in {"slots", "moving", "closing"}

\* The world's owners are the calls that are where an owner is.
Owned ==
  \A p \in Procs :
    /\ \A c \in Claims : claim[c] = p <=> OwnsClaim(at[p], c)
    /\ \A n \in Slots : replaying[n] = p <=> OwnsReplay(at[p], n)
    /\ \A n \in Slots : lock[n] = p <=> OwnsLock(at[p], n)
    /\ p \in readers <=> at[p].step = "launching"
    /\ writer = p <=> IsWriter(at[p])

\* What a recording has seen stays so: no browser in the slots it has looked
\* at, none being opened there, and no run past its guards.
RecordInv ==
  \A p \in Procs : at[p].op = "record" =>
    /\ at[p].step = "hearRun" => at[p].slot = Main
    /\ \A n \in Slots : (at[p].step = "going" \/ (at[p].step = "look" /\ n < at[p].slot)) =>
         /\ session[n] = NoSession
         /\ \A q \in Procs : at[q].step = "launching" => at[q].slot # n
    /\ at[p].step # "hearRun" => \A q \in Procs : ~Going(q, "run")

\* Release has closed every browser.
ReleaseInv ==
  \A p \in Procs : On(p, "release", "closing") => \A n \in Slots : session[n] = NoSession

\* What a switch has looked at stays so until it moves the environment.
SwitchInv ==
  \A p \in Procs : at[p].op = "switch" =>
    /\ at[p].step \in {"hearRun", "template", "moving"} =>
         \A q \in Procs : ~Going(q, "record")
    /\ at[p].step \in {"template", "moving"} =>
         /\ \A n \in Slots : session[n] = NoSession
         /\ \A q \in Procs : at[q].op = "run" => at[q].step = "look"

-----------------------------------------------------------------------------
(* Types.                                                                  *)

LEMMA SlotsTyped == Main \in Slots /\ Last \in Slots /\ Slots \subseteq Nat
  BY GuardsAssumption DEF Main, Last, Slots

LEMMA NextSlot == ASSUME NEW n \in Slots, n < Last PROVE n + 1 \in Slots
  BY GuardsAssumption DEF Last, Slots

LEMMA HoldsTyped ==
  ASSUME WorldTypes, NEW n \in Slots, NEW s \in Sessions, Holds(n, s), env' = env
  PROVE  WorldTypes'
  BY DEF WorldTypes, Holds, Sessions

LEMMA KeptTyped ==
  ASSUME WorldTypes, NEW n \in Slots
  PROVE  Kept(n) \in Sessions /\ NoSession \in Sessions
  BY DEF WorldTypes, Kept, NoSession, Sessions

LEMMA WorldSame ==
  ASSUME WorldTypes, session' = session, discovering' = discovering, env' = env
  PROVE  WorldTypes'
  BY DEF WorldTypes, world

\* A step leaves every call at a step of its operation.
LEMMA AtTypesStep ==
  ASSUME AtTypes, [Next]_vars
  PROVE  AtTypes'
<1>1. ASSUME NEW p \in Procs, RunClaims(p) PROVE AtTypes'
  BY <1>1, SlotsTyped DEF RunClaims, Claiming, Goes, AtTypes, Placed, Ops, Steps
<1>2. ASSUME NEW p \in Procs, RecordClaims(p) PROVE AtTypes'
  BY <1>2, SlotsTyped DEF RecordClaims, Claiming, Goes, AtTypes, Placed, Ops, Steps
<1>3. ASSUME NEW p \in Procs, TemplateClaims(p) PROVE AtTypes'
  BY <1>3, SlotsTyped DEF TemplateClaims, Claiming, Goes, AtTypes, Placed, Ops, Steps
<1>4. ASSUME NEW p \in Procs, CheckClaims(p) PROVE AtTypes'
  BY <1>4, SlotsTyped DEF CheckClaims, Claiming, Goes, AtTypes, Placed, Ops, Steps
<1>5. ASSUME NEW p \in Procs, OpenHearsRun(p) PROVE AtTypes'
  BY <1>5, SlotsTyped DEF OpenHearsRun, Goes, AtTypes, Placed, Ops, Steps
<1>6. ASSUME NEW p \in Procs, SwitchCalls(p) PROVE AtTypes'
  BY <1>6, SlotsTyped DEF SwitchCalls, Goes, AtTypes, Placed, Ops, Steps
<1>7. ASSUME NEW p \in Procs, ReleaseClaimsRun(p) PROVE AtTypes'
  BY <1>7, SlotsTyped DEF ReleaseClaimsRun, Claiming, Goes, AtTypes, Placed, Ops, Steps
<1>8. ASSUME NEW p \in Procs, NEW n \in Slots, DiscoverHearsRun(p, n) PROVE AtTypes'
  BY <1>8, SlotsTyped DEF DiscoverHearsRun, Goes, AtTypes, Placed, Ops, Steps
<1>9. ASSUME NEW p \in Procs, NEW op \in Replays, NEW n \in Slots, ReplayClaims(p, op,
n) PROVE AtTypes'
  BY <1>9, SlotsTyped DEF ReplayClaims, Goes, AtTypes, Placed, Ops, Steps, Replays
<1>10. ASSUME NEW p \in Procs, LooksAtSlot(p) PROVE AtTypes'
  <2>1. /\ at[p].slot \in Slots
        /\ at[p].slot < Last => at[p].slot + 1 \in Slots
    BY NextSlot DEF AtTypes
  <2>q. QED
    BY <1>10, <2>1, SlotsTyped DEF LooksAtSlot, On, Returns, Idle, Goes, To, AtTypes,
      Placed, Ops, Steps
<1>11. ASSUME NEW p \in Procs, OpenHearsDiscovery(p) PROVE AtTypes'
  BY <1>11, SlotsTyped DEF OpenHearsDiscovery, On, To, Goes, Hears, Returns, Idle, AtTypes,
    Placed, Ops, Steps
<1>12. ASSUME NEW p \in Procs, OpenLocks(p) PROVE AtTypes'
  BY <1>12, SlotsTyped DEF OpenLocks, On, Returns, Idle, To, Goes, AtTypes, Placed, Ops,
    Steps
<1>13. ASSUME NEW p \in Procs, DiscoverLocks(p) PROVE AtTypes'
  BY <1>13, SlotsTyped DEF DiscoverLocks, On, Returns, Idle, To, Goes, AtTypes, Placed,
    Ops, Steps
<1>14. ASSUME NEW p \in Procs, ReplayLocks(p) PROVE AtTypes'
  BY <1>14, SlotsTyped DEF ReplayLocks, Returns, Idle, To, Goes, AtTypes, Placed, Ops, Steps
<1>15. ASSUME NEW p \in Procs, Writes(p) PROVE AtTypes'
  BY <1>15, SlotsTyped DEF Writes, Goes, AtTypes, Placed, Ops, Steps
<1>16. ASSUME NEW p \in Procs, SwitchLocks(p) PROVE AtTypes'
  <2>1. /\ at[p].slot \in Slots
        /\ at[p].slot < Last => at[p].slot + 1 \in Slots
    BY NextSlot DEF AtTypes
  <2>q. QED
    BY <1>16, <2>1, SlotsTyped DEF SwitchLocks, On, LocksSlot, Goes, Returns, Idle,
      AtTypes, Placed, Ops, Steps
<1>17. ASSUME NEW p \in Procs, ReleaseLocks(p) PROVE AtTypes'
  <2>1. /\ at[p].slot \in Slots
        /\ at[p].slot < Last => at[p].slot + 1 \in Slots
    BY NextSlot DEF AtTypes
  <2>q. QED
    BY <1>17, <2>1, SlotsTyped DEF ReleaseLocks, On, LocksSlot, Goes, AtTypes, Placed, Ops,
      Steps
<1>18. ASSUME NEW p \in Procs, RecordHearsRun(p) PROVE AtTypes'
  BY <1>18, SlotsTyped DEF RecordHearsRun, On, Hears, Returns, Idle, To, Goes, AtTypes,
    Placed, Ops, Steps
<1>19. ASSUME NEW p \in Procs, RunHearsRecording(p) PROVE AtTypes'
  BY <1>19, SlotsTyped DEF RunHearsRecording, On, Hears, Returns, Idle, To, Goes, AtTypes,
    Placed, Ops, Steps
<1>20. ASSUME NEW p \in Procs, CheckLooksAtSlot(p) PROVE AtTypes'
  <2>1. /\ at[p].slot \in Slots
        /\ at[p].slot < Last => at[p].slot + 1 \in Slots
    BY NextSlot DEF AtTypes
  <2>q. QED
    BY <1>20, <2>1, SlotsTyped DEF CheckLooksAtSlot, On, Returns, Idle, Goes, To, AtTypes,
      Placed, Ops, Steps
<1>21. ASSUME NEW p \in Procs, CheckBegins(p) PROVE AtTypes'
  BY <1>21, SlotsTyped DEF CheckBegins, On, To, Goes, AtTypes, Placed, Ops, Steps
<1>22. ASSUME NEW p \in Procs, Ends(p) PROVE AtTypes'
  BY <1>22, SlotsTyped DEF Ends, Returns, Idle, AtTypes, Placed, Ops, Steps
<1>23. ASSUME NEW p \in Procs, DiscoverHearsRecording(p) PROVE AtTypes'
  BY <1>23, SlotsTyped DEF DiscoverHearsRecording, On, Hears, Returns, Idle, To, Goes,
    AtTypes, Placed, Ops, Steps
<1>24. ASSUME NEW p \in Procs, DiscoverHearsReplay(p) PROVE AtTypes'
  BY <1>24, SlotsTyped DEF DiscoverHearsReplay, On, Hears, Returns, Idle, To, Goes,
    AtTypes, Placed, Ops, Steps
<1>25. ASSUME NEW p \in Procs, ReplayHearsCheck(p) PROVE AtTypes'
  BY <1>25, SlotsTyped DEF ReplayHearsCheck, Hears, Returns, Idle, To, Goes, AtTypes,
    Placed, Ops, Steps
<1>26. ASSUME NEW p \in Procs, ReplayHearsRun(p) PROVE AtTypes'
  BY <1>26, SlotsTyped DEF ReplayHearsRun, Hears, Returns, Idle, To, Goes, AtTypes, Placed,
    Ops, Steps
<1>27. ASSUME NEW p \in Procs, OpensInto(p) PROVE AtTypes'
  BY <1>27, SlotsTyped DEF OpensInto, Returns, Idle, To, Goes, AtTypes, Placed, Ops, Steps
<1>28. ASSUME NEW p \in Procs, Launches(p) PROVE AtTypes'
  BY <1>28, SlotsTyped DEF Launches, Returns, Idle, To, Goes, AtTypes, Placed, Ops, Steps
<1>29. ASSUME NEW p \in Procs, ReplayEnds(p) PROVE AtTypes'
  BY <1>29, SlotsTyped DEF ReplayEnds, Returns, Idle, AtTypes, Placed, Ops, Steps
<1>30. ASSUME NEW p \in Procs, SwitchHearsRecording(p) PROVE AtTypes'
  BY <1>30, SlotsTyped DEF SwitchHearsRecording, On, Hears, Returns, Idle, To, Goes,
    AtTypes, Placed, Ops, Steps
<1>31. ASSUME NEW p \in Procs, SwitchHearsRest(p) PROVE AtTypes'
  BY <1>31, SlotsTyped DEF SwitchHearsRest, On, Returns, Idle, Hears, To, Goes, AtTypes,
    Placed, Ops, Steps
<1>32. ASSUME NEW p \in Procs, SwitchClaimsTemplate(p) PROVE AtTypes'
  BY <1>32, SlotsTyped DEF SwitchClaimsTemplate, On, ClaimsNext, Returns, Idle, To, Goes,
    AtTypes, Placed, Ops, Steps
<1>33. ASSUME NEW p \in Procs, SwitchMoves(p) PROVE AtTypes'
  BY <1>33, SlotsTyped DEF SwitchMoves, On, Returns, Idle, To, Goes, AtTypes, Placed, Ops,
    Steps
<1>34. ASSUME NEW p \in Procs, SwitchEnds(p) PROVE AtTypes'
  BY <1>34, SlotsTyped DEF SwitchEnds, Returns, Idle, AtTypes, Placed, Ops, Steps
<1>35. ASSUME NEW p \in Procs, ReleaseClaimsRecord(p) PROVE AtTypes'
  BY <1>35, SlotsTyped DEF ReleaseClaimsRecord, On, ClaimsNext, Returns, Idle, To, Goes,
    AtTypes, Placed, Ops, Steps
<1>36. ASSUME NEW p \in Procs, ReleaseClaimsTemplate(p) PROVE AtTypes'
  BY <1>36, SlotsTyped DEF ReleaseClaimsTemplate, On, ClaimsNext, Returns, Idle, To, Goes,
    AtTypes, Placed, Ops, Steps
<1>37. ASSUME NEW p \in Procs, ReleaseTimesOut(p) PROVE AtTypes'
  BY <1>37, SlotsTyped DEF ReleaseTimesOut, Returns, Idle, AtTypes, Placed, Ops, Steps
<1>38. ASSUME NEW p \in Procs, ReleaseCloses(p) PROVE AtTypes'
  BY <1>38, SlotsTyped DEF ReleaseCloses, On, To, Goes, AtTypes, Placed, Ops, Steps
<1>39. ASSUME NEW p \in Procs, ReleaseEnds(p) PROVE AtTypes'
  BY <1>39, SlotsTyped DEF ReleaseEnds, Returns, Idle, AtTypes, Placed, Ops, Steps
<1>40. ASSUME NEW n \in Slots, ClosesBrowser(n) PROVE AtTypes'
  BY <1>40, SlotsTyped DEF ClosesBrowser, AtTypes, Ops, Steps
<1>41. ASSUME NEW n \in Slots, KeepsBrowser(n) PROVE AtTypes'
  BY <1>41, SlotsTyped DEF KeepsBrowser, AtTypes, Ops, Steps
<1>42. ASSUME NEW n \in Slots, BrowserGoes(n) PROVE AtTypes'
  BY <1>42, SlotsTyped DEF BrowserGoes, AtTypes, Ops, Steps
<1>43. CASE UNCHANGED vars
  BY <1>43 DEF vars, AtTypes
<1>q. QED
  BY <1>1, <1>2, <1>3, <1>4, <1>5, <1>6, <1>7, <1>8, <1>9, <1>10, <1>11, <1>12, <1>13,
    <1>14, <1>15, <1>16, <1>17, <1>18, <1>19, <1>20, <1>21, <1>22, <1>23, <1>24, <1>25,
    <1>26, <1>27, <1>28, <1>29, <1>30, <1>31, <1>32, <1>33, <1>34, <1>35, <1>36, <1>37,
    <1>38, <1>39, <1>40, <1>41, <1>42, <1>43 DEF Next, Starts, Acquires, Continues

\* A step leaves every flag and lock with a call or with nobody.
LEMMA OwnedTypesStep ==
  ASSUME AtTypes, OwnedTypes, [Next]_vars
  PROVE  OwnedTypes'
<1>1. ASSUME NEW p \in Procs, RunClaims(p) PROVE OwnedTypes'
  BY <1>1, SlotsTyped DEF RunClaims, Claiming, OwnedTypes, Claims
<1>2. ASSUME NEW p \in Procs, RecordClaims(p) PROVE OwnedTypes'
  BY <1>2, SlotsTyped DEF RecordClaims, Claiming, OwnedTypes, Claims
<1>3. ASSUME NEW p \in Procs, TemplateClaims(p) PROVE OwnedTypes'
  BY <1>3, SlotsTyped DEF TemplateClaims, Claiming, OwnedTypes, Claims
<1>4. ASSUME NEW p \in Procs, CheckClaims(p) PROVE OwnedTypes'
  BY <1>4, SlotsTyped DEF CheckClaims, Claiming, OwnedTypes, Claims
<1>5. ASSUME NEW p \in Procs, OpenHearsRun(p) PROVE OwnedTypes'
  BY <1>5, SlotsTyped DEF OpenHearsRun, owned, OwnedTypes
<1>6. ASSUME NEW p \in Procs, SwitchCalls(p) PROVE OwnedTypes'
  BY <1>6, SlotsTyped DEF SwitchCalls, owned, OwnedTypes
<1>7. ASSUME NEW p \in Procs, ReleaseClaimsRun(p) PROVE OwnedTypes'
  BY <1>7, SlotsTyped DEF ReleaseClaimsRun, Claiming, OwnedTypes, Claims
<1>8. ASSUME NEW p \in Procs, NEW n \in Slots, DiscoverHearsRun(p, n) PROVE OwnedTypes'
  BY <1>8, SlotsTyped DEF DiscoverHearsRun, owned, OwnedTypes
<1>9. ASSUME NEW p \in Procs, NEW op \in Replays, NEW n \in Slots, ReplayClaims(p, op,
n) PROVE OwnedTypes'
  BY <1>9, SlotsTyped DEF ReplayClaims, OwnedTypes
<1>10. ASSUME NEW p \in Procs, LooksAtSlot(p) PROVE OwnedTypes'
  BY <1>10, SlotsTyped DEF LooksAtSlot, Returns, Free, owned, OwnedTypes
<1>11. ASSUME NEW p \in Procs, OpenHearsDiscovery(p) PROVE OwnedTypes'
  BY <1>11, SlotsTyped DEF OpenHearsDiscovery, owned, Hears, Returns, Free, OwnedTypes
<1>12. ASSUME NEW p \in Procs, OpenLocks(p) PROVE OwnedTypes'
  BY <1>12, SlotsTyped DEF OpenLocks, Returns, Free, Takes, OwnedTypes
<1>13. ASSUME NEW p \in Procs, DiscoverLocks(p) PROVE OwnedTypes'
  BY <1>13, SlotsTyped DEF DiscoverLocks, Returns, Free, Takes, OwnedTypes
<1>14. ASSUME NEW p \in Procs, ReplayLocks(p) PROVE OwnedTypes'
  BY <1>14, SlotsTyped DEF ReplayLocks, Returns, Free, Takes, OwnedTypes
<1>15. ASSUME NEW p \in Procs, Writes(p) PROVE OwnedTypes'
  BY <1>15, SlotsTyped DEF Writes, OwnedTypes
<1>16. ASSUME NEW p \in Procs, SwitchLocks(p) PROVE OwnedTypes'
  BY <1>16, SlotsTyped DEF SwitchLocks, LocksSlot, Takes, Returns, Free, OwnedTypes
<1>17. ASSUME NEW p \in Procs, ReleaseLocks(p) PROVE OwnedTypes'
  BY <1>17, SlotsTyped DEF ReleaseLocks, LocksSlot, Takes, OwnedTypes, AtTypes
<1>18. ASSUME NEW p \in Procs, RecordHearsRun(p) PROVE OwnedTypes'
  BY <1>18, SlotsTyped DEF RecordHearsRun, Hears, Returns, Free, owned, OwnedTypes
<1>19. ASSUME NEW p \in Procs, RunHearsRecording(p) PROVE OwnedTypes'
  BY <1>19, SlotsTyped DEF RunHearsRecording, Hears, Returns, Free, owned, OwnedTypes
<1>20. ASSUME NEW p \in Procs, CheckLooksAtSlot(p) PROVE OwnedTypes'
  BY <1>20, SlotsTyped DEF CheckLooksAtSlot, Returns, Free, owned, OwnedTypes
<1>21. ASSUME NEW p \in Procs, CheckBegins(p) PROVE OwnedTypes'
  BY <1>21, SlotsTyped DEF CheckBegins, OwnedTypes, Claims
<1>22. ASSUME NEW p \in Procs, Ends(p) PROVE OwnedTypes'
  BY <1>22, SlotsTyped DEF Ends, Returns, Free, OwnedTypes
<1>23. ASSUME NEW p \in Procs, DiscoverHearsRecording(p) PROVE OwnedTypes'
  BY <1>23, SlotsTyped DEF DiscoverHearsRecording, Hears, Returns, Free, owned, OwnedTypes
<1>24. ASSUME NEW p \in Procs, DiscoverHearsReplay(p) PROVE OwnedTypes'
  BY <1>24, SlotsTyped DEF DiscoverHearsReplay, Hears, Returns, Free, owned, OwnedTypes
<1>25. ASSUME NEW p \in Procs, ReplayHearsCheck(p) PROVE OwnedTypes'
  BY <1>25, SlotsTyped DEF ReplayHearsCheck, Hears, Returns, Free, owned, OwnedTypes
<1>26. ASSUME NEW p \in Procs, ReplayHearsRun(p) PROVE OwnedTypes'
  BY <1>26, SlotsTyped DEF ReplayHearsRun, Hears, Returns, Free, owned, OwnedTypes
<1>27. ASSUME NEW p \in Procs, OpensInto(p) PROVE OwnedTypes'
  BY <1>27, SlotsTyped DEF OpensInto, Returns, Free, OwnedTypes
<1>28. ASSUME NEW p \in Procs, Launches(p) PROVE OwnedTypes'
  BY <1>28, SlotsTyped DEF Launches, Returns, Free, OwnedTypes
<1>29. ASSUME NEW p \in Procs, ReplayEnds(p) PROVE OwnedTypes'
  BY <1>29, SlotsTyped DEF ReplayEnds, Returns, Free, OwnedTypes
<1>30. ASSUME NEW p \in Procs, SwitchHearsRecording(p) PROVE OwnedTypes'
  BY <1>30, SlotsTyped DEF SwitchHearsRecording, Hears, Returns, Free, owned, OwnedTypes
<1>31. ASSUME NEW p \in Procs, SwitchHearsRest(p) PROVE OwnedTypes'
  BY <1>31, SlotsTyped DEF SwitchHearsRest, Returns, Free, Hears, owned, OwnedTypes
<1>32. ASSUME NEW p \in Procs, SwitchClaimsTemplate(p) PROVE OwnedTypes'
  BY <1>32, SlotsTyped DEF SwitchClaimsTemplate, ClaimsNext, Returns, Free, OwnedTypes
<1>33. ASSUME NEW p \in Procs, SwitchMoves(p) PROVE OwnedTypes'
  BY <1>33, SlotsTyped DEF SwitchMoves, Returns, Free, owned, OwnedTypes
<1>34. ASSUME NEW p \in Procs, SwitchEnds(p) PROVE OwnedTypes'
  BY <1>34, SlotsTyped DEF SwitchEnds, Returns, Free, OwnedTypes
<1>35. ASSUME NEW p \in Procs, ReleaseClaimsRecord(p) PROVE OwnedTypes'
  BY <1>35, SlotsTyped DEF ReleaseClaimsRecord, ClaimsNext, Returns, Free, OwnedTypes
<1>36. ASSUME NEW p \in Procs, ReleaseClaimsTemplate(p) PROVE OwnedTypes'
  BY <1>36, SlotsTyped DEF ReleaseClaimsTemplate, ClaimsNext, Returns, Free, OwnedTypes
<1>37. ASSUME NEW p \in Procs, ReleaseTimesOut(p) PROVE OwnedTypes'
  BY <1>37, SlotsTyped DEF ReleaseTimesOut, Returns, Free, OwnedTypes
<1>38. ASSUME NEW p \in Procs, ReleaseCloses(p) PROVE OwnedTypes'
  BY <1>38, SlotsTyped DEF ReleaseCloses, owned, OwnedTypes
<1>39. ASSUME NEW p \in Procs, ReleaseEnds(p) PROVE OwnedTypes'
  BY <1>39, SlotsTyped DEF ReleaseEnds, Returns, Free, OwnedTypes
<1>40. ASSUME NEW n \in Slots, ClosesBrowser(n) PROVE OwnedTypes'
  BY <1>40, SlotsTyped DEF ClosesBrowser, owned, OwnedTypes
<1>41. ASSUME NEW n \in Slots, KeepsBrowser(n) PROVE OwnedTypes'
  BY <1>41, SlotsTyped DEF KeepsBrowser, owned, OwnedTypes
<1>42. ASSUME NEW n \in Slots, BrowserGoes(n) PROVE OwnedTypes'
  BY <1>42, SlotsTyped DEF BrowserGoes, owned, OwnedTypes
<1>43. CASE UNCHANGED vars
  BY <1>43 DEF vars, owned, OwnedTypes
<1>q. QED
  BY <1>1, <1>2, <1>3, <1>4, <1>5, <1>6, <1>7, <1>8, <1>9, <1>10, <1>11, <1>12, <1>13,
    <1>14, <1>15, <1>16, <1>17, <1>18, <1>19, <1>20, <1>21, <1>22, <1>23, <1>24, <1>25,
    <1>26, <1>27, <1>28, <1>29, <1>30, <1>31, <1>32, <1>33, <1>34, <1>35, <1>36, <1>37,
    <1>38, <1>39, <1>40, <1>41, <1>42, <1>43 DEF Next, Starts, Acquires, Continues

\* A step leaves every slot with a browser or without.
LEMMA WorldTypesStep ==
  ASSUME AtTypes, WorldTypes, [Next]_vars
  PROVE  WorldTypes'
<1>1. ASSUME NEW p \in Procs, RunClaims(p) PROVE WorldTypes'
  BY <1>1, SlotsTyped, WorldSame DEF RunClaims, Claiming, world
<1>2. ASSUME NEW p \in Procs, RecordClaims(p) PROVE WorldTypes'
  BY <1>2, SlotsTyped, WorldSame DEF RecordClaims, Claiming, world
<1>3. ASSUME NEW p \in Procs, TemplateClaims(p) PROVE WorldTypes'
  BY <1>3, SlotsTyped, WorldSame DEF TemplateClaims, Claiming, world
<1>4. ASSUME NEW p \in Procs, CheckClaims(p) PROVE WorldTypes'
  BY <1>4, SlotsTyped, WorldSame DEF CheckClaims, Claiming, world
<1>5. ASSUME NEW p \in Procs, OpenHearsRun(p) PROVE WorldTypes'
  BY <1>5, SlotsTyped, WorldSame DEF OpenHearsRun, world
<1>6. ASSUME NEW p \in Procs, SwitchCalls(p) PROVE WorldTypes'
  BY <1>6, SlotsTyped, WorldSame DEF SwitchCalls, world
<1>7. ASSUME NEW p \in Procs, ReleaseClaimsRun(p) PROVE WorldTypes'
  BY <1>7, SlotsTyped, WorldSame DEF ReleaseClaimsRun, Claiming, world
<1>8. ASSUME NEW p \in Procs, NEW n \in Slots, DiscoverHearsRun(p, n) PROVE WorldTypes'
  BY <1>8, SlotsTyped, WorldSame DEF DiscoverHearsRun, world
<1>9. ASSUME NEW p \in Procs, NEW op \in Replays, NEW n \in Slots, ReplayClaims(p, op,
n) PROVE WorldTypes'
  BY <1>9, SlotsTyped, WorldSame DEF ReplayClaims, world
<1>10. ASSUME NEW p \in Procs, LooksAtSlot(p) PROVE WorldTypes'
  BY <1>10, SlotsTyped, HoldsTyped, KeptTyped, WorldSame DEF LooksAtSlot, AtTypes, world
<1>11. ASSUME NEW p \in Procs, OpenHearsDiscovery(p) PROVE WorldTypes'
  BY <1>11, SlotsTyped, HoldsTyped, KeptTyped, WorldSame DEF OpenHearsDiscovery, world
<1>12. ASSUME NEW p \in Procs, OpenLocks(p) PROVE WorldTypes'
  BY <1>12, SlotsTyped, HoldsTyped, KeptTyped, WorldSame DEF OpenLocks
<1>13. ASSUME NEW p \in Procs, DiscoverLocks(p) PROVE WorldTypes'
  <2>1. at[p].slot \in Slots /\ NoSession \in Sessions
    BY DEF AtTypes, NoSession, Sessions
  <2>2. [session[at[p].slot] EXCEPT !.discovery = TRUE] \in Sessions
    BY <2>1 DEF WorldTypes, Sessions
  <2>q. QED
    BY <1>13, <2>1, <2>2, HoldsTyped, WorldSame DEF DiscoverLocks
<1>14. ASSUME NEW p \in Procs, ReplayLocks(p) PROVE WorldTypes'
  <2>1. at[p].slot \in Slots /\ NoSession \in Sessions
    BY DEF AtTypes, NoSession, Sessions
  <2>2. \A mine \in BOOLEAN :
          [session[at[p].slot] EXCEPT !.discovery = FALSE,
                                   !.by = IF mine THEN @ ELSE "person"] \in Sessions
    BY <2>1 DEF WorldTypes, Sessions
  <2>q. QED
    BY <1>14, <2>1, <2>2, HoldsTyped, WorldSame DEF ReplayLocks
<1>15. ASSUME NEW p \in Procs, Writes(p) PROVE WorldTypes'
  BY <1>15, SlotsTyped, WorldSame DEF Writes, world
<1>16. ASSUME NEW p \in Procs, SwitchLocks(p) PROVE WorldTypes'
  BY <1>16, SlotsTyped, WorldSame DEF SwitchLocks, LocksSlot, world
<1>17. ASSUME NEW p \in Procs, ReleaseLocks(p) PROVE WorldTypes'
  BY <1>17, SlotsTyped, WorldSame DEF ReleaseLocks, LocksSlot, world
<1>18. ASSUME NEW p \in Procs, RecordHearsRun(p) PROVE WorldTypes'
  BY <1>18, SlotsTyped, WorldSame DEF RecordHearsRun, world
<1>19. ASSUME NEW p \in Procs, RunHearsRecording(p) PROVE WorldTypes'
  BY <1>19, SlotsTyped, WorldSame DEF RunHearsRecording, world
<1>20. ASSUME NEW p \in Procs, CheckLooksAtSlot(p) PROVE WorldTypes'
  BY <1>20, SlotsTyped, WorldSame DEF CheckLooksAtSlot, world
<1>21. ASSUME NEW p \in Procs, CheckBegins(p) PROVE WorldTypes'
  BY <1>21, SlotsTyped, WorldSame DEF CheckBegins, world
<1>22. ASSUME NEW p \in Procs, Ends(p) PROVE WorldTypes'
  BY <1>22, SlotsTyped, WorldSame DEF Ends, world
<1>23. ASSUME NEW p \in Procs, DiscoverHearsRecording(p) PROVE WorldTypes'
  BY <1>23, SlotsTyped, WorldSame DEF DiscoverHearsRecording, world
<1>24. ASSUME NEW p \in Procs, DiscoverHearsReplay(p) PROVE WorldTypes'
  BY <1>24, SlotsTyped, WorldSame DEF DiscoverHearsReplay, world
<1>25. ASSUME NEW p \in Procs, ReplayHearsCheck(p) PROVE WorldTypes'
  BY <1>25, SlotsTyped, WorldSame DEF ReplayHearsCheck, world
<1>26. ASSUME NEW p \in Procs, ReplayHearsRun(p) PROVE WorldTypes'
  BY <1>26, SlotsTyped, WorldSame DEF ReplayHearsRun, world
<1>27. ASSUME NEW p \in Procs, OpensInto(p) PROVE WorldTypes'
  <2>1. at[p].slot \in Slots /\ NoSession \in Sessions
    BY DEF AtTypes, NoSession, Sessions
  <2>q. QED
    BY <1>27, <2>1, HoldsTyped, WorldSame DEF OpensInto
<1>28. ASSUME NEW p \in Procs, Launches(p) PROVE WorldTypes'
  <2>1. at[p].slot \in Slots /\ NoSession \in Sessions
    BY DEF AtTypes, NoSession, Sessions
  <2>2. [by |-> IF at[p].op \in {"open", "replay"} THEN "person" ELSE "assistant",
           discovery |-> at[p].op = "discover", gone |-> FALSE] \in Sessions
    BY <2>1 DEF Sessions
  <2>q. QED
    BY <1>28, <2>1, <2>2, HoldsTyped, WorldSame DEF Launches
<1>29. ASSUME NEW p \in Procs, ReplayEnds(p) PROVE WorldTypes'
  <2>1. at[p].slot \in Slots /\ NoSession \in Sessions
    BY DEF AtTypes, NoSession, Sessions
  <2>2. session[at[p].slot] \in Sessions
    BY <2>1 DEF WorldTypes, Sessions
  <2>q. QED
    BY <1>29, <2>1, <2>2, HoldsTyped, WorldSame DEF ReplayEnds
<1>30. ASSUME NEW p \in Procs, SwitchHearsRecording(p) PROVE WorldTypes'
  BY <1>30, SlotsTyped, WorldSame DEF SwitchHearsRecording, world
<1>31. ASSUME NEW p \in Procs, SwitchHearsRest(p) PROVE WorldTypes'
  BY <1>31, SlotsTyped, WorldSame DEF SwitchHearsRest, world
<1>32. ASSUME NEW p \in Procs, SwitchClaimsTemplate(p) PROVE WorldTypes'
  BY <1>32, SlotsTyped, WorldSame DEF SwitchClaimsTemplate, world
<1>33. ASSUME NEW p \in Procs, SwitchMoves(p) PROVE WorldTypes'
  BY <1>33 DEF SwitchMoves, world, WorldTypes, Sessions
<1>34. ASSUME NEW p \in Procs, SwitchEnds(p) PROVE WorldTypes'
  BY <1>34, SlotsTyped, WorldSame DEF SwitchEnds, world
<1>35. ASSUME NEW p \in Procs, ReleaseClaimsRecord(p) PROVE WorldTypes'
  BY <1>35, SlotsTyped, WorldSame DEF ReleaseClaimsRecord, world
<1>36. ASSUME NEW p \in Procs, ReleaseClaimsTemplate(p) PROVE WorldTypes'
  BY <1>36, SlotsTyped, WorldSame DEF ReleaseClaimsTemplate, world
<1>37. ASSUME NEW p \in Procs, ReleaseTimesOut(p) PROVE WorldTypes'
  BY <1>37, SlotsTyped, WorldSame DEF ReleaseTimesOut, world
<1>38. ASSUME NEW p \in Procs, ReleaseCloses(p) PROVE WorldTypes'
  BY <1>38 DEF ReleaseCloses, NoSession, WorldTypes, Sessions
<1>39. ASSUME NEW p \in Procs, ReleaseEnds(p) PROVE WorldTypes'
  BY <1>39, SlotsTyped, WorldSame DEF ReleaseEnds, world
<1>40. ASSUME NEW n \in Slots, ClosesBrowser(n) PROVE WorldTypes'
  BY <1>40, SlotsTyped, HoldsTyped, KeptTyped, WorldSame DEF ClosesBrowser
<1>41. ASSUME NEW n \in Slots, KeepsBrowser(n) PROVE WorldTypes'
  BY <1>41 DEF KeepsBrowser, Discovers, Live, NoSession, Holds, WorldTypes, AtTypes,
    Sessions
<1>42. ASSUME NEW n \in Slots, BrowserGoes(n) PROVE WorldTypes'
  BY <1>42 DEF BrowserGoes, Live, NoSession, WorldTypes, AtTypes, Sessions
<1>43. CASE UNCHANGED vars
  BY <1>43, WorldSame DEF vars, world
<1>q. QED
  BY <1>1, <1>2, <1>3, <1>4, <1>5, <1>6, <1>7, <1>8, <1>9, <1>10, <1>11, <1>12, <1>13,
    <1>14, <1>15, <1>16, <1>17, <1>18, <1>19, <1>20, <1>21, <1>22, <1>23, <1>24, <1>25,
    <1>26, <1>27, <1>28, <1>29, <1>30, <1>31, <1>32, <1>33, <1>34, <1>35, <1>36, <1>37,
    <1>38, <1>39, <1>40, <1>41, <1>42, <1>43 DEF Next, Starts, Acquires, Continues

\* A step keeps who owns what.
LEMMA OwnedStep ==
  ASSUME AtTypes, OwnedTypes, Owned, [Next]_vars
  PROVE  Owned'
<1>1. ASSUME NEW p \in Procs, RunClaims(p) PROVE Owned'
  BY <1>1, GuardsAssumption DEF RunClaims, Claiming, Idle, Main, Goes, AtTypes, OwnedTypes,
    Owned, OwnsClaim, OwnsReplay, OwnsLock, IsWriter, LockedAfterSlots, Last, Slots, Replays
<1>2. ASSUME NEW p \in Procs, RecordClaims(p) PROVE Owned'
  BY <1>2, GuardsAssumption DEF RecordClaims, Claiming, Idle, Main, Goes, AtTypes,
    OwnedTypes, Owned, OwnsClaim, OwnsReplay, OwnsLock, IsWriter, LockedAfterSlots, Last,
    Slots, Replays
<1>3. ASSUME NEW p \in Procs, TemplateClaims(p) PROVE Owned'
  BY <1>3, GuardsAssumption DEF TemplateClaims, Claiming, Idle, Main, Goes, AtTypes,
    OwnedTypes, Owned, OwnsClaim, OwnsReplay, OwnsLock, IsWriter, LockedAfterSlots, Last,
    Slots, Replays
<1>4. ASSUME NEW p \in Procs, CheckClaims(p) PROVE Owned'
  BY <1>4, GuardsAssumption DEF CheckClaims, Claiming, Idle, Main, Goes, AtTypes,
    OwnedTypes, Owned, OwnsClaim, OwnsReplay, OwnsLock, IsWriter, LockedAfterSlots, Last,
    Slots, Replays
<1>5. ASSUME NEW p \in Procs, OpenHearsRun(p) PROVE Owned'
  BY <1>5, GuardsAssumption DEF OpenHearsRun, Idle, Main, Goes, owned, Owned, OwnsClaim,
    OwnsReplay, OwnsLock, IsWriter, LockedAfterSlots, Last, Slots, Replays
<1>6. ASSUME NEW p \in Procs, SwitchCalls(p) PROVE Owned'
  BY <1>6, GuardsAssumption DEF SwitchCalls, Idle, Main, Goes, owned, Owned, OwnsClaim,
    OwnsReplay, OwnsLock, IsWriter, LockedAfterSlots, Last, Slots, Replays
<1>7. ASSUME NEW p \in Procs, ReleaseClaimsRun(p) PROVE Owned'
  BY <1>7, GuardsAssumption DEF ReleaseClaimsRun, Claiming, Idle, Main, Goes, AtTypes,
    OwnedTypes, Owned, OwnsClaim, OwnsReplay, OwnsLock, IsWriter, LockedAfterSlots, Last,
    Slots, Replays
<1>8. ASSUME NEW p \in Procs, NEW n \in Slots, DiscoverHearsRun(p, n) PROVE Owned'
  BY <1>8, GuardsAssumption DEF DiscoverHearsRun, Idle, Main, Goes, owned, Owned,
    OwnsClaim, OwnsReplay, OwnsLock, IsWriter, LockedAfterSlots, Last, Slots, Replays
<1>9. ASSUME NEW p \in Procs, NEW op \in Replays, NEW n \in Slots, ReplayClaims(p, op,
n) PROVE Owned'
  BY <1>9, GuardsAssumption DEF ReplayClaims, Idle, Main, Goes, AtTypes, OwnedTypes, Owned,
    OwnsClaim, OwnsReplay, OwnsLock, IsWriter, LockedAfterSlots, Last, Slots, Replays
<1>10. ASSUME NEW p \in Procs, LooksAtSlot(p) PROVE Owned'
  BY <1>10, GuardsAssumption DEF LooksAtSlot, On, Returns, Idle, Main, Free, Last, Goes,
    To, owned, AtTypes, OwnedTypes, Owned, OwnsClaim, OwnsReplay, OwnsLock, IsWriter,
    LockedAfterSlots, Slots, Replays
<1>11. ASSUME NEW p \in Procs, OpenHearsDiscovery(p) PROVE Owned'
  BY <1>11, GuardsAssumption DEF OpenHearsDiscovery, On, Main, To, Goes, owned, Hears,
    Returns, Idle, Free, AtTypes, OwnedTypes, Owned, OwnsClaim, OwnsReplay, OwnsLock,
    IsWriter, LockedAfterSlots, Last, Slots, Replays
<1>12. ASSUME NEW p \in Procs, OpenLocks(p) PROVE Owned'
  <2>1. CASE Returns(p)
    BY <1>12, <2>1, GuardsAssumption DEF Returns, Free, Idle, Main, AtTypes, OwnedTypes,
      Owned, OwnsClaim, OwnsReplay, OwnsLock, IsWriter, Replays
  <2>2. CASE ~Discovers(Main) /\ Takes(p, Main) /\ To(p, "opening") /\ UNCHANGED <<claim,
  replaying, readers, writer>>
    BY <1>12, <2>2, SlotsTyped, GuardsAssumption DEF OpenLocks, On, Takes, To, Goes,
      AtTypes, OwnedTypes, Placed, Replays, Owned, OwnsClaim, OwnsReplay, OwnsLock,
      IsWriter, LockedAfterSlots
  <2>q. QED
    BY <1>12, <2>1, <2>2 DEF OpenLocks
<1>13. ASSUME NEW p \in Procs, DiscoverLocks(p) PROVE Owned'
  BY <1>13, GuardsAssumption DEF DiscoverLocks, On, Returns, Idle, Main, Free, Takes, To,
    Goes, AtTypes, OwnedTypes, Owned, OwnsClaim, OwnsReplay, OwnsLock, IsWriter,
    LockedAfterSlots, Last, Slots, Replays
<1>14. ASSUME NEW p \in Procs, ReplayLocks(p) PROVE Owned'
  BY <1>14, GuardsAssumption DEF ReplayLocks, Replays, Returns, Idle, Main, Free, Takes,
    To, Goes, AtTypes, OwnedTypes, Placed, Owned, OwnsClaim, OwnsReplay, OwnsLock,
    IsWriter, LockedAfterSlots, Last, Slots
<1>15. ASSUME NEW p \in Procs, Writes(p) PROVE Owned'
  BY <1>15, GuardsAssumption DEF Writes, Goes, Main, AtTypes, Placed, Owned, OwnsClaim,
    OwnsReplay, OwnsLock, IsWriter, LockedAfterSlots, Last, Slots, Replays, Idle
<1>16. ASSUME NEW p \in Procs, SwitchLocks(p) PROVE Owned'
  <2>1. CASE LocksSlot(p, "hearRecording")
    BY <1>16, <2>1, SlotsTyped, GuardsAssumption DEF SwitchLocks, On, LocksSlot, Takes,
      Goes, Last, Main, AtTypes, OwnedTypes, Owned, OwnsClaim, OwnsReplay, OwnsLock,
      IsWriter, LockedAfterSlots, Replays, Slots
  <2>2. CASE Returns(p)
    BY <1>16, <2>2, GuardsAssumption DEF Returns, Free, Idle, Main, AtTypes, OwnedTypes,
      Owned, OwnsClaim, OwnsReplay, OwnsLock, IsWriter, Replays
  <2>q. QED
    BY <1>16, <2>1, <2>2 DEF SwitchLocks
<1>17. ASSUME NEW p \in Procs, ReleaseLocks(p) PROVE Owned'
  BY <1>17, GuardsAssumption DEF ReleaseLocks, On, LocksSlot, Takes, Last, Goes, Main,
    AtTypes, OwnedTypes, Owned, OwnsClaim, OwnsReplay, OwnsLock, IsWriter,
    LockedAfterSlots, Slots, Replays
<1>18. ASSUME NEW p \in Procs, RecordHearsRun(p) PROVE Owned'
  BY <1>18, GuardsAssumption DEF RecordHearsRun, On, Hears, Returns, Idle, Main, Free, To,
    Goes, owned, AtTypes, OwnedTypes, Owned, OwnsClaim, OwnsReplay, OwnsLock, IsWriter,
    LockedAfterSlots, Last, Slots, Replays
<1>19. ASSUME NEW p \in Procs, RunHearsRecording(p) PROVE Owned'
  BY <1>19, GuardsAssumption DEF RunHearsRecording, On, Hears, Returns, Idle, Main, Free,
    To, Goes, owned, AtTypes, OwnedTypes, Owned, OwnsClaim, OwnsReplay, OwnsLock, IsWriter,
    LockedAfterSlots, Last, Slots, Replays
<1>20. ASSUME NEW p \in Procs, CheckLooksAtSlot(p) PROVE Owned'
  BY <1>20, GuardsAssumption DEF CheckLooksAtSlot, On, Returns, Idle, Main, Free, Last,
    Goes, To, owned, AtTypes, OwnedTypes, Owned, OwnsClaim, OwnsReplay, OwnsLock, IsWriter,
    LockedAfterSlots, Slots, Replays
<1>21. ASSUME NEW p \in Procs, CheckBegins(p) PROVE Owned'
  BY <1>21, GuardsAssumption DEF CheckBegins, On, To, Goes, AtTypes, OwnedTypes, Owned,
    OwnsClaim, OwnsReplay, OwnsLock, IsWriter, LockedAfterSlots, Main, Last, Slots, Claims,
    Replays
<1>22. ASSUME NEW p \in Procs, Ends(p) PROVE Owned'
  BY <1>22, GuardsAssumption DEF Ends, Returns, Idle, Main, Free, AtTypes, OwnedTypes,
    Owned, OwnsClaim, OwnsReplay, OwnsLock, IsWriter, LockedAfterSlots, Last, Slots, Replays
<1>23. ASSUME NEW p \in Procs, DiscoverHearsRecording(p) PROVE Owned'
  BY <1>23, GuardsAssumption DEF DiscoverHearsRecording, On, Hears, Returns, Idle, Main,
    Free, To, Goes, owned, AtTypes, OwnedTypes, Owned, OwnsClaim, OwnsReplay, OwnsLock,
    IsWriter, LockedAfterSlots, Last, Slots, Replays
<1>24. ASSUME NEW p \in Procs, DiscoverHearsReplay(p) PROVE Owned'
  BY <1>24, GuardsAssumption DEF DiscoverHearsReplay, On, Hears, Returns, Idle, Main, Free,
    To, Goes, owned, AtTypes, OwnedTypes, Owned, OwnsClaim, OwnsReplay, OwnsLock, IsWriter,
    LockedAfterSlots, Last, Slots, Replays
<1>25. ASSUME NEW p \in Procs, ReplayHearsCheck(p) PROVE Owned'
  BY <1>25, GuardsAssumption DEF ReplayHearsCheck, Replays, Hears, Returns, Idle, Main,
    Free, To, Goes, owned, AtTypes, OwnedTypes, Owned, OwnsClaim, OwnsReplay, OwnsLock,
    IsWriter, LockedAfterSlots, Last, Slots
<1>26. ASSUME NEW p \in Procs, ReplayHearsRun(p) PROVE Owned'
  BY <1>26, GuardsAssumption DEF ReplayHearsRun, Replays, Hears, Returns, Idle, Main, Free,
    To, Goes, owned, AtTypes, OwnedTypes, Owned, OwnsClaim, OwnsReplay, OwnsLock, IsWriter,
    LockedAfterSlots, Last, Slots
<1>27. ASSUME NEW p \in Procs, OpensInto(p) PROVE Owned'
  BY <1>27, GuardsAssumption DEF OpensInto, Returns, Idle, Main, Free, To, Goes, AtTypes,
    OwnedTypes, Owned, OwnsClaim, OwnsReplay, OwnsLock, IsWriter, LockedAfterSlots, Last,
    Slots, Replays
<1>28. ASSUME NEW p \in Procs, Launches(p) PROVE Owned'
  BY <1>28, GuardsAssumption DEF Launches, Returns, Idle, Main, Free, Replays, To, Goes,
    AtTypes, OwnedTypes, Owned, OwnsClaim, OwnsReplay, OwnsLock, IsWriter,
    LockedAfterSlots, Last, Slots
<1>29. ASSUME NEW p \in Procs, ReplayEnds(p) PROVE Owned'
  BY <1>29, GuardsAssumption DEF ReplayEnds, Replays, Returns, Idle, Main, Free, AtTypes,
    OwnedTypes, Owned, OwnsClaim, OwnsReplay, OwnsLock, IsWriter, LockedAfterSlots, Last,
    Slots
<1>30. ASSUME NEW p \in Procs, SwitchHearsRecording(p) PROVE Owned'
  BY <1>30, GuardsAssumption DEF SwitchHearsRecording, On, Hears, Returns, Idle, Main,
    Free, To, Goes, owned, AtTypes, OwnedTypes, Owned, OwnsClaim, OwnsReplay, OwnsLock,
    IsWriter, LockedAfterSlots, Last, Slots, Replays
<1>31. ASSUME NEW p \in Procs, SwitchHearsRest(p) PROVE Owned'
  BY <1>31, GuardsAssumption DEF SwitchHearsRest, On, Returns, Idle, Main, Free, Hears, To,
    Goes, owned, Slots, Last, AtTypes, OwnedTypes, Owned, OwnsClaim, OwnsReplay, OwnsLock,
    IsWriter, LockedAfterSlots, Replays
<1>32. ASSUME NEW p \in Procs, SwitchClaimsTemplate(p) PROVE Owned'
  BY <1>32, GuardsAssumption DEF SwitchClaimsTemplate, On, ClaimsNext, Returns, Idle, Main,
    Free, To, Goes, AtTypes, OwnedTypes, Owned, OwnsClaim, OwnsReplay, OwnsLock, IsWriter,
    LockedAfterSlots, Last, Slots, Replays
<1>33. ASSUME NEW p \in Procs, SwitchMoves(p) PROVE Owned'
  BY <1>33, GuardsAssumption DEF SwitchMoves, On, Returns, Idle, Main, Free, To, Goes,
    owned, AtTypes, OwnedTypes, Owned, OwnsClaim, OwnsReplay, OwnsLock, IsWriter,
    LockedAfterSlots, Last, Slots, Replays
<1>34. ASSUME NEW p \in Procs, SwitchEnds(p) PROVE Owned'
  BY <1>34, GuardsAssumption DEF SwitchEnds, Returns, Idle, Main, Free, AtTypes,
    OwnedTypes, Owned, OwnsClaim, OwnsReplay, OwnsLock, IsWriter, LockedAfterSlots, Last,
    Slots, Replays
<1>35. ASSUME NEW p \in Procs, ReleaseClaimsRecord(p) PROVE Owned'
  BY <1>35, GuardsAssumption DEF ReleaseClaimsRecord, On, ClaimsNext, Returns, Idle, Main,
    Free, To, Goes, AtTypes, OwnedTypes, Owned, OwnsClaim, OwnsReplay, OwnsLock, IsWriter,
    LockedAfterSlots, Last, Slots, Replays
<1>36. ASSUME NEW p \in Procs, ReleaseClaimsTemplate(p) PROVE Owned'
  BY <1>36, GuardsAssumption DEF ReleaseClaimsTemplate, On, ClaimsNext, Returns, Idle,
    Main, Free, To, Goes, AtTypes, OwnedTypes, Owned, OwnsClaim, OwnsReplay, OwnsLock,
    IsWriter, LockedAfterSlots, Last, Slots, Replays
<1>37. ASSUME NEW p \in Procs, ReleaseTimesOut(p) PROVE Owned'
  BY <1>37, GuardsAssumption DEF ReleaseTimesOut, Returns, Idle, Main, Free, AtTypes,
    OwnedTypes, Owned, OwnsClaim, OwnsReplay, OwnsLock, IsWriter, LockedAfterSlots, Last,
    Slots, Replays
<1>38. ASSUME NEW p \in Procs, ReleaseCloses(p) PROVE Owned'
  BY <1>38, GuardsAssumption DEF ReleaseCloses, On, Slots, Last, To, Goes, owned, Owned,
    OwnsClaim, OwnsReplay, OwnsLock, IsWriter, LockedAfterSlots, Main
<1>39. ASSUME NEW p \in Procs, ReleaseEnds(p) PROVE Owned'
  BY <1>39, GuardsAssumption DEF ReleaseEnds, Returns, Idle, Main, Free, AtTypes,
    OwnedTypes, Owned, OwnsClaim, OwnsReplay, OwnsLock, IsWriter, LockedAfterSlots, Last,
    Slots, Replays
<1>40. ASSUME NEW n \in Slots, ClosesBrowser(n) PROVE Owned'
  BY <1>40, GuardsAssumption DEF ClosesBrowser, owned, Owned, OwnsClaim, OwnsReplay,
    IsWriter, LockedAfterSlots, Main, Last, Slots
<1>41. ASSUME NEW n \in Slots, KeepsBrowser(n) PROVE Owned'
  BY <1>41, GuardsAssumption DEF KeepsBrowser, owned, Owned, OwnsClaim, OwnsReplay,
    IsWriter, LockedAfterSlots, Main, Last, Slots
<1>42. ASSUME NEW n \in Slots, BrowserGoes(n) PROVE Owned'
  BY <1>42, GuardsAssumption DEF BrowserGoes, owned, Owned, OwnsClaim, OwnsReplay,
    IsWriter, LockedAfterSlots, Main, Last, Slots
<1>43. CASE UNCHANGED vars
  BY <1>43, GuardsAssumption DEF vars, owned, Owned, OwnsClaim, OwnsReplay, IsWriter
<1>q. QED
  BY <1>1, <1>2, <1>3, <1>4, <1>5, <1>6, <1>7, <1>8, <1>9, <1>10, <1>11, <1>12, <1>13,
    <1>14, <1>15, <1>16, <1>17, <1>18, <1>19, <1>20, <1>21, <1>22, <1>23, <1>24, <1>25,
    <1>26, <1>27, <1>28, <1>29, <1>30, <1>31, <1>32, <1>33, <1>34, <1>35, <1>36, <1>37,
    <1>38, <1>39, <1>40, <1>41, <1>42, <1>43 DEF Next, Starts, Acquires, Continues

\* How one step may move a call to the places the guards are about.
LaunchMove(q) ==
  at'[q].step = "launching" =>
    \/ at'[q] = at[q]
    \/ at[q].step = "opening" /\ at'[q].slot = at[q].slot /\ claim["record"] = None

RunMove(q) ==
  at'[q].op = "run" /\ at'[q].step # "look" =>
    \/ at'[q] = at[q]
    \/ /\ at'[q].step = "hearRecording" /\ at[q].slot = Last
       /\ On(q, "run", "look") /\ lock[Last] = None
    \/ at'[q].step = "going" /\ On(q, "run", "hearRecording") /\ claim["record"] = None

RecordMove(q) ==
  at'[q].op = "record" =>
    \/ at'[q] = at[q]
    \/ at'[q].step = "hearRun" /\ at'[q].slot = Main
    \/ /\ at'[q].step = "look" /\ at'[q].slot = at[q].slot
       /\ On(q, "record", "hearRun") /\ claim["run"] = None
    \/ /\ On(q, "record", "look")
       /\ lock[at[q].slot] = None /\ session'[at[q].slot] = NoSession
       /\ \/ at'[q].step = "look" /\ at'[q].slot = at[q].slot + 1
          \/ at'[q].step = "going" /\ at[q].slot = Last

ReleaseMove(q) ==
  On(q, "release", "closing")' =>
    \/ at'[q] = at[q]
    \/ \A n \in Slots : session'[n] = NoSession

SwitchMove(q) ==
  at'[q].op = "switch" =>
    \/ at'[q] = at[q]
    \/ at'[q].step \in {"write", "slots", "hearRecording", "closing"}
    \/ at'[q].step = "hearRun" /\ On(q, "switch", "hearRecording") /\ claim["record"] = None
    \/ /\ at'[q].step = "template" /\ On(q, "switch", "hearRun") /\ claim["run"] = None
       /\ session' = session /\ \A n \in Slots : session[n] = NoSession
    \/ at'[q].step = "moving" /\ On(q, "switch", "template") /\ session' = session

Moves ==
  \A q \in Procs : LaunchMove(q) /\ RunMove(q) /\ RecordMove(q) /\ ReleaseMove(q) /\ SwitchMove(q)

\* A slot is filled by the browser launched into it, or stays as it was.
Filled ==
  \A n \in Slots : session'[n] # NoSession =>
    \/ session[n] # NoSession
    \/ \E q \in Procs : at[q].step = "launching" /\ at[q].slot = n

\* A step moves every call as the guards let it.
LEMMA MovesStep ==
  ASSUME AtTypes, WorldTypes, [Next]_vars
  PROVE  Moves
<1>1. ASSUME NEW p \in Procs, RunClaims(p) PROVE Moves
  BY <1>1 DEF RunClaims, Claiming, Goes, Moves, LaunchMove, RunMove, RecordMove,
    ReleaseMove, SwitchMove, On
<1>2. ASSUME NEW p \in Procs, RecordClaims(p) PROVE Moves
  BY <1>2 DEF RecordClaims, Claiming, Goes, Moves, LaunchMove, RunMove, RecordMove,
    ReleaseMove, SwitchMove, On
<1>3. ASSUME NEW p \in Procs, TemplateClaims(p) PROVE Moves
  BY <1>3 DEF TemplateClaims, Claiming, Goes, Moves, LaunchMove, RunMove, RecordMove,
    ReleaseMove, SwitchMove, On
<1>4. ASSUME NEW p \in Procs, CheckClaims(p) PROVE Moves
  BY <1>4 DEF CheckClaims, Claiming, Goes, Moves, LaunchMove, RunMove, RecordMove,
    ReleaseMove, SwitchMove, On
<1>5. ASSUME NEW p \in Procs, OpenHearsRun(p) PROVE Moves
  BY <1>5 DEF OpenHearsRun, Goes, Moves, LaunchMove, RunMove, RecordMove, ReleaseMove,
    SwitchMove, On
<1>6. ASSUME NEW p \in Procs, SwitchCalls(p) PROVE Moves
  BY <1>6 DEF SwitchCalls, Goes, Moves, LaunchMove, RunMove, RecordMove, ReleaseMove,
    SwitchMove, On
<1>7. ASSUME NEW p \in Procs, ReleaseClaimsRun(p) PROVE Moves
  BY <1>7 DEF ReleaseClaimsRun, Claiming, Goes, Moves, LaunchMove, RunMove, RecordMove,
    ReleaseMove, SwitchMove, On
<1>8. ASSUME NEW p \in Procs, NEW n \in Slots, DiscoverHearsRun(p, n) PROVE Moves
  BY <1>8 DEF DiscoverHearsRun, Goes, Moves, LaunchMove, RunMove, RecordMove, ReleaseMove,
    SwitchMove, On
<1>9. ASSUME NEW p \in Procs, NEW op \in Replays, NEW n \in Slots, ReplayClaims(p, op,
n) PROVE Moves
  BY <1>9 DEF ReplayClaims, Goes, Moves, LaunchMove, RunMove, RecordMove, ReleaseMove,
    SwitchMove, Replays, On
<1>10. ASSUME NEW p \in Procs, LooksAtSlot(p) PROVE Moves
  BY <1>10 DEF LooksAtSlot, On, Holds, Kept, Returns, Idle, Goes, To, Moves, LaunchMove,
    RunMove, RecordMove, ReleaseMove, SwitchMove, AtTypes, WorldTypes
<1>11. ASSUME NEW p \in Procs, OpenHearsDiscovery(p) PROVE Moves
  BY <1>11 DEF OpenHearsDiscovery, On, To, Goes, Hears, Returns, Idle, Moves, LaunchMove,
    RunMove, RecordMove, ReleaseMove, SwitchMove, AtTypes
<1>12. ASSUME NEW p \in Procs, OpenLocks(p) PROVE Moves
  BY <1>12 DEF OpenLocks, On, Returns, Idle, To, Goes, Moves, LaunchMove, RunMove,
    RecordMove, ReleaseMove, SwitchMove, AtTypes
<1>13. ASSUME NEW p \in Procs, DiscoverLocks(p) PROVE Moves
  BY <1>13 DEF DiscoverLocks, On, Returns, Idle, To, Goes, Moves, LaunchMove, RunMove,
    RecordMove, ReleaseMove, SwitchMove, AtTypes
<1>14. ASSUME NEW p \in Procs, ReplayLocks(p) PROVE Moves
  BY <1>14 DEF ReplayLocks, Replays, Returns, Idle, To, Goes, Moves, LaunchMove, RunMove,
    RecordMove, ReleaseMove, SwitchMove, AtTypes, On
<1>15. ASSUME NEW p \in Procs, Writes(p) PROVE Moves
  BY <1>15 DEF Writes, Goes, Moves, LaunchMove, RunMove, RecordMove, ReleaseMove,
    SwitchMove, AtTypes, Placed, On
<1>16. ASSUME NEW p \in Procs, SwitchLocks(p) PROVE Moves
  BY <1>16 DEF SwitchLocks, On, LocksSlot, Goes, Returns, Idle, Moves, LaunchMove, RunMove,
    RecordMove, ReleaseMove, SwitchMove, AtTypes
<1>17. ASSUME NEW p \in Procs, ReleaseLocks(p) PROVE Moves
  BY <1>17 DEF ReleaseLocks, On, LocksSlot, Goes, Moves, LaunchMove, RunMove, RecordMove,
    ReleaseMove, SwitchMove, AtTypes
<1>18. ASSUME NEW p \in Procs, RecordHearsRun(p) PROVE Moves
  BY <1>18 DEF RecordHearsRun, On, Hears, Returns, Idle, To, Goes, Moves, LaunchMove,
    RunMove, RecordMove, ReleaseMove, SwitchMove, AtTypes
<1>19. ASSUME NEW p \in Procs, RunHearsRecording(p) PROVE Moves
  BY <1>19 DEF RunHearsRecording, On, Hears, Returns, Idle, To, Goes, Moves, LaunchMove,
    RunMove, RecordMove, ReleaseMove, SwitchMove, AtTypes
<1>20. ASSUME NEW p \in Procs, CheckLooksAtSlot(p) PROVE Moves
  BY <1>20 DEF CheckLooksAtSlot, On, Returns, Idle, Goes, To, Moves, LaunchMove, RunMove,
    RecordMove, ReleaseMove, SwitchMove, AtTypes
<1>21. ASSUME NEW p \in Procs, CheckBegins(p) PROVE Moves
  BY <1>21 DEF CheckBegins, On, To, Goes, Moves, LaunchMove, RunMove, RecordMove,
    ReleaseMove, SwitchMove
<1>22. ASSUME NEW p \in Procs, Ends(p) PROVE Moves
  BY <1>22 DEF Ends, On, Returns, Idle, Moves, LaunchMove, RunMove, RecordMove,
    ReleaseMove, SwitchMove
<1>23. ASSUME NEW p \in Procs, DiscoverHearsRecording(p) PROVE Moves
  BY <1>23 DEF DiscoverHearsRecording, On, Hears, Returns, Idle, To, Goes, Moves,
    LaunchMove, RunMove, RecordMove, ReleaseMove, SwitchMove, AtTypes
<1>24. ASSUME NEW p \in Procs, DiscoverHearsReplay(p) PROVE Moves
  BY <1>24 DEF DiscoverHearsReplay, On, Hears, Returns, Idle, To, Goes, Moves, LaunchMove,
    RunMove, RecordMove, ReleaseMove, SwitchMove, AtTypes
<1>25. ASSUME NEW p \in Procs, ReplayHearsCheck(p) PROVE Moves
  BY <1>25 DEF ReplayHearsCheck, Replays, Hears, Returns, Idle, To, Goes, Moves,
    LaunchMove, RunMove, RecordMove, ReleaseMove, SwitchMove, AtTypes, On
<1>26. ASSUME NEW p \in Procs, ReplayHearsRun(p) PROVE Moves
  BY <1>26 DEF ReplayHearsRun, Replays, Hears, Returns, Idle, To, Goes, Moves, LaunchMove,
    RunMove, RecordMove, ReleaseMove, SwitchMove, AtTypes, On
<1>27. ASSUME NEW p \in Procs, OpensInto(p) PROVE Moves
  BY <1>27 DEF OpensInto, Returns, Idle, To, Goes, Moves, LaunchMove, RunMove, RecordMove,
    ReleaseMove, SwitchMove, AtTypes, Placed, Replays, On
<1>28. ASSUME NEW p \in Procs, Launches(p) PROVE Moves
  BY <1>28 DEF Launches, Returns, Idle, Replays, To, Goes, Moves, LaunchMove, RunMove,
    RecordMove, ReleaseMove, SwitchMove, AtTypes, On
<1>29. ASSUME NEW p \in Procs, ReplayEnds(p) PROVE Moves
  BY <1>29 DEF ReplayEnds, Returns, Idle, Moves, LaunchMove, RunMove, RecordMove,
    ReleaseMove, SwitchMove, On
<1>30. ASSUME NEW p \in Procs, SwitchHearsRecording(p) PROVE Moves
  BY <1>30 DEF SwitchHearsRecording, On, Hears, Returns, Idle, To, Goes, Moves, LaunchMove,
    RunMove, RecordMove, ReleaseMove, SwitchMove, AtTypes
<1>31. ASSUME NEW p \in Procs, SwitchHearsRest(p) PROVE Moves
  BY <1>31 DEF SwitchHearsRest, On, Returns, Idle, Hears, To, Goes, world, Moves,
    LaunchMove, RunMove, RecordMove, ReleaseMove, SwitchMove, AtTypes
<1>32. ASSUME NEW p \in Procs, SwitchClaimsTemplate(p) PROVE Moves
  BY <1>32 DEF SwitchClaimsTemplate, On, ClaimsNext, Returns, Idle, To, Goes, world, Moves,
    LaunchMove, RunMove, RecordMove, ReleaseMove, SwitchMove, AtTypes
<1>33. ASSUME NEW p \in Procs, SwitchMoves(p) PROVE Moves
  BY <1>33 DEF SwitchMoves, On, Returns, Idle, To, Goes, Moves, LaunchMove, RunMove,
    RecordMove, ReleaseMove, SwitchMove, AtTypes
<1>34. ASSUME NEW p \in Procs, SwitchEnds(p) PROVE Moves
  BY <1>34 DEF SwitchEnds, On, Returns, Idle, Moves, LaunchMove, RunMove, RecordMove,
    ReleaseMove, SwitchMove
<1>35. ASSUME NEW p \in Procs, ReleaseClaimsRecord(p) PROVE Moves
  BY <1>35 DEF ReleaseClaimsRecord, On, ClaimsNext, Returns, Idle, To, Goes, Moves,
    LaunchMove, RunMove, RecordMove, ReleaseMove, SwitchMove, AtTypes
<1>36. ASSUME NEW p \in Procs, ReleaseClaimsTemplate(p) PROVE Moves
  BY <1>36 DEF ReleaseClaimsTemplate, On, ClaimsNext, Returns, Idle, To, Goes, Moves,
    LaunchMove, RunMove, RecordMove, ReleaseMove, SwitchMove, AtTypes
<1>37. ASSUME NEW p \in Procs, ReleaseTimesOut(p) PROVE Moves
  BY <1>37 DEF ReleaseTimesOut, On, Returns, Idle, Moves, LaunchMove, RunMove, RecordMove,
    ReleaseMove, SwitchMove
<1>38. ASSUME NEW p \in Procs, ReleaseCloses(p) PROVE Moves
  BY <1>38 DEF ReleaseCloses, On, To, Goes, Moves, LaunchMove, RunMove, RecordMove,
    ReleaseMove, SwitchMove
<1>39. ASSUME NEW p \in Procs, ReleaseEnds(p) PROVE Moves
  BY <1>39 DEF ReleaseEnds, On, Returns, Idle, Moves, LaunchMove, RunMove, RecordMove,
    ReleaseMove, SwitchMove
<1>40. ASSUME NEW n \in Slots, ClosesBrowser(n) PROVE Moves
  BY <1>40 DEF ClosesBrowser, Moves, LaunchMove, RunMove, RecordMove, ReleaseMove,
    SwitchMove
<1>41. ASSUME NEW n \in Slots, KeepsBrowser(n) PROVE Moves
  BY <1>41 DEF KeepsBrowser, Moves, LaunchMove, RunMove, RecordMove, ReleaseMove, SwitchMove
<1>42. ASSUME NEW n \in Slots, BrowserGoes(n) PROVE Moves
  BY <1>42 DEF BrowserGoes, Moves, LaunchMove, RunMove, RecordMove, ReleaseMove, SwitchMove
<1>43. CASE UNCHANGED vars
  BY <1>43 DEF vars, Moves, LaunchMove, RunMove, RecordMove, ReleaseMove, SwitchMove
<1>q. QED
  BY <1>1, <1>2, <1>3, <1>4, <1>5, <1>6, <1>7, <1>8, <1>9, <1>10, <1>11, <1>12, <1>13,
    <1>14, <1>15, <1>16, <1>17, <1>18, <1>19, <1>20, <1>21, <1>22, <1>23, <1>24, <1>25,
    <1>26, <1>27, <1>28, <1>29, <1>30, <1>31, <1>32, <1>33, <1>34, <1>35, <1>36, <1>37,
    <1>38, <1>39, <1>40, <1>41, <1>42, <1>43 DEF Next, Starts, Acquires, Continues

\* A step fills a slot only by launching a browser.
LEMMA FilledStep ==
  ASSUME AtTypes, WorldTypes, [Next]_vars
  PROVE  Filled
<1>1. ASSUME NEW p \in Procs, RunClaims(p) PROVE Filled
  BY <1>1 DEF RunClaims, Claiming, world, Filled
<1>2. ASSUME NEW p \in Procs, RecordClaims(p) PROVE Filled
  BY <1>2 DEF RecordClaims, Claiming, world, Filled
<1>3. ASSUME NEW p \in Procs, TemplateClaims(p) PROVE Filled
  BY <1>3 DEF TemplateClaims, Claiming, world, Filled
<1>4. ASSUME NEW p \in Procs, CheckClaims(p) PROVE Filled
  BY <1>4 DEF CheckClaims, Claiming, world, Filled
<1>5. ASSUME NEW p \in Procs, OpenHearsRun(p) PROVE Filled
  BY <1>5 DEF OpenHearsRun, world, Filled
<1>6. ASSUME NEW p \in Procs, SwitchCalls(p) PROVE Filled
  BY <1>6 DEF SwitchCalls, world, Filled
<1>7. ASSUME NEW p \in Procs, ReleaseClaimsRun(p) PROVE Filled
  BY <1>7 DEF ReleaseClaimsRun, Claiming, world, Filled
<1>8. ASSUME NEW p \in Procs, NEW n \in Slots, DiscoverHearsRun(p, n) PROVE Filled
  BY <1>8 DEF DiscoverHearsRun, world, Filled
<1>9. ASSUME NEW p \in Procs, NEW op \in Replays, NEW n \in Slots, ReplayClaims(p, op,
n) PROVE Filled
  BY <1>9 DEF ReplayClaims, world, Filled
<1>10. ASSUME NEW p \in Procs, LooksAtSlot(p) PROVE Filled
  BY <1>10 DEF LooksAtSlot, Holds, Kept, Live, NoSession, Filled, AtTypes
<1>11. ASSUME NEW p \in Procs, OpenHearsDiscovery(p) PROVE Filled
  BY <1>11 DEF OpenHearsDiscovery, world, Holds, Kept, Live, NoSession, Discovers, Filled,
    AtTypes, WorldTypes
<1>12. ASSUME NEW p \in Procs, OpenLocks(p) PROVE Filled
  BY <1>12 DEF OpenLocks, Holds, Kept, Live, NoSession, Discovers, Filled, AtTypes
<1>13. ASSUME NEW p \in Procs, DiscoverLocks(p) PROVE Filled
  BY <1>13 DEF DiscoverLocks, Live, NoSession, Holds, Filled, AtTypes, WorldTypes
<1>14. ASSUME NEW p \in Procs, ReplayLocks(p) PROVE Filled
  BY <1>14 DEF ReplayLocks, Discovers, Live, NoSession, Holds, Filled, AtTypes, WorldTypes
<1>15. ASSUME NEW p \in Procs, Writes(p) PROVE Filled
  BY <1>15 DEF Writes, world, Filled
<1>16. ASSUME NEW p \in Procs, SwitchLocks(p) PROVE Filled
  BY <1>16 DEF SwitchLocks, LocksSlot, world, Filled
<1>17. ASSUME NEW p \in Procs, ReleaseLocks(p) PROVE Filled
  BY <1>17 DEF ReleaseLocks, LocksSlot, world, Filled
<1>18. ASSUME NEW p \in Procs, RecordHearsRun(p) PROVE Filled
  BY <1>18 DEF RecordHearsRun, world, Filled
<1>19. ASSUME NEW p \in Procs, RunHearsRecording(p) PROVE Filled
  BY <1>19 DEF RunHearsRecording, world, Filled
<1>20. ASSUME NEW p \in Procs, CheckLooksAtSlot(p) PROVE Filled
  BY <1>20 DEF CheckLooksAtSlot, world, Filled
<1>21. ASSUME NEW p \in Procs, CheckBegins(p) PROVE Filled
  BY <1>21 DEF CheckBegins, world, Filled
<1>22. ASSUME NEW p \in Procs, Ends(p) PROVE Filled
  BY <1>22 DEF Ends, world, Filled
<1>23. ASSUME NEW p \in Procs, DiscoverHearsRecording(p) PROVE Filled
  BY <1>23 DEF DiscoverHearsRecording, world, Filled
<1>24. ASSUME NEW p \in Procs, DiscoverHearsReplay(p) PROVE Filled
  BY <1>24 DEF DiscoverHearsReplay, world, Filled
<1>25. ASSUME NEW p \in Procs, ReplayHearsCheck(p) PROVE Filled
  BY <1>25 DEF ReplayHearsCheck, world, Filled
<1>26. ASSUME NEW p \in Procs, ReplayHearsRun(p) PROVE Filled
  BY <1>26 DEF ReplayHearsRun, world, Filled
<1>27. ASSUME NEW p \in Procs, OpensInto(p) PROVE Filled
  BY <1>27 DEF OpensInto, Holds, NoSession, Filled, AtTypes, WorldTypes
<1>28. ASSUME NEW p \in Procs, Launches(p) PROVE Filled
  BY <1>28 DEF Launches, Holds, Filled, WorldTypes
<1>29. ASSUME NEW p \in Procs, ReplayEnds(p) PROVE Filled
  BY <1>29 DEF ReplayEnds, Holds, NoSession, Filled, AtTypes, WorldTypes
<1>30. ASSUME NEW p \in Procs, SwitchHearsRecording(p) PROVE Filled
  BY <1>30 DEF SwitchHearsRecording, world, Filled
<1>31. ASSUME NEW p \in Procs, SwitchHearsRest(p) PROVE Filled
  BY <1>31 DEF SwitchHearsRest, NoSession, world, Filled
<1>32. ASSUME NEW p \in Procs, SwitchClaimsTemplate(p) PROVE Filled
  BY <1>32 DEF SwitchClaimsTemplate, world, Filled
<1>33. ASSUME NEW p \in Procs, SwitchMoves(p) PROVE Filled
  BY <1>33 DEF SwitchMoves, world, Filled
<1>34. ASSUME NEW p \in Procs, SwitchEnds(p) PROVE Filled
  BY <1>34 DEF SwitchEnds, world, Filled
<1>35. ASSUME NEW p \in Procs, ReleaseClaimsRecord(p) PROVE Filled
  BY <1>35 DEF ReleaseClaimsRecord, world, Filled
<1>36. ASSUME NEW p \in Procs, ReleaseClaimsTemplate(p) PROVE Filled
  BY <1>36 DEF ReleaseClaimsTemplate, world, Filled
<1>37. ASSUME NEW p \in Procs, ReleaseTimesOut(p) PROVE Filled
  BY <1>37 DEF ReleaseTimesOut, world, Filled
<1>38. ASSUME NEW p \in Procs, ReleaseCloses(p) PROVE Filled
  BY <1>38 DEF ReleaseCloses, NoSession, Filled
<1>39. ASSUME NEW p \in Procs, ReleaseEnds(p) PROVE Filled
  BY <1>39 DEF ReleaseEnds, world, Filled
<1>40. ASSUME NEW n \in Slots, ClosesBrowser(n) PROVE Filled
  BY <1>40 DEF ClosesBrowser, NoSession, Holds, Filled, AtTypes
<1>41. ASSUME NEW n \in Slots, KeepsBrowser(n) PROVE Filled
  BY <1>41 DEF KeepsBrowser, Discovers, Live, NoSession, Holds, Filled, AtTypes
<1>42. ASSUME NEW n \in Slots, BrowserGoes(n) PROVE Filled
  BY <1>42 DEF BrowserGoes, Live, NoSession, Filled, AtTypes
<1>43. CASE UNCHANGED vars
  BY <1>43 DEF vars, world, Filled
<1>q. QED
  BY <1>1, <1>2, <1>3, <1>4, <1>5, <1>6, <1>7, <1>8, <1>9, <1>10, <1>11, <1>12, <1>13,
    <1>14, <1>15, <1>16, <1>17, <1>18, <1>19, <1>20, <1>21, <1>22, <1>23, <1>24, <1>25,
    <1>26, <1>27, <1>28, <1>29, <1>30, <1>31, <1>32, <1>33, <1>34, <1>35, <1>36, <1>37,
    <1>38, <1>39, <1>40, <1>41, <1>42, <1>43 DEF Next, Starts, Acquires, Continues

-----------------------------------------------------------------------------
(* The invariants the guards keep.                                         *)

\* A slot a recording has looked at.
Looked(p, n) ==
  at[p].op = "record" /\ (at[p].step = "going" \/ (at[p].step = "look" /\ n < at[p].slot))

\* A recording keeps what it has looked at.
LEMMA RecordInvStep ==
  ASSUME AtTypes, AtTypes', OwnedTypes, Owned, Owned', RecordInv, Moves, Filled
  PROVE  RecordInv'
<1>1. ASSUME NEW p \in Procs, NEW n \in Slots, Looked(p, n)'
      PROVE  Looked(p, n) \/ (lock[n] = None /\ session'[n] = NoSession /\ On(p, "record",
      "look"))
  <2>1. n \in Nat /\ at[p].slot \in Nat /\ n <= Last
    BY SlotsTyped, GuardsAssumption DEF AtTypes, Slots, Last
  <2>2. RecordMove(p) /\ at'[p].op = "record" /\ at'[p].step # "hearRun"
    BY <1>1 DEF Looked, Moves
  <2>3. CASE at'[p] = at[p]
    BY <1>1, <2>3 DEF Looked
  <2>4. CASE On(p, "record", "hearRun")
    BY <1>1, <2>1, <2>2, <2>4 DEF Looked, RecordMove, RecordInv, On, Main
  <2>5. CASE On(p, "record", "look")
    BY <1>1, <2>1, <2>2, <2>5 DEF Looked, RecordMove, On
  <2>q. QED
    BY <2>2, <2>3, <2>4, <2>5 DEF RecordMove
<1>2. ASSUME NEW p \in Procs, NEW n \in Slots, Looked(p, n)'
      PROVE  session'[n] = NoSession /\ \A q \in Procs : at'[q].step = "launching" => at'[q].slot # n
  <2>1. claim["record"] # None
    BY <1>1, <1>2, GuardsAssumption DEF Owned, OwnsClaim, Looked, On, Claims
  <2>2. CASE Looked(p, n)
    BY <1>2, <2>1, <2>2 DEF Looked, RecordInv, Moves, LaunchMove, Filled
  <2>3. CASE lock[n] = None /\ session'[n] = NoSession
    BY <2>1, <2>3, GuardsAssumption DEF Owned, OwnsLock, Moves, LaunchMove, AtTypes, Placed
  <2>q. QED
    BY <1>1, <1>2, <2>2, <2>3
<1>3. ASSUME NEW p \in Procs, NEW q \in Procs, at'[p].op = "record", at'[p].step # "hearRun"
      PROVE  ~Going(q, "run")'
  <2>1. claim["record"] # None
    BY <1>3, GuardsAssumption DEF Moves, RecordMove, Owned, OwnsClaim, On, Claims
  <2>2. at[p].op = "record" /\ at[p].step # "hearRun" => ~Going(q, "run")
    BY DEF RecordInv
  <2>3. claim["run"] = None => ~Going(q, "run")
    BY GuardsAssumption DEF Owned, OwnsClaim, Going, On, Claims
  <2>4. ~Going(q, "run")
    BY <1>3, <2>2, <2>3 DEF Moves, RecordMove, On
  <2>q. QED
    BY <2>1, <2>4 DEF Moves, RunMove, Going, On
<1>4. ASSUME NEW p \in Procs, at'[p].op = "record", at'[p].step = "hearRun"
      PROVE  at'[p].slot = Main
  BY <1>4 DEF Moves, RecordMove, RecordInv
<1>q. QED
  BY <1>2, <1>3, <1>4 DEF RecordInv, Looked

\* What Release has closed stays closed.
LEMMA ReleaseInvStep ==
  ASSUME AtTypes, Owned, ReleaseInv, Moves, Filled
  PROVE  ReleaseInv'
<1> SUFFICES ASSUME NEW p \in Procs, On(p, "release", "closing")'
             PROVE  \A n \in Slots : session'[n] = NoSession
  BY DEF ReleaseInv
<1>1. CASE \A n \in Slots : session'[n] = NoSession
  BY <1>1
<1>2. CASE On(p, "release", "closing")
  <2>1. \A n \in Slots : session[n] = NoSession /\ lock[n] = p
    BY <1>2 DEF ReleaseInv, Owned, OwnsLock, On
  <2>2. ASSUME NEW q \in Procs, at[q].step = "launching", at[q].slot \in Slots PROVE FALSE
    BY <1>2, <2>1, <2>2 DEF Owned, OwnsLock, AtTypes, Placed, On
  <2>q. QED
    BY <2>1, <2>2 DEF Filled
<1>q. QED
  BY <1>1, <1>2 DEF Moves, ReleaseMove, On

\* What a switch has looked at stays so.
LEMMA SwitchInvStep ==
  ASSUME AtTypes, AtTypes', Owned, SwitchInv, Moves, Filled
  PROVE  SwitchInv'
<1>1. ASSUME NEW p \in Procs, at[p].op = "switch",
             at[p].step \in {"hearRecording", "hearRun", "template", "moving"}
      PROVE  /\ \A n \in Slots : lock[n] # None
             /\ \A q \in Procs : at[q].step = "launching" => at[q].slot \notin Slots
  BY <1>1, GuardsAssumption DEF Owned, OwnsLock, LockedAfterSlots, AtTypes, Placed, Replays
<1>2. ASSUME NEW p \in Procs, at'[p].op = "switch", at'[p].step \in {"hearRun", "template",
"moving"}
      PROVE  /\ at[p].op = "switch"
             /\ at[p].step \in {"hearRecording", "hearRun", "template", "moving"}
             /\ at[p].step = "hearRecording" => claim["record"] = None
  BY <1>2 DEF Moves, SwitchMove, On
<1>3. ASSUME NEW p \in Procs, NEW q \in Procs,
             at'[p].op = "switch", at'[p].step \in {"hearRun", "template", "moving"}
      PROVE  ~Going(q, "record")'
  <2>1. ~Going(q, "record")
    BY <1>2, <1>3, GuardsAssumption DEF SwitchInv, Owned, OwnsClaim, Going, On, Claims
  <2>2. lock[Last] # None
    BY <1>1, <1>2, <1>3, SlotsTyped
  <2>q. QED
    BY <2>1, <2>2 DEF Moves, RecordMove, Going, On
<1>4. ASSUME NEW p \in Procs, at'[p].op = "switch", at'[p].step \in {"template", "moving"}
      PROVE  /\ \A n \in Slots : session'[n] = NoSession
             /\ \A q \in Procs : at'[q].op = "run" => at'[q].step = "look"
  <2>1. /\ \A n \in Slots : session[n] = NoSession
        /\ \A q \in Procs : at[q].op = "run" => at[q].step = "look"
    BY <1>4, GuardsAssumption DEF Moves, SwitchMove, SwitchInv, Owned, OwnsClaim, On, Claims
  <2>2. lock[Last] # None
    BY <1>1, <1>2, <1>4, SlotsTyped
  <2>3. \A n \in Slots : session'[n] = NoSession
    BY <1>1, <1>2, <1>4, <2>1 DEF Filled
  <2>4. \A q \in Procs : at'[q].op = "run" => at'[q].step = "look"
    BY <2>1, <2>2 DEF Moves, RunMove, On
  <2>q. QED
    BY <2>3, <2>4
<1>q. QED
  BY <1>3, <1>4 DEF SwitchInv

-----------------------------------------------------------------------------
(* The theorems.                                                           *)

IInv == TypeOK /\ Owned /\ RecordInv /\ ReleaseInv /\ SwitchInv

LEMMA IInvInit == Init => IInv
<1> SUFFICES ASSUME Init PROVE IInv
  OBVIOUS
<1>1. TypeOK
  BY SlotsTyped DEF Init, TypeOK, AtTypes, OwnedTypes, WorldTypes, Placed, Idle, Ops,
    Steps, NoSession, Sessions
<1>2. Owned
  BY GuardsAssumption DEF Init, Owned, OwnsClaim, OwnsReplay, OwnsLock, IsWriter, Idle,
    Replays
<1>3. RecordInv /\ ReleaseInv /\ SwitchInv
  BY DEF Init, RecordInv, ReleaseInv, SwitchInv, Idle, On
<1>q. QED
  BY <1>1, <1>2, <1>3 DEF IInv

LEMMA IInvStep == IInv /\ [Next]_vars => IInv'
<1> SUFFICES ASSUME IInv, [Next]_vars PROVE IInv'
  OBVIOUS
<1>1. AtTypes' /\ OwnedTypes' /\ WorldTypes'
  BY AtTypesStep, OwnedTypesStep, WorldTypesStep DEF IInv, TypeOK
<1>2. Owned' /\ Moves /\ Filled
  BY OwnedStep, MovesStep, FilledStep DEF IInv, TypeOK
<1>3. RecordInv' /\ ReleaseInv' /\ SwitchInv'
  BY <1>1, <1>2, RecordInvStep, ReleaseInvStep, SwitchInvStep DEF IInv, TypeOK
<1>q. QED
  BY <1>1, <1>2, <1>3 DEF IInv, TypeOK

LEMMA Invariant == Spec => []IInv
  BY IInvInit, IInvStep, PTL DEF Spec

\* Every call, flag, lock and browser keeps its type.
THEOREM TypeCorrect == Spec => []TypeOK
<1>1. IInv => TypeOK
  BY DEF IInv
<1>q. QED
  BY Invariant, <1>1, PTL

\* A recording past its guards has the browsers to itself, for any number of
\* calls and slots.
THEOREM RecordingIsAlone == Spec => []RecordingAlone
<1>1. IInv => RecordingAlone
  <2> SUFFICES ASSUME IInv, NEW p \in Procs, Going(p, "record")
               PROVE  /\ \A n \in Slots : session[n] = NoSession
                      /\ \A q \in Procs : at[q].step # "launching" /\ ~Going(q, "run")
    BY DEF RecordingAlone
  <2>1. at[p].op = "record" /\ at[p].step = "going"
    BY DEF Going, On
  <2>2. \A q \in Procs : at[q].slot \in Slots
    BY DEF IInv, TypeOK, AtTypes
  <2>q. QED
    BY <2>1, <2>2 DEF IInv, RecordInv
<1>q. QED
  BY Invariant, <1>1, PTL

\* Nothing runs beside a Release that has closed every browser.
THEOREM ReleaseIsAlone == Spec => []ReleaseAlone
<1>1. IInv => ReleaseAlone
  <2> SUFFICES ASSUME IInv, NEW p \in Procs, On(p, "release", "closing")
               PROVE  /\ \A n \in Slots : session[n] = NoSession
                      /\ \A q \in Procs : at[q].step \notin {"launching", "going"}
    BY DEF ReleaseAlone
  <2>1. \A n \in Slots : session[n] = NoSession
    BY DEF IInv, ReleaseInv
  <2>2. \A n \in Slots : lock[n] = p
    BY DEF IInv, Owned, OwnsLock, On
  <2>3. claim["run"] = p /\ claim["record"] = p /\ claim["template"] = p
    BY DEF IInv, Owned, OwnsClaim, On, Claims
  <2>4. ASSUME NEW q \in Procs, at[q].step \in {"launching", "going"} PROVE FALSE
    <3>1. q # p /\ at[q].slot \in Slots /\ Placed(at[q])
      BY <2>4 DEF IInv, TypeOK, AtTypes, On
    <3>2. CASE at[q].op \in {"open", "discover"} \cup Replays
      BY <2>2, <2>4, <3>1, <3>2 DEF IInv, Owned, OwnsLock
    <3>3. CASE at[q].op \in {"run", "check", "record", "template"}
      BY <2>3, <3>1, <3>3 DEF IInv, Owned, OwnsClaim, Claims
    <3>q. QED
      BY <2>4, <3>1, <3>2, <3>3 DEF Placed
  <2>q. QED
    BY <2>1, <2>4
<1>q. QED
  BY Invariant, <1>1, PTL

\* Only a switch at its write changes the environment.
LEMMA EnvironmentMoves ==
  ASSUME [Next]_vars, env' # env
  PROVE  \E s \in Procs : On(s, "switch", "moving")
<1>1. ASSUME NEW p \in Procs, RunClaims(p) PROVE \E s \in Procs : On(s, "switch", "moving")
  BY <1>1 DEF RunClaims, Claiming, world
<1>2. ASSUME NEW p \in Procs, RecordClaims(p) PROVE \E s \in Procs : On(s, "switch",
"moving")
  BY <1>2 DEF RecordClaims, Claiming, world
<1>3. ASSUME NEW p \in Procs, TemplateClaims(p) PROVE \E s \in Procs : On(s, "switch",
"moving")
  BY <1>3 DEF TemplateClaims, Claiming, world
<1>4. ASSUME NEW p \in Procs, CheckClaims(p) PROVE \E s \in Procs : On(s, "switch",
"moving")
  BY <1>4 DEF CheckClaims, Claiming, world
<1>5. ASSUME NEW p \in Procs, OpenHearsRun(p) PROVE \E s \in Procs : On(s, "switch",
"moving")
  BY <1>5 DEF OpenHearsRun, world
<1>6. ASSUME NEW p \in Procs, SwitchCalls(p) PROVE \E s \in Procs : On(s, "switch",
"moving")
  BY <1>6 DEF SwitchCalls, world
<1>7. ASSUME NEW p \in Procs, ReleaseClaimsRun(p) PROVE \E s \in Procs : On(s, "switch",
"moving")
  BY <1>7 DEF ReleaseClaimsRun, Claiming, world
<1>8. ASSUME NEW p \in Procs, NEW n \in Slots, DiscoverHearsRun(p,
n) PROVE \E s \in Procs : On(s, "switch", "moving")
  BY <1>8 DEF DiscoverHearsRun, world
<1>9. ASSUME NEW p \in Procs, NEW op \in Replays, NEW n \in Slots, ReplayClaims(p, op,
n) PROVE \E s \in Procs : On(s, "switch", "moving")
  BY <1>9 DEF ReplayClaims, world
<1>10. ASSUME NEW p \in Procs, LooksAtSlot(p) PROVE \E s \in Procs : On(s, "switch",
"moving")
  BY <1>10 DEF LooksAtSlot
<1>11. ASSUME NEW p \in Procs, OpenHearsDiscovery(p) PROVE \E s \in Procs : On(s, "switch",
"moving")
  BY <1>11 DEF OpenHearsDiscovery, world
<1>12. ASSUME NEW p \in Procs, OpenLocks(p) PROVE \E s \in Procs : On(s, "switch", "moving")
  BY <1>12 DEF OpenLocks
<1>13. ASSUME NEW p \in Procs, DiscoverLocks(p) PROVE \E s \in Procs : On(s, "switch",
"moving")
  BY <1>13 DEF DiscoverLocks
<1>14. ASSUME NEW p \in Procs, ReplayLocks(p) PROVE \E s \in Procs : On(s, "switch",
"moving")
  BY <1>14 DEF ReplayLocks
<1>15. ASSUME NEW p \in Procs, Writes(p) PROVE \E s \in Procs : On(s, "switch", "moving")
  BY <1>15 DEF Writes, world
<1>16. ASSUME NEW p \in Procs, SwitchLocks(p) PROVE \E s \in Procs : On(s, "switch",
"moving")
  BY <1>16 DEF SwitchLocks, LocksSlot, world
<1>17. ASSUME NEW p \in Procs, ReleaseLocks(p) PROVE \E s \in Procs : On(s, "switch",
"moving")
  BY <1>17 DEF ReleaseLocks, LocksSlot, world
<1>18. ASSUME NEW p \in Procs, RecordHearsRun(p) PROVE \E s \in Procs : On(s, "switch",
"moving")
  BY <1>18 DEF RecordHearsRun, world
<1>19. ASSUME NEW p \in Procs, RunHearsRecording(p) PROVE \E s \in Procs : On(s, "switch",
"moving")
  BY <1>19 DEF RunHearsRecording, world
<1>20. ASSUME NEW p \in Procs, CheckLooksAtSlot(p) PROVE \E s \in Procs : On(s, "switch",
"moving")
  BY <1>20 DEF CheckLooksAtSlot, world
<1>21. ASSUME NEW p \in Procs, CheckBegins(p) PROVE \E s \in Procs : On(s, "switch",
"moving")
  BY <1>21 DEF CheckBegins, world
<1>22. ASSUME NEW p \in Procs, Ends(p) PROVE \E s \in Procs : On(s, "switch", "moving")
  BY <1>22 DEF Ends, world
<1>23. ASSUME NEW p \in Procs, DiscoverHearsRecording(p) PROVE \E s \in Procs : On(s,
"switch", "moving")
  BY <1>23 DEF DiscoverHearsRecording, world
<1>24. ASSUME NEW p \in Procs, DiscoverHearsReplay(p) PROVE \E s \in Procs : On(s,
"switch", "moving")
  BY <1>24 DEF DiscoverHearsReplay, world
<1>25. ASSUME NEW p \in Procs, ReplayHearsCheck(p) PROVE \E s \in Procs : On(s, "switch",
"moving")
  BY <1>25 DEF ReplayHearsCheck, world
<1>26. ASSUME NEW p \in Procs, ReplayHearsRun(p) PROVE \E s \in Procs : On(s, "switch",
"moving")
  BY <1>26 DEF ReplayHearsRun, world
<1>27. ASSUME NEW p \in Procs, OpensInto(p) PROVE \E s \in Procs : On(s, "switch", "moving")
  BY <1>27 DEF OpensInto
<1>28. ASSUME NEW p \in Procs, Launches(p) PROVE \E s \in Procs : On(s, "switch", "moving")
  BY <1>28 DEF Launches
<1>29. ASSUME NEW p \in Procs, ReplayEnds(p) PROVE \E s \in Procs : On(s, "switch",
"moving")
  BY <1>29 DEF ReplayEnds
<1>30. ASSUME NEW p \in Procs, SwitchHearsRecording(p) PROVE \E s \in Procs : On(s,
"switch", "moving")
  BY <1>30 DEF SwitchHearsRecording, world
<1>31. ASSUME NEW p \in Procs, SwitchHearsRest(p) PROVE \E s \in Procs : On(s, "switch",
"moving")
  BY <1>31 DEF SwitchHearsRest, world
<1>32. ASSUME NEW p \in Procs, SwitchClaimsTemplate(p) PROVE \E s \in Procs : On(s,
"switch", "moving")
  BY <1>32 DEF SwitchClaimsTemplate, world
<1>33. ASSUME NEW p \in Procs, SwitchMoves(p) PROVE \E s \in Procs : On(s, "switch",
"moving")
  BY <1>33 DEF SwitchMoves
<1>34. ASSUME NEW p \in Procs, SwitchEnds(p) PROVE \E s \in Procs : On(s, "switch",
"moving")
  BY <1>34 DEF SwitchEnds, world
<1>35. ASSUME NEW p \in Procs, ReleaseClaimsRecord(p) PROVE \E s \in Procs : On(s,
"switch", "moving")
  BY <1>35 DEF ReleaseClaimsRecord, world
<1>36. ASSUME NEW p \in Procs, ReleaseClaimsTemplate(p) PROVE \E s \in Procs : On(s,
"switch", "moving")
  BY <1>36 DEF ReleaseClaimsTemplate, world
<1>37. ASSUME NEW p \in Procs, ReleaseTimesOut(p) PROVE \E s \in Procs : On(s, "switch",
"moving")
  BY <1>37 DEF ReleaseTimesOut, world
<1>38. ASSUME NEW p \in Procs, ReleaseCloses(p) PROVE \E s \in Procs : On(s, "switch",
"moving")
  BY <1>38 DEF ReleaseCloses
<1>39. ASSUME NEW p \in Procs, ReleaseEnds(p) PROVE \E s \in Procs : On(s, "switch",
"moving")
  BY <1>39 DEF ReleaseEnds, world
<1>40. ASSUME NEW n \in Slots, ClosesBrowser(n) PROVE \E s \in Procs : On(s, "switch",
"moving")
  BY <1>40 DEF ClosesBrowser
<1>41. ASSUME NEW n \in Slots, KeepsBrowser(n) PROVE \E s \in Procs : On(s, "switch",
"moving")
  BY <1>41 DEF KeepsBrowser
<1>42. ASSUME NEW n \in Slots, BrowserGoes(n) PROVE \E s \in Procs : On(s, "switch",
"moving")
  BY <1>42 DEF BrowserGoes
<1>43. CASE UNCHANGED vars
  BY <1>43 DEF vars, world
<1>q. QED
  BY <1>1, <1>2, <1>3, <1>4, <1>5, <1>6, <1>7, <1>8, <1>9, <1>10, <1>11, <1>12, <1>13,
    <1>14, <1>15, <1>16, <1>17, <1>18, <1>19, <1>20, <1>21, <1>22, <1>23, <1>24, <1>25,
    <1>26, <1>27, <1>28, <1>29, <1>30, <1>31, <1>32, <1>33, <1>34, <1>35, <1>36, <1>37,
    <1>38, <1>39, <1>40, <1>41, <1>42, <1>43 DEF Next, Starts, Acquires, Continues

\* The environment never changes while something uses it, for any number of
\* calls, slots and environments.
THEOREM EnvironmentNeverMovesUnderUse == Spec => EnvironmentStays
<1>1. IInv /\ [Next]_vars => [env' # env => ~EnvironmentInUse]_vars
  <2> SUFFICES ASSUME IInv, [Next]_vars, env' # env PROVE ~EnvironmentInUse
    OBVIOUS
  <2>1. PICK p \in Procs : On(p, "switch", "moving")
    BY EnvironmentMoves
  <2>2. \A n \in Slots : session[n] = NoSession /\ lock[n] = p
    BY <2>1 DEF IInv, SwitchInv, Owned, OwnsLock, LockedAfterSlots, On
  <2>3. \A q \in Procs : ~Going(q, "record") /\ ~Going(q, "run")
    BY <2>1 DEF IInv, SwitchInv, Going, On
  <2>4. \A q \in Procs : ~Going(q, "template")
    BY <2>1 DEF IInv, Owned, OwnsClaim, Going, On, Claims
  <2>5. \A q \in Procs : at[q].step # "launching"
    BY <2>1, <2>2 DEF IInv, Owned, OwnsLock, TypeOK, AtTypes, Placed, On
  <2>q. QED
    BY <2>2, <2>3, <2>4, <2>5 DEF EnvironmentInUse
<1>q. QED
  BY Invariant, <1>1, PTL DEF Spec, EnvironmentStays

\* No calls wait in a circle: whoever owns a lock and waits for another is
\* the one writer of the opening lock, at its slots.
THEOREM NobodyWaitsInACircle == Spec => []NoCircularWait
<1>1. IInv => NoCircularWait
  <2>1. ASSUME IInv, NEW p \in Procs, NEW q \in Procs, NEW r \in Procs, Blocks(q, p),
  Blocks(r, q)
        PROVE  writer = q /\ r # q /\ lock[at[q].slot] = r /\ at[q].slot \in Slots
    <3>1. /\ at[p].slot \in Slots /\ at[q].slot \in Slots
          /\ Placed(at[p]) /\ Placed(at[q])
      BY <2>1 DEF IInv, TypeOK, AtTypes
    <3>2. \/ writer = q \/ q \in readers
          \/ \E n \in Slots : lock[n] = q
      BY <2>1, <3>1, SlotsTyped DEF Blocks
    <3>3. at[q].step \in {"write", "look", "lock", "slots",
    "hearDiscovery"} /\ at[q].op # "check"
      BY <2>1, <3>1 DEF Blocks, On, Placed
    <3>4. at[q].step = "slots" /\ at[q].op \in {"switch", "release"}
      BY <2>1, <3>1, <3>2, <3>3 DEF IInv, Owned, OwnsLock, IsWriter, Placed,
        LockedAfterSlots, Replays
    <3>5. writer = q
      BY <2>1, <3>4 DEF IInv, Owned, IsWriter
    <3>6. lock[at[q].slot] = r
      BY <2>1, <3>4 DEF Blocks, On
    <3>7. lock[at[q].slot] # q
      <4>1. at[q].slot \in Nat
        BY <3>1, SlotsTyped
      <4>2. ~OwnsLock(at[q], at[q].slot)
        BY <4>1, <3>4 DEF OwnsLock, LockedAfterSlots
      <4>q. QED
        BY <2>1, <3>1, <4>2 DEF IInv, Owned
    <3>q. QED
      BY <3>1, <3>5, <3>6, <3>7
  <2>2. ASSUME IInv, NEW S \in (SUBSET Procs) \ {{}}, \A p \in S : \E q \in S : Blocks(q, p)
        PROVE  FALSE
    <3>1. PICK p \in S : TRUE
      BY <2>2
    <3>2. PICK q \in S : Blocks(q, p)
      BY <2>2
    <3>3. PICK r \in S : Blocks(r, q)
      BY <2>2
    <3>4. PICK t \in S : Blocks(t, r)
      BY <2>2
    <3>q. QED
      BY <2>1, <2>2, <3>2, <3>3, <3>4
  <2>q. QED
    BY <2>2 DEF NoCircularWait
<1>q. QED
  BY Invariant, <1>1, PTL
=============================================================================
