--------------------------- MODULE AssistantsProofs ---------------------------
(***************************************************************************)
(* Proofs about Assistants, for any number of assistants, calls, cases and *)
(* slots and any time limits.                                              *)
(*                                                                         *)
(* The types need to know whom the releases under way are of (AskedInv).   *)
(* That a binding is given to nobody who has one rests on the types alone: *)
(* each step that binds looks at all slots in the same critical section.   *)
(* That the person's browser stays needs the slot's lock: the call working *)
(* in a slot holds it (LockInv), so between the moment a start made way    *)
(* and its launch nobody puts the person's browser there (LaunchInv).      *)
(***************************************************************************)
EXTENDS Assistants, ReconcileProofs, TLAPS

RegRow == [state : {"unknown", "live", "gone"}, last : 0 .. QuietAfter,
           gone : 0 .. ForgetAfter, reported : BOOLEAN]
ClaimRow == [holder : Agents \cup {None}, age : 0 .. ClaimTimeout]
CallRow == [step : Steps, by : Agents \cup {None}, kind : AllKinds,
            case : Cases \cup {None}, slot : Slots, seen : SUBSET Extras, made : BOOLEAN]
ReleaseRow == [step : {"idle", "asked", "closed"}, slot : Slots, key : Agents \cup {None}]
SweepRow == [step : {"asleep", "asked", "swept", "releasing", "idling"},
             dead : SUBSET Agents, past : SUBSET Agents, quiet : SUBSET Agents]
JudgedRow == [step : {"no", "judged", "closed"}, key : Agents \cup {None}, called : BOOLEAN]
Browsers == {"none", "person", "kept", "discovery", "gone"}

Working == {"hold", "launch", "sign", "work"}
MadeWay == {"none", "kept", "gone"}

\* TypeOK by rows.
Typed ==
  /\ running \subseteq Proxies
  /\ reg \in [Agents -> RegRow]
  /\ claims \in [Cases -> ClaimRow]
  /\ bound \in [Slots -> Agents \cup {None}]
  /\ held \in [Slots -> Agents \cup {None}]
  /\ notices \subseteq Agents
  /\ retries \subseteq Extras \X Agents
  /\ lock \in [Slots -> Calls \cup {None}]
  /\ session \in [Slots -> Browsers]
  /\ call \in [Calls -> CallRow]
  /\ release \in [Releasers -> ReleaseRow]
  /\ sweep \in SweepRow
  /\ judged \in [Slots -> JudgedRow]

\* Who works in a slot has its lock.
LockInv == \A c \in Calls : call[c].step \in Working => lock[call[c].slot] = c

\* A start has made way before it launches.
LaunchInv ==
  \A c \in Calls : At(c, "launch") /\ call[c].kind = "start"
                     => session[call[c].slot] \in MadeWay

\* A release the sweeper asks for, and one for idleness, is of somebody: what
\* they leave behind to ask again, or to tell, names an assistant.
AskedInv ==
  /\ \A r \in Extras : release[r].step # "idle" =>
       release[r].slot = r /\ release[r].key \in Agents
  /\ \A n \in Slots : judged[n].step # "no" => judged[n].key \in Agents

\* What the action properties say of a step.
HoldKept ==
  \A n \in Extras : held[n] # None /\ held'[n] = held[n] /\ bound[n] = held[n]
                    => bound'[n] = bound[n]
PersonKept ==
  \A n \in Slots : session[n] = "person" /\ session'[n] # "person"
                   => session'[n] = "gone" \/ PersonCloses
TakenOver(x) == claims[x].holder # None /\ claims'[x].holder \notin {None, claims[x].holder}
WorkerKept ==
  \A x \in Cases : TakenOver(x) => \/ ~Live(claims[x].holder)
                                   \/ ~AgentBusy(claims[x].holder)
                                   \/ claims[x].age >= ClaimTimeout

IInv == Typed /\ AskedInv /\ BoundOnce /\ LockInv /\ LaunchInv

-----------------------------------------------------------------------------
(* What the steps write.                                                   *)

LEMMA TypedIs == Typed <=> TypeOK
  BY DEF Typed, TypeOK, RegRow, ClaimRow, CallRow, ReleaseRow, SweepRow, JudgedRow, Browsers

LEMMA MainIsASlot == Main \in Slots /\ Extras \subseteq Slots /\ Main \notin Extras
  BY AssistantsAssumption DEF Slots, Main, Extras

\* The lowest of some slots is one of them.
LEMMA LowestIn ==
  ASSUME NEW ns, ns \subseteq Slots, ns # {}
  PROVE  Lowest(ns) \in ns
<1>1. ns \subseteq Nat /\ IsFiniteSet(ns)
  <2>1. 0 \in Int /\ SlotCount - 1 \in Int
    BY AssistantsAssumption
  <2>2. IsFiniteSet(Slots)
    BY <2>1, FS_Interval DEF Slots
  <2>3. ns \subseteq Nat
    BY DEF Slots
  <2> QED BY <2>2, <2>3, FS_Subset
<1>2. PICK n \in ns : RankIn(ns, n) = 0
  BY <1>1, FirstRank
<1>3. {i \in ns : i < n} = {}
  <2>1. {i \in ns : i < n} \subseteq ns
    OBVIOUS
  <2> QED BY <1>1, <1>2, <2>1, FS_Subset, FS_EmptySet DEF RankIn
<1>4. \A i \in ns : n <= i
  BY <1>1, <1>3
<1> QED BY <1>4 DEF Lowest

\* A call moves on, in each of the ways it does.
LEMMA CallRowMoves ==
  ASSUME NEW q \in CallRow, NEW s \in Steps
  PROVE  /\ [q EXCEPT !.step = s] \in CallRow
         /\ \A b \in BOOLEAN : [q EXCEPT !.step = s, !.made = b] \in CallRow
         /\ \A e \in SUBSET Extras : [q EXCEPT !.step = s, !.seen = e] \in CallRow
         /\ \A n \in Slots, e \in SUBSET Extras :
              [q EXCEPT !.step = s, !.slot = n, !.seen = e] \in CallRow
  BY DEF CallRow

LEMMA NoCallTyped == NoCall \in CallRow
  BY MainIsASlot DEF NoCall, CallRow, Steps, AllKinds, Claiming

LEMMA NoReleaseTyped == NoRelease \in ReleaseRow
  BY MainIsASlot DEF NoRelease, ReleaseRow

LEMMA AsleepTyped == Asleep \in SweepRow
  BY DEF Asleep, SweepRow

LEMMA NotJudgedTyped == NotJudged \in JudgedRow
  BY DEF NotJudged, JudgedRow

LEMMA NoClaimTyped == NoClaim \in ClaimRow
  BY AssistantsAssumption DEF NoClaim, ClaimRow

LEMMA UnknownTyped == Unknown \in RegRow /\ [Unknown EXCEPT !.state = "live"] \in RegRow
<1>1. Unknown \in RegRow
  BY AssistantsAssumption DEF Unknown, RegRow
<1>2. \A q \in RegRow : [q EXCEPT !.state = "live"] \in RegRow
  BY DEF RegRow
<1> QED BY <1>1, <1>2, Zenon

\* An assistant is found gone, or reported.
LEMMA RegRowMoves ==
  ASSUME NEW q \in RegRow, NEW b \in BOOLEAN
  PROVE  /\ [q EXCEPT !.state = "gone", !.gone = 0, !.reported = b] \in RegRow
         /\ [q EXCEPT !.reported = b] \in RegRow
<1>1. 0 \in 0 .. ForgetAfter /\ "gone" \in {"unknown", "live", "gone"}
  BY AssistantsAssumption
<1> QED BY <1>1 DEF RegRow

\* A call whose step alone changes.
LEMMA ToMoves ==
  ASSUME Typed, NEW c \in Calls, NEW s \in Steps, To(c, s)
  PROVE  /\ call' \in [Calls -> CallRow]
         /\ call'[c] = [call[c] EXCEPT !.step = s] /\ call'[c].step = s
         /\ call'[c].slot = call[c].slot /\ call'[c].kind = call[c].kind
         /\ \A d \in Calls : d # c => call'[d] = call[d]
<1>1. call \in [Calls -> CallRow] /\ call[c] \in CallRow
  BY DEF Typed
<1>2. /\ call' = [call EXCEPT ![c] = [call[c] EXCEPT !.step = s]]
  BY <1>1 DEF To
<1>3. [call[c] EXCEPT !.step = s] \in CallRow
  BY <1>1, CallRowMoves, Zenon
<1>4. /\ [call[c] EXCEPT !.step = s].step = s
      /\ [call[c] EXCEPT !.step = s].slot = call[c].slot
      /\ [call[c] EXCEPT !.step = s].kind = call[c].kind
  BY <1>1 DEF CallRow
<1> QED BY <1>1, <1>2, <1>3, <1>4

LEMMA ReturnsMoves ==
  ASSUME Typed, NEW c \in Calls, Returns(c)
  PROVE  /\ call' \in [Calls -> CallRow] /\ call'[c].step = "idle"
         /\ \A d \in Calls : d # c => call'[d] = call[d]
<1>1. NoCall.step = "idle"
  BY DEF NoCall
<1> QED BY <1>1, NoCallTyped DEF Typed, Returns

LEMMA AnswersMoves ==
  ASSUME Typed, NEW c \in Calls, Answers(c)
  PROVE  /\ call' \in [Calls -> CallRow] /\ call'[c].step \in {"idle", "giveUp"}
         /\ \A d \in Calls : d # c => call'[d] = call[d]
<1>1. "giveUp" \in Steps
  BY DEF Steps
<1> QED BY <1>1, ToMoves, ReturnsMoves DEF Answers

LEMMA FailsMoves ==
  ASSUME Typed, NEW c \in Calls, Fails(c)
  PROVE  /\ call' \in [Calls -> CallRow] /\ call'[c].step \in {"idle", "free"}
         /\ \A d \in Calls : d # c => call'[d] = call[d]
<1>1. "free" \in Steps
  BY DEF Steps
<1> QED BY <1>1, ToMoves, ReturnsMoves DEF Fails

LEMMA GoesToMoves ==
  ASSUME Typed, NEW c \in Calls, NEW n \in Slots, GoesTo(c, n)
  PROVE  /\ call' \in [Calls -> CallRow] /\ call'[c].step = "hear"
         /\ \A d \in Calls : d # c => call'[d] = call[d]
<1>1. call \in [Calls -> CallRow] /\ call[c] \in CallRow /\ "hear" \in Steps
  BY DEF Typed, Steps
<1>2. call' = [call EXCEPT ![c] = [call[c] EXCEPT !.step = "hear", !.slot = n, !.seen = {}]]
  BY <1>1 DEF GoesTo
<1>3. [call[c] EXCEPT !.step = "hear", !.slot = n, !.seen = {}] \in CallRow
  <2>1. {} \in SUBSET Extras
    OBVIOUS
  <2> QED BY <1>1, <2>1, CallRowMoves, Zenon
<1>4. [call[c] EXCEPT !.step = "hear", !.slot = n, !.seen = {}].step = "hear"
  BY <1>1 DEF CallRow
<1> QED BY <1>1, <1>2, <1>3, <1>4

\* A call of some assistants is noted.
LEMMA NotedTyped ==
  ASSUME Typed, NEW ks, Noted(ks)
  PROVE  reg' \in [Agents -> RegRow] /\ judged' \in [Slots -> JudgedRow]
<1>1. reg' \in [Agents -> RegRow]
  <2>1. \A k \in Agents : reg[k] \in RegRow
    BY DEF Typed
  <2>2. reg' = [k \in Agents |-> IF k \in ks THEN [Unknown EXCEPT !.state = "live"] ELSE reg[k]]
    BY DEF Noted
  <2> DEFINE live == [Unknown EXCEPT !.state = "live"]
  <2>3. live \in RegRow
    BY UnknownTyped
  <2> HIDE DEF live
  <2> QED BY <2>1, <2>2, <2>3 DEF live
<1>2. judged' \in [Slots -> JudgedRow]
  <2>1. ASSUME NEW n \in Slots
        PROVE  [judged[n] EXCEPT !.called = @ \/ judged[n].key \in ks] \in JudgedRow
    <3>1. judged[n] \in JudgedRow
      BY DEF Typed
    <3>2. \A b \in BOOLEAN : [judged[n] EXCEPT !.called = b] \in JudgedRow
      BY <3>1 DEF JudgedRow
    <3>3. (judged[n].called \/ judged[n].key \in ks) \in BOOLEAN
      BY <3>1 DEF JudgedRow
    <3>4. [judged[n] EXCEPT !.called = (judged[n].called \/ judged[n].key \in ks)] \in JudgedRow
      BY <3>2, <3>3, Zenon
    <3> QED BY <3>4
  <2> QED BY <2>1 DEF Noted
<1> QED BY <1>1, <1>2

\* Unbinding takes from nobody but slot n's assistant, and not under a hold.
LEMMA UnboundIs ==
  ASSUME Typed, NEW n \in Slots
  PROVE  /\ Unbound(n) \in [Slots -> Agents \cup {None}]
         /\ \A m \in Slots : Unbound(n)[m] \in {bound[m], None}
         /\ \A m \in Slots : m # n \/ (held[m] # None /\ held[m] = bound[m])
                               => Unbound(n)[m] = bound[m]
  BY DEF Typed, Unbound

\* What is left of the claims.
LEMMA RetainedIs ==
  ASSUME Typed
  PROVE  /\ Retained \in [Cases -> ClaimRow]
         /\ \A x \in Cases : (Retained[x] = NoClaim /\ Expired(x)) \/ Retained[x] = claims[x]
  BY NoClaimTyped DEF Typed, Retained

LEMMA EndedForIs ==
  ASSUME Typed, NEW ks
  PROVE  /\ EndedFor(ks) \in [Cases -> ClaimRow]
         /\ \A x \in Cases : EndedFor(ks)[x] \in {claims[x], NoClaim}
  BY NoClaimTyped DEF Typed, EndedFor

LEMMA EndedAtIs ==
  ASSUME Typed, NEW xs
  PROVE  /\ EndedAt(xs) \in [Cases -> ClaimRow]
         /\ \A x \in Cases : EndedAt(xs)[x] \in {claims[x], NoClaim}
  BY NoClaimTyped DEF Typed, EndedAt

LEMMA AskedTyped == ASSUME Typed, NEW n \in Slots PROVE Asked(n) \in ReleaseRow
  BY DEF Typed, Asked, ReleaseRow

LEMMA OlderTyped ==
  ASSUME NEW limit \in Nat, NEW t \in 0 .. limit PROVE Older(t, limit) \in 0 .. limit
  BY DEF Older

-----------------------------------------------------------------------------
(* Where the calls go.                                                     *)

\* Only call c moves, and not to work in its slot.
StepsAside(c) ==
  /\ call' \in [Calls -> CallRow] /\ call'[c].step \notin Working
  /\ \A d \in Calls : d # c => call'[d] = call[d]

LEMMA MovesAside ==
  ASSUME Typed, NEW c \in Calls,
         \/ Returns(c) \/ Answers(c) \/ Fails(c) \/ \E n \in Slots : GoesTo(c, n)
         \/ \E s \in Steps \ Working : To(c, s)
  PROVE  StepsAside(c)
<1>1. ASSUME NEW s \in Steps \ Working, To(c, s) PROVE StepsAside(c)
  BY <1>1, ToMoves DEF StepsAside
<1> QED
  BY <1>1, ReturnsMoves, AnswersMoves, FailsMoves, GoesToMoves DEF StepsAside, Working

LEMMA ArrivesAside ==
  ASSUME Typed, NEW c \in Calls, NEW k \in Agents, NEW kind \in Kinds,
         NEW x \in Cases \cup {None}, CallArrives(c, k, kind, x)
  PROVE  StepsAside(c)
<1>1. PICK s \in {"claim", "pick"} :
        call' = [call EXCEPT ![c] = [NoCall EXCEPT !.step = s, !.by = k, !.kind = kind, !.case = x]]
  BY DEF CallArrives
<1>2. kind \in AllKinds
  BY AssistantsAssumption
<1>3. [NoCall EXCEPT !.step = s, !.by = k, !.kind = kind, !.case = x] \in CallRow
  BY <1>1, <1>2, MainIsASlot DEF NoCall, CallRow, Steps
<1>4. [NoCall EXCEPT !.step = s, !.by = k, !.kind = kind, !.case = x].step = s
  BY DEF NoCall
<1> QED BY <1>1, <1>3, <1>4 DEF StepsAside, Working, Typed

LEMMA ClaimsAside == ASSUME Typed, NEW c \in Calls, ClaimsCase(c) PROVE StepsAside(c)
<1>1. CASE Returns(c)
  BY <1>1, MovesAside
<1>2. CASE ~Returns(c)
  <2>1. PICK s \in {"look", "pick"}, b \in BOOLEAN :
          call' = [call EXCEPT ![c] = [call[c] EXCEPT !.step = s, !.made = b]]
    BY <1>2 DEF ClaimsCase, Typed
  <2>2. call[c] \in CallRow /\ s \in Steps
    BY <2>1 DEF Typed, Steps
  <2>3. [call[c] EXCEPT !.step = s, !.made = b] \in CallRow
    BY <2>2, CallRowMoves, Zenon
  <2>4. [call[c] EXCEPT !.step = s, !.made = b].step = s
    BY <2>2 DEF CallRow
  <2> QED BY <2>1, <2>3, <2>4 DEF StepsAside, Working, Typed
<1> QED BY <1>1, <1>2

LEMMA LooksAside == ASSUME Typed, NEW c \in Calls, LooksForEmpty(c) PROVE StepsAside(c)
<1> DEFINE e == {n \in Extras : lock[n] = None /\ session[n] = "none"}
<1>1. call' = [call EXCEPT ![c] = [call[c] EXCEPT !.step = "pick", !.seen = e]]
  BY DEF LooksForEmpty, Typed
<1>2. call[c] \in CallRow /\ "pick" \in Steps /\ e \in SUBSET Extras
  BY DEF Typed, Steps
<1> HIDE DEF e
<1>3. [call[c] EXCEPT !.step = "pick", !.seen = e] \in CallRow
  BY <1>2, CallRowMoves, Zenon
<1>4. [call[c] EXCEPT !.step = "pick", !.seen = e].step = "pick"
  BY <1>2 DEF CallRow
<1> QED BY <1>1, <1>3, <1>4 DEF StepsAside, Working, Typed

\* The slot a call goes to is one.
LEMMA PicksASlot ==
  ASSUME Typed, NEW c \in Calls
  PROVE  /\ LET mine == {n \in Slots : bound[n] = call[c].by}
            IN  mine # {} => Lowest(mine) \in mine
         /\ LET free == {n \in call[c].seen : bound[n] = None}
            IN  free # {} => Lowest(free) \in free /\ Lowest(free) \in Extras
<1>1. call[c].seen \subseteq Extras
  BY DEF Typed, CallRow
<1>2. {n \in call[c].seen : bound[n] = None} \subseteq Extras
  BY <1>1
<1> QED BY <1>2, LowestIn, MainIsASlot

LEMMA PicksAside == ASSUME Typed, NEW c \in Calls, Picks(c) PROVE StepsAside(c)
<1>1. \/ \E n \in Slots : GoesTo(c, n)
      \/ Answers(c)
  BY PicksASlot, MainIsASlot DEF Picks
<1> QED BY <1>1, MovesAside

LEMMA RestAside ==
  ASSUME Typed, NEW c \in Calls,
         \/ Refused(c) \/ Goes(c) \/ LockTimesOut(c) \/ HoldRefuses(c) \/ LaunchFails(c)
         \/ SignsIn(c) \/ WorkEnds(c) \/ EndsDiscovery(c) \/ LetsGo(c) \/ EndsClaims(c)
         \/ LooksAtUnused(c) \/ FreesUnused(c) \/ GivesUpClaim(c)
  PROVE  StepsAside(c)
<1>1. {"lock", "endClaims", "freeing"} \subseteq Steps \ Working
  BY DEF Steps, Working
<1>2. \/ Returns(c) \/ Answers(c) \/ Fails(c) \/ \E s \in Steps \ Working : To(c, s)
  BY <1>1 DEF Refused, Goes, LockTimesOut, HoldRefuses, LaunchFails, SignsIn, WorkEnds,
    EndsDiscovery, LetsGo, EndsClaims, LooksAtUnused, FreesUnused, GivesUpClaim
<1> QED BY <1>2, MovesAside

\* The three steps into work, and on in it.
LEMMA TakesLockMoves ==
  ASSUME Typed, NEW c \in Calls, TakesLock(c)
  PROVE  /\ call' \in [Calls -> CallRow]
         /\ call'[c].step \in {"sign", "hold", "work"} /\ call'[c].slot = call[c].slot
         /\ \A d \in Calls : d # c => call'[d] = call[d]
<1>1. PICK s \in {"sign", "hold", "work"} : To(c, s)
  BY DEF TakesLock
<1>2. s \in Steps
  BY <1>1 DEF Steps
<1> QED BY <1>1, <1>2, ToMoves

LEMMA MakesWayMoves ==
  ASSUME Typed, NEW c \in Calls, HoldsAndMakesWay(c)
  PROVE  /\ call' \in [Calls -> CallRow] /\ call'[c].step = "launch"
         /\ call'[c].slot = call[c].slot /\ call'[c].kind = call[c].kind
         /\ \A d \in Calls : d # c => call'[d] = call[d]
<1>1. "launch" \in Steps
  BY DEF Steps
<1> QED BY <1>1, ToMoves DEF HoldsAndMakesWay

LEMMA LaunchesMoves ==
  ASSUME Typed, NEW c \in Calls, Launches(c)
  PROVE  /\ call' \in [Calls -> CallRow] /\ call'[c].slot = call[c].slot
         /\ call'[c].step = IF call[c].kind = "start" THEN "relock" ELSE "work"
         /\ \A d \in Calls : d # c => call'[d] = call[d]
<1>1. {"relock", "work"} \subseteq Steps
  BY DEF Steps
<1> QED BY <1>1, ToMoves DEF Launches

\* Where a call is about.
LEMMA CallIsTyped ==
  ASSUME Typed, NEW c \in Calls
  PROVE  /\ call[c].slot \in Slots /\ call[c].by \in Agents \cup {None}
         /\ call[c].step \in Steps /\ call[c].kind \in AllKinds
  BY DEF Typed, CallRow

-----------------------------------------------------------------------------
(* Locks and launches.                                                     *)

\* A call that steps aside lets go of its own lock at most, and changes the
\* browser of no slot that another works in, but to make way.
LEMMA WorkStays ==
  ASSUME Typed, LockInv, LaunchInv, NEW c \in Calls, StepsAside(c),
         \A n \in Slots : lock[n] \notin {c, None} =>
           lock'[n] = lock[n] /\ session'[n] \in MadeWay \cup {session[n]}
  PROVE  LockInv' /\ LaunchInv'
<1>1. ASSUME NEW d \in Calls, call'[d].step \in Working
      PROVE  /\ d # c /\ call'[d] = call[d] /\ call[d].slot \in Slots
             /\ lock[call[d].slot] = d /\ d \notin {c, None}
  BY <1>1, CallIsTyped, AssistantsAssumption DEF StepsAside, LockInv
<1>2. LockInv'
  BY <1>1 DEF LockInv
<1>3. "launch" \in Working
  BY DEF Working
<1>4. LaunchInv'
  BY <1>1, <1>3 DEF LaunchInv, At
<1> QED BY <1>2, <1>4

\* A browser changes in a slot that nobody works in, or makes way.
LEMMA WorkStaysQuiet ==
  ASSUME Typed, LockInv, LaunchInv, UNCHANGED <<call, lock>>,
         \A n \in Slots : lock[n] # None => session'[n] \in MadeWay \cup {session[n]}
  PROVE  LockInv' /\ LaunchInv'
<1>1. ASSUME NEW d \in Calls, call[d].step \in Working
      PROVE  call[d].slot \in Slots /\ lock[call[d].slot] = d /\ d # None
  BY <1>1, CallIsTyped, AssistantsAssumption DEF LockInv
<1>2. LockInv'
  BY DEF LockInv
<1>3. "launch" \in Working
  BY DEF Working
<1>4. LaunchInv'
  BY <1>1, <1>3 DEF LaunchInv, At
<1> QED BY <1>2, <1>4

\* A slot's lock goes to a call only when nobody works there.
LEMMA TakesLockStays ==
  ASSUME Typed, LockInv, LaunchInv, NEW c \in Calls, TakesLock(c)
  PROVE  LockInv' /\ LaunchInv'
<1> DEFINE n == call[c].slot
<1>1. /\ lock[n] = None /\ lock' = [lock EXCEPT ![n] = c] /\ session' = session
      /\ lock \in [Slots -> Calls \cup {None}] /\ n \in Slots
  BY CallIsTyped DEF TakesLock, Typed
<1>2. ASSUME NEW d \in Calls, d # c, call'[d].step \in Working
      PROVE  call'[d] = call[d] /\ call[d].slot \in Slots /\ lock[call[d].slot] = d
             /\ call[d].slot # n
  BY <1>1, <1>2, TakesLockMoves, CallIsTyped, AssistantsAssumption DEF LockInv
<1>3. call'[c].slot = n /\ call'[c].step # "launch" /\ lock'[n] = c
  BY <1>1, TakesLockMoves
<1>4. LockInv'
  BY <1>1, <1>2, <1>3 DEF LockInv
<1>5. "launch" \in Working
  BY DEF Working
<1>6. LaunchInv'
  BY <1>1, <1>2, <1>3, <1>5 DEF LaunchInv, At
<1> QED BY <1>4, <1>6

\* A start that made way finds none, a kept or a gone browser.
LEMMA MakesWayStays ==
  ASSUME Typed, LockInv, LaunchInv, NEW c \in Calls, HoldsAndMakesWay(c)
  PROVE  LockInv' /\ LaunchInv'
<1> DEFINE n == call[c].slot
<1>1. /\ lock' = lock /\ n \in Slots /\ session \in [Slots -> Browsers] /\ lock[n] = c
      /\ call[c].step = "hold"
  BY CallIsTyped DEF HoldsAndMakesWay, Typed, At, LockInv, Working
<1>2. /\ \A m \in Slots : m # n => session'[m] = session[m]
      /\ session'[n] \in MadeWay \cup {session[n]}
      /\ call[c].kind = "start" => session'[n] \in MadeWay
  BY <1>1 DEF HoldsAndMakesWay, MadeWay
<1>3. ASSUME NEW d \in Calls, d # c, call'[d].step \in Working
      PROVE  call'[d] = call[d] /\ call[d].slot \in Slots /\ lock[call[d].slot] = d
             /\ call[d].slot # n
  BY <1>1, <1>3, MakesWayMoves, CallIsTyped DEF LockInv
<1>4. LockInv'
  BY <1>1, <1>3, MakesWayMoves DEF LockInv
<1>5. "launch" \in Working
  BY DEF Working
<1>6. LaunchInv'
  BY <1>1, <1>2, <1>3, <1>5, MakesWayMoves DEF LaunchInv, At
<1> QED BY <1>4, <1>6

LEMMA LaunchesStays ==
  ASSUME Typed, LockInv, LaunchInv, NEW c \in Calls, Launches(c)
  PROVE  LockInv' /\ LaunchInv'
<1> DEFINE n == call[c].slot
<1>1. n \in Slots /\ lock \in [Slots -> Calls \cup {None}] /\ lock[n] = c
  BY CallIsTyped DEF Launches, Typed, At, LockInv, Working
<1>2. /\ \A m \in Slots : m # n => session'[m] = session[m] /\ lock'[m] \in {lock[m], None}
      /\ \A m \in Slots : lock[m] # c => lock'[m] = lock[m]
      /\ call[c].kind # "start" => lock' = lock
  BY <1>1 DEF Launches, Unlocks, Typed
<1>3. ASSUME NEW d \in Calls, d # c, call'[d].step \in Working
      PROVE  call'[d] = call[d] /\ call[d].slot \in Slots /\ lock[call[d].slot] = d
             /\ call[d].slot # n
  BY <1>1, <1>3, LaunchesMoves, CallIsTyped DEF LockInv
<1>4. /\ call'[c].slot = n /\ call'[c].step # "launch"
      /\ call'[c].step \in Working => lock'[n] = c
  BY <1>1, <1>2, LaunchesMoves DEF Working
<1>5. LockInv'
  BY <1>2, <1>3, <1>4 DEF LockInv
<1>6. "launch" \in Working
  BY DEF Working
<1>7. LaunchInv'
  BY <1>2, <1>3, <1>4, <1>6 DEF LaunchInv, At
<1> QED BY <1>5, <1>7

\* Who works in a slot keeps its lock, and a start that has made way its slot.
LEMMA WorkStep ==
  ASSUME Typed, LockInv, LaunchInv, [Next]_vars
  PROVE  LockInv' /\ LaunchInv'
<1>1. ASSUME NEW c \in Calls, NEW k \in Agents, NEW kind \in Kinds, NEW x \in Cases \cup {None}, CallArrives(c, k, kind, x)
      PROVE  LockInv' /\ LaunchInv'
  <2>1. StepsAside(c)
    BY <1>1, ArrivesAside
  <2>q. QED
    BY <1>1, <2>1, WorkStays DEF CallArrives, browsers
<1>2. ASSUME NEW p \in Proxies, LookupArrives(p) PROVE LockInv' /\ LaunchInv'
  BY <1>2, WorkStaysQuiet DEF LookupArrives, browsers
<1>3. ASSUME NEW p \in Proxies, GoodbyeArrives(p) PROVE LockInv' /\ LaunchInv'
  BY <1>3, WorkStaysQuiet DEF GoodbyeArrives, browsers
<1>4. ASSUME NEW p \in Proxies, Dies(p) PROVE LockInv' /\ LaunchInv'
  BY <1>4, WorkStaysQuiet DEF Dies, browsers
<1>5. ASSUME NEW c \in Calls, ClaimsCase(c) PROVE LockInv' /\ LaunchInv'
  <2>1. StepsAside(c)
    BY <1>5, ClaimsAside
  <2>q. QED
    BY <1>5, <2>1, WorkStays DEF ClaimsCase, browsers
<1>6. ASSUME NEW c \in Calls, LooksForEmpty(c) PROVE LockInv' /\ LaunchInv'
  <2>1. StepsAside(c)
    BY <1>6, LooksAside
  <2>q. QED
    BY <1>6, <2>1, WorkStays DEF LooksForEmpty, browsers
<1>7. ASSUME NEW c \in Calls, Picks(c) PROVE LockInv' /\ LaunchInv'
  <2>1. StepsAside(c)
    BY <1>7, PicksAside
  <2>q. QED
    BY <1>7, <2>1, WorkStays DEF Picks, browsers
<1>8. ASSUME NEW c \in Calls, Refused(c) PROVE LockInv' /\ LaunchInv'
  <2>1. StepsAside(c)
    BY <1>8, RestAside
  <2>q. QED
    BY <1>8, <2>1, WorkStays DEF Refused, browsers
<1>9. ASSUME NEW c \in Calls, Goes(c) PROVE LockInv' /\ LaunchInv'
  <2>1. StepsAside(c)
    BY <1>9, RestAside
  <2>q. QED
    BY <1>9, <2>1, WorkStays DEF Goes, browsers
<1>10. ASSUME NEW c \in Calls, TakesLock(c) PROVE LockInv' /\ LaunchInv'
  BY <1>10, TakesLockStays
<1>11. ASSUME NEW c \in Calls, LockTimesOut(c) PROVE LockInv' /\ LaunchInv'
  <2>1. StepsAside(c)
    BY <1>11, RestAside
  <2>q. QED
    BY <1>11, <2>1, WorkStays DEF LockTimesOut, browsers
<1>12. ASSUME NEW c \in Calls, HoldsAndMakesWay(c) PROVE LockInv' /\ LaunchInv'
  BY <1>12, MakesWayStays
<1>13. ASSUME NEW c \in Calls, HoldRefuses(c) PROVE LockInv' /\ LaunchInv'
  <2>1. StepsAside(c) /\ call[c].slot \in Slots /\ lock[call[c].slot] = c
    BY <1>13, RestAside, CallIsTyped DEF HoldRefuses, At, LockInv, Working
  <2>2. ASSUME NEW n \in Slots, lock[n] \notin {c, None}
        PROVE  lock'[n] = lock[n] /\ session'[n] \in MadeWay \cup {session[n]}
    BY <1>13, <2>1, <2>2 DEF HoldRefuses, Unlocks, Typed
  <2>q. QED
    BY <2>1, <2>2, WorkStays
<1>14. ASSUME NEW c \in Calls, Launches(c) PROVE LockInv' /\ LaunchInv'
  BY <1>14, LaunchesStays
<1>15. ASSUME NEW c \in Calls, LaunchFails(c) PROVE LockInv' /\ LaunchInv'
  <2>1. StepsAside(c) /\ call[c].slot \in Slots /\ lock[call[c].slot] = c
    BY <1>15, RestAside, CallIsTyped DEF LaunchFails, At, LockInv, Working
  <2>2. ASSUME NEW n \in Slots, lock[n] \notin {c, None}
        PROVE  lock'[n] = lock[n] /\ session'[n] \in MadeWay \cup {session[n]}
    BY <1>15, <2>1, <2>2 DEF LaunchFails, Unlocks, Typed
  <2>q. QED
    BY <2>1, <2>2, WorkStays
<1>16. ASSUME NEW c \in Calls, SignsIn(c) PROVE LockInv' /\ LaunchInv'
  <2>1. StepsAside(c) /\ call[c].slot \in Slots /\ lock[call[c].slot] = c
    BY <1>16, RestAside, CallIsTyped DEF SignsIn, At, LockInv, Working
  <2>2. ASSUME NEW n \in Slots, lock[n] \notin {c, None}
        PROVE  lock'[n] = lock[n] /\ session'[n] \in MadeWay \cup {session[n]}
    BY <1>16, <2>1, <2>2 DEF SignsIn, Unlocks, Closes, Typed
  <2>q. QED
    BY <2>1, <2>2, WorkStays
<1>17. ASSUME NEW c \in Calls, WorkEnds(c) PROVE LockInv' /\ LaunchInv'
  <2>1. StepsAside(c) /\ call[c].slot \in Slots /\ lock[call[c].slot] = c
    BY <1>17, RestAside, CallIsTyped DEF WorkEnds, At, LockInv, Working
  <2>2. ASSUME NEW n \in Slots, lock[n] \notin {c, None}
        PROVE  lock'[n] = lock[n] /\ session'[n] \in MadeWay \cup {session[n]}
    BY <1>17, <2>1, <2>2 DEF WorkEnds, Unlocks, Closes, Typed
  <2>q. QED
    BY <2>1, <2>2, WorkStays
<1>18. ASSUME NEW c \in Calls, EndsDiscovery(c) PROVE LockInv' /\ LaunchInv'
  <2>1. StepsAside(c) /\ call[c].slot \in Slots /\ lock[call[c].slot] = c
    BY <1>18, RestAside, CallIsTyped DEF EndsDiscovery, At, LockInv, Working
  <2>2. ASSUME NEW n \in Slots, lock[n] \notin {c, None}
        PROVE  lock'[n] = lock[n] /\ session'[n] \in MadeWay \cup {session[n]}
    BY <1>18, <2>1, <2>2 DEF EndsDiscovery, Unlocks, Closes, Typed
  <2>q. QED
    BY <2>1, <2>2, WorkStays
<1>19. ASSUME NEW c \in Calls, LetsGo(c) PROVE LockInv' /\ LaunchInv'
  <2>1. StepsAside(c) /\ call[c].slot \in Slots /\ lock[call[c].slot] = c
    BY <1>19, RestAside, CallIsTyped DEF LetsGo, At, LockInv, Working
  <2>2. ASSUME NEW n \in Slots, lock[n] \notin {c, None}
        PROVE  lock'[n] = lock[n] /\ session'[n] \in MadeWay \cup {session[n]}
    BY <1>19, <2>1, <2>2 DEF LetsGo, Unlocks, Typed
  <2>q. QED
    BY <2>1, <2>2, WorkStays
<1>20. ASSUME NEW c \in Calls, EndsClaims(c) PROVE LockInv' /\ LaunchInv'
  <2>1. StepsAside(c)
    BY <1>20, RestAside
  <2>q. QED
    BY <1>20, <2>1, WorkStays DEF EndsClaims, browsers
<1>21. ASSUME NEW c \in Calls, LooksAtUnused(c) PROVE LockInv' /\ LaunchInv'
  <2>1. StepsAside(c)
    BY <1>21, RestAside
  <2>q. QED
    BY <1>21, <2>1, WorkStays DEF LooksAtUnused, browsers
<1>22. ASSUME NEW c \in Calls, FreesUnused(c) PROVE LockInv' /\ LaunchInv'
  <2>1. StepsAside(c)
    BY <1>22, RestAside
  <2>q. QED
    BY <1>22, <2>1, WorkStays DEF FreesUnused, browsers
<1>23. ASSUME NEW c \in Calls, GivesUpClaim(c) PROVE LockInv' /\ LaunchInv'
  <2>1. StepsAside(c)
    BY <1>23, RestAside
  <2>q. QED
    BY <1>23, <2>1, WorkStays DEF GivesUpClaim, browsers
<1>24. ASSUME PersonOpens PROVE LockInv' /\ LaunchInv'
  <2>1. ASSUME NEW m \in Slots, lock[m] # None
        PROVE  session'[m] \in MadeWay \cup {session[m]}
    BY <1>24, <2>1 DEF PersonOpens, MadeWay, Typed
  <2>q. QED
    BY <1>24, <2>1, WorkStaysQuiet DEF PersonOpens
<1>25. ASSUME PersonCloses PROVE LockInv' /\ LaunchInv'
  <2>1. ASSUME NEW m \in Slots, lock[m] # None
        PROVE  session'[m] \in MadeWay \cup {session[m]}
    BY <1>25, <2>1 DEF PersonCloses, Closes, MadeWay, Typed
  <2>q. QED
    BY <1>25, <2>1, WorkStaysQuiet DEF PersonCloses, Closes
<1>26. ASSUME Tick PROVE LockInv' /\ LaunchInv'
  BY <1>26, WorkStaysQuiet DEF Tick, browsers
<1>27. ASSUME NEW n \in Slots, BrowserGoes(n) PROVE LockInv' /\ LaunchInv'
  <2>1. ASSUME NEW m \in Slots, lock[m] # None
        PROVE  session'[m] \in MadeWay \cup {session[m]}
    BY <1>27, <2>1 DEF BrowserGoes, MadeWay, Typed
  <2>q. QED
    BY <1>27, <2>1, WorkStaysQuiet DEF BrowserGoes
<1>28. ASSUME NEW n \in Slots, PersonReleases(n) PROVE LockInv' /\ LaunchInv'
  BY <1>28, WorkStaysQuiet DEF PersonReleases, browsers
<1>29. ASSUME NEW r \in Releasers, ReleaseCloses(r) PROVE LockInv' /\ LaunchInv'
  <2>1. ASSUME NEW m \in Slots, lock[m] # None
        PROVE  session'[m] \in MadeWay \cup {session[m]}
    BY <1>29, <2>1 DEF ReleaseCloses, Closes, MadeWay, Typed
  <2>q. QED
    BY <1>29, <2>1, WorkStaysQuiet DEF ReleaseCloses, Closes
<1>30. ASSUME NEW r \in Releasers, ReleaseTimesOut(r) PROVE LockInv' /\ LaunchInv'
  BY <1>30, WorkStaysQuiet DEF ReleaseTimesOut, browsers
<1>31. ASSUME NEW r \in Releasers, ReleaseUnbinds(r) PROVE LockInv' /\ LaunchInv'
  BY <1>31, WorkStaysQuiet DEF ReleaseUnbinds, browsers
<1>32. ASSUME SweepAsks PROVE LockInv' /\ LaunchInv'
  BY <1>32, WorkStaysQuiet DEF SweepAsks, browsers
<1>33. ASSUME SweepJudges PROVE LockInv' /\ LaunchInv'
  BY <1>33, WorkStaysQuiet DEF SweepJudges, browsers
<1>34. ASSUME HandlesSweep PROVE LockInv' /\ LaunchInv'
  BY <1>34, WorkStaysQuiet DEF HandlesSweep, browsers
<1>35. ASSUME JudgesIdle PROVE LockInv' /\ LaunchInv'
  BY <1>35, WorkStaysQuiet DEF JudgesIdle, browsers
<1>36. ASSUME SweepEnds PROVE LockInv' /\ LaunchInv'
  BY <1>36, WorkStaysQuiet DEF SweepEnds, browsers
<1>37. ASSUME NEW n \in Slots, IdleSpares(n) PROVE LockInv' /\ LaunchInv'
  BY <1>37, WorkStaysQuiet DEF IdleSpares, browsers
<1>38. ASSUME NEW n \in Slots, IdleCloses(n) PROVE LockInv' /\ LaunchInv'
  <2>1. ASSUME NEW m \in Slots, lock[m] # None
        PROVE  session'[m] \in MadeWay \cup {session[m]}
    BY <1>38, <2>1 DEF IdleCloses, Closes, SlotBusy, MadeWay, Typed
  <2>q. QED
    BY <1>38, <2>1, WorkStaysQuiet DEF IdleCloses, Closes
<1>39. ASSUME NEW n \in Slots, IdleUnbinds(n) PROVE LockInv' /\ LaunchInv'
  BY <1>39, WorkStaysQuiet DEF IdleUnbinds, browsers
<1>40. CASE UNCHANGED vars
  BY <1>40 DEF vars, registry, slots, browsers, told, sweeper, LockInv, LaunchInv, At
<1>q. QED
  BY <1>1, <1>2, <1>3, <1>4, <1>5, <1>6, <1>7, <1>8, <1>9, <1>10, <1>11, <1>12, <1>13,
     <1>14, <1>15, <1>16, <1>17, <1>18, <1>19, <1>20, <1>21, <1>22, <1>23, <1>24, <1>25,
     <1>26, <1>27, <1>28, <1>29, <1>30, <1>31, <1>32, <1>33, <1>34, <1>35, <1>36, <1>37,
     <1>38, <1>39, <1>40
     DEF Next, CallMoves, ReleaseMoves, SweepGoesOn

\* A step that unbinds at most binds nobody twice.
LEMMA UnbindsOnce ==
  ASSUME Typed, BoundOnce, NEW n \in Slots, bound' \in {bound, Unbound(n)}
  PROVE  BoundOnce'
<1>1. \A m \in Slots : bound'[m] \in {bound[m], None}
  BY UnboundIs
<1> QED BY <1>1 DEF BoundOnce

\* Who is bound has no other slot: a step that binds looks at all of them.
LEMMA BoundStep ==
  ASSUME Typed, BoundOnce, [Next]_vars
  PROVE  BoundOnce'
<1>1. ASSUME NEW c \in Calls, NEW k \in Agents, NEW kind \in Kinds, NEW x \in Cases \cup {None}, CallArrives(c, k, kind, x)
      PROVE  BoundOnce'
  BY <1>1 DEF CallArrives, slots, BoundOnce
<1>2. ASSUME NEW p \in Proxies, LookupArrives(p) PROVE BoundOnce'
  BY <1>2 DEF LookupArrives, slots, BoundOnce
<1>3. ASSUME NEW p \in Proxies, GoodbyeArrives(p) PROVE BoundOnce'
  BY <1>3 DEF GoodbyeArrives, slots, BoundOnce
<1>4. ASSUME NEW p \in Proxies, Dies(p) PROVE BoundOnce'
  BY <1>4 DEF Dies, slots, BoundOnce
<1>5. ASSUME NEW c \in Calls, ClaimsCase(c) PROVE BoundOnce'
  BY <1>5 DEF ClaimsCase, slots, BoundOnce
<1>6. ASSUME NEW c \in Calls, LooksForEmpty(c) PROVE BoundOnce'
  BY <1>6 DEF LooksForEmpty, slots, BoundOnce
<1>7. ASSUME NEW c \in Calls, Picks(c) PROVE BoundOnce'
  <2>1. CASE bound' = bound
    BY <2>1 DEF BoundOnce
  <2>2. CASE bound' # bound
    <3>1. PICK n \in Slots : bound' = [bound EXCEPT ![n] = call[c].by]
      BY <1>7, <2>2, PicksASlot, MainIsASlot DEF Picks
    <3>2. \A m \in Slots : bound[m] # call[c].by
      BY <1>7, <2>2 DEF Picks
    <3>q. QED
      BY <3>1, <3>2 DEF BoundOnce, Typed
  <2>q. QED
    BY <2>1, <2>2
<1>8. ASSUME NEW c \in Calls, Refused(c) PROVE BoundOnce'
  BY <1>8 DEF Refused, slots, BoundOnce
<1>9. ASSUME NEW c \in Calls, Goes(c) PROVE BoundOnce'
  BY <1>9 DEF Goes, slots, BoundOnce
<1>10. ASSUME NEW c \in Calls, TakesLock(c) PROVE BoundOnce'
  BY <1>10 DEF TakesLock, slots, BoundOnce
<1>11. ASSUME NEW c \in Calls, LockTimesOut(c) PROVE BoundOnce'
  BY <1>11 DEF LockTimesOut, slots, BoundOnce
<1>12. ASSUME NEW c \in Calls, HoldsAndMakesWay(c) PROVE BoundOnce'
  <2>1. bound' \in {bound, [bound EXCEPT ![call[c].slot] = None]}
    BY <1>12 DEF HoldsAndMakesWay
  <2>q. QED
    BY <2>1 DEF BoundOnce, Typed
<1>13. ASSUME NEW c \in Calls, HoldRefuses(c) PROVE BoundOnce'
  BY <1>13 DEF HoldRefuses, slots, BoundOnce
<1>14. ASSUME NEW c \in Calls, Launches(c) PROVE BoundOnce'
  <2>1. bound' = BoundIfFree(call[c].slot, call[c].by)
    BY <1>14 DEF Launches
  <2>q. QED
    BY <2>1 DEF BoundIfFree, BoundOnce, Typed
<1>15. ASSUME NEW c \in Calls, LaunchFails(c) PROVE BoundOnce'
  BY <1>15 DEF LaunchFails, BoundOnce
<1>16. ASSUME NEW c \in Calls, SignsIn(c) PROVE BoundOnce'
  <2>1. bound' \in {bound, Unbound(call[c].slot)} /\ call[c].slot \in Slots
    BY <1>16, CallIsTyped DEF SignsIn, Closes
  <2>q. QED
    BY <2>1, UnbindsOnce
<1>17. ASSUME NEW c \in Calls, WorkEnds(c) PROVE BoundOnce'
  <2>1. bound' \in {bound, Unbound(call[c].slot)} /\ call[c].slot \in Slots
    BY <1>17, CallIsTyped DEF WorkEnds, Closes
  <2>q. QED
    BY <2>1, UnbindsOnce
<1>18. ASSUME NEW c \in Calls, EndsDiscovery(c) PROVE BoundOnce'
  <2>1. bound' \in {bound, Unbound(call[c].slot)} /\ call[c].slot \in Slots
    BY <1>18, CallIsTyped DEF EndsDiscovery, Closes
  <2>q. QED
    BY <2>1, UnbindsOnce
<1>19. ASSUME NEW c \in Calls, LetsGo(c) PROVE BoundOnce'
  <2>1. bound' \in {bound, Unbound(call[c].slot)} /\ call[c].slot \in Slots
    BY <1>19, CallIsTyped DEF LetsGo
  <2>q. QED
    BY <2>1, UnbindsOnce
<1>20. ASSUME NEW c \in Calls, EndsClaims(c) PROVE BoundOnce'
  BY <1>20 DEF EndsClaims, slots, BoundOnce
<1>21. ASSUME NEW c \in Calls, LooksAtUnused(c) PROVE BoundOnce'
  BY <1>21 DEF LooksAtUnused, slots, BoundOnce
<1>22. ASSUME NEW c \in Calls, FreesUnused(c) PROVE BoundOnce'
  <2>1. bound' \in {bound, [bound EXCEPT ![call[c].slot] = None]}
    BY <1>22 DEF FreesUnused
  <2>q. QED
    BY <2>1 DEF BoundOnce, Typed
<1>23. ASSUME NEW c \in Calls, GivesUpClaim(c) PROVE BoundOnce'
  BY <1>23 DEF GivesUpClaim, slots, BoundOnce
<1>24. ASSUME PersonOpens PROVE BoundOnce'
  <2>1. bound' \in {bound, Unbound(Main)} /\ Main \in Slots
    BY <1>24, MainIsASlot DEF PersonOpens
  <2>q. QED
    BY <2>1, UnbindsOnce
<1>25. ASSUME PersonCloses PROVE BoundOnce'
  <2>1. bound' \in {bound, Unbound(Main)} /\ Main \in Slots
    BY <1>25, MainIsASlot DEF PersonCloses, Closes
  <2>q. QED
    BY <2>1, UnbindsOnce
<1>26. ASSUME Tick PROVE BoundOnce'
  BY <1>26 DEF Tick, slots, BoundOnce
<1>27. ASSUME NEW n \in Slots, BrowserGoes(n) PROVE BoundOnce'
  BY <1>27 DEF BrowserGoes, slots, BoundOnce
<1>28. ASSUME NEW n \in Slots, PersonReleases(n) PROVE BoundOnce'
  BY <1>28 DEF PersonReleases, slots, BoundOnce
<1>29. ASSUME NEW r \in Releasers, ReleaseCloses(r) PROVE BoundOnce'
  <2>1. bound' \in {bound, Unbound(release[r].slot)} /\ release[r].slot \in Slots
    BY <1>29 DEF ReleaseCloses, Closes, Typed, ReleaseRow
  <2>q. QED
    BY <2>1, UnbindsOnce
<1>30. ASSUME NEW r \in Releasers, ReleaseTimesOut(r) PROVE BoundOnce'
  BY <1>30 DEF ReleaseTimesOut, slots, BoundOnce
<1>31. ASSUME NEW r \in Releasers, ReleaseUnbinds(r) PROVE BoundOnce'
  <2>1. bound' \in {bound, Unbound(release[r].slot)} /\ release[r].slot \in Slots
    BY <1>31 DEF ReleaseUnbinds, Typed, ReleaseRow
  <2>q. QED
    BY <2>1, UnbindsOnce
<1>32. ASSUME SweepAsks PROVE BoundOnce'
  BY <1>32 DEF SweepAsks, slots, BoundOnce
<1>33. ASSUME SweepJudges PROVE BoundOnce'
  BY <1>33 DEF SweepJudges, slots, BoundOnce
<1>34. ASSUME HandlesSweep PROVE BoundOnce'
  <2>1. bound' \in {bound, [bound EXCEPT ![Main] = None]}
    BY <1>34 DEF HandlesSweep
  <2>q. QED
    BY <2>1 DEF BoundOnce, Typed
<1>35. ASSUME JudgesIdle PROVE BoundOnce'
  BY <1>35 DEF JudgesIdle, slots, BoundOnce
<1>36. ASSUME SweepEnds PROVE BoundOnce'
  BY <1>36 DEF SweepEnds, slots, BoundOnce
<1>37. ASSUME NEW n \in Slots, IdleSpares(n) PROVE BoundOnce'
  BY <1>37 DEF IdleSpares, slots, BoundOnce
<1>38. ASSUME NEW n \in Slots, IdleCloses(n) PROVE BoundOnce'
  <2>1. bound' \in {bound, Unbound(n)} /\ n \in Slots
    BY <1>38 DEF IdleCloses, Closes
  <2>q. QED
    BY <2>1, UnbindsOnce
<1>39. ASSUME NEW n \in Slots, IdleUnbinds(n) PROVE BoundOnce'
  <2>1. bound' \in {bound, Unbound(n)} /\ n \in Slots
    BY <1>39 DEF IdleUnbinds
  <2>q. QED
    BY <2>1, UnbindsOnce
<1>40. CASE UNCHANGED vars
  BY <1>40 DEF vars, registry, slots, browsers, told, sweeper, BoundOnce
<1>q. QED
  BY <1>1, <1>2, <1>3, <1>4, <1>5, <1>6, <1>7, <1>8, <1>9, <1>10, <1>11, <1>12, <1>13,
     <1>14, <1>15, <1>16, <1>17, <1>18, <1>19, <1>20, <1>21, <1>22, <1>23, <1>24, <1>25,
     <1>26, <1>27, <1>28, <1>29, <1>30, <1>31, <1>32, <1>33, <1>34, <1>35, <1>36, <1>37,
     <1>38, <1>39, <1>40
     DEF Next, CallMoves, ReleaseMoves, SweepGoesOn

\* Every row keeps its type.
LEMMA TypedStep ==
  ASSUME Typed, AskedInv, [Next]_vars
  PROVE  Typed'
<1>1. ASSUME NEW c \in Calls, NEW k \in Agents, NEW kind \in Kinds, NEW x \in Cases \cup {None}, CallArrives(c, k, kind, x)
      PROVE  Typed'
  <2>1. call' \in [Calls -> CallRow]
    BY <1>1, ArrivesAside DEF StepsAside
  <2>2. reg' \in [Agents -> RegRow] /\ judged' \in [Slots -> JudgedRow]
    BY <1>1, NotedTyped DEF CallArrives
  <2>q. QED
    BY <1>1, <2>1, <2>2 DEF CallArrives, slots, told, browsers, Typed
<1>2. ASSUME NEW p \in Proxies, LookupArrives(p) PROVE Typed'
  <2>1. reg' \in [Agents -> RegRow] /\ judged' \in [Slots -> JudgedRow]
    BY <1>2, NotedTyped DEF LookupArrives
  <2>q. QED
    BY <1>2, <2>1 DEF LookupArrives, slots, told, browsers, Typed
<1>3. ASSUME NEW p \in Proxies, GoodbyeArrives(p) PROVE Typed'
  <2>1. ASSUME NEW k \in Agents
        PROVE  [reg[k] EXCEPT !.state = "gone", !.gone = 0, !.reported = FALSE] \in RegRow
    <3>1. reg[k] \in RegRow /\ FALSE \in BOOLEAN
      BY DEF Typed
    <3> QED BY <3>1, RegRowMoves, Zenon
  <2>2. reg' \in [Agents -> RegRow]
    BY <1>3, <2>1 DEF GoodbyeArrives, Typed
  <2>q. QED
    BY <1>3, <2>2 DEF GoodbyeArrives, slots, told, browsers, sweeper, Typed
<1>4. ASSUME NEW p \in Proxies, Dies(p) PROVE Typed'
  BY <1>4 DEF Dies, slots, told, browsers, sweeper, Typed
<1>5. ASSUME NEW c \in Calls, ClaimsCase(c) PROVE Typed'
  <2>1. call' \in [Calls -> CallRow]
    BY <1>5, ClaimsAside DEF StepsAside
  <2>2. [holder |-> call[c].by, age |-> 0] \in ClaimRow
    BY CallIsTyped, AssistantsAssumption DEF ClaimRow
  <2>3. claims' \in [Cases -> ClaimRow]
    BY <1>5, <2>2, RetainedIs DEF ClaimsCase
  <2>q. QED
    BY <1>5, <2>1, <2>3 DEF ClaimsCase, registry, slots, told, browsers, sweeper, Typed
<1>6. ASSUME NEW c \in Calls, LooksForEmpty(c) PROVE Typed'
  <2>1. call' \in [Calls -> CallRow]
    BY <1>6, LooksAside DEF StepsAside
  <2>q. QED
    BY <1>6, <2>1 DEF LooksForEmpty, registry, slots, told, browsers, sweeper, Typed
<1>7. ASSUME NEW c \in Calls, Picks(c) PROVE Typed'
  <2>1. call' \in [Calls -> CallRow]
    BY <1>7, PicksAside DEF StepsAside
  <2>2. bound' \in [Slots -> Agents \cup {None}]
    BY <1>7, PicksASlot, MainIsASlot, CallIsTyped DEF Picks, Typed
  <2>q. QED
    BY <1>7, <2>1, <2>2 DEF Picks, registry, browsers, sweeper, Typed
<1>8. ASSUME NEW c \in Calls, Refused(c) PROVE Typed'
  <2>1. call' \in [Calls -> CallRow]
    BY <1>8, RestAside DEF StepsAside
  <2>q. QED
    BY <1>8, <2>1 DEF Refused, registry, slots, told, browsers, sweeper, Typed
<1>9. ASSUME NEW c \in Calls, Goes(c) PROVE Typed'
  <2>1. call' \in [Calls -> CallRow]
    BY <1>9, RestAside DEF StepsAside
  <2>q. QED
    BY <1>9, <2>1 DEF Goes, registry, slots, told, browsers, sweeper, Typed
<1>10. ASSUME NEW c \in Calls, TakesLock(c) PROVE Typed'
  <2>1. call' \in [Calls -> CallRow] /\ call[c].slot \in Slots /\ call[c].by \in Agents \cup {None}
    BY <1>10, TakesLockMoves, CallIsTyped
  <2>q. QED
    BY <1>10, <2>1 DEF TakesLock, registry, slots, told, sweeper, Browsers, Typed
<1>11. ASSUME NEW c \in Calls, LockTimesOut(c) PROVE Typed'
  <2>1. call' \in [Calls -> CallRow]
    BY <1>11, RestAside DEF StepsAside
  <2>q. QED
    BY <1>11, <2>1 DEF LockTimesOut, registry, slots, told, browsers, sweeper, Typed
<1>12. ASSUME NEW c \in Calls, HoldsAndMakesWay(c) PROVE Typed'
  <2>1. call' \in [Calls -> CallRow] /\ call[c].slot \in Slots /\ call[c].by \in Agents \cup {None}
    BY <1>12, MakesWayMoves, CallIsTyped
  <2>q. QED
    BY <1>12, <2>1 DEF HoldsAndMakesWay, registry, told, sweeper, Browsers, Typed
<1>13. ASSUME NEW c \in Calls, HoldRefuses(c) PROVE Typed'
  <2>1. call' \in [Calls -> CallRow] /\ call[c].slot \in Slots
    BY <1>13, RestAside, CallIsTyped DEF StepsAside
  <2>2. Unbound(call[c].slot) \in [Slots -> Agents \cup {None}]
    BY <2>1, UnboundIs
  <2>q. QED
    BY <1>13, <2>1, <2>2 DEF HoldRefuses, registry, slots, told, sweeper, Unlocks,
      Browsers, Typed
<1>14. ASSUME NEW c \in Calls, Launches(c) PROVE Typed'
  <2>1. call' \in [Calls -> CallRow] /\ call[c].slot \in Slots /\ call[c].by \in Agents \cup {None}
    BY <1>14, LaunchesMoves, CallIsTyped
  <2>q. QED
    BY <1>14, <2>1 DEF Launches, registry, told, sweeper, BoundIfFree, Unlocks, Browsers,
      Typed
<1>15. ASSUME NEW c \in Calls, LaunchFails(c) PROVE Typed'
  <2>1. call' \in [Calls -> CallRow] /\ call[c].slot \in Slots
    BY <1>15, RestAside, CallIsTyped DEF StepsAside
  <2>2. Unbound(call[c].slot) \in [Slots -> Agents \cup {None}]
    BY <2>1, UnboundIs
  <2>q. QED
    BY <1>15, <2>1, <2>2 DEF LaunchFails, registry, told, sweeper, Unlocks, Browsers, Typed
<1>16. ASSUME NEW c \in Calls, SignsIn(c) PROVE Typed'
  <2>1. call' \in [Calls -> CallRow] /\ call[c].slot \in Slots
    BY <1>16, RestAside, CallIsTyped DEF StepsAside
  <2>2. Unbound(call[c].slot) \in [Slots -> Agents \cup {None}]
    BY <2>1, UnboundIs
  <2>q. QED
    BY <1>16, <2>1, <2>2 DEF SignsIn, registry, told, sweeper, Closes, Unlocks, Browsers,
      Typed
<1>17. ASSUME NEW c \in Calls, WorkEnds(c) PROVE Typed'
  <2>1. call' \in [Calls -> CallRow] /\ call[c].slot \in Slots
    BY <1>17, RestAside, CallIsTyped DEF StepsAside
  <2>2. Unbound(call[c].slot) \in [Slots -> Agents \cup {None}]
    BY <2>1, UnboundIs
  <2>q. QED
    BY <1>17, <2>1, <2>2 DEF WorkEnds, registry, told, sweeper, Closes, Unlocks, Browsers,
      Typed
<1>18. ASSUME NEW c \in Calls, EndsDiscovery(c) PROVE Typed'
  <2>1. call' \in [Calls -> CallRow] /\ call[c].slot \in Slots
    BY <1>18, RestAside, CallIsTyped DEF StepsAside
  <2>2. Unbound(call[c].slot) \in [Slots -> Agents \cup {None}]
    BY <2>1, UnboundIs
  <2>q. QED
    BY <1>18, <2>1, <2>2 DEF EndsDiscovery, registry, told, sweeper, Closes, Unlocks,
      Browsers, Typed
<1>19. ASSUME NEW c \in Calls, LetsGo(c) PROVE Typed'
  <2>1. call' \in [Calls -> CallRow] /\ call[c].slot \in Slots
    BY <1>19, RestAside, CallIsTyped DEF StepsAside
  <2>2. Unbound(call[c].slot) \in [Slots -> Agents \cup {None}]
    BY <2>1, UnboundIs
  <2>q. QED
    BY <1>19, <2>1, <2>2 DEF LetsGo, registry, told, sweeper, Unlocks, Browsers, Typed
<1>20. ASSUME NEW c \in Calls, EndsClaims(c) PROVE Typed'
  <2>1. call' \in [Calls -> CallRow]
    BY <1>20, RestAside DEF StepsAside
  <2>2. claims' \in [Cases -> ClaimRow]
    BY <1>20, EndedForIs DEF EndsClaims
  <2>q. QED
    BY <1>20, <2>1, <2>2 DEF EndsClaims, registry, slots, told, browsers, sweeper, Typed
<1>21. ASSUME NEW c \in Calls, LooksAtUnused(c) PROVE Typed'
  <2>1. call' \in [Calls -> CallRow]
    BY <1>21, RestAside DEF StepsAside
  <2>q. QED
    BY <1>21, <2>1 DEF LooksAtUnused, registry, slots, told, browsers, sweeper, Typed
<1>22. ASSUME NEW c \in Calls, FreesUnused(c) PROVE Typed'
  <2>1. call' \in [Calls -> CallRow] /\ call[c].slot \in Slots
    BY <1>22, RestAside, CallIsTyped DEF StepsAside
  <2>2. Unbound(call[c].slot) \in [Slots -> Agents \cup {None}]
    BY <2>1, UnboundIs
  <2>q. QED
    BY <1>22, <2>1, <2>2 DEF FreesUnused, registry, told, browsers, sweeper, Browsers,
      Typed
<1>23. ASSUME NEW c \in Calls, GivesUpClaim(c) PROVE Typed'
  <2>1. call' \in [Calls -> CallRow]
    BY <1>23, RestAside DEF StepsAside
  <2>2. claims' \in [Cases -> ClaimRow]
    BY <1>23, NoClaimTyped DEF GivesUpClaim, Ended, Typed
  <2>q. QED
    BY <1>23, <2>1, <2>2 DEF GivesUpClaim, registry, slots, told, browsers, sweeper, Typed
<1>24. ASSUME PersonOpens PROVE Typed'
  <2>1. Unbound(Main) \in [Slots -> Agents \cup {None}] /\ Main \in Slots
    BY UnboundIs, MainIsASlot
  <2>q. QED
    BY <1>24, <2>1 DEF PersonOpens, registry, told, sweeper, Browsers, Typed
<1>25. ASSUME PersonCloses PROVE Typed'
  <2>1. Unbound(Main) \in [Slots -> Agents \cup {None}] /\ Main \in Slots
    BY UnboundIs, MainIsASlot
  <2>q. QED
    BY <1>25, <2>1 DEF PersonCloses, registry, told, sweeper, Closes, Browsers, Typed
<1>26. ASSUME Tick PROVE Typed'
  <2>1. ASSUME NEW k \in Agents, NEW m \in 0 .. QuietAfter, NEW g \in 0 .. ForgetAfter
        PROVE  [reg[k] EXCEPT !.last = m, !.gone = g] \in RegRow
    BY DEF Typed, RegRow
  <2>2. ASSUME NEW k \in Agents PROVE AgedReg[k] \in RegRow
    <3> DEFINE m == IF reg[k].state = "unknown" THEN reg[k].last
                                               ELSE Older(reg[k].last, QuietAfter)
               g == IF reg[k].state = "gone" THEN Older(reg[k].gone, ForgetAfter)
                                             ELSE reg[k].gone
    <3>1. m \in 0 .. QuietAfter /\ g \in 0 .. ForgetAfter
      BY AssistantsAssumption, OlderTyped DEF Typed, RegRow
    <3>2. AgedReg[k] = [reg[k] EXCEPT !.last = m, !.gone = g]
      BY DEF AgedReg
    <3> HIDE DEF m, g
    <3> QED BY <2>1, <3>1, <3>2
  <2>3. ASSUME NEW x \in Cases PROVE AgedClaims[x] \in ClaimRow
    <3>1. PICK m \in 0 .. ClaimTimeout : AgedClaims[x] = [claims[x] EXCEPT !.age = m]
      BY AssistantsAssumption, OlderTyped DEF AgedClaims, Typed, ClaimRow
    <3> QED BY <3>1 DEF Typed, ClaimRow
  <2>4. reg' \in [Agents -> RegRow] /\ claims' \in [Cases -> ClaimRow]
    BY <1>26, <2>2, <2>3 DEF Tick, AgedReg, AgedClaims
  <2>q. QED
    BY <1>26, <2>4 DEF Tick, slots, told, browsers, sweeper, Typed
<1>27. ASSUME NEW n \in Slots, BrowserGoes(n) PROVE Typed'
  BY <1>27 DEF BrowserGoes, registry, slots, told, sweeper, Browsers, Typed
<1>28. ASSUME NEW n \in Slots, PersonReleases(n) PROVE Typed'
  <2>1. Asked(n) \in ReleaseRow
    BY AskedTyped
  <2>q. QED
    BY <1>28, <2>1 DEF PersonReleases, registry, slots, told, browsers, sweeper, Typed
<1>29. ASSUME NEW r \in Releasers, ReleaseCloses(r) PROVE Typed'
  <2>1. release[r].slot \in Slots /\ [release[r] EXCEPT !.step = "closed"] \in ReleaseRow
    BY DEF Typed, ReleaseRow
  <2>2. Unbound(release[r].slot) \in [Slots -> Agents \cup {None}]
    BY <2>1, UnboundIs
  <2>q. QED
    BY <1>29, <2>1, <2>2 DEF ReleaseCloses, registry, told, sweeper, Closes, Browsers,
      Typed
<1>30. ASSUME NEW r \in Releasers, ReleaseTimesOut(r) PROVE Typed'
  <2>1. release' \in [Releasers -> ReleaseRow]
    BY <1>30, NoReleaseTyped DEF ReleaseTimesOut, Typed
  <2>2. retries' \subseteq Extras \X Agents
    BY <1>30 DEF ReleaseTimesOut, Typed, AskedInv, Releasers
  <2>q. QED
    BY <1>30, <2>1, <2>2 DEF ReleaseTimesOut, registry, slots, browsers, sweeper, Typed
<1>31. ASSUME NEW r \in Releasers, ReleaseUnbinds(r) PROVE Typed'
  <2>1. release[r].slot \in Slots
    BY DEF Typed, ReleaseRow
  <2>2. bound' \in [Slots -> Agents \cup {None}] /\ release' \in [Releasers -> ReleaseRow]
    BY <1>31, <2>1, UnboundIs, NoReleaseTyped DEF ReleaseUnbinds, Typed
  <2>3. claims' \in [Cases -> ClaimRow]
    BY <1>31, EndedForIs, EndedAtIs DEF ReleaseUnbinds, Typed
  <2>q. QED
    BY <1>31, <2>2, <2>3 DEF ReleaseUnbinds, registry, told, browsers, sweeper, Typed
<1>32. ASSUME SweepAsks PROVE Typed'
  <2>1. sweep' \in SweepRow
    BY <1>32 DEF SweepAsks, Asleep, SweepRow
  <2>q. QED
    BY <1>32, <2>1 DEF SweepAsks, registry, slots, told, browsers, Typed
<1>33. ASSUME SweepJudges PROVE Typed'
  <2> DEFINE newly == {k \in sweep.dead : Live(k)}
             quiet == {k \in Named \ newly : Live(k) /\ reg[k].last >= QuietAfter}
             gone == {k \in Agents : reg[k].state = "gone"}
             past == {k \in gone : ~reg[k].reported /\ reg[k].gone >= Grace}
             forget == {k \in gone : reg[k].reported /\ reg[k].gone >= ForgetAfter}
  <2>1. past \subseteq Agents /\ quiet \subseteq Agents
    BY AssistantsAssumption
  <2>2. /\ reg' = [k \in Agents |->
               CASE k \in newly \cup quiet ->
                      [reg[k] EXCEPT !.state = "gone", !.gone = 0, !.reported = (k \in quiet)]
                 [] k \in past -> [reg[k] EXCEPT !.reported = TRUE]
                 [] k \in forget -> Unknown
                 [] OTHER -> reg[k]]
        /\ sweep' = [step |-> "swept", dead |-> {}, past |-> past, quiet |-> quiet]
    BY <1>33 DEF SweepJudges
  <2> HIDE DEF newly, quiet, gone, past, forget
  <2>3. ASSUME NEW k \in Agents
        PROVE  (CASE k \in newly \cup quiet ->
                       [reg[k] EXCEPT !.state = "gone", !.gone = 0, !.reported = (k \in quiet)]
                  [] k \in past -> [reg[k] EXCEPT !.reported = TRUE]
                  [] k \in forget -> Unknown
                  [] OTHER -> reg[k]) \in RegRow
    <3>1. reg[k] \in RegRow /\ Unknown \in RegRow
      BY UnknownTyped DEF Typed
    <3>2. (k \in quiet) \in BOOLEAN /\ TRUE \in BOOLEAN
      OBVIOUS
    <3>3. /\ [reg[k] EXCEPT !.state = "gone", !.gone = 0, !.reported = (k \in quiet)] \in RegRow
          /\ [reg[k] EXCEPT !.reported = TRUE] \in RegRow
      BY <3>1, <3>2, RegRowMoves, Zenon
    <3> QED BY <3>1, <3>3, Zenon
  <2>4. reg' \in [Agents -> RegRow]
    BY <2>2, <2>3, Zenon
  <2>5. sweep' \in SweepRow
    BY <2>1, <2>2 DEF SweepRow
  <2>q. QED
    BY <1>33, <2>4, <2>5 DEF SweepJudges, slots, told, browsers, Typed
<1>34. ASSUME HandlesSweep PROVE Typed'
  <2>1. \A r \in Extras : Asked(r) \in ReleaseRow
    BY AskedTyped, MainIsASlot
  <2>2. release' \in [Releasers -> ReleaseRow]
    BY <1>34, <2>1 DEF HandlesSweep, Typed
  <2>3. sweep' \in SweepRow
    BY <1>34 DEF HandlesSweep, Sweeps, Asleep, SweepRow
  <2>4. claims' \in [Cases -> ClaimRow] /\ bound' \in [Slots -> Agents \cup {None}]
    BY <1>34, EndedForIs, MainIsASlot DEF HandlesSweep, Typed
  <2>q. QED
    BY <1>34, <2>2, <2>3, <2>4 DEF HandlesSweep, registry, browsers, Typed
<1>35. ASSUME JudgesIdle PROVE Typed'
  <2>1. \A n \in Slots : [step |-> "judged", key |-> bound[n], called |-> FALSE] \in JudgedRow
    BY DEF Typed, JudgedRow
  <2>2. judged' \in [Slots -> JudgedRow]
    BY <1>35, <2>1, NotJudgedTyped DEF JudgesIdle
  <2>3. sweep' \in SweepRow
    BY <1>35 DEF JudgesIdle, Sweeps, Asleep, SweepRow
  <2>q. QED
    BY <1>35, <2>2, <2>3 DEF JudgesIdle, registry, slots, told, browsers, Typed
<1>36. ASSUME SweepEnds PROVE Typed'
  <2>1. sweep' \in SweepRow
    BY <1>36 DEF SweepEnds, Sweeps, Asleep, SweepRow
  <2>q. QED
    BY <1>36, <2>1 DEF SweepEnds, registry, slots, told, browsers, Typed
<1>37. ASSUME NEW n \in Slots, IdleSpares(n) PROVE Typed'
  BY <1>37, NotJudgedTyped DEF IdleSpares, registry, slots, told, browsers, Typed
<1>38. ASSUME NEW n \in Slots, IdleCloses(n) PROVE Typed'
  <2>1. Unbound(n) \in [Slots -> Agents \cup {None}] /\ Main \in Slots
    BY UnboundIs, MainIsASlot
  <2>2. [judged[n] EXCEPT !.step = "closed"] \in JudgedRow
    BY DEF Typed, JudgedRow
  <2>q. QED
    BY <1>38, <2>1, <2>2 DEF IdleCloses, registry, told, Closes, Browsers, Typed
<1>39. ASSUME NEW n \in Slots, IdleUnbinds(n) PROVE Typed'
  <2>1. bound' \in [Slots -> Agents \cup {None}] /\ judged' \in [Slots -> JudgedRow]
    BY <1>39, UnboundIs, NotJudgedTyped DEF IdleUnbinds, Typed
  <2>2. claims' \in [Cases -> ClaimRow]
    BY <1>39, EndedAtIs DEF IdleUnbinds, Typed
  <2>3. notices' \subseteq Agents
    BY <1>39 DEF IdleUnbinds, Typed, AskedInv
  <2>q. QED
    BY <1>39, <2>1, <2>2, <2>3 DEF IdleUnbinds, registry, browsers, Typed
<1>40. CASE UNCHANGED vars
  BY <1>40 DEF vars, registry, slots, browsers, told, sweeper, Typed
<1>q. QED
  BY <1>1, <1>2, <1>3, <1>4, <1>5, <1>6, <1>7, <1>8, <1>9, <1>10, <1>11, <1>12, <1>13,
     <1>14, <1>15, <1>16, <1>17, <1>18, <1>19, <1>20, <1>21, <1>22, <1>23, <1>24, <1>25,
     <1>26, <1>27, <1>28, <1>29, <1>30, <1>31, <1>32, <1>33, <1>34, <1>35, <1>36, <1>37,
     <1>38, <1>39, <1>40
     DEF Next, CallMoves, ReleaseMoves, SweepGoesOn

\* A release that is asked for, and a judgement, stay of the same assistant.
LEMMA AskedStep ==
  ASSUME Typed, AskedInv, [Next]_vars
  PROVE  AskedInv'
<1>1. ASSUME NEW c \in Calls, NEW k \in Agents, NEW kind \in Kinds, NEW x \in Cases \cup {None}, CallArrives(c, k, kind, x)
      PROVE  AskedInv'
  <2>1. \A n \in Slots : judged'[n].step = judged[n].step /\ judged'[n].key = judged[n].key
    BY <1>1 DEF CallArrives, Noted, Typed, JudgedRow
  <2>q. QED
    BY <1>1, <2>1 DEF CallArrives, AskedInv
<1>2. ASSUME NEW p \in Proxies, LookupArrives(p) PROVE AskedInv'
  <2>1. \A n \in Slots : judged'[n].step = judged[n].step /\ judged'[n].key = judged[n].key
    BY <1>2 DEF LookupArrives, Noted, Typed, JudgedRow
  <2>q. QED
    BY <1>2, <2>1 DEF LookupArrives, AskedInv
<1>3. ASSUME NEW p \in Proxies, GoodbyeArrives(p) PROVE AskedInv'
  BY <1>3 DEF GoodbyeArrives, sweeper, AskedInv
<1>4. ASSUME NEW p \in Proxies, Dies(p) PROVE AskedInv'
  BY <1>4 DEF Dies, sweeper, AskedInv
<1>5. ASSUME NEW c \in Calls, ClaimsCase(c) PROVE AskedInv'
  BY <1>5 DEF ClaimsCase, sweeper, AskedInv
<1>6. ASSUME NEW c \in Calls, LooksForEmpty(c) PROVE AskedInv'
  BY <1>6 DEF LooksForEmpty, sweeper, AskedInv
<1>7. ASSUME NEW c \in Calls, Picks(c) PROVE AskedInv'
  BY <1>7 DEF Picks, sweeper, AskedInv
<1>8. ASSUME NEW c \in Calls, Refused(c) PROVE AskedInv'
  BY <1>8 DEF Refused, sweeper, AskedInv
<1>9. ASSUME NEW c \in Calls, Goes(c) PROVE AskedInv'
  BY <1>9 DEF Goes, sweeper, AskedInv
<1>10. ASSUME NEW c \in Calls, TakesLock(c) PROVE AskedInv'
  BY <1>10 DEF TakesLock, sweeper, AskedInv
<1>11. ASSUME NEW c \in Calls, LockTimesOut(c) PROVE AskedInv'
  BY <1>11 DEF LockTimesOut, sweeper, AskedInv
<1>12. ASSUME NEW c \in Calls, HoldsAndMakesWay(c) PROVE AskedInv'
  BY <1>12 DEF HoldsAndMakesWay, sweeper, AskedInv
<1>13. ASSUME NEW c \in Calls, HoldRefuses(c) PROVE AskedInv'
  BY <1>13 DEF HoldRefuses, sweeper, AskedInv
<1>14. ASSUME NEW c \in Calls, Launches(c) PROVE AskedInv'
  BY <1>14 DEF Launches, sweeper, AskedInv
<1>15. ASSUME NEW c \in Calls, LaunchFails(c) PROVE AskedInv'
  BY <1>15 DEF LaunchFails, sweeper, AskedInv
<1>16. ASSUME NEW c \in Calls, SignsIn(c) PROVE AskedInv'
  BY <1>16 DEF SignsIn, sweeper, AskedInv
<1>17. ASSUME NEW c \in Calls, WorkEnds(c) PROVE AskedInv'
  BY <1>17 DEF WorkEnds, sweeper, AskedInv
<1>18. ASSUME NEW c \in Calls, EndsDiscovery(c) PROVE AskedInv'
  BY <1>18 DEF EndsDiscovery, sweeper, AskedInv
<1>19. ASSUME NEW c \in Calls, LetsGo(c) PROVE AskedInv'
  BY <1>19 DEF LetsGo, sweeper, AskedInv
<1>20. ASSUME NEW c \in Calls, EndsClaims(c) PROVE AskedInv'
  BY <1>20 DEF EndsClaims, sweeper, AskedInv
<1>21. ASSUME NEW c \in Calls, LooksAtUnused(c) PROVE AskedInv'
  BY <1>21 DEF LooksAtUnused, sweeper, AskedInv
<1>22. ASSUME NEW c \in Calls, FreesUnused(c) PROVE AskedInv'
  BY <1>22 DEF FreesUnused, sweeper, AskedInv
<1>23. ASSUME NEW c \in Calls, GivesUpClaim(c) PROVE AskedInv'
  BY <1>23 DEF GivesUpClaim, sweeper, AskedInv
<1>24. ASSUME PersonOpens PROVE AskedInv'
  BY <1>24 DEF PersonOpens, sweeper, AskedInv
<1>25. ASSUME PersonCloses PROVE AskedInv'
  BY <1>25 DEF PersonCloses, sweeper, AskedInv
<1>26. ASSUME Tick PROVE AskedInv'
  BY <1>26 DEF Tick, sweeper, AskedInv
<1>27. ASSUME NEW n \in Slots, BrowserGoes(n) PROVE AskedInv'
  BY <1>27 DEF BrowserGoes, sweeper, AskedInv
<1>28. ASSUME NEW n \in Slots, PersonReleases(n) PROVE AskedInv'
  <2>1. Person \notin Extras
    BY AssistantsAssumption DEF Extras
  <2>q. QED
    BY <1>28, <2>1 DEF PersonReleases, AskedInv, Typed, Releasers, sweeper
<1>29. ASSUME NEW r \in Releasers, ReleaseCloses(r) PROVE AskedInv'
  <2>1. \A q \in Extras : /\ release'[q].slot = release[q].slot /\ release'[q].key = release[q].key
                          /\ release'[q].step # "idle" => release[q].step # "idle"
    BY <1>29 DEF ReleaseCloses, Typed, ReleaseRow, Releasers
  <2>q. QED
    BY <1>29, <2>1 DEF ReleaseCloses, AskedInv, sweeper
<1>30. ASSUME NEW r \in Releasers, ReleaseTimesOut(r) PROVE AskedInv'
  <2>1. \A q \in Extras : release'[q] = release[q] \/ release'[q].step = "idle"
    BY <1>30 DEF ReleaseTimesOut, NoRelease, Typed, Releasers
  <2>q. QED
    BY <1>30, <2>1 DEF ReleaseTimesOut, AskedInv, sweeper
<1>31. ASSUME NEW r \in Releasers, ReleaseUnbinds(r) PROVE AskedInv'
  <2>1. \A q \in Extras : release'[q] = release[q] \/ release'[q].step = "idle"
    BY <1>31 DEF ReleaseUnbinds, NoRelease, Typed, Releasers
  <2>q. QED
    BY <1>31, <2>1 DEF ReleaseUnbinds, AskedInv, sweeper
<1>32. ASSUME SweepAsks PROVE AskedInv'
  BY <1>32 DEF SweepAsks, AskedInv
<1>33. ASSUME SweepJudges PROVE AskedInv'
  BY <1>33 DEF SweepJudges, AskedInv
<1>34. ASSUME HandlesSweep PROVE AskedInv'
  <2> DEFINE again == {n \in Extras : \/ bound[n] \in sweep.past
                                    \/ <<n, bound[n]>> \in retries}
  <2>1. \A r \in Extras : release'[r] = IF r \in again THEN Asked(r) ELSE release[r]
    BY <1>34 DEF HandlesSweep, Releasers
  <2>2. \A r \in again : Asked(r).slot = r /\ Asked(r).key \in Agents
    <3>1. \A r \in again : bound[r] \in Agents
      BY DEF Typed, SweepRow
    <3> QED BY <3>1 DEF Asked
  <2> HIDE DEF again
  <2>q. QED
    BY <1>34, <2>1, <2>2 DEF HandlesSweep, AskedInv
<1>35. ASSUME JudgesIdle PROVE AskedInv'
  <2>1. \A n \in Slots : judged'[n].step # "no" => judged'[n].key \in Agents
    <3>1. \A n \in Slots : Idle(n) => bound[n] \in Agents
      BY DEF Idle, Typed
    <3> QED BY <1>35, <3>1 DEF JudgesIdle, NotJudged
  <2>q. QED
    BY <1>35, <2>1 DEF JudgesIdle, AskedInv
<1>36. ASSUME SweepEnds PROVE AskedInv'
  BY <1>36 DEF SweepEnds, AskedInv
<1>37. ASSUME NEW n \in Slots, IdleSpares(n) PROVE AskedInv'
  <2>1. \A m \in Slots : judged'[m] = judged[m] \/ judged'[m].step = "no"
    BY <1>37 DEF IdleSpares, NotJudged, Typed
  <2>q. QED
    BY <1>37, <2>1 DEF IdleSpares, AskedInv
<1>38. ASSUME NEW n \in Slots, IdleCloses(n) PROVE AskedInv'
  <2>1. \A m \in Slots : /\ judged'[m].key = judged[m].key
                         /\ judged'[m].step # "no" => judged[m].step # "no"
    BY <1>38 DEF IdleCloses, Typed, JudgedRow
  <2>q. QED
    BY <1>38, <2>1 DEF IdleCloses, AskedInv
<1>39. ASSUME NEW n \in Slots, IdleUnbinds(n) PROVE AskedInv'
  <2>1. \A m \in Slots : judged'[m] = judged[m] \/ judged'[m].step = "no"
    BY <1>39 DEF IdleUnbinds, NotJudged, Typed
  <2>q. QED
    BY <1>39, <2>1 DEF IdleUnbinds, AskedInv
<1>40. CASE UNCHANGED vars
  BY <1>40 DEF vars, registry, slots, browsers, told, sweeper, AskedInv
<1>q. QED
  BY <1>1, <1>2, <1>3, <1>4, <1>5, <1>6, <1>7, <1>8, <1>9, <1>10, <1>11, <1>12, <1>13,
     <1>14, <1>15, <1>16, <1>17, <1>18, <1>19, <1>20, <1>21, <1>22, <1>23, <1>24, <1>25,
     <1>26, <1>27, <1>28, <1>29, <1>30, <1>31, <1>32, <1>33, <1>34, <1>35, <1>36, <1>37,
     <1>38, <1>39, <1>40
     DEF Next, CallMoves, ReleaseMoves, SweepGoesOn

-----------------------------------------------------------------------------
(* What a step never does.                                                 *)

\* A step that unbinds at most takes nothing from a hold.
LEMMA UnbindSpares ==
  ASSUME Typed, NEW n \in Slots, bound' \in {bound, Unbound(n)}
  PROVE  HoldKept
  BY UnboundIs, MainIsASlot DEF HoldKept

\* No step takes a slot from an open that holds it.
LEMMA HoldKeptStep ==
  ASSUME Typed, [Next]_vars
  PROVE  HoldKept
<1>1. ASSUME NEW c \in Calls, NEW k \in Agents, NEW kind \in Kinds, NEW x \in Cases \cup {None}, CallArrives(c, k, kind, x)
      PROVE  HoldKept
  BY <1>1 DEF CallArrives, slots, HoldKept
<1>2. ASSUME NEW p \in Proxies, LookupArrives(p) PROVE HoldKept
  BY <1>2 DEF LookupArrives, slots, HoldKept
<1>3. ASSUME NEW p \in Proxies, GoodbyeArrives(p) PROVE HoldKept
  BY <1>3 DEF GoodbyeArrives, slots, HoldKept
<1>4. ASSUME NEW p \in Proxies, Dies(p) PROVE HoldKept
  BY <1>4 DEF Dies, slots, HoldKept
<1>5. ASSUME NEW c \in Calls, ClaimsCase(c) PROVE HoldKept
  BY <1>5 DEF ClaimsCase, slots, HoldKept
<1>6. ASSUME NEW c \in Calls, LooksForEmpty(c) PROVE HoldKept
  BY <1>6 DEF LooksForEmpty, slots, HoldKept
<1>7. ASSUME NEW c \in Calls, Picks(c) PROVE HoldKept
  <2>1. \/ bound' = bound
        \/ bound' = [bound EXCEPT ![Main] = call[c].by]
        \/ \E n \in Extras : bound[n] = None /\ bound' = [bound EXCEPT ![n] = call[c].by]
    BY <1>7, PicksASlot DEF Picks
  <2>q. QED
    BY <2>1, MainIsASlot DEF HoldKept, Typed
<1>8. ASSUME NEW c \in Calls, Refused(c) PROVE HoldKept
  BY <1>8 DEF Refused, slots, HoldKept
<1>9. ASSUME NEW c \in Calls, Goes(c) PROVE HoldKept
  BY <1>9 DEF Goes, slots, HoldKept
<1>10. ASSUME NEW c \in Calls, TakesLock(c) PROVE HoldKept
  BY <1>10 DEF TakesLock, slots, HoldKept
<1>11. ASSUME NEW c \in Calls, LockTimesOut(c) PROVE HoldKept
  BY <1>11 DEF LockTimesOut, slots, HoldKept
<1>12. ASSUME NEW c \in Calls, HoldsAndMakesWay(c) PROVE HoldKept
  <2>1. /\ call[c].slot \in Slots
        /\ held' = [held EXCEPT ![call[c].slot] = call[c].by]
        /\ \/ bound' = bound
           \/ /\ bound[call[c].slot] # call[c].by
              /\ bound' = [bound EXCEPT ![call[c].slot] = None]
    BY <1>12, CallIsTyped DEF HoldsAndMakesWay
  <2>q. QED
    BY <2>1, MainIsASlot DEF HoldKept, Typed
<1>13. ASSUME NEW c \in Calls, HoldRefuses(c) PROVE HoldKept
  BY <1>13 DEF HoldRefuses, slots, HoldKept
<1>14. ASSUME NEW c \in Calls, Launches(c) PROVE HoldKept
  <2>1. bound' = BoundIfFree(call[c].slot, call[c].by)
    BY <1>14 DEF Launches
  <2>q. QED
    BY <2>1, MainIsASlot DEF BoundIfFree, HoldKept, Typed
<1>15. ASSUME NEW c \in Calls, LaunchFails(c) PROVE HoldKept
  BY <1>15 DEF LaunchFails, HoldKept
<1>16. ASSUME NEW c \in Calls, SignsIn(c) PROVE HoldKept
  <2>1. bound' \in {bound, Unbound(call[c].slot)} /\ call[c].slot \in Slots
    BY <1>16, CallIsTyped DEF SignsIn, Closes
  <2>q. QED
    BY <2>1, UnbindSpares
<1>17. ASSUME NEW c \in Calls, WorkEnds(c) PROVE HoldKept
  <2>1. bound' \in {bound, Unbound(call[c].slot)} /\ call[c].slot \in Slots
    BY <1>17, CallIsTyped DEF WorkEnds, Closes
  <2>q. QED
    BY <2>1, UnbindSpares
<1>18. ASSUME NEW c \in Calls, EndsDiscovery(c) PROVE HoldKept
  <2>1. bound' \in {bound, Unbound(call[c].slot)} /\ call[c].slot \in Slots
    BY <1>18, CallIsTyped DEF EndsDiscovery, Closes
  <2>q. QED
    BY <2>1, UnbindSpares
<1>19. ASSUME NEW c \in Calls, LetsGo(c) PROVE HoldKept
  <2>1. bound' \in {bound, Unbound(call[c].slot)} /\ call[c].slot \in Slots
    BY <1>19, CallIsTyped DEF LetsGo
  <2>q. QED
    BY <2>1, UnbindSpares
<1>20. ASSUME NEW c \in Calls, EndsClaims(c) PROVE HoldKept
  BY <1>20 DEF EndsClaims, slots, HoldKept
<1>21. ASSUME NEW c \in Calls, LooksAtUnused(c) PROVE HoldKept
  BY <1>21 DEF LooksAtUnused, slots, HoldKept
<1>22. ASSUME NEW c \in Calls, FreesUnused(c) PROVE HoldKept
  <2>1. \/ bound' = bound
        \/ held[call[c].slot] = None /\ bound' = [bound EXCEPT ![call[c].slot] = None]
    BY <1>22 DEF FreesUnused
  <2>q. QED
    BY <2>1, MainIsASlot DEF HoldKept, Typed
<1>23. ASSUME NEW c \in Calls, GivesUpClaim(c) PROVE HoldKept
  BY <1>23 DEF GivesUpClaim, slots, HoldKept
<1>24. ASSUME PersonOpens PROVE HoldKept
  <2>1. bound' \in {bound, Unbound(Main)} /\ Main \in Slots
    BY <1>24, MainIsASlot DEF PersonOpens
  <2>q. QED
    BY <2>1, UnbindSpares
<1>25. ASSUME PersonCloses PROVE HoldKept
  <2>1. bound' \in {bound, Unbound(Main)} /\ Main \in Slots
    BY <1>25, MainIsASlot DEF PersonCloses, Closes
  <2>q. QED
    BY <2>1, UnbindSpares
<1>26. ASSUME Tick PROVE HoldKept
  BY <1>26 DEF Tick, slots, HoldKept
<1>27. ASSUME NEW n \in Slots, BrowserGoes(n) PROVE HoldKept
  BY <1>27 DEF BrowserGoes, slots, HoldKept
<1>28. ASSUME NEW n \in Slots, PersonReleases(n) PROVE HoldKept
  BY <1>28 DEF PersonReleases, slots, HoldKept
<1>29. ASSUME NEW r \in Releasers, ReleaseCloses(r) PROVE HoldKept
  <2>1. bound' \in {bound, Unbound(release[r].slot)} /\ release[r].slot \in Slots
    BY <1>29 DEF ReleaseCloses, Closes, Typed, ReleaseRow
  <2>q. QED
    BY <2>1, UnbindSpares
<1>30. ASSUME NEW r \in Releasers, ReleaseTimesOut(r) PROVE HoldKept
  BY <1>30 DEF ReleaseTimesOut, slots, HoldKept
<1>31. ASSUME NEW r \in Releasers, ReleaseUnbinds(r) PROVE HoldKept
  <2>1. bound' \in {bound, Unbound(release[r].slot)} /\ release[r].slot \in Slots
    BY <1>31 DEF ReleaseUnbinds, Typed, ReleaseRow
  <2>q. QED
    BY <2>1, UnbindSpares
<1>32. ASSUME SweepAsks PROVE HoldKept
  BY <1>32 DEF SweepAsks, slots, HoldKept
<1>33. ASSUME SweepJudges PROVE HoldKept
  BY <1>33 DEF SweepJudges, slots, HoldKept
<1>34. ASSUME HandlesSweep PROVE HoldKept
  <2>1. bound' \in {bound, [bound EXCEPT ![Main] = None]}
    BY <1>34 DEF HandlesSweep
  <2>q. QED
    BY <2>1, MainIsASlot DEF HoldKept, Typed
<1>35. ASSUME JudgesIdle PROVE HoldKept
  BY <1>35 DEF JudgesIdle, slots, HoldKept
<1>36. ASSUME SweepEnds PROVE HoldKept
  BY <1>36 DEF SweepEnds, slots, HoldKept
<1>37. ASSUME NEW n \in Slots, IdleSpares(n) PROVE HoldKept
  BY <1>37 DEF IdleSpares, slots, HoldKept
<1>38. ASSUME NEW n \in Slots, IdleCloses(n) PROVE HoldKept
  <2>1. bound' \in {bound, Unbound(n)} /\ n \in Slots
    BY <1>38 DEF IdleCloses, Closes
  <2>q. QED
    BY <2>1, UnbindSpares
<1>39. ASSUME NEW n \in Slots, IdleUnbinds(n) PROVE HoldKept
  <2>1. bound' \in {bound, Unbound(n)} /\ n \in Slots
    BY <1>39 DEF IdleUnbinds
  <2>q. QED
    BY <2>1, UnbindSpares
<1>40. CASE UNCHANGED vars
  BY <1>40 DEF vars, registry, slots, browsers, told, sweeper, HoldKept
<1>q. QED
  BY <1>1, <1>2, <1>3, <1>4, <1>5, <1>6, <1>7, <1>8, <1>9, <1>10, <1>11, <1>12, <1>13,
     <1>14, <1>15, <1>16, <1>17, <1>18, <1>19, <1>20, <1>21, <1>22, <1>23, <1>24, <1>25,
     <1>26, <1>27, <1>28, <1>29, <1>30, <1>31, <1>32, <1>33, <1>34, <1>35, <1>36, <1>37,
     <1>38, <1>39, <1>40
     DEF Next, CallMoves, ReleaseMoves, SweepGoesOn

\* Only the person closes the browser it opened.
LEMMA PersonKeptStep ==
  ASSUME Typed, LaunchInv, [Next]_vars
  PROVE  PersonKept
<1>1. ASSUME NEW c \in Calls, NEW k \in Agents, NEW kind \in Kinds, NEW x \in Cases \cup {None}, CallArrives(c, k, kind, x)
      PROVE  PersonKept
  BY <1>1 DEF CallArrives, browsers, PersonKept, Typed
<1>2. ASSUME NEW p \in Proxies, LookupArrives(p) PROVE PersonKept
  BY <1>2 DEF LookupArrives, browsers, PersonKept, Typed
<1>3. ASSUME NEW p \in Proxies, GoodbyeArrives(p) PROVE PersonKept
  BY <1>3 DEF GoodbyeArrives, browsers, PersonKept, Typed
<1>4. ASSUME NEW p \in Proxies, Dies(p) PROVE PersonKept
  BY <1>4 DEF Dies, browsers, PersonKept, Typed
<1>5. ASSUME NEW c \in Calls, ClaimsCase(c) PROVE PersonKept
  BY <1>5 DEF ClaimsCase, browsers, PersonKept, Typed
<1>6. ASSUME NEW c \in Calls, LooksForEmpty(c) PROVE PersonKept
  BY <1>6 DEF LooksForEmpty, browsers, PersonKept, Typed
<1>7. ASSUME NEW c \in Calls, Picks(c) PROVE PersonKept
  BY <1>7 DEF Picks, browsers, PersonKept, Typed
<1>8. ASSUME NEW c \in Calls, Refused(c) PROVE PersonKept
  BY <1>8 DEF Refused, browsers, PersonKept, Typed
<1>9. ASSUME NEW c \in Calls, Goes(c) PROVE PersonKept
  BY <1>9 DEF Goes, browsers, PersonKept, Typed
<1>10. ASSUME NEW c \in Calls, TakesLock(c) PROVE PersonKept
  BY <1>10 DEF TakesLock, PersonKept, Typed
<1>11. ASSUME NEW c \in Calls, LockTimesOut(c) PROVE PersonKept
  BY <1>11 DEF LockTimesOut, browsers, PersonKept, Typed
<1>12. ASSUME NEW c \in Calls, HoldsAndMakesWay(c) PROVE PersonKept
  BY <1>12 DEF HoldsAndMakesWay, PersonKept, Typed
<1>13. ASSUME NEW c \in Calls, HoldRefuses(c) PROVE PersonKept
  BY <1>13 DEF HoldRefuses, PersonKept, Typed
<1>14. ASSUME NEW c \in Calls, Launches(c) PROVE PersonKept
  <2>1. call[c].kind = "start" => session[call[c].slot] \in MadeWay
    BY <1>14 DEF Launches, LaunchInv, At
  <2>q. QED
    BY <1>14, <2>1 DEF Launches, MadeWay, PersonKept, Typed
<1>15. ASSUME NEW c \in Calls, LaunchFails(c) PROVE PersonKept
  BY <1>15 DEF LaunchFails, PersonKept, Typed
<1>16. ASSUME NEW c \in Calls, SignsIn(c) PROVE PersonKept
  BY <1>16 DEF SignsIn, Closes, PersonKept, Typed
<1>17. ASSUME NEW c \in Calls, WorkEnds(c) PROVE PersonKept
  BY <1>17 DEF WorkEnds, Closes, PersonKept, Typed
<1>18. ASSUME NEW c \in Calls, EndsDiscovery(c) PROVE PersonKept
  BY <1>18 DEF EndsDiscovery, Closes, PersonKept, Typed
<1>19. ASSUME NEW c \in Calls, LetsGo(c) PROVE PersonKept
  BY <1>19 DEF LetsGo, PersonKept, Typed
<1>20. ASSUME NEW c \in Calls, EndsClaims(c) PROVE PersonKept
  BY <1>20 DEF EndsClaims, browsers, PersonKept, Typed
<1>21. ASSUME NEW c \in Calls, LooksAtUnused(c) PROVE PersonKept
  BY <1>21 DEF LooksAtUnused, browsers, PersonKept, Typed
<1>22. ASSUME NEW c \in Calls, FreesUnused(c) PROVE PersonKept
  BY <1>22 DEF FreesUnused, browsers, PersonKept, Typed
<1>23. ASSUME NEW c \in Calls, GivesUpClaim(c) PROVE PersonKept
  BY <1>23 DEF GivesUpClaim, browsers, PersonKept, Typed
<1>24. ASSUME PersonOpens PROVE PersonKept
  BY <1>24 DEF PersonOpens, PersonKept, Typed
<1>25. ASSUME PersonCloses PROVE PersonKept
  BY <1>25 DEF PersonKept
<1>26. ASSUME Tick PROVE PersonKept
  BY <1>26 DEF Tick, browsers, PersonKept, Typed
<1>27. ASSUME NEW n \in Slots, BrowserGoes(n) PROVE PersonKept
  BY <1>27 DEF BrowserGoes, PersonKept, Typed
<1>28. ASSUME NEW n \in Slots, PersonReleases(n) PROVE PersonKept
  BY <1>28 DEF PersonReleases, browsers, PersonKept, Typed
<1>29. ASSUME NEW r \in Releasers, ReleaseCloses(r) PROVE PersonKept
  BY <1>29 DEF ReleaseCloses, Closes, PersonKept, Typed
<1>30. ASSUME NEW r \in Releasers, ReleaseTimesOut(r) PROVE PersonKept
  BY <1>30 DEF ReleaseTimesOut, browsers, PersonKept, Typed
<1>31. ASSUME NEW r \in Releasers, ReleaseUnbinds(r) PROVE PersonKept
  BY <1>31 DEF ReleaseUnbinds, browsers, PersonKept, Typed
<1>32. ASSUME SweepAsks PROVE PersonKept
  BY <1>32 DEF SweepAsks, browsers, PersonKept, Typed
<1>33. ASSUME SweepJudges PROVE PersonKept
  BY <1>33 DEF SweepJudges, browsers, PersonKept, Typed
<1>34. ASSUME HandlesSweep PROVE PersonKept
  BY <1>34 DEF HandlesSweep, browsers, PersonKept, Typed
<1>35. ASSUME JudgesIdle PROVE PersonKept
  BY <1>35 DEF JudgesIdle, browsers, PersonKept, Typed
<1>36. ASSUME SweepEnds PROVE PersonKept
  BY <1>36 DEF SweepEnds, browsers, PersonKept, Typed
<1>37. ASSUME NEW n \in Slots, IdleSpares(n) PROVE PersonKept
  BY <1>37 DEF IdleSpares, browsers, PersonKept, Typed
<1>38. ASSUME NEW n \in Slots, IdleCloses(n) PROVE PersonKept
  BY <1>38 DEF IdleCloses, Closes, PersonKept, Typed
<1>39. ASSUME NEW n \in Slots, IdleUnbinds(n) PROVE PersonKept
  BY <1>39 DEF IdleUnbinds, browsers, PersonKept, Typed
<1>40. CASE UNCHANGED vars
  BY <1>40 DEF vars, registry, slots, browsers, told, sweeper, PersonKept
<1>q. QED
  BY <1>1, <1>2, <1>3, <1>4, <1>5, <1>6, <1>7, <1>8, <1>9, <1>10, <1>11, <1>12, <1>13,
     <1>14, <1>15, <1>16, <1>17, <1>18, <1>19, <1>20, <1>21, <1>22, <1>23, <1>24, <1>25,
     <1>26, <1>27, <1>28, <1>29, <1>30, <1>31, <1>32, <1>33, <1>34, <1>35, <1>36, <1>37,
     <1>38, <1>39, <1>40
     DEF Next, CallMoves, ReleaseMoves, SweepGoesOn

\* Nobody takes over a case that is let go of.
LEMMA WorkerStays ==
  ASSUME \A x \in Cases : \/ claims'[x] \in {claims[x], NoClaim}
                          \/ claims'[x].holder = claims[x].holder
  PROVE  WorkerKept
<1>1. NoClaim.holder = None
  BY DEF NoClaim
<1> QED BY <1>1 DEF WorkerKept, TakenOver

\* Only a claim takes over a case, from somebody gone, idle or past its time.
LEMMA WorkerKeptStep ==
  ASSUME Typed, [Next]_vars
  PROVE  WorkerKept
<1>1. ASSUME NEW c \in Calls, NEW k \in Agents, NEW kind \in Kinds, NEW x \in Cases \cup {None}, CallArrives(c, k, kind, x)
      PROVE  WorkerKept
  BY <1>1 DEF CallArrives, WorkerKept, TakenOver
<1>2. ASSUME NEW p \in Proxies, LookupArrives(p) PROVE WorkerKept
  BY <1>2 DEF LookupArrives, WorkerKept, TakenOver
<1>3. ASSUME NEW p \in Proxies, GoodbyeArrives(p) PROVE WorkerKept
  BY <1>3 DEF GoodbyeArrives, WorkerKept, TakenOver
<1>4. ASSUME NEW p \in Proxies, Dies(p) PROVE WorkerKept
  BY <1>4 DEF Dies, WorkerKept, TakenOver
<1>5. ASSUME NEW c \in Calls, ClaimsCase(c) PROVE WorkerKept
  <2> DEFINE x == call[c].case
             k == call[c].by
             holder == Retained[x].holder
  <2>1. \/ claims' = Retained
        \/ /\ claims' = [Retained EXCEPT ![x] = [holder |-> k, age |-> 0]]
           /\ holder \in {None, k} \/ ~Live(holder)
    BY <1>5 DEF ClaimsCase
  <2>2. ASSUME NEW y \in Cases, TakenOver(y)
        PROVE  \/ ~Live(claims[y].holder) \/ ~AgentBusy(claims[y].holder)
               \/ claims[y].age >= ClaimTimeout
    <3>1. Retained \in [Cases -> ClaimRow] /\ NoClaim.holder = None
      BY RetainedIs DEF NoClaim
    <3>2. CASE Retained[y] = NoClaim /\ Expired(y)
      BY <3>2 DEF Expired
    <3>3. CASE Retained[y] = claims[y]
      <4>1. y = x /\ claims'[y].holder = k /\ (holder \in {None, k} \/ ~Live(holder))
        BY <2>1, <2>2, <3>1, <3>3 DEF TakenOver
      <4> QED BY <2>2, <3>3, <4>1 DEF TakenOver
    <3> QED BY <3>2, <3>3, RetainedIs
  <2>q. QED
    BY <2>2 DEF WorkerKept
<1>6. ASSUME NEW c \in Calls, LooksForEmpty(c) PROVE WorkerKept
  BY <1>6 DEF LooksForEmpty, WorkerKept, TakenOver
<1>7. ASSUME NEW c \in Calls, Picks(c) PROVE WorkerKept
  BY <1>7 DEF Picks, WorkerKept, TakenOver
<1>8. ASSUME NEW c \in Calls, Refused(c) PROVE WorkerKept
  BY <1>8 DEF Refused, WorkerKept, TakenOver
<1>9. ASSUME NEW c \in Calls, Goes(c) PROVE WorkerKept
  BY <1>9 DEF Goes, WorkerKept, TakenOver
<1>10. ASSUME NEW c \in Calls, TakesLock(c) PROVE WorkerKept
  BY <1>10 DEF TakesLock, WorkerKept, TakenOver
<1>11. ASSUME NEW c \in Calls, LockTimesOut(c) PROVE WorkerKept
  BY <1>11 DEF LockTimesOut, WorkerKept, TakenOver
<1>12. ASSUME NEW c \in Calls, HoldsAndMakesWay(c) PROVE WorkerKept
  BY <1>12 DEF HoldsAndMakesWay, WorkerKept, TakenOver
<1>13. ASSUME NEW c \in Calls, HoldRefuses(c) PROVE WorkerKept
  BY <1>13 DEF HoldRefuses, WorkerKept, TakenOver
<1>14. ASSUME NEW c \in Calls, Launches(c) PROVE WorkerKept
  BY <1>14 DEF Launches, WorkerKept, TakenOver
<1>15. ASSUME NEW c \in Calls, LaunchFails(c) PROVE WorkerKept
  BY <1>15 DEF LaunchFails, WorkerKept, TakenOver
<1>16. ASSUME NEW c \in Calls, SignsIn(c) PROVE WorkerKept
  BY <1>16 DEF SignsIn, WorkerKept, TakenOver
<1>17. ASSUME NEW c \in Calls, WorkEnds(c) PROVE WorkerKept
  BY <1>17 DEF WorkEnds, WorkerKept, TakenOver
<1>18. ASSUME NEW c \in Calls, EndsDiscovery(c) PROVE WorkerKept
  BY <1>18 DEF EndsDiscovery, WorkerKept, TakenOver
<1>19. ASSUME NEW c \in Calls, LetsGo(c) PROVE WorkerKept
  BY <1>19 DEF LetsGo, WorkerKept, TakenOver
<1>20. ASSUME NEW c \in Calls, EndsClaims(c) PROVE WorkerKept
  <2>1. \A x \in Cases : claims'[x] \in {claims[x], NoClaim}
    BY <1>20, EndedForIs DEF EndsClaims, Ended, Typed
  <2>q. QED
    BY <2>1, WorkerStays
<1>21. ASSUME NEW c \in Calls, LooksAtUnused(c) PROVE WorkerKept
  BY <1>21 DEF LooksAtUnused, WorkerKept, TakenOver
<1>22. ASSUME NEW c \in Calls, FreesUnused(c) PROVE WorkerKept
  BY <1>22 DEF FreesUnused, WorkerKept, TakenOver
<1>23. ASSUME NEW c \in Calls, GivesUpClaim(c) PROVE WorkerKept
  <2>1. \A x \in Cases : claims'[x] \in {claims[x], NoClaim}
    BY <1>23, EndedForIs DEF GivesUpClaim, Ended, Typed
  <2>q. QED
    BY <2>1, WorkerStays
<1>24. ASSUME PersonOpens PROVE WorkerKept
  BY <1>24 DEF PersonOpens, WorkerKept, TakenOver
<1>25. ASSUME PersonCloses PROVE WorkerKept
  BY <1>25 DEF PersonCloses, WorkerKept, TakenOver
<1>26. ASSUME Tick PROVE WorkerKept
  <2>1. \A x \in Cases : claims'[x].holder = claims[x].holder
    BY <1>26 DEF Tick, AgedClaims, Typed, ClaimRow
  <2>q. QED
    BY <2>1, WorkerStays
<1>27. ASSUME NEW n \in Slots, BrowserGoes(n) PROVE WorkerKept
  BY <1>27 DEF BrowserGoes, WorkerKept, TakenOver
<1>28. ASSUME NEW n \in Slots, PersonReleases(n) PROVE WorkerKept
  BY <1>28 DEF PersonReleases, WorkerKept, TakenOver
<1>29. ASSUME NEW r \in Releasers, ReleaseCloses(r) PROVE WorkerKept
  BY <1>29 DEF ReleaseCloses, WorkerKept, TakenOver
<1>30. ASSUME NEW r \in Releasers, ReleaseTimesOut(r) PROVE WorkerKept
  BY <1>30 DEF ReleaseTimesOut, WorkerKept, TakenOver
<1>31. ASSUME NEW r \in Releasers, ReleaseUnbinds(r) PROVE WorkerKept
  <2>1. \A x \in Cases : claims'[x] \in {claims[x], NoClaim}
    BY <1>31, EndedForIs, EndedAtIs DEF ReleaseUnbinds, Typed
  <2>q. QED
    BY <2>1, WorkerStays
<1>32. ASSUME SweepAsks PROVE WorkerKept
  BY <1>32 DEF SweepAsks, WorkerKept, TakenOver
<1>33. ASSUME SweepJudges PROVE WorkerKept
  BY <1>33 DEF SweepJudges, WorkerKept, TakenOver
<1>34. ASSUME HandlesSweep PROVE WorkerKept
  <2>1. \A x \in Cases : claims'[x] \in {claims[x], NoClaim}
    BY <1>34, EndedForIs DEF HandlesSweep, Ended, Typed
  <2>q. QED
    BY <2>1, WorkerStays
<1>35. ASSUME JudgesIdle PROVE WorkerKept
  BY <1>35 DEF JudgesIdle, WorkerKept, TakenOver
<1>36. ASSUME SweepEnds PROVE WorkerKept
  BY <1>36 DEF SweepEnds, WorkerKept, TakenOver
<1>37. ASSUME NEW n \in Slots, IdleSpares(n) PROVE WorkerKept
  BY <1>37 DEF IdleSpares, WorkerKept, TakenOver
<1>38. ASSUME NEW n \in Slots, IdleCloses(n) PROVE WorkerKept
  BY <1>38 DEF IdleCloses, WorkerKept, TakenOver
<1>39. ASSUME NEW n \in Slots, IdleUnbinds(n) PROVE WorkerKept
  <2>1. \A x \in Cases : claims'[x] \in {claims[x], NoClaim}
    BY <1>39, EndedAtIs DEF IdleUnbinds, Typed
  <2>q. QED
    BY <2>1, WorkerStays
<1>40. CASE UNCHANGED vars
  BY <1>40 DEF vars, registry, slots, browsers, told, sweeper, WorkerKept, TakenOver
<1>q. QED
  BY <1>1, <1>2, <1>3, <1>4, <1>5, <1>6, <1>7, <1>8, <1>9, <1>10, <1>11, <1>12, <1>13,
     <1>14, <1>15, <1>16, <1>17, <1>18, <1>19, <1>20, <1>21, <1>22, <1>23, <1>24, <1>25,
     <1>26, <1>27, <1>28, <1>29, <1>30, <1>31, <1>32, <1>33, <1>34, <1>35, <1>36, <1>37,
     <1>38, <1>39, <1>40
     DEF Next, CallMoves, ReleaseMoves, SweepGoesOn

-----------------------------------------------------------------------------
(* The theorems.                                                           *)

LEMMA IInvInit == Init => IInv
<1> SUFFICES ASSUME Init PROVE IInv
  OBVIOUS
<1>1. /\ running = Proxies /\ notices = {} /\ retries = {} /\ sweep = Asleep
      /\ claims = [x \in Cases |-> NoClaim] /\ reg = [k \in Agents |-> Unknown]
      /\ bound = [n \in Slots |-> None] /\ held = [n \in Slots |-> None]
      /\ lock = [n \in Slots |-> None] /\ session = [n \in Slots |-> "none"]
      /\ call = [c \in Calls |-> NoCall] /\ release = [r \in Releasers |-> NoRelease]
      /\ judged = [n \in Slots |-> NotJudged]
  BY DEF Init, Unused
<1>2. Typed
  BY <1>1, UnknownTyped, NoClaimTyped, NoCallTyped, NoReleaseTyped, AsleepTyped, NotJudgedTyped
  DEF Typed, Browsers
<1>3. AskedInv
  BY <1>1 DEF AskedInv, NoRelease, NotJudged, Releasers
<1>4. BoundOnce
  BY <1>1 DEF BoundOnce
<1>5. LockInv /\ LaunchInv
  BY <1>1 DEF LockInv, LaunchInv, At, NoCall, Working
<1> QED BY <1>2, <1>3, <1>4, <1>5 DEF IInv

LEMMA IInvAlways == Spec => []IInv
<1>1. IInv /\ [Next]_vars => IInv'
  BY TypedStep, AskedStep, BoundStep, WorkStep DEF IInv
<1> QED BY IInvInit, <1>1, PTL DEF Spec

\* Every variable keeps its type: what a release that found the slot busy is
\* asked again for, and who is told it was released, are assistants.
THEOREM TypeCorrect == Spec => []TypeOK
<1>1. IInv => TypeOK
  BY TypedIs DEF IInv
<1> QED BY IInvAlways, <1>1, PTL

\* An assistant is bound to at most one slot.
THEOREM BoundOnceHolds == Spec => []BoundOnce
<1>1. IInv => BoundOnce
  BY DEF IInv
<1> QED BY IInvAlways, <1>1, PTL

\* While an assistant's open replaces the browser of its extra slot, nothing
\* takes the slot from it.
THEOREM HoldKeepsSlotHolds == Spec => HoldKeepsSlot
<1>1. IInv /\ [Next]_vars =>
        [\A n \in Extras : held[n] # None /\ held'[n] = held[n] /\ bound[n] = held[n]
                           => bound'[n] = bound[n]]_vars
  BY HoldKeptStep DEF IInv, HoldKept
<1> QED BY IInvAlways, <1>1, PTL DEF Spec, HoldKeepsSlot

\* A browser the person opened is closed by the person, or has gone.
THEOREM PersonsStaysHolds == Spec => PersonsStays
<1>1. IInv /\ [Next]_vars =>
        [\A n \in Slots : session[n] = "person" /\ session'[n] # "person"
                          => session'[n] = "gone" \/ PersonCloses]_vars
  BY PersonKeptStep DEF IInv, PersonKept
<1> QED BY IInvAlways, <1>1, PTL DEF Spec, PersonsStays

\* Nobody takes over the case of a live assistant while its browser works,
\* until the longest a claim lasts.
THEOREM WorkerKeepsCaseHolds == Spec => WorkerKeepsCase
<1>1. IInv /\ [Next]_vars =>
        [\A x \in Cases :
           LET k == claims[x].holder
           IN k # None /\ claims'[x].holder \notin {None, k}
              => ~Live(k) \/ ~AgentBusy(k) \/ claims[x].age >= ClaimTimeout]_vars
  BY WorkerKeptStep DEF IInv, WorkerKept, TakenOver
<1> QED BY IInvAlways, <1>1, PTL DEF Spec, WorkerKeepsCase

===============================================================================
