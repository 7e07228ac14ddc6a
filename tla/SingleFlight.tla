---------------------------- MODULE SingleFlight ----------------------------
(***************************************************************************)
(* `Flights::run` (src-tauri/src/ado/single_flight.rs): the first asker    *)
(* for a key starts the work, every later asker for that key waits for the *)
(* running work's one result.                                              *)
(*                                                                         *)
(* An element of Asks is one call of `run`.  A call starts at most one     *)
(* piece of work, so the work a call starts is named by the call.  The     *)
(* mutex around the list is explicit: the task a call spawns runs on       *)
(* another thread and may end before the call has pushed its entry.        *)
(* Progress reports are left out; no property is about them.               *)
(***************************************************************************)
EXTENDS FiniteSets

CONSTANTS Asks,      \* the calls of run()
          Keys,      \* the keys work is filed under
          NoKey,     \* also_join = None
          None       \* no ask: a free lock, no joined work

ASSUME KeysAssumption == NoKey \notin Keys
ASSUME AsksAssumption == None \notin Asks

VARIABLES pc,        \* pc[a]: where the call is
          key,       \* key[a]: the key a call asks for
          also,      \* also[a]: its second key, or NoKey
          joined,    \* joined[a]: the call whose work a waits for
          open,      \* the entries of Flights.open: [key, by]
          lock,      \* who holds the mutex
          task,      \* task[a]: the work call a started
          outcome,   \* outcome[a]: what that work came to
          answer,    \* answer[a]: what the call returned
          before     \* history: the works already over when a was made

vars == <<pc, key, also, joined, open, lock, task, outcome, answer, before>>

Flight == [key : Keys, by : Asks]
Outcomes == {"ok", "err"}

TypeOK ==
  /\ pc \in [Asks -> {"new", "asking", "locked", "pushing", "waiting", "told", "left"}]
  /\ key \in [Asks -> Keys \cup {NoKey}]
  /\ also \in [Asks -> Keys \cup {NoKey}]
  /\ joined \in [Asks -> Asks \cup {None}]
  /\ open \subseteq Flight
  /\ lock \in Asks \cup {None}
  /\ task \in [Asks -> {"none", "running", "finishing", "over"}]
  /\ outcome \in [Asks -> Outcomes \cup {None}]
  /\ answer \in [Asks -> Outcomes \cup {None}]
  /\ before \in [Asks -> SUBSET Asks]

Init ==
  /\ pc = [a \in Asks |-> "new"]
  /\ key = [a \in Asks |-> NoKey]
  /\ also = [a \in Asks |-> NoKey]
  /\ joined = [a \in Asks |-> None]
  /\ open = {}
  /\ lock = None
  /\ task = [a \in Asks |-> "none"]
  /\ outcome = [a \in Asks |-> None]
  /\ answer = [a \in Asks |-> None]
  /\ before = [a \in Asks |-> {}]

-----------------------------------------------------------------------------
\* Mutant of Running: a call with a second key never looks under its own.
RunningSecondKeyOnly(a) ==
  {f \in open : f.key = (IF also[a] # NoKey THEN also[a] ELSE key[a])}

\* The entries a call may join: those under its second key when there are
\* any (it is looked at first), else those under its own.
Running(a) ==
  LET under(k) == {f \in open : f.key = k}
  IN  IF under(also[a]) # {} THEN under(also[a]) ELSE under(key[a])

\* run(key, also_join, ..) is called.
Ask(a, k, k2) ==
  /\ pc[a] = "new"
  /\ k2 # k
  /\ pc' = [pc EXCEPT ![a] = "asking"]
  /\ key' = [key EXCEPT ![a] = k]
  /\ also' = [also EXCEPT ![a] = k2]
  /\ before' = [before EXCEPT ![a] = {b \in Asks : task[b] = "over"}]
  /\ UNCHANGED <<joined, open, lock, task, outcome, answer>>

\* self.lock()
Enter(a) ==
  /\ pc[a] = "asking"
  /\ lock = None
  /\ lock' = a
  /\ pc' = [pc EXCEPT ![a] = "locked"]
  /\ UNCHANGED <<key, also, joined, open, task, outcome, answer, before>>

\* An entry is there: its result is cloned and the lock dropped.
Join(a) ==
  /\ pc[a] = "locked"
  /\ \E f \in Running(a) : joined' = [joined EXCEPT ![a] = f.by]
  /\ lock' = None
  /\ pc' = [pc EXCEPT ![a] = "waiting"]
  /\ UNCHANGED <<key, also, open, task, outcome, answer, before>>

\* None is: the work is spawned on a task of its own, the lock still held.
Spawn(a) ==
  /\ pc[a] = "locked"
  /\ Running(a) = {}
  /\ task' = [task EXCEPT ![a] = "running"]
  /\ pc' = [pc EXCEPT ![a] = "pushing"]
  /\ UNCHANGED <<key, also, joined, open, lock, outcome, answer, before>>

\* Its entry is pushed and the lock dropped.
Push(a) ==
  /\ pc[a] = "pushing"
  /\ open' = open \cup {[key |-> key[a], by |-> a]}
  /\ joined' = [joined EXCEPT ![a] = a]
  /\ lock' = None
  /\ pc' = [pc EXCEPT ![a] = "waiting"]
  /\ UNCHANGED <<key, also, task, outcome, answer, before>>

\* The work returns, or unwinds from a panic; a panic is an error to all.
WorkEnds(a, out) ==
  /\ task[a] = "running"
  /\ task' = [task EXCEPT ![a] = "finishing"]
  /\ outcome' = [outcome EXCEPT ![a] = out]
  /\ UNCHANGED <<pc, key, also, joined, open, lock, answer, before>>

\* Mutant of Finish: the entry is taken out without the mutex.
FinishWithoutLock(a) ==
  /\ task[a] = "finishing"
  /\ open' = {f \in open : f.key # key[a]}
  /\ task' = [task EXCEPT ![a] = "over"]
  /\ UNCHANGED <<pc, key, also, joined, lock, outcome, answer, before>>

\* Finish::drop: the first entry with the work's KEY goes, whoever's it is.
\* Only then is the task over and its result there to read.
Finish(a) ==
  /\ task[a] = "finishing"
  /\ lock = None
  /\ \/ \E f \in open : f.key = key[a] /\ open' = open \ {f}
     \/ (\A f \in open : f.key # key[a]) /\ open' = open
  /\ task' = [task EXCEPT ![a] = "over"]
  /\ UNCHANGED <<pc, key, also, joined, lock, outcome, answer, before>>

\* The shared result resolves for one waiter.
Answer(a) ==
  /\ pc[a] = "waiting"
  /\ task[joined[a]] = "over"
  /\ answer' = [answer EXCEPT ![a] = outcome[joined[a]]]
  /\ pc' = [pc EXCEPT ![a] = "told"]
  /\ UNCHANGED <<key, also, joined, open, lock, task, outcome, before>>

\* Mutant of Leave: the work runs inside the first asker and dies with it.
LeaveTakesWorkAlong(a) ==
  /\ pc[a] = "waiting"
  /\ pc' = [pc EXCEPT ![a] = "left"]
  /\ task' = [task EXCEPT ![a] = IF @ = "running" THEN "none" ELSE @]
  /\ UNCHANGED <<key, also, joined, open, lock, outcome, answer, before>>

\* A waiter is dropped (a timeout, a closed connection).  The work goes on.
Leave(a) ==
  /\ pc[a] = "waiting"
  /\ pc' = [pc EXCEPT ![a] = "left"]
  /\ UNCHANGED <<key, also, joined, open, lock, task, outcome, answer, before>>

Next ==
  \E a \in Asks :
    \/ \E k \in Keys, k2 \in Keys \cup {NoKey} : Ask(a, k, k2)
    \/ Enter(a)
    \/ Join(a)
    \/ Spawn(a)
    \/ Push(a)
    \/ \E out \in Outcomes : WorkEnds(a, out)
    \/ Finish(a)
    \/ Answer(a)
    \/ Leave(a)

\* Threads run, a mutex is handed on to each of its waiters (finitely many
\* calls contend), and the lookup itself ends: every request it makes has a
\* timeout.  No caller has to leave, and none has to ask.
Fairness ==
  \A a \in Asks :
    /\ SF_vars(Enter(a))
    /\ WF_vars(Join(a) \/ Spawn(a) \/ Push(a))
    /\ WF_vars(\E out \in Outcomes : WorkEnds(a, out))
    /\ SF_vars(Finish(a))
    /\ WF_vars(Answer(a))

Spec == Init /\ [][Next]_vars
FairSpec == Spec /\ Fairness

-----------------------------------------------------------------------------
Busy(a) == task[a] \in {"running", "finishing"}

\* "One walk for however many screens ask at once": two pieces of work under
\* one key never run together.
OneWorkPerKey ==
  \A a, b \in Asks : a # b /\ Busy(a) /\ Busy(b) => key[a] # key[b]

\* "An error is never served to a later asker": what a call waits for, or was
\* told, is no work that was already over when the call was made.
NeverAnsweredFromThePast ==
  \A a \in Asks : joined[a] # None => joined[a] \notin before[a]

\* Nothing outlives its work: an entry names a work that is not over, and a
\* work that is not over (nor still being pushed) has its entry.
EntriesMatchWorks ==
  /\ \A f \in open : Busy(f.by) /\ f.key = key[f.by]
  /\ \A a \in Asks : Busy(a) /\ pc[a] # "pushing" => [key |-> key[a], by |-> a] \in open

\* An asker that stays is answered, even when the asker that started the
\* work has gone and when the work panicked.
EveryAskEnds == \A a \in Asks : pc[a] = "asking" ~> pc[a] \in {"told", "left"}
=============================================================================
