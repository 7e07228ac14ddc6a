----------------------------- MODULE MCAssistants -----------------------------
(* Assistants, with the calls and the disturbances of a behaviour counted. *)
EXTENDS Assistants, TLC

CONSTANTS MaxCalls,         \* calls that come in, in all
          MaxDisturbances   \* of the person, the processes, the clock, the sweeper

VARIABLES calls, disturbances

OneProxyEach == [k \in Agents |-> k]
Symmetry == Permutations(Calls)

Arrives ==
  /\ calls < MaxCalls
  /\ calls' = calls + 1
  /\ UNCHANGED disturbances
  /\ \E c \in Calls, k \in Agents, kind \in Kinds, x \in Cases \cup {None} :
       CallArrives(c, k, kind, x)

Disturbs ==
  /\ disturbances < MaxDisturbances
  /\ disturbances' = disturbances + 1
  /\ UNCHANGED calls
  /\ \/ \E p \in Proxies : LookupArrives(p) \/ GoodbyeArrives(p) \/ Dies(p)
     \/ PersonOpens \/ PersonCloses \/ Tick \/ SweepAsks
     \/ \E n \in Slots : BrowserGoes(n) \/ PersonReleases(n)

Moves ==
  /\ UNCHANGED <<calls, disturbances>>
  /\ \/ \E c \in Calls : CallMoves(c)
     \/ \E r \in Releasers : ReleaseMoves(r)
     \/ SweepGoesOn

\* Every assistant has called, a while ago, and main holds the browser of a
\* replay that a subagent ran: where a few more steps reach most.
InUse ==
  /\ Unused
  /\ reg = [k \in Agents |-> [Unknown EXCEPT !.state = "live", !.last = QuietAfter]]
  /\ \E k \in Named : bound = [n \in Slots |-> IF n = Main THEN k ELSE None]
  /\ session = [n \in Slots |-> IF n = Main THEN "kept" ELSE "none"]

MCInit == InUse /\ calls = 0 /\ disturbances = 0
MCSpec == MCInit /\ [][Arrives \/ Disturbs \/ Moves]_<<vars, calls, disturbances>>
=============================================================================
