--------------------------- MODULE ReconcileLoop ---------------------------
(***************************************************************************)
(* The loop of `reconcile_pairs` as it is written, run over every small    *)
(* input, against Reconcile!Pairs, which the other modules use.            *)
(***************************************************************************)
EXTENDS Reconcile, Sequences, SequencesExt

CONSTANTS Titles, Ids, MaxCreates

VARIABLES asked,     \* the creates, in queue order
          answer,    \* what the lookup found
          left,      \* the creates the loop has still to go through
          pools,     \* per title: the sorted ids found with it
          cursor,    \* per title: how many of them are taken
          out        \* the pairs pushed so far

vars == <<asked, answer, left, pools, cursor, out>>

Found == UNION {[S -> Titles] : S \in SUBSET Ids}
AsSet(f) == {[id |-> i, title |-> f[i]] : i \in DOMAIN f}

\* ids.sort()
Sorted(S) ==
  CHOOSE s \in [1..Cardinality(S) -> S] :
    \A i, j \in 1..Cardinality(S) : i < j => s[i] < s[j]

Init ==
  /\ asked \in BoundedSeq(Titles, MaxCreates)
  /\ answer \in {AsSet(f) : f \in Found}
  /\ left = Len(asked)
  /\ pools = [t \in Titles |-> Sorted(Pool(answer, t))]
  /\ cursor = [t \in Titles |-> 0]
  /\ out = <<>>

\* The create the loop looks at.
At == Len(asked) - left + 1

\* ids.len() > *counts.get(title).unwrap_or(&0)
Crowded(t) == Len(pools[t]) > Cardinality({i \in DOMAIN asked : asked[i] = t})

\* Mutant of Take: the cursor is shared by all titles.
TakeOneCursor ==
  LET t == asked[At]
  IN  /\ left > 0
      /\ ~Crowded(t)
      /\ cursor[t] < Len(pools[t])
      /\ out' = Append(out, <<At, pools[t][cursor[t] + 1]>>)
      /\ cursor' = [u \in Titles |-> cursor[u] + 1]
      /\ left' = left - 1
      /\ UNCHANGED <<asked, answer, pools>>

\* The next create takes the next id of its title's pool.
Take ==
  LET t == asked[At]
  IN  /\ left > 0
      /\ ~Crowded(t)
      /\ cursor[t] < Len(pools[t])
      /\ out' = Append(out, <<At, pools[t][cursor[t] + 1]>>)
      /\ cursor' = [cursor EXCEPT ![t] = @ + 1]
      /\ left' = left - 1
      /\ UNCHANGED <<asked, answer, pools>>

\* Its title is ambiguous, or nothing is left in the pool.
Skip ==
  LET t == asked[At]
  IN  /\ left > 0
      /\ Crowded(t) \/ cursor[t] >= Len(pools[t])
      /\ left' = left - 1
      /\ UNCHANGED <<asked, answer, pools, cursor, out>>

Next == Take \/ Skip
Spec == Init /\ [][Next]_vars

-----------------------------------------------------------------------------
\* When the loop of reconcile_pairs ends it has pushed exactly the pairs the
\* other modules take it to push.
LoopComputesPairs == left = 0 => ToSet(out) = Pairs(asked, answer)
=============================================================================
