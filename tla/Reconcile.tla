----------------------------- MODULE Reconcile -----------------------------
(***************************************************************************)
(* `reconcile_pairs` (src-tauri/src/commands/queue.rs): which of the cases *)
(* a lookup found were made by which of the creates whose upload failed.   *)
(*                                                                         *)
(* A title stands for all its spellings with outer whitespace.  `creates`  *)
(* maps a position (of the queue, or of a hold) to the title asked for     *)
(* there; `found` is a set of [id, title], one title per id.               *)
(***************************************************************************)
EXTENDS Naturals, FiniteSets

\* How many elements of S come before x.
RankIn(S, x) == Cardinality({y \in S : y < x})

\* The ids found with a title.
Pool(found, t) == {f.id : f \in {g \in found : g.title = t}}

\* The creates that asked for a title.
Claimants(creates, t) == {i \in DOMAIN creates : creates[i] = t}

\* The titles with more cases in Azure DevOps than creates that want one:
\* someone else's case may be among them, so none of them is claimed.
Ambiguous(creates, found) ==
  {t \in {f.title : f \in found} :
     Cardinality(Pool(found, t)) > Cardinality(Claimants(creates, t))}

\* What the loop of reconcile_pairs comes to: the n-th create of a title
\* gets the n-th lowest id found with it.
Pairs(creates, found) ==
  {p \in (DOMAIN creates) \X {f.id : f \in found} :
     LET t == creates[p[1]]
     IN  /\ t \notin Ambiguous(creates, found)
         /\ p[2] \in Pool(found, t)
         /\ RankIn(Pool(found, t), p[2]) = RankIn(Claimants(creates, t), p[1])}
=============================================================================
