------------------------------- MODULE Holds -------------------------------
(***************************************************************************)
(* What an upload does to the queue (lib/queueUploaded.ts) and what it     *)
(* leaves held (lib/uploadHold.ts): the pure functions over a queue and a  *)
(* hold.                                                                   *)
(*                                                                         *)
(* A row of the queue is named by its place on screen, so rows are         *)
(* numbers and the queue maps each to [at, title, uid]: not there yet, in  *)
(* the queue or removed, its title, and its work item id (0: none, the row *)
(* is a create).  The content a hold remembers a row by (holdSignature) is *)
(* the row and its title: the other fields are taken to be the row's own.  *)
(***************************************************************************)
EXTENDS Reconcile

CONSTANTS Rows,      \* the rows the queue may come to hold
          Titles     \* titles, as case folding and trimming leave them

ASSUME RowsAssumption == Rows \subseteq Nat \ {0} /\ IsFiniteSet(Rows)

Entry == [row : Rows, title : Titles]
Row == [at : {"out", "in", "gone"}, title : Titles, uid : Nat]
Hold == [cut : Nat, entries : SUBSET Entry, ambiguous : SUBSET Titles, ids : SUBSET Nat]

\* loadHold() = null
NoHold == [cut |-> 0, entries |-> {}, ambiguous |-> {}, ids |-> {}]

Live(q) == {r \in Rows : q[r].at = "in"}
Creates(q) == {r \in Live(q) : q[r].uid = 0}
Titled(q, R, t) == {r \in R : q[r].title = t}
EntriesOf(E, t) == {e \in E : e.title = t}

-----------------------------------------------------------------------------
\* holdFromResults, saved by saveHold: a hold with no titles is no hold.
HoldOf(cut, entries, ids) ==
  IF entries = {} THEN NoHold
  ELSE [cut |-> cut, entries |-> entries, ambiguous |-> {}, ids |-> ids]

\* The rows whose content is exactly what was sent are marked first...
Marked(q, h) == {r \in Creates(q) : [row |-> r, title |-> q[r].title] \in h.entries}

\* ... then first come first marked by title, as many as the hold has left.
Held(q, h) ==
  Marked(q, h) \cup
  {r \in Creates(q) \ Marked(q, h) :
     LET t == q[r].title
     IN  RankIn(Titled(q, Creates(q) \ Marked(q, h), t), r)
           + Cardinality(Titled(q, Marked(q, h), t))
         < Cardinality(EntriesOf(h.entries, t))}

\* checkExcludeIds: the hold's own ids and every update id in the queue.
Excluded(q, h) == h.ids \cup {q[r].uid : r \in {s \in Live(q) : q[s].uid # 0}}

\* narrowHold: what a Check leaves of the hold it was asked with.
Narrowed(h, ambiguous, claimed) ==
  LET keep == {e \in h.entries : e.title \in ambiguous}
  IN  IF keep = {} THEN NoHold
      ELSE [cut |-> h.cut, entries |-> keep,
            ambiguous |-> {e.title : e \in keep}, ids |-> h.ids \cup claimed]

-----------------------------------------------------------------------------
\* Mutant of RowFor: the occurrence is looked up among all rows, not creates.
RowForAnyRow(q, title, nth) ==
  {r \in Live(q) : q[r].title = title /\ RankIn(Titled(q, Live(q), title), r) = nth}

\* matchLive: the row of the live queue with the same key, which for a
\* create is its title and how many creates with it come before.
RowFor(q, title, nth) ==
  {r \in Creates(q) : q[r].title = title /\ RankIn(Titled(q, Creates(q), title), r) = nth}

\* keepUploaded: every row stays and the ones that were created gain their
\* id.  `made` is a set of [title, nth, id], keyed over the list sent.
Stamped(q, made) ==
  [r \in Rows |->
     LET mine == {m \in made : r \in RowFor(q, m.title, m.nth)}
     IN  IF mine = {} THEN q[r]
         ELSE [q[r] EXCEPT !.uid = (CHOOSE m \in mine : TRUE).id]]

\* Where reconciledResults will look for the rows a Check is about: the
\* held rows of the queue it was asked with, each with its place among the
\* held rows of its title and its key (see RowFor).
Slots(q, h) ==
  {[title |-> q[r].title,
    rank |-> RankIn(Titled(q, Held(q, h), q[r].title), r),
    nth |-> RankIn(Titled(q, Creates(q), q[r].title), r)] : r \in Held(q, h)}

\* reconciledResults: the n-th id found with a title goes to the n-th held
\* row that has it.
MadeByCheck(slots, found) ==
  UNION {{[title |-> s.title, nth |-> s.nth, id |-> f.id] :
            f \in {g \in found : g.title = s.title /\ RankIn(Pool(found, s.title), g.id) = s.rank}} :
         s \in slots}
=============================================================================
