---------------------------- MODULE MCMechanisms ----------------------------
(***************************************************************************)
(* Mechanisms that touch no state of each other: the SingleFlight, the     *)
(* pacing (Throttle) and the pairing loop (ReconcileLoop) that the Azure   *)
(* DevOps calls of every screen share, and the watched draft file          *)
(* (DraftFiles).  Each behaviour runs one of them, and `part` says which;  *)
(* the others stay as they were.                                           *)
(***************************************************************************)
EXTENDS SingleFlight, Naturals, Sequences

CONSTANTS Parts,                                            \* those to run
          MaxRequests, Gaps, Delays, MaxBackoff, MaxTime,   \* of Throttle
          Titles, Ids, MaxCreates,                          \* of ReconcileLoop
          Texts, Draft, Removed, MaxEdits, MaxMishaps          \* of DraftFiles

CONSTANTS TextA, TextB   \* texts
ThreeCases == <<TextA, TextB, TextA>>

VARIABLES part,
          now, gap, until, last, gate, req, due,
          creates, found, left, pools, cursor, out,
          file, noted, seen, expected, heard, queue, watch, detected, chain, write,
          latest, sync, landed, edits, outside, errors

Pace == INSTANCE Throttle WITH asked <- due
Loop == INSTANCE ReconcileLoop WITH asked <- creates, answer <- found
Drafts == INSTANCE DraftFiles WITH last <- seen

ASSUME SharedAssumption ==
  /\ Gaps \cup Delays \cup {MaxRequests, MaxBackoff, MaxTime, MaxCreates} \subseteq Nat
  /\ Ids \subseteq Nat /\ IsFiniteSet(Ids)
  /\ None \notin 1 .. MaxRequests
  /\ Draft \in Seq(Texts) /\ Removed \notin Texts /\ {MaxEdits, MaxMishaps} \subseteq Nat

PaceUnused ==
  now = 0 /\ gap = 0 /\ until = 0 /\ last = 0 /\ gate = None /\ req = <<>> /\ due = 0
LoopUnused ==
  creates = <<>> /\ found = {} /\ left = 0 /\ pools = <<>> /\ cursor = <<>> /\ out = <<>>

pace == <<now, gap, until, last, gate, req, due>>
pairing == <<creates, found, left, pools, cursor, out>>
drafts == <<file, noted, seen, expected, heard, queue, watch, detected, chain, write,
            latest, sync, landed, edits, outside, errors>>

MCInit ==
  /\ part \in Parts
  /\ Init /\ Drafts!Init
  /\ IF part = "pace" THEN Pace!Init ELSE PaceUnused
  /\ IF part = "loop" THEN Loop!Init ELSE LoopUnused

MCNext ==
  \/ part = "flight" /\ Next /\ UNCHANGED <<part, pace, pairing, drafts>>
  \/ part = "pace" /\ Pace!Next /\ UNCHANGED <<part, vars, pairing, drafts>>
  \/ part = "loop" /\ Loop!Next /\ UNCHANGED <<part, vars, pace, drafts>>
  \/ part = "drafts" /\ Drafts!Next /\ UNCHANGED <<part, vars, pace, pairing>>

mcvars == <<part, vars, pace, pairing, drafts>>

MCSpec == MCInit /\ [][MCNext]_mcvars

\* Of the calls the lookups have to go on; of the draft file everything the
\* app does.
CallsSpec == MCSpec /\ Fairness
DraftsSpec == MCSpec /\ Drafts!Fairness

-----------------------------------------------------------------------------
(* The properties of the mechanisms, under the names of their modules.     *)

\* Requests go their gap apart (`pace`, ado/throttle.rs).
Spaced == part = "pace" => Pace!Spaced

\* No request goes before the end of a hold asked for before it
\* (`note_server_delay`).
HoldsAreKept == part = "pace" => Pace!HoldsAreKept

\* The loop of `reconcile_pairs` computes the pairs of Reconcile.
LoopComputesPairs == part = "loop" => Loop!LoopComputesPairs

\* The type invariant of DraftFiles.
DraftsTyped == part = "drafts" => Drafts!TypeOK

\* A write-back changes the case of the row that was edited
\* (draftWriteQueue.ts, `apply_draft_edits`).
TwinsKeepApart == part = "drafts" => Drafts!TwinsKeepApart

\* A change of the file is taken over, and every write-back has its turn
\* (ImportFile.tsx).
ChangesAreTaken == Drafts!ChangesAreTaken
=============================================================================
