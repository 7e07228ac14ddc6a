------------------------------ MODULE DraftFiles ------------------------------
(***************************************************************************)
(* A draft file the queue follows: the write-backs of the rows it put      *)
(* there (QueueSection.tsx, lib/draftWriteQueue.ts, save_draft_cases), the *)
(* watch that hears of changes to it (filewatch.rs), and the sync that     *)
(* folds them into the queue (ImportFile.tsx, lib/fileSync.ts).            *)
(*                                                                         *)
(* Every case has the same title and no id: only its text and its place    *)
(* tell it from the others.  `who` names a case for the properties; the    *)
(* code never sees it.                                                     *)
(***************************************************************************)
EXTENDS Naturals, Sequences, SequencesExt

CONSTANTS Texts,
          Draft,       \* the texts of the cases imported from the file
          Removed,     \* what a removed row becomes
          MaxEdits,    \* how often the person edits
          MaxMishaps   \* how often someone else writes the file, or a call fails

VARIABLES file,        \* its cases, in order
          noted,       \* an event of it waits for the watch's thread
          last, expected,  \* the watch: what it last saw, what the app writes
          heard,       \* WatchedFileChanged, on its way to the window
          queue,       \* the rows
          watch,       \* the window's WatchedFile: [stamp, snapshot]
          detected,    \* the stamp last heard of
          chain,       \* the write-backs queued on the file, the first begun
          write,       \* how far that one is
          latest,      \* what the last one returned, while others queue
          sync,        \* the sync under way
          landed,      \* history: a sync has been folded in
          edits, outside, errors   \* counters

window == <<queue, watch, detected, latest, sync>>
watcher == <<last, expected>>
counters == <<edits, outside, errors>>
vars == <<file, noted, watcher, heard, window, landed, chain, write, counters>>

\* The fingerprint of the file with these cases.
Stamp(cases) == [i \in DOMAIN cases |-> cases[i].text]
NoStamp == <<Removed>>

Case == [who : Nat, text : Texts]
NoCase == [who |-> 0, text |-> Removed]
Watched == [stamp : Seq(Texts), snapshot : Seq(Case)]
Nothing == [stamp |-> NoStamp, snapshot |-> <<>>]

\* A write-back: the rows before the edit, the row edited, what it became.
Write == [rows : Seq(Case), at : Nat \ {0}, to : Texts \cup {Removed}]
NoWrite == [step |-> "none", slots |-> <<>>, hit |-> NoCase, out |-> <<>>]
Writing == [step : {"none", "asked", "renaming", "written", "failed"},
            slots : Seq(Nat), hit : Case \cup {NoCase}, out : Seq(Case)]

NoSync == [step |-> "none", fresh |-> NoStamp, snap |-> <<>>, read |-> <<>>,
           cancelled |-> FALSE]
Syncing == [step : {"none", "parsing", "read", "unread"},
            fresh : Seq(Texts) \cup {NoStamp}, snap : Seq(Case), read : Seq(Case),
            cancelled : BOOLEAN]

TypeOK ==
  /\ file \in Seq(Case) /\ queue \in Seq(Case)
  /\ noted \in BOOLEAN /\ landed \in BOOLEAN
  /\ last \in Seq(Texts) /\ expected \in Seq(Texts) \cup {NoStamp}
  /\ heard \in Seq(Seq(Texts)) /\ detected \in Seq(Texts)
  /\ watch \in Watched
  /\ latest \in Watched \cup {Nothing} /\ (chain = <<>> => latest = Nothing)
  /\ chain \in Seq(Write) /\ write \in Writing /\ sync \in Syncing
  /\ edits \in 0 .. MaxEdits /\ {outside, errors} \subseteq 0 .. MaxMishaps

Imported == [i \in DOMAIN Draft |-> [who |-> i, text |-> Draft[i]]]

\* Imported, and its watch armed.
Init ==
  /\ file = Imported /\ queue = Imported
  /\ watch = [stamp |-> Draft, snapshot |-> Imported]
  /\ detected = Draft /\ last = Draft /\ expected = NoStamp
  /\ noted = FALSE /\ heard = <<>>
  /\ chain = <<>> /\ write = NoWrite /\ latest = Nothing /\ sync = NoSync
  /\ landed = FALSE
  /\ edits = 0 /\ outside = 0 /\ errors = 0

-----------------------------------------------------------------------------
(* Which row is which case of a list (claimRows).                          *)

Rank(S, i) == Cardinality({j \in S : j <= i})
InOrder(S) == [n \in 1 .. Cardinality(S) |-> CHOOSE i \in S : Rank(S, i) = n]
With(list, t) == {i \in DOMAIN list : list[i].text = t}

\* First the rows that are a case exactly, in order.
Exact(rows, list, i) ==
  LET t == rows[i].text
  IN {k \in With(list, t) : Rank(With(list, t), k) = Rank(With(rows, t), i)}

Loose(rows, list) == {i \in DOMAIN rows : Exact(rows, list, i) = {}}
Open(rows, list) == DOMAIN list \ UNION {Exact(rows, list, i) : i \in DOMAIN rows}

\* Then the rest, in order.  No case is left for row i: 0.
Slot(rows, list, i) ==
  LET open == Open(rows, list)
      rest == {k \in open : Rank(open, k) = Rank(Loose(rows, list), i)}
      found == IF Exact(rows, list, i) # {} THEN Exact(rows, list, i) ELSE rest
  IN IF found = {} THEN 0 ELSE CHOOSE k \in found : TRUE

Slots(rows, list) == [i \in DOMAIN rows |-> Slot(rows, list, i)]

-----------------------------------------------------------------------------
(* The window.                                                             *)

\* The next case in the file, and the next typed by hand.
Newcomer == Len(Draft) + outside + 1
HandTyped == Len(Draft) + MaxMishaps + edits + 1

\* writeBackOwned, if the file owns a row: it decides which rows are which
\* cases only when its turn on the chain comes.
Queues(w) ==
  chain' = IF \A i \in DOMAIN w.rows : Slot(w.rows, watch.snapshot, i) = 0
           THEN chain ELSE Append(chain, w)

Edited(i, to) ==
  /\ edits < MaxEdits /\ edits' = edits + 1
  /\ queue' = IF to = Removed THEN RemoveAt(queue, i) ELSE [queue EXCEPT ![i].text = to]
  /\ Queues([rows |-> queue, at |-> i, to |-> to])
  /\ UNCHANGED <<landed, file, noted, watcher, heard, watch, detected, latest, sync, write,
                 outside, errors>>

EditsRow(i, t) == i \in DOMAIN queue /\ queue[i].text # t /\ Edited(i, t)
RemovesRow(i) == i \in DOMAIN queue /\ Edited(i, Removed)

TypesRow(t) ==
  /\ edits < MaxEdits /\ edits' = edits + 1
  /\ queue' = Append(queue, [who |-> HandTyped, text |-> t])
  /\ UNCHANGED <<landed, file, noted, watcher, heard, watch, detected, latest, sync, chain, write,
                 outside, errors>>

\* The effect over `watches` and `detected`, run when either is set: a sync
\* under way is cancelled, and otherwise one begins if the file is stale.
Begun(w, d) == IF d = w.stamp THEN NoSync
               ELSE [NoSync EXCEPT !.step = "parsing", !.fresh = d, !.snap = w.snapshot]
Rerenders(w, d) ==
  /\ watch' = w /\ detected' = d
  /\ sync' = IF sync.step # "none" THEN [sync EXCEPT !.cancelled = TRUE] ELSE Begun(w, d)

HearsChange ==
  /\ heard # <<>> /\ heard' = Tail(heard)
  /\ Rerenders(watch, Head(heard))
  /\ UNCHANGED <<landed, file, noted, watcher, queue, latest, chain, write, counters>>

\* parse_import_file.
SyncReads ==
  /\ sync.step = "parsing"
  /\ sync' = [sync EXCEPT !.step = "read", !.read = file]
  /\ UNCHANGED <<landed, file, noted, watcher, heard, queue, watch, detected, latest, chain, write,
                 counters>>

SyncCannotRead ==
  /\ sync.step = "parsing"
  /\ outside + errors < MaxMishaps /\ errors' = errors + 1
  /\ sync' = [sync EXCEPT !.step = "unread"]
  /\ UNCHANGED <<landed, file, noted, watcher, heard, queue, watch, detected, latest, chain, write,
                 edits, outside>>

\* syncFromFile: a row the file put there becomes the case now in its place,
\* or goes with it; what is new in the file comes last.
Synced(rows, prev, next) ==
  LET slot == Slots(rows, prev)
      stays == InOrder({i \in DOMAIN rows : slot[i] <= Len(next)})
      kept == [n \in DOMAIN stays |->
                 IF slot[stays[n]] = 0 THEN rows[stays[n]] ELSE next[slot[stays[n]]]]
      new == InOrder({k \in DOMAIN next : \A i \in DOMAIN rows : slot[i] # k})
  IN kept \o [n \in DOMAIN new |-> next[new[n]]]

SyncLands ==
  /\ sync.step \in {"read", "unread"} /\ ~sync.cancelled
  /\ IF sync.step = "unread"
     THEN /\ watch' = [watch EXCEPT !.stamp = sync.fresh]
          /\ UNCHANGED queue
     ELSE /\ watch' = [stamp |-> sync.fresh, snapshot |-> sync.read]
          /\ queue' = Synced(queue, sync.snap, sync.read)
  /\ sync' = NoSync /\ landed' = TRUE
  /\ UNCHANGED <<file, noted, watcher, heard, detected, latest, chain, write, counters>>

\* syncTick makes the effect run again.
SyncIsRetried ==
  /\ sync.step \in {"read", "unread"} /\ sync.cancelled
  /\ sync' = Begun(watch, detected)
  /\ UNCHANGED <<landed, file, noted, watcher, heard, queue, watch, detected, latest, chain, write,
                 counters>>

-----------------------------------------------------------------------------
(* The write-backs, one at a time (runOnFileChain).                        *)

\* Mutant: the list a closure captured before the burst.
FreshAtImport == Imported

\* freshWatches: what the write ahead returned, while the watch stands there.
Fresh == IF latest.stamp = watch.stamp THEN latest.snapshot ELSE watch.snapshot

\* Mutant: the memory is kept for whoever comes next.
SettlesRemembering(memory) ==
  /\ chain' = Tail(chain)
  /\ latest' = memory
  /\ write' = NoWrite

\* The task is over; with none queued behind it the memory goes.
Settles(memory) ==
  /\ chain' = Tail(chain)
  /\ latest' = IF Len(chain) = 1 THEN Nothing ELSE memory
  /\ write' = NoWrite

WriteBegins ==
  /\ chain # <<>> /\ write.step = "none"
  /\ LET slots == Slots(Head(chain).rows, Fresh)
     IN IF slots[Head(chain).at] = 0
        THEN Settles(latest)
        ELSE /\ write' = [NoWrite EXCEPT !.step = "asked", !.slots = slots]
             /\ UNCHANGED <<chain, latest>>
  /\ UNCHANGED <<landed, file, noted, watcher, heard, queue, watch, detected, sync, counters>>

\* apply_draft_edits: a row's occurrence names its case; one whose case is
\* not there takes the first that nobody named, and 0 is none.
Named(slots) == {slots[i] : i \in DOMAIN slots} \cap DOMAIN file
Unnamed(slots) == DOMAIN file \ Named(slots)
Missing(slots) == {i \in DOMAIN slots : slots[i] > Len(file)}
Target(slots, i) ==
  LET first == {k \in Unnamed(slots) : Rank(Unnamed(slots), k) = Rank(Missing(slots), i)}
  IN IF slots[i] \in DOMAIN file THEN slots[i]
     ELSE IF first = {} THEN 0 ELSE CHOOSE k \in first : TRUE

\* A removed case that is gone is nothing; an edited one is appended.
Applied(w, k) ==
  LET case == [who |-> w.rows[w.at].who, text |-> w.to]
  IN IF w.to = Removed THEN (IF k = 0 THEN file ELSE RemoveAt(file, k))
     ELSE IF k = 0 THEN Append(file, case) ELSE [file EXCEPT ![k] = case]

\* save_draft_cases reads the file, and tells the watch what it will write ...
SaveReads ==
  /\ write.step = "asked"
  /\ LET w == Head(chain)
         k == Target(write.slots, w.at)
     IN /\ write' = [write EXCEPT !.step = "renaming", !.out = Applied(w, k),
                                  !.hit = IF k = 0 THEN NoCase ELSE file[k]]
        /\ expected' = Stamp(Applied(w, k))
  /\ UNCHANGED <<landed, file, noted, last, heard, window, chain, counters>>

\* ... and renames the new file over the old.
SaveRenames ==
  /\ write.step = "renaming"
  /\ file' = write.out /\ noted' = TRUE
  /\ write' = [write EXCEPT !.step = "written"]
  /\ UNCHANGED <<landed, watcher, heard, window, chain, counters>>

SaveFails ==
  /\ write.step \in {"asked", "renaming"}
  /\ outside + errors < MaxMishaps /\ errors' = errors + 1
  /\ write' = [write EXCEPT !.step = "failed"]
  /\ UNCHANGED <<landed, file, noted, watcher, heard, window, chain, edits, outside>>

\* noteWritten, the watch and what was detected move together.
WriteReturns ==
  /\ write.step = "written"
  /\ LET w == [stamp |-> Stamp(write.out), snapshot |-> write.out]
     IN Settles(w) /\ Rerenders(w, w.stamp)
  /\ UNCHANGED <<landed, file, noted, watcher, heard, queue, counters>>

\* Mutant: a task that failed jams the chain.
WriteJams == write.step = "failed" /\ UNCHANGED vars

WriteFails ==
  /\ write.step = "failed"
  /\ Settles(latest)
  /\ UNCHANGED <<landed, file, noted, watcher, heard, queue, watch, detected, sync, counters>>

-----------------------------------------------------------------------------
(* The watch's thread, and everyone else who writes the file.              *)

WatchLooks ==
  /\ noted /\ noted' = FALSE
  /\ LET now == Stamp(file)
     IN /\ last' = now
        /\ expected' = IF now # last /\ now = expected THEN NoStamp ELSE expected
        /\ heard' = IF now # last /\ now # expected THEN Append(heard, now) ELSE heard
  /\ UNCHANGED <<landed, file, window, chain, write, counters>>

Outside(cases) ==
  /\ outside + errors < MaxMishaps /\ outside' = outside + 1
  /\ file' = cases /\ noted' = TRUE
  /\ UNCHANGED <<landed, watcher, heard, window, chain, write, edits, errors>>

AssistantAdds(t) == Outside(Append(file, [who |-> Newcomer, text |-> t]))
AssistantEdits(i, t) == i \in DOMAIN file /\ Outside([file EXCEPT ![i].text = t])
AssistantRemoves(i) == i \in DOMAIN file /\ Outside(RemoveAt(file, i))

-----------------------------------------------------------------------------
Places == 1 .. Len(Draft) + MaxEdits + MaxMishaps

PersonEdits ==
  \E t \in Texts : TypesRow(t) \/ \E i \in Places : EditsRow(i, t) \/ RemovesRow(i)
AssistantWrites ==
  \E t \in Texts : AssistantAdds(t) \/ \E i \in Places : AssistantEdits(i, t) \/ AssistantRemoves(i)

WriteGoesOn ==
  WriteBegins \/ SaveReads \/ SaveRenames \/ SaveFails \/ WriteReturns \/ WriteFails
SyncGoesOn == SyncReads \/ SyncCannotRead \/ SyncLands \/ SyncIsRetried

Next ==
  \/ PersonEdits \/ AssistantWrites
  \/ WriteGoesOn \/ SyncGoesOn
  \/ HearsChange \/ WatchLooks

Spec == Init /\ [][Next]_vars

\* The app goes on while anything is left to do: commands return, events
\* arrive and effects run.  Nobody has to edit.
Fairness == WF_vars(WriteGoesOn \/ SyncGoesOn \/ HearsChange \/ WatchLooks)

FairSpec == Spec /\ Fairness

-----------------------------------------------------------------------------
\* "Rust would then pair a row with the wrong same-titled entry and could
\* delete or overwrite the wrong twin" (draftWriteQueue.ts): while only the
\* app writes the file, and no sync has touched the rows, each write of a
\* burst changes the edited row's own case, whatever the writes ahead moved
\* and however late its turn comes.
TwinsKeepApart ==
  write.step = "renaming" /\ outside = 0 /\ errors = 0 /\ ~landed
    => write.hit.who = Head(chain).rows[Head(chain).at].who

\* A file that moved is synced with, or its watch moves on, though every
\* change of the watch cancels the sync under way ("the cancelled file was
\* never retried", ImportFile.tsx); and every write-back queued has its turn,
\* though one ahead of it failed.
ChangesAreTaken ==
  detected # watch.stamp \/ chain # <<>> ~> detected = watch.stamp /\ chain = <<>>

\* "Write text to a watched file without the watch reporting it back"
\* (write_watched).  (Expected to be violated.)
OwnWritesAreSilent == outside = 0 => heard = <<>>

\* "The frontend hears one event per real content change" (filewatch.rs): when
\* nothing is on its way any more, the queue has every case of the file as the
\* file has it.  (Expected to be violated.)
QueueHasTheFile ==
  /\ ~noted /\ heard = <<>> /\ chain = <<>> /\ sync = NoSync /\ errors = 0
  => ToSet(file) \subseteq ToSet(queue)

\* "A hand-typed row that shares a title is left alone" (syncFromFile).
\* (Expected to be violated.)
HandTypedStays ==
  [][edits' = edits =>
       \A c \in ToSet(queue) : c.who > Len(Draft) + MaxMishaps => c \in ToSet(queue')]_vars
===============================================================================
