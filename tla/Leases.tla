------------------------------- MODULE Leases -------------------------------
(***************************************************************************)
(* One sign-in per account at a time, and the browser an API template run  *)
(* keeps signed in for the next one.                                       *)
(*   src-tauri/src/autorun/lease.rs           the table, Held::hold        *)
(*   src-tauri/src/api_templates/held.rs      the store of kept browsers   *)
(*   src-tauri/src/api_templates/runner.rs    a template run               *)
(*   src-tauri/src/api_templates/fixture_run.rs, autorun/cleanup.rs        *)
(*                                            fixtures and cleanups        *)
(*   src-tauri/src/autorun/replay.rs          an unattended case           *)
(*   src-tauri/src/commands/autorun.rs        the supervised browser       *)
(*                                                                         *)
(* PeoplesHR (external) has one session per user: signing an account in    *)
(* ends its session everywhere else.  So whoever signs in takes the        *)
(* account's lease first: the browser of an unattended case, the browsers  *)
(* only a person closes (supervised, and Auto Run setup's), and the one    *)
(* template run, fixture or cleanup that holds the RunClaim ("template").  *)
(* A run leaves its browser in the store; it is taken from there by the    *)
(* next run, by whoever gets the account next, by the sweep, or by a       *)
(* close_all.  Taking out of the store is one step under its lock, closing *)
(* the process is another: closing[q] is what q is still closing.          *)
(*                                                                         *)
(* An account is an (environment, key) pair.  Tickets are left out: a      *)
(* holder has at most one lease of an account, so (holder, account) names  *)
(* a lease as its ticket does.                                             *)
(***************************************************************************)
EXTENDS Naturals, FiniteSets

CONSTANTS Accounts, Cases, Persons,
          Unreadable,           \* may a run fail to read its account and
                                \* sign it in a moment later
          None,
          Browsers, MaxGen      \* bounds: processes at once, takes of an account

Holders == Cases \cup Persons
Users == Holders \cup {"template"}
Closers == Users \cup {"sweep", "aside"}
HeldEntry == [browser : Browsers, gen : 0..MaxGen]

ASSUME LeasesAssumption ==
  /\ MaxGen \in Nat
  /\ Unreadable \in BOOLEAN
  /\ Cases \cap Persons = {}
  /\ Holders \cap {"template", "sweep", "aside"} = {}
  /\ None \notin Users \cup Accounts \cup Browsers \cup HeldEntry

VARIABLES table,    \* who holds each account's lease
          gen,      \* generations: takes by anything but a template run
          kept,     \* the store of held browsers
          pc,       \* where each user is
          want,     \* the account a user asks for, or has
          single,   \* the template run is a single one, not a fixture or cleanup
          reused,   \* its browser came from the store
          own,      \* the browser each user drives
          closing,  \* browsers being closed, outside any lock
          exit,     \* "no", then "shut" (the latch), then "drained"
          signedAs, \* the account a browser last signed in as
          session   \* PeoplesHR: the browser with each account's session

vars == <<table, gen, kept, pc, want, single, reused, own, closing, exit, signedAs, session>>

Places == {"idle", "open", "wait", "way", "sign", "use", "end"}
TemplatePlaces == {"idle", "wait", "way", "fetch", "open", "sign", "use", "end"}

TypeOK ==
  /\ table \in [Accounts -> Users \cup {None}]
  /\ gen \in [Accounts -> 0..MaxGen]
  /\ kept \in [Accounts -> HeldEntry \cup {None}]
  /\ pc \in [Users -> Places \cup TemplatePlaces]
  /\ \A h \in Holders : pc[h] \in Places
  /\ want \in [Users -> Accounts \cup {None}]
  /\ single \in BOOLEAN
  /\ reused \in BOOLEAN
  /\ own \in [Users -> Browsers \cup {None}]
  /\ closing \in [Closers -> SUBSET Browsers]
  /\ exit \in {"no", "shut", "drained"}
  /\ signedAs \in [Browsers -> Accounts \cup {None}]
  /\ session \in [Accounts -> Browsers \cup {None}]

Init ==
  /\ table = [a \in Accounts |-> None]
  /\ gen = [a \in Accounts |-> 0]
  /\ kept = [a \in Accounts |-> None]
  /\ pc = [u \in Users |-> "idle"]
  /\ want = [u \in Users |-> None]
  /\ single = FALSE
  /\ reused = FALSE
  /\ own = [u \in Users |-> None]
  /\ closing = [q \in Closers |-> {}]
  /\ exit = "no"
  /\ signedAs = [b \in Browsers |-> None]
  /\ session = [a \in Accounts |-> None]

KeptBrowsers(S) == {kept[a].browser : a \in {x \in S : kept[x] # None}}
Alive ==
  {own[u] : u \in Users} \cup KeptBrowsers(Accounts) \cup UNION {closing[q] : q \in Closers}
Unused == Browsers \ Alive

\* The account whose lease a user holds besides the one it asks for.
Before(u) == {a \in Accounts : table[a] = u /\ a # want[u]}

-----------------------------------------------------------------------------
(* The table.                                                              *)

\* Mutant of MayTake: what ends on its own is not waited for.
MayTakeOver(a) == table[a] \notin Persons

MayTake(a) == table[a] = None

\* Anything but a template run moves the generation on.
Bumped(u) == IF u = "template" THEN gen ELSE [gen EXCEPT ![want[u]] = @ + 1]

\* take, and the lease of the account held before let go (Held::hold).
Take(u) ==
  /\ pc[u] = "wait"
  /\ MayTake(want[u])
  /\ u \in Holders => gen[want[u]] < MaxGen
  /\ table' = [a \in Accounts |-> IF a = want[u] THEN u ELSE IF a \in Before(u) THEN None ELSE table[a]]
  /\ gen' = Bumped(u)
  /\ pc' = [pc EXCEPT ![u] = IF u = "template" /\ single THEN "fetch" ELSE "way"]
  /\ UNCHANGED <<kept, want, single, reused, own, closing, exit, signedAs, session>>

\* At once if a person has the account or asks for it, else when WAIT is
\* over.  What was held stays held: a person's browser stays as it was; a
\* case and a template run are over.
Refused(u) ==
  /\ pc[u] = "wait"
  /\ table[want[u]] # None
  /\ pc' = [pc EXCEPT ![u] =
       IF u \notin Persons THEN "end" ELSE IF Before(u) = {} THEN "open" ELSE "use"]
  /\ want' = [want EXCEPT ![u] = IF Before(u) = {} THEN None ELSE CHOOSE a \in Before(u) : TRUE]
  /\ UNCHANGED <<table, gen, kept, single, reused, own, closing, exit, signedAs, session>>

\* Mutants of GiveWay: for one kind of taker only.
GiveWayToHolders(u) ==
  /\ pc[u] = "way"
  /\ IF u = "template" THEN UNCHANGED <<kept, closing>>
     ELSE /\ kept' = [kept EXCEPT ![want[u]] = None]
          /\ closing' = [closing EXCEPT ![u] = KeptBrowsers({want[u]})]
  /\ pc' = [pc EXCEPT ![u] = IF u = "template" THEN "open" ELSE "sign"]
  /\ UNCHANGED <<table, gen, want, single, reused, own, exit, signedAs, session>>

GiveWayToFixtures(u) ==
  /\ pc[u] = "way"
  /\ IF u # "template" THEN UNCHANGED <<kept, closing>>
     ELSE /\ kept' = [kept EXCEPT ![want[u]] = None]
          /\ closing' = [closing EXCEPT ![u] = KeptBrowsers({want[u]})]
  /\ pc' = [pc EXCEPT ![u] = IF u = "template" THEN "open" ELSE "sign"]
  /\ UNCHANGED <<table, gen, want, single, reused, own, exit, signedAs, session>>

\* give_way: the account's kept browser is taken out, and waited for.
GiveWay(u) ==
  /\ pc[u] = "way"
  /\ kept' = [kept EXCEPT ![want[u]] = None]
  /\ closing' = [closing EXCEPT ![u] = KeptBrowsers({want[u]})]
  /\ pc' = [pc EXCEPT ![u] = IF u = "template" THEN "open" ELSE "sign"]
  /\ UNCHANGED <<table, gen, want, single, reused, own, exit, signedAs, session>>

-----------------------------------------------------------------------------
(* A browser of a case, of a person, or of Auto Run setup.                 *)

OpenBrowser(h) ==
  /\ pc[h] = "idle"
  /\ \E b \in Unused : own' = [own EXCEPT ![h] = b]
  /\ pc' = [pc EXCEPT ![h] = "open"]
  /\ UNCHANGED <<table, gen, kept, want, single, reused, closing, exit, signedAs, session>>

\* Mutant of Hold: the account held before is let go first.
HoldLettingGo(h, a) ==
  /\ pc[h] = "open" \/ (h \in Persons /\ pc[h] = "use")
  /\ table' = [x \in Accounts |-> IF table[x] = h /\ x # a THEN None ELSE table[x]]
  /\ want' = [want EXCEPT ![h] = a]
  /\ pc' = [pc EXCEPT ![h] = IF table[a] = h THEN "sign" ELSE "wait"]
  /\ UNCHANGED <<gen, kept, single, reused, own, closing, exit, signedAs, session>>

\* A sign-in as a; a person's browser may sign in again, as another account.
\* An account this browser already holds is not taken again.
Hold(h, a) ==
  /\ pc[h] = "open" \/ (h \in Persons /\ pc[h] = "use")
  /\ want' = [want EXCEPT ![h] = a]
  /\ pc' = [pc EXCEPT ![h] = IF table[a] = h THEN "sign" ELSE "wait"]
  /\ UNCHANGED <<table, gen, kept, single, reused, own, closing, exit, signedAs, session>>

\* Stop, while a case waits for its account or for the kept browser to go:
\* the hold is dropped, the close goes on without it.
StopHold(c) ==
  /\ c \in Cases
  /\ pc[c] \in {"wait", "sign"}
  /\ pc' = [pc EXCEPT ![c] = "end"]
  /\ closing' = [closing EXCEPT ![c] = {}, !["aside"] = @ \cup closing[c]]
  /\ UNCHANGED <<table, gen, kept, want, single, reused, own, exit, signedAs, session>>

\* The sign-in, or one that failed, on either side of PeoplesHR's answer.
\* The lease stays whichever way it went; a template run is over.
SignIn(u) ==
  /\ pc[u] = "sign"
  /\ closing[u] = {}
  /\ \/ /\ signedAs' = [signedAs EXCEPT ![own[u]] = want[u]]
        /\ session' = [session EXCEPT ![want[u]] = own[u]]
        /\ pc' = [pc EXCEPT ![u] = "use"]
     \/ /\ signedAs' = [signedAs EXCEPT ![own[u]] = None]
        /\ \/ session' = [session EXCEPT ![want[u]] = own[u]]
           \/ UNCHANGED session
        /\ pc' = [pc EXCEPT ![u] = IF u = "template" THEN "end" ELSE "use"]
  /\ UNCHANGED <<table, gen, kept, want, single, reused, own, closing, exit>>

\* Signed out in the browser, or made to make way for a setup: let_go.
LetGo(h) ==
  /\ h \in Persons
  /\ pc[h] = "use"
  /\ table' = [a \in Accounts |-> IF table[a] = h THEN None ELSE table[a]]
  /\ signedAs' = [signedAs EXCEPT ![own[h]] = None]
  /\ want' = [want EXCEPT ![h] = None]
  /\ pc' = [pc EXCEPT ![h] = "open"]
  /\ UNCHANGED <<gen, kept, single, reused, own, closing, exit, session>>

\* The case is over, or the person closes the browser.
Close(h) ==
  /\ pc[h] \in {"open", "use"}
  /\ pc' = [pc EXCEPT ![h] = "end"]
  /\ UNCHANGED <<table, gen, kept, want, single, reused, own, closing, exit, signedAs, session>>

\* Whoever is at its end closes its browser, and lets the account go after that.
CloseOwn(u) ==
  /\ pc[u] = "end"
  /\ own[u] # None
  /\ closing' = [closing EXCEPT ![u] = {own[u]}]
  /\ own' = [own EXCEPT ![u] = None]
  /\ UNCHANGED <<table, gen, kept, pc, want, single, reused, exit, signedAs, session>>

Done(u) ==
  /\ pc[u] = "end"
  /\ own[u] = None
  /\ closing[u] = {}
  /\ table' = [a \in Accounts |-> IF table[a] = u THEN None ELSE table[a]]
  /\ want' = [want EXCEPT ![u] = None]
  /\ pc' = [pc EXCEPT ![u] = "idle"]
  /\ single' = (single /\ u # "template")
  /\ UNCHANGED <<gen, kept, reused, own, closing, exit, signedAs, session>>

-----------------------------------------------------------------------------
(* A template run (single), a fixture or a cleanup: one at a time.         *)

Claim(a) ==
  /\ pc["template"] = "idle"
  /\ single' \in BOOLEAN
  /\ reused' = FALSE
  /\ want' = [want EXCEPT !["template"] = a]
  /\ pc' = [pc EXCEPT !["template"] = "wait"]
  /\ UNCHANGED <<table, gen, kept, own, closing, exit, signedAs, session>>

Stale(a) == kept[a].gen # gen[a]

\* Mutant of Fetch: looked at, not taken out.
FetchLooks ==
  /\ pc["template"] = "fetch"
  /\ LET a == want["template"]
     IN  IF kept[a] # None /\ ~Stale(a)
         THEN own' = [own EXCEPT !["template"] = kept[a].browser] /\ reused' = TRUE
              /\ pc' = [pc EXCEPT !["template"] = "use"]
         ELSE UNCHANGED <<own, reused>> /\ pc' = [pc EXCEPT !["template"] = "open"]
  /\ UNCHANGED <<table, gen, kept, want, single, closing, exit, signedAs, session>>

\* held::take, then adopt.  An entry that has given way is closed; so may
\* any be (its fingerprint is another, its process has ended, it is another
\* kind of browser).  A run that cannot read its account does not look.
Fetch ==
  /\ pc["template"] = "fetch"
  /\ LET a == want["template"]
     IN  \/ /\ kept[a] = None \/ Unreadable
            /\ pc' = [pc EXCEPT !["template"] = "open"]
            /\ UNCHANGED <<kept, own, reused, closing>>
         \/ /\ kept[a] # None
            /\ kept' = [kept EXCEPT ![a] = None]
            /\ \/ /\ ~Stale(a)
                  /\ own' = [own EXCEPT !["template"] = kept[a].browser]
                  /\ reused' = TRUE
                  /\ pc' = [pc EXCEPT !["template"] = "use"]
                  /\ UNCHANGED closing
               \/ /\ closing' = [closing EXCEPT !["template"] = {kept[a].browser}]
                  /\ pc' = [pc EXCEPT !["template"] = "open"]
                  /\ UNCHANGED <<own, reused>>
  /\ UNCHANGED <<table, gen, want, single, exit, signedAs, session>>

\* browsers.open, once the browser before it is closed.
OpenFresh ==
  /\ pc["template"] = "open"
  /\ closing["template"] = {}
  /\ \/ /\ \E b \in Unused : own' = [own EXCEPT !["template"] = b]
        /\ pc' = [pc EXCEPT !["template"] = "sign"]
     \/ /\ pc' = [pc EXCEPT !["template"] = "end"]
        /\ UNCHANGED own
  /\ UNCHANGED <<table, gen, kept, want, single, reused, closing, exit, signedAs, session>>

\* The session of a reused browser had ended: once more, in a fresh one.
Dropped ==
  /\ pc["template"] = "use"
  /\ reused
  /\ reused' = FALSE
  /\ closing' = [closing EXCEPT !["template"] = {own["template"]}]
  /\ own' = [own EXCEPT !["template"] = None]
  /\ pc' = [pc EXCEPT !["template"] = "open"]
  /\ UNCHANGED <<table, gen, kept, want, single, exit, signedAs, session>>

\* Mutant of Latched: nobody looks.
NeverLatched == FALSE

Latched == exit # "no"

\* held::keep.
Keep ==
  /\ pc["template"] = "use"
  /\ single
  /\ LET a == want["template"]
         b == own["template"]
     IN  IF Latched
         THEN /\ closing' = [closing EXCEPT !["template"] = {b}]
              /\ UNCHANGED kept
         ELSE /\ closing' = [closing EXCEPT !["template"] = KeptBrowsers({a})]
              /\ kept' = [kept EXCEPT ![a] = [browser |-> b, gen |-> gen[a]]]
  /\ own' = [own EXCEPT !["template"] = None]
  /\ reused' = FALSE
  /\ pc' = [pc EXCEPT !["template"] = "end"]
  /\ UNCHANGED <<table, gen, want, single, exit, signedAs, session>>

\* A run that timed out or found its session ended, a fixture, a cleanup.
FinishUnkept ==
  /\ pc["template"] = "use"
  /\ reused' = FALSE
  /\ pc' = [pc EXCEPT !["template"] = "end"]
  /\ UNCHANGED <<table, gen, kept, want, single, own, closing, exit, signedAs, session>>

-----------------------------------------------------------------------------
(* Those who close.                                                        *)

\* expired: what has given way, and what is idle for HELD_IDLE.
Sweep ==
  /\ closing["sweep"] = {}
  /\ \E due \in SUBSET {a \in Accounts : kept[a] # None} :
       /\ due # {}
       /\ {a \in Accounts : kept[a] # None /\ Stale(a)} \subseteq due
       /\ kept' = [a \in Accounts |-> IF a \in due THEN None ELSE kept[a]]
       /\ closing' = [closing EXCEPT !["sweep"] = KeptBrowsers(due)]
  /\ UNCHANGED <<table, gen, pc, want, single, reused, own, exit, signedAs, session>>

\* close_all at a sign-out or a change of environment; at the exit, after
\* the latch is set.
CloseAll ==
  /\ KeptBrowsers(Accounts) # {} \/ exit = "shut"
  /\ kept' = [a \in Accounts |-> None]
  /\ closing' = [closing EXCEPT !["aside"] = @ \cup KeptBrowsers(Accounts)]
  /\ exit' = IF exit = "shut" THEN "drained" ELSE exit
  /\ UNCHANGED <<table, gen, pc, want, single, reused, own, signedAs, session>>

Shut ==
  /\ exit = "no"
  /\ exit' = "shut"
  /\ UNCHANGED <<table, gen, kept, pc, want, single, reused, own, closing, signedAs, session>>

\* A process has ended.
Ended(q) ==
  \E b \in closing[q] :
    /\ closing' = [closing EXCEPT ![q] = @ \ {b}]
    /\ signedAs' = [signedAs EXCEPT ![b] = None]
    /\ session' = [a \in Accounts |-> IF session[a] = b THEN None ELSE session[a]]
    /\ UNCHANGED <<table, gen, kept, pc, want, single, reused, own, exit>>

User(u) == Take(u) \/ Refused(u) \/ GiveWay(u) \/ SignIn(u) \/ CloseOwn(u) \/ Done(u)
Holder(h) == OpenBrowser(h) \/ (\E a \in Accounts : Hold(h, a)) \/ StopHold(h) \/ LetGo(h) \/ Close(h)
Template == (\E a \in Accounts : Claim(a)) \/ Fetch \/ OpenFresh \/ Dropped \/ Keep \/ FinishUnkept

Next ==
  \/ \E u \in Users : User(u)
  \/ \E h \in Holders : Holder(h)
  \/ Template
  \/ Sweep \/ CloseAll \/ Shut
  \/ \E q \in Closers : Ended(q)

Spec == Init /\ [][Next]_vars

-----------------------------------------------------------------------------
\* A browser that works as account a: a person's stays signed in while it
\* asks for another account.
InUse(u, a) == pc[u] \in {"use", "wait"} /\ own[u] # None /\ signedAs[own[u]] = a

\* "Signing an account in anywhere ends that account's session everywhere
\* else": no sign-in ends the session of a browser somebody works in.
InUseUndisturbed ==
  [][\A a \in Accounts, u \in Users :
       InUse(u, a) /\ session'[a] \notin {session[a], None} => session'[a] = own[u]]_vars

\* "One sign-in per account at a time": the leases, the store and the closing
\* of processes come to what AccountUse says.
Use == INSTANCE AccountUse WITH users <- [a \in Accounts |-> {u \in Users : InUse(u, a)}]
ImplementsUse == Use!Spec

\* "An entry is reused only while" nothing has signed the account in since:
\* a browser a run took from the store is the account's last sign-in.
ReusedIsLastSignIn == reused => session[want["template"]] = own["template"]

\* Held::hold and account_lease: whoever works as an account, no kept
\* browser of it is left for a run to find.
NoneKeptBesideUse ==
  \A u \in Users, a \in Accounts : InUse(u, a) /\ pc[u] = "use" => kept[a] = None

\* "Neither the sweep nor close_all can close a browser while a run uses
\* it", nor is one browser ever closed twice, or kept and used.
OneOwner ==
  /\ \A q \in Closers : closing[q] \cap ({own[u] : u \in Users} \cup KeptBrowsers(Accounts)) = {}
  /\ \A q, r \in Closers : q # r => closing[q] \cap closing[r] = {}
  /\ \A u \in Users : own[u] \notin KeptBrowsers(Accounts)
  /\ \A u, v \in Users : u # v /\ own[u] # None => own[u] # own[v]

\* "A run still in flight that ends after close_all has drained the store
\* cannot leave a browser nothing will close".
NothingKeptAfterExit == exit = "drained" => KeptBrowsers(Accounts) = {}

\* "Closed before this returns ... one browser process per account is the
\* most there should be": whoever has signed in as an account, no browser
\* signed in as it is still being closed.
OneProcessPerAccount ==
  \A u \in Users, a \in Accounts :
    InUse(u, a) /\ pc[u] = "use" => \A q \in Closers : \A b \in closing[q] : signedAs[b] # a
=============================================================================
