------------------------------ MODULE Session -------------------------------
(***************************************************************************)
(* The session with Microsoft: the tokens in memory and the refresh token  *)
(* Stay signed in keeps between launches.                                  *)
(*   src-tauri/src/state.rs            fresh_token_with and its gate       *)
(*   src-tauri/src/auth.rs             store_refreshed                     *)
(*   src-tauri/src/saved_session.rs    save, load, forget, keep_current    *)
(*   src-tauri/src/commands/auth.rs    sign_in, sign_out, resume_session   *)
(*   src-tauri/src/commands/app_settings.rs         set_stay_signed_in     *)
(*                                                                         *)
(* Several threads: every command that asks for a token (Calls), the       *)
(* browser sign-in ("login"), the resume of the kept session ("launch"),   *)
(* and the main thread, where the two synchronous commands run one after   *)
(* the other ("main").  Credential Manager is a file of entries, each read *)
(* and written on its own: the head (0) and the parts of a refresh token.  *)
(* A thread's writes are `todo[t]`, done one at a time.                    *)
(*                                                                         *)
(* A token set is named by its refresh token's number.  A session is what  *)
(* one browser sign-in began, refreshes and resumes continue it.           *)
(***************************************************************************)
EXTENDS Naturals, Sequences, FiniteSets

CONSTANTS Calls,                    \* calls of get_fresh_token
          Parts,                    \* MAX_PARTS
          Lengths,                  \* how many parts a token may need; 0: there is none
          Overlap,                  \* may writers of the kept session overlap
          ResumeAnytime,            \* may a resume run across a Sign out, or the
                                    \* last step of a sign-in
          None,                     \* no tokens, an entry that is not there
          MaxTokens, MaxSessions    \* bounds

Threads == Calls \cup {"login", "launch", "main"}

\* TokenSet: `parts` is how many entries its refresh token needs, 0 when
\* there is no refresh token.
TokenSet == [id : 1..MaxTokens, session : 1..MaxSessions, parts : Lengths]
HeadEntry == [parts : 1..Parts, session : 1..MaxSessions]
PartEntry == [of : TokenSet, at : 1..Parts]
Entry == HeadEntry \cup PartEntry \cup {None}
Write == [at : 0..Parts, entry : Entry]

ASSUME SessionAssumption ==
  /\ {Parts, MaxTokens, MaxSessions} \subseteq Nat
  /\ Lengths \subseteq 0..Parts
  /\ {Overlap, ResumeAnytime} \subseteq BOOLEAN
  /\ Calls \cap {"login", "launch", "main"} = {}
  /\ None \notin Threads
  /\ None \notin TokenSet \cup HeadEntry \cup PartEntry

VARIABLES tokens,     \* AuthState.tokens
          due,        \* needs_refresh(tokens)
          choose,     \* SessionVault.choose_account
          enabled,    \* the setting Stay signed in
          store,      \* Credential Manager: 0 is the head
          gate,       \* who holds refresh_gate
          pc,         \* where each thread is
          asked,      \* what a call asks Microsoft to renew; what the launch was given
          got,        \* the head and the parts the launch has read so far
          todo,       \* the writes to the store a thread has still to make
          minted,     \* tokens Microsoft has issued
          sessions,   \* browser sign-ins that succeeded
          spent,      \* history: refresh tokens a stored refresh replaced
          out,        \* history: sessions up to this one were signed out
          gone,       \* history: and Sign out answered that it was done
          clean,      \* history: the last write of the store went well, alone
          alone,      \* history: the last one to begin found nobody writing
          crossed     \* history: what a Sign out or a resume has crossed

memory == <<tokens, due, choose, gate, pc, asked, got, todo>>
ghosts == <<spent, out, gone, clean, alone, crossed>>
vars == <<memory, enabled, store, minted, sessions, ghosts>>

\* Where each thread may be.
Places(t) ==
  {"idle", "keep", "writing"} \cup
  CASE t = "login" -> {"browser", "cleared"}
    [] t = "launch" -> {"head", "parts", "asking", "resumed", "storing"}
    [] t = "main" -> {"choosing", "forgetting", "forget"}
    [] OTHER -> {"gate", "asking"}
AllPlaces == UNION {Places(t) : t \in Threads}

TypeOK ==
  /\ tokens \in TokenSet \cup {None}
  /\ due \in BOOLEAN /\ choose \in BOOLEAN /\ enabled \in BOOLEAN /\ clean \in BOOLEAN
  /\ alone \in BOOLEAN /\ crossed \subseteq {"save", "resume"}
  /\ store \in [0..Parts -> Entry]
  /\ gate \in Calls \cup {None}
  /\ pc \in [Threads -> AllPlaces]
  /\ \A t \in Threads : pc[t] \in Places(t)
  /\ asked \in [Threads -> TokenSet \cup {None}]
  /\ got \in Seq(Entry)
  /\ todo \in [Threads -> Seq(Write)]
  /\ minted \in 0..MaxTokens
  /\ sessions \in 0..MaxSessions
  /\ spent \subseteq 1..MaxTokens
  /\ out \in 0..MaxSessions /\ gone \in 0..MaxSessions

Init ==
  /\ tokens = None
  /\ due = FALSE
  /\ choose = FALSE
  /\ enabled = TRUE
  /\ store = [i \in 0..Parts |-> None]
  /\ gate = None
  /\ pc = [t \in Threads |-> "idle"]
  /\ asked = [t \in Threads |-> None]
  /\ got = << >>
  /\ todo = [t \in Threads |-> << >>]
  /\ minted = 0
  /\ sessions = 0
  /\ spent = {}
  /\ out = 0
  /\ gone = 0
  /\ clean = TRUE /\ alone = TRUE
  /\ crossed = {}

-----------------------------------------------------------------------------
(* Credential Manager.                                                     *)

Remove(i) == [at |-> i, entry |-> None]

\* Mutant of Saving: the head only when there was none.
SavingWithoutHead(t) ==
  [i \in 1..t.parts |-> [at |-> i, entry |-> [of |-> t, at |-> i]]]
    \o IF store[0] = None
       THEN <<[at |-> 0, entry |-> [parts |-> t.parts, session |-> t.session]]>> ELSE << >>

\* save: the parts, then the head, then the tail of a longer token.
Saving(t) ==
  LET before == IF store[0] = None THEN 0 ELSE store[0].parts
      tail == IF before > t.parts THEN before - t.parts ELSE 0
  IN  [i \in 1..t.parts |-> [at |-> i, entry |-> [of |-> t, at |-> i]]]
        \o <<[at |-> 0, entry |-> [parts |-> t.parts, session |-> t.session]]>>
        \o [k \in 1..tail |-> Remove(t.parts + k)]

\* forget: the head, then every part there could be.
Forgetting == [k \in 1..(Parts + 1) |-> Remove(k - 1)]

\* The token set whose refresh token the entries s (a head and its parts)
\* spell, or None: nobody issued what parts of two tokens spell.
Spelled(s) ==
  LET t == s[2].of
  IN  IF t.parts = Len(s) - 1 /\ \A i \in 2..Len(s) : s[i] = [of |-> t, at |-> i - 1]
      THEN t ELSE None

\* One write under way at a time, unless writers may overlap.
NobodyWrites == \A t \in Threads : todo[t] = << >>
MayWrite == Overlap \/ NobodyWrites

\* A save that has entries left.
Saves == \E t \in Threads : \E k \in DOMAIN todo[t] : todo[t][k].entry # None

\* A Sign out taken before it is done, or a browser sign-in that cleared its
\* mark and has not stored its tokens.
SigningOut == pc["main"] \in {"choosing", "forgetting", "forget"} \/ pc["login"] = "cleared"

\* A resume that has not stored its tokens.
Resuming == pc["launch"] \in {"head", "parts", "asking", "resumed", "storing"}

Crossed(what, when) == crossed' = IF when THEN crossed \cup {what} ELSE crossed

\* keep_current reads the setting and the session (and save the old head),
\* then writes.
KeepCurrent(t) ==
  /\ pc[t] = "keep"
  /\ MayWrite
  /\ pc' = [pc EXCEPT ![t] = "writing"]
  /\ todo' = [todo EXCEPT ![t] =
       IF enabled /\ tokens # None /\ tokens.parts > 0 THEN Saving(tokens) ELSE Forgetting]
  /\ alone' = NobodyWrites
  /\ UNCHANGED <<tokens, due, choose, enabled, store, gate, asked, got, minted, sessions, spent, out, gone, clean, crossed>>

\* store.put or store.remove.  Sign out is done when its last entry is gone.
StoreWrite(t) ==
  /\ todo[t] # << >>
  /\ store' = [store EXCEPT ![Head(todo[t]).at] = Head(todo[t]).entry]
  /\ todo' = [todo EXCEPT ![t] = Tail(@)]
  /\ IF Len(todo[t]) > 1
     THEN UNCHANGED <<pc, gone, clean>>
     ELSE /\ pc' = [pc EXCEPT ![t] = "idle"]
          /\ gone' = IF pc[t] = "forget" THEN out ELSE gone
          /\ clean' = alone
  /\ UNCHANGED <<tokens, due, choose, enabled, gate, asked, got, minted, sessions, spent, out, alone, crossed>>

\* An error ends a save and a forget where they are.
StoreFails(t) ==
  /\ todo[t] # << >>
  /\ todo' = [todo EXCEPT ![t] = << >>]
  /\ pc' = [pc EXCEPT ![t] = "idle"]
  /\ clean' = FALSE
  /\ UNCHANGED <<tokens, due, choose, enabled, store, gate, asked, got, minted, sessions, spent, out, gone, alone, crossed>>

-----------------------------------------------------------------------------
(* get_fresh_token.                                                        *)

\* The access token comes within EARLY_RENEW of its expiry.
Expires ==
  /\ tokens # None
  /\ ~due
  /\ due' = TRUE
  /\ UNCHANGED <<tokens, choose, gate, pc, asked, got, todo, enabled, store, minted, sessions, ghosts>>

\* The first snapshot.  A call that need not refresh returns at once.
GetFreshToken(c) ==
  /\ pc[c] = "idle"
  /\ tokens # None
  /\ due
  /\ pc' = [pc EXCEPT ![c] = "gate"]
  /\ UNCHANGED <<tokens, due, choose, gate, asked, got, todo, enabled, store, minted, sessions, ghosts>>

\* Mutant of PassGate: whether the token still needs it is not asked again.
PassGateAnyway(c) ==
  /\ pc[c] = "gate"
  /\ gate = None
  /\ tokens # None /\ tokens.parts > 0
  /\ gate' = c
  /\ pc' = [pc EXCEPT ![c] = "asking"]
  /\ asked' = [asked EXCEPT ![c] = tokens]
  /\ UNCHANGED <<tokens, due, choose, got, todo, enabled, store, minted, sessions, ghosts>>

\* The gate, the second snapshot, and the request if it still needs one.
PassGate(c) ==
  /\ pc[c] = "gate"
  /\ gate = None
  /\ IF tokens # None /\ due /\ tokens.parts > 0
     THEN /\ gate' = c
          /\ pc' = [pc EXCEPT ![c] = "asking"]
          /\ asked' = [asked EXCEPT ![c] = tokens]
     ELSE /\ pc' = [pc EXCEPT ![c] = "idle"]
          /\ UNCHANGED <<gate, asked>>
  /\ UNCHANGED <<tokens, due, choose, got, todo, enabled, store, minted, sessions, ghosts>>

\* Mutant of StillCurrent: whoever is signed in.
StillCurrentAnyone(sent) == tokens # None

\* store_refreshed compares the refresh tokens.
StillCurrent(sent) == tokens # None /\ tokens.parts > 0 /\ tokens.id = sent.id

\* Microsoft's answer to renewing t: a set of the same session, perhaps
\* without a refresh token.
Renewed(t) == {[id |-> minted + 1, session |-> t.session, parts |-> n] : n \in Lengths}

\* keep, and keep_for_next_launch unless nobody is signed in any more.
RefreshAnswered(c) ==
  /\ pc[c] = "asking"
  /\ minted < MaxTokens
  /\ minted' = minted + 1
  /\ IF StillCurrent(asked[c])
     THEN /\ tokens' \in Renewed(asked[c])
          /\ due' = FALSE
          /\ spent' = spent \cup {asked[c].id}
     ELSE UNCHANGED <<tokens, due, spent>>
  /\ gate' = None
  /\ pc' = [pc EXCEPT ![c] = IF tokens # None THEN "keep" ELSE "idle"]
  /\ asked' = [asked EXCEPT ![c] = None]
  /\ UNCHANGED <<choose, got, todo, enabled, store, sessions, out, gone, clean, alone, crossed>>

\* Refused or unreachable: the call falls back on the token of now.
RefreshFailed(c) ==
  /\ pc[c] = "asking"
  /\ gate' = None
  /\ pc' = [pc EXCEPT ![c] = "idle"]
  /\ asked' = [asked EXCEPT ![c] = None]
  /\ UNCHANGED <<tokens, due, choose, got, todo, enabled, store, minted, sessions, ghosts>>

-----------------------------------------------------------------------------
(* sign_in.                                                                *)

SignIn ==
  /\ pc["login"] = "idle"
  /\ sessions < MaxSessions
  /\ pc' = [pc EXCEPT !["login"] = "browser"]
  /\ UNCHANGED <<tokens, due, choose, gate, asked, got, todo, enabled, store, minted, sessions, ghosts>>

\* Abandoned, refused, timed out.
SignInFailed ==
  /\ pc["login"] = "browser"
  /\ pc' = [pc EXCEPT !["login"] = "idle"]
  /\ UNCHANGED <<tokens, due, choose, gate, asked, got, todo, enabled, store, minted, sessions, ghosts>>

SignInAnswered ==
  /\ pc["login"] = "browser"
  /\ choose' = FALSE
  /\ pc' = [pc EXCEPT !["login"] = "cleared"]
  /\ UNCHANGED <<tokens, due, gate, asked, got, todo, enabled, store, minted, sessions, ghosts>>

SignedIn ==
  /\ pc["login"] = "cleared"
  /\ minted < MaxTokens
  /\ minted' = minted + 1
  /\ sessions' = sessions + 1
  /\ \E n \in Lengths : tokens' = [id |-> minted', session |-> sessions', parts |-> n]
  /\ due' = FALSE
  /\ pc' = [pc EXCEPT !["login"] = "keep"]
  /\ UNCHANGED <<choose, gate, asked, got, todo, enabled, store, ghosts>>

-----------------------------------------------------------------------------
(* resume_session.                                                         *)

\* Nobody is signed in, nobody signed out in this run, and the setting is on
\* (the three are read one after the other, at one moment here).
Resume ==
  /\ pc["launch"] = "idle"
  /\ tokens = None
  /\ ~choose
  /\ enabled
  /\ ResumeAnytime \/ (pc["main"] = "idle" /\ pc["login"] # "cleared")
  /\ pc' = [pc EXCEPT !["launch"] = "head"]
  /\ Crossed("resume", SigningOut)
  /\ UNCHANGED <<tokens, due, choose, gate, asked, got, todo, enabled, store, minted, sessions,
                 spent, out, gone, clean, alone>>

\* load, entry by entry; an entry that is missing is nothing kept.
LoadEntry ==
  /\ pc["launch"] \in {"head", "parts"}
  /\ LET entry == store[Len(got)]
         read == Append(got, entry)
     IN  IF entry = None
         THEN got' = << >> /\ pc' = [pc EXCEPT !["launch"] = "idle"]
         ELSE /\ got' = read
              /\ pc' = [pc EXCEPT !["launch"] =
                          IF Len(read) = read[1].parts + 1 THEN "asking" ELSE "parts"]
  /\ UNCHANGED <<tokens, due, choose, gate, asked, todo, enabled, store, minted, sessions, ghosts>>

\* The store cannot be read, Microsoft cannot be reached, or RESUME_WINDOW is over.
ResumeFailed ==
  /\ pc["launch"] \in {"head", "parts", "asking"}
  /\ got' = << >>
  /\ pc' = [pc EXCEPT !["launch"] = "idle"]
  /\ UNCHANGED <<tokens, due, choose, gate, asked, todo, enabled, store, minted, sessions, ghosts>>

\* A refused token is forgotten.
ResumeRefused ==
  /\ pc["launch"] = "asking"
  /\ MayWrite
  /\ got' = << >>
  /\ pc' = [pc EXCEPT !["launch"] = "writing"]
  /\ todo' = [todo EXCEPT !["launch"] = Forgetting]
  /\ alone' = NobodyWrites
  /\ UNCHANGED <<tokens, due, choose, gate, asked, enabled, store, minted, sessions,
                 spent, out, gone, clean, crossed>>

ResumeAnswered ==
  /\ pc["launch"] = "asking"
  /\ Spelled(got) # None
  /\ minted < MaxTokens
  /\ minted' = minted + 1
  /\ \E fresh \in Renewed(Spelled(got)) : asked' = [asked EXCEPT !["launch"] = fresh]
  /\ got' = << >>
  /\ pc' = [pc EXCEPT !["launch"] = "resumed"]
  /\ UNCHANGED <<tokens, due, choose, gate, todo, enabled, store, sessions, ghosts>>

\* A browser sign-in that finished first wins ...
ResumeChecks ==
  /\ pc["launch"] = "resumed"
  /\ IF tokens = None
     THEN pc' = [pc EXCEPT !["launch"] = "storing"] /\ UNCHANGED asked
     ELSE /\ pc' = [pc EXCEPT !["launch"] = "idle"]
          /\ asked' = [asked EXCEPT !["launch"] = None]
  /\ UNCHANGED <<tokens, due, choose, gate, got, todo, enabled, store, minted, sessions, ghosts>>

\* ... but the lock was let go: the tokens are stored under a second one.
Resumed ==
  /\ pc["launch"] = "storing"
  /\ tokens' = asked["launch"]
  /\ due' = FALSE
  /\ pc' = [pc EXCEPT !["launch"] = "keep"]
  /\ asked' = [asked EXCEPT !["launch"] = None]
  /\ UNCHANGED <<choose, gate, got, todo, enabled, store, minted, sessions, ghosts>>

-----------------------------------------------------------------------------
(* sign_out and set_stay_signed_in, on the main thread.                    *)

\* Offered to somebody who is signed in.
SignOut ==
  /\ pc["main"] = "idle"
  /\ tokens # None
  /\ ResumeAnytime \/ pc["launch"] = "idle"
  /\ tokens' = None
  /\ due' = FALSE
  /\ out' = sessions
  /\ pc' = [pc EXCEPT !["main"] = "choosing"]
  /\ Crossed("resume", Resuming)
  /\ UNCHANGED <<choose, gate, asked, got, todo, enabled, store, minted, sessions, spent, gone, clean, alone>>

\* Mutant of SignOutChooses: the next resume is not told.
SignOutForgetsChoice ==
  /\ pc["main"] = "choosing"
  /\ pc' = [pc EXCEPT !["main"] = "forgetting"]
  /\ UNCHANGED <<tokens, due, choose, gate, asked, got, todo, enabled, store, minted, sessions, ghosts>>

SignOutChooses ==
  /\ pc["main"] = "choosing"
  /\ choose' = TRUE
  /\ pc' = [pc EXCEPT !["main"] = "forgetting"]
  /\ UNCHANGED <<tokens, due, gate, asked, got, todo, enabled, store, minted, sessions, ghosts>>

SignOutForgets ==
  /\ pc["main"] = "forgetting"
  /\ MayWrite
  /\ pc' = [pc EXCEPT !["main"] = "forget"]
  /\ todo' = [todo EXCEPT !["main"] = Forgetting]
  /\ alone' = NobodyWrites
  /\ Crossed("save", Saves)
  /\ UNCHANGED <<tokens, due, choose, gate, asked, got, enabled, store, minted, sessions,
                 spent, out, gone, clean>>

SetStaySignedIn ==
  /\ pc["main"] = "idle"
  /\ enabled' = ~enabled
  /\ pc' = [pc EXCEPT !["main"] = "keep"]
  /\ UNCHANGED <<tokens, due, choose, gate, asked, got, todo, store, minted, sessions, ghosts>>

\* The application closes, or crashes, at any point; the store and the
\* setting are what the next run finds.  A Sign out that never answered
\* promised nothing to that run.
Close ==
  /\ tokens' = None /\ due' = FALSE /\ choose' = FALSE /\ gate' = None
  /\ pc' = [t \in Threads |-> "idle"]
  /\ asked' = [t \in Threads |-> None]
  /\ got' = << >>
  /\ todo' = [t \in Threads |-> << >>]
  /\ out' = gone
  /\ clean' = FALSE
  /\ UNCHANGED <<enabled, store, minted, sessions, spent, gone, alone, crossed>>

Call(c) == GetFreshToken(c) \/ PassGate(c) \/ RefreshAnswered(c) \/ RefreshFailed(c)
Login == SignIn \/ SignInFailed \/ SignInAnswered \/ SignedIn
Launch == Resume \/ LoadEntry \/ ResumeFailed \/ ResumeRefused \/ ResumeAnswered \/ ResumeChecks \/ Resumed
Main == SignOut \/ SignOutChooses \/ SignOutForgets \/ SetStaySignedIn

Next ==
  \/ \E c \in Calls : Call(c)
  \/ Login
  \/ Launch
  \/ Main
  \/ \E t \in Threads : KeepCurrent(t) \/ StoreWrite(t) \/ StoreFails(t)
  \/ Expires
  \/ Close

Spec == Init /\ [][Next]_vars

-----------------------------------------------------------------------------
\* "After Sign out in this run, never back in without the browser - even if
\* removing the kept copy failed", and once Sign out has answered without an
\* error, not in a later run either.
SignedOutForGood ==
  tokens # None => tokens.session > out /\ tokens.session > gone

\* What is kept, as a launch would read it now.
Kept ==
  IF store[0] = None \/ \E i \in 1..store[0].parts : store[i] = None
  THEN None
  ELSE Spelled([i \in 1..(store[0].parts + 1) |-> store[i - 1]])

\* Nobody is about to write, or in the middle of it, and the last write went
\* well and had the store to itself.
Settled ==
  /\ \A t \in Threads : pc[t] \notin {"keep", "choosing", "forgetting"} /\ todo[t] = << >>
  /\ clean

\* "A refresh hands back a new refresh token, and Stay signed in keeps that
\* one": once every writer is done, the kept session is the current token,
\* whole and under its own account, or there is none at all; and there is
\* none with the setting off.
KeptIsCurrent ==
  Settled => \/ store[0] = None
             \/ /\ enabled
                /\ tokens # None
                /\ Kept = tokens
                /\ store[0].session = tokens.session

\* "One refresh at a time, process-wide ... the rest, re-reading after the
\* gate, find a token that no longer needs it": nobody sends a refresh token
\* that a stored refresh has already replaced, or that is not due, and two
\* calls never ask together.
OneRefreshForAll ==
  \A c \in Calls : pc[c] = "asking" =>
    /\ asked[c].id \notin spent
    /\ tokens = asked[c] => due
    /\ \A d \in Calls \ {c} : pc[d] # "asking"

\* "A refresh for account A that finishes after the user signed in as B (or
\* signed out) must not replace B's tokens": a call that stops asking leaves
\* the same session signed in, or the same nobody.
RefreshKeepsSession ==
  [][\A c \in Calls : pc[c] = "asking" /\ pc'[c] \in {"idle", "keep"} =>
       \/ tokens' = tokens
       \/ tokens' = None
       \/ tokens # None /\ tokens'.session = tokens.session]_vars

\* "A browser sign-in that finished first wins; this one is dropped": who is
\* signed in changes from one session to another only by a browser sign-in.
BrowserSignInWins ==
  [][tokens # None /\ tokens' # None /\ tokens'.session # tokens.session
       => pc["login"] = "cleared"]_vars
=============================================================================
