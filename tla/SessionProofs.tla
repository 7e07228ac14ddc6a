--------------------------- MODULE SessionProofs ----------------------------
(***************************************************************************)
(* Proofs about Session, for any number of calls, tokens and parts.        *)
(*                                                                         *)
(* That a refresh keeps the session and that one refresh serves all hold   *)
(* whatever overlaps.  That a session signed out stays out needs writers   *)
(* that take turns, and a resume that does not run across a Sign out (the  *)
(* run session_overlap shows why).  It is not inductive: an old session    *)
(* could come back from an entry of the store, from what a launch has read *)
(* of it, or from an answer a launch waits for, so the invariant says of   *)
(* each that it is younger than the last Sign out that answered (Younger), *)
(* and that a launch is under way only while that is the last Sign out at  *)
(* all (ResumeInTime).  That what is kept is the current token needs only  *)
(* that writers take turns: while one writes, what it has left to write    *)
(* leads to the current token or to nothing (KeptLeads), and whoever makes *)
(* another token current, or switches the setting, is then to write too    *)
(* (Pending).                                                              *)
(***************************************************************************)
EXTENDS Session, SequenceTheorems, TLAPS

\* The numbers in use are of tokens issued.
Issued ==
  /\ tokens # None => tokens.id <= minted
  /\ \A t \in Threads : asked[t] # None => asked[t].id <= minted
  /\ \A i \in spent : i <= minted

\* What a call asks with is the current token or an older one; what a launch
\* was given is neither, until it is stored.
Distinct ==
  /\ \A c \in Calls : pc[c] = "asking" =>
       (tokens # None /\ tokens.id = asked[c].id => tokens = asked[c])
  /\ pc["launch"] \in {"resumed", "storing"} =>
       /\ tokens # None => tokens.id # asked["launch"].id
       /\ \A c \in Calls : pc[c] = "asking" => asked[c].id # asked["launch"].id
       /\ asked["launch"].id \notin spent
  /\ tokens # None => tokens.id \notin spent

\* The gate is held by the call that asks, and by nobody else.
GateHeld == \A c \in Calls : pc[c] = "asking" <=> gate = c

\* A thread with writes left is at its writes.
AtWrites == \A t \in Threads : todo[t] # << >> => pc[t] \in {"writing", "forget"}

\* A sign-in under way will be one session more.
RoomToSignIn == pc["login"] \in {"browser", "cleared"} => sessions < MaxSessions

\* A launch reads the head, then as many parts as the head says.
Reading ==
  /\ pc["launch"] \notin {"parts", "asking"} => got = << >>
  /\ pc["launch"] \in {"parts", "asking"} => Len(got) > 0 /\ got[1] \in HeadEntry
  /\ pc["launch"] = "parts" => Len(got) <= got[1].parts
  /\ pc["launch"] = "asking" => Len(got) = got[1].parts + 1
  /\ \A i \in 2..Len(got) : got[i] \in PartEntry

\* Who asks, or was answered, has the tokens for it.
Asked ==
  /\ \A c \in Calls : pc[c] = "asking" => asked[c] # None
  /\ pc["launch"] \in {"resumed", "storing"} => asked["launch"] # None

\* Heads are kept at 0 and parts elsewhere.
InPlace(at, entry) ==
  entry # None => IF at = 0 THEN entry \in HeadEntry ELSE entry \in PartEntry
StoreInPlace ==
  /\ \A i \in 0..Parts : InPlace(i, store[i])
  /\ \A t \in Threads : \A k \in 1..Len(todo[t]) : InPlace(todo[t][k].at, todo[t][k].entry)

\* TypeOK in two halves: what the threads do to the store, and the rest.
FlowOK ==
  /\ pc \in [Threads -> AllPlaces]
  /\ \A t \in Threads : pc[t] \in Places(t)
  /\ store \in [0..Parts -> Entry]
  /\ todo \in [Threads -> Seq(Write)]
  /\ got \in Seq(Entry)
DataOK ==
  /\ tokens \in TokenSet \cup {None}
  /\ due \in BOOLEAN /\ choose \in BOOLEAN /\ enabled \in BOOLEAN /\ clean \in BOOLEAN
  /\ gate \in Calls \cup {None}
  /\ asked \in [Threads -> TokenSet \cup {None}]
  /\ minted \in 0..MaxTokens
  /\ sessions \in 0..MaxSessions
  /\ spent \subseteq 1..MaxTokens
  /\ out \in 0..MaxSessions /\ gone \in 0..MaxSessions

\* What watches the writers.
WatchOK == alone \in BOOLEAN /\ crossed \subseteq {"save", "resume"}

Flow == FlowOK /\ AtWrites /\ Reading /\ StoreInPlace
TInv == DataOK /\ WatchOK /\ RoomToSignIn /\ Asked /\ Flow

\* What is asked with has not been replaced, and was due.
Unspent ==
  \A c \in Calls : pc[c] = "asking" =>
    asked[c].id \notin spent /\ (tokens = asked[c] => due)

RInv == TInv /\ Issued /\ Distinct /\ GateHeld /\ Unspent

-----------------------------------------------------------------------------
\* At most one thread is writing.
OneWriter == \A t, u \in Threads : todo[t] # << >> /\ todo[u] # << >> => t = u

\* Somebody has changed who is signed in, or the setting, and has still to
\* decide what to write.
Pending == \E t \in Threads : pc[t] \in {"keep", "choosing", "forgetting"}

\* What is kept of the tokens t, at each entry.
EntryOf(t, i) == IF i = 0 THEN [parts |-> t.parts, session |-> t.session]
                          ELSE [of |-> t, at |-> i]

\* Once the writes w are done, nothing is kept, or the current token is.
Leads(w) ==
  \/ /\ \A k \in 1..Len(w) : w[k].entry = None
     /\ store[0] = None \/ \E k \in 1..Len(w) : w[k].at = 0
  \/ /\ enabled /\ tokens # None /\ tokens.parts > 0
     /\ \A k \in 1..Len(w) : w[k].at <= tokens.parts => w[k].entry = EntryOf(tokens, w[k].at)
     /\ \A i \in 0..tokens.parts :
          store[i] = EntryOf(tokens, i) \/ \E k \in 1..Len(w) : w[k].at = i

\* With nobody to decide, what is there, or the writes under way, are right.
KeptLeads ==
  ~Pending =>
    /\ clean /\ (\A t \in Threads : todo[t] = << >>) => Leads(<< >>)
    /\ \A t \in Threads : todo[t] # << >> => Leads(todo[t])

\* A writer that had the store to itself leaves the truth there, whatever was
\* there before; and nothing else counts as a write that went well.
KInv ==
  /\ TInv
  /\ clean /\ NobodyWrites => alone
  /\ alone => OneWriter /\ KeptLeads

\* Nothing that could become the session again is as old as `gone`.
Younger ==
  /\ \A i \in 1..Parts : store[i] # None => store[i].of.session > gone
  /\ \A t \in Threads : \A k \in 1..Len(todo[t]) :
       todo[t][k].at # 0 /\ todo[t][k].entry # None => todo[t][k].entry.of.session > gone
  /\ \A i \in 2..Len(got) : got[i].of.session > gone
  /\ pc["launch"] \in {"resumed", "storing"} => asked["launch"].session > gone

\* What a Sign out has still to remove; what has come since in the place of
\* the rest, or is on its way, is of a later session.
ForgetGoesOn ==
  pc["main"] = "forget" =>
    LET left == Len(todo["main"])
    IN  /\ left \in 1..(Parts + 1)
        /\ \A k \in 1..left : todo["main"][k] = Remove(Parts - left + k)
        /\ \A i \in 1..Parts : i <= Parts - left /\ store[i] # None => store[i].of.session > out
        /\ \A u \in Threads \ {"main"} : \A k \in 1..Len(todo[u]) :
             todo[u][k].at # 0 /\ todo[u][k].entry # None => todo[u][k].entry.of.session > out

\* A resume is under way only when the last Sign out has answered, and a
\* Sign out only when no resume is.
ResumeInTime ==
  /\ pc["main"] \in {"choosing", "forgetting", "forget"} => ~Resuming
  /\ Resuming => out = gone
  /\ tokens = None /\ ~choose /\ pc["main"] # "choosing" /\ pc["login"] # "cleared"
       => out = gone

\* Why nobody signed out comes back, beside the refresh.
Outside ==
  /\ gone <= out /\ out <= sessions
  /\ Younger
  /\ ForgetGoesOn
  /\ ResumeInTime
  /\ SignedOutForGood
SInv == RInv /\ (crossed = {} => Outside)

-----------------------------------------------------------------------------
\* What the assumption says of each constant and each thread.
LEMMA Constants ==
  /\ Parts \in Nat /\ MaxTokens \in Nat /\ MaxSessions \in Nat
  /\ Lengths \subseteq 0..Parts
  /\ "login" \in Threads /\ "launch" \in Threads /\ "main" \in Threads
  /\ "login" \notin Calls /\ "launch" \notin Calls /\ "main" \notin Calls
  /\ Calls \subseteq Threads
  /\ None \notin Calls /\ None \notin TokenSet
BY SessionAssumption DEF Threads


LEMMA PlacesOf ==
  /\ \A c \in Calls : Places(c) = {"idle", "keep", "writing", "gate", "asking"}
  /\ Places("login") = {"idle", "keep", "writing", "browser", "cleared"}
  /\ Places("launch") = {"idle", "keep", "writing", "head", "parts", "asking", "resumed", "storing"}
  /\ Places("main") = {"idle", "keep", "writing", "choosing", "forgetting", "forget"}
BY Constants DEF Places

\* What is to be written is entries in their places, of one token or of none.
LEMMA SavingWrites ==
  ASSUME NEW t \in TokenSet, t.parts > 0, InPlace(0, store[0]), store[0] \in Entry
  PROVE  /\ Saving(t) \in Seq(Write)
         /\ Saving(t) # << >>
         /\ \A k \in 1..Len(Saving(t)) :
              /\ InPlace(Saving(t)[k].at, Saving(t)[k].entry)
              /\ Saving(t)[k].at # 0 /\ Saving(t)[k].entry # None => Saving(t)[k].entry.of = t
              /\ Saving(t)[k].at <= t.parts => Saving(t)[k].entry = EntryOf(t, Saving(t)[k].at)
         /\ \A i \in 0..t.parts : \E k \in 1..Len(Saving(t)) : Saving(t)[k].at = i
<1> DEFINE before == IF store[0] = None THEN 0 ELSE store[0].parts
           tail == IF before > t.parts THEN before - t.parts ELSE 0
           A == [i \in 1..t.parts |-> [at |-> i, entry |-> [of |-> t, at |-> i]]]
           B == <<[at |-> 0, entry |-> [parts |-> t.parts, session |-> t.session]]>>
           C == [k \in 1..tail |-> Remove(t.parts + k)]
           Good(w) == /\ w \in Write
                      /\ InPlace(w.at, w.entry)
                      /\ w.at # 0 /\ w.entry # None => w.entry.of = t
                      /\ w.at <= t.parts => w.entry = EntryOf(t, w.at)
<1>1. Parts \in Nat /\ t.parts \in 1..Parts /\ t.session \in 1..MaxSessions
  <2>1. t.parts \in Lengths /\ t.session \in 1..MaxSessions
    BY DEF TokenSet
  <2>2. Parts \in Nat /\ Lengths \subseteq 0..Parts
    BY SessionAssumption
  <2>3. t.parts \in 0..Parts
    BY <2>1, <2>2
  <2> QED BY <2>1, <2>2, <2>3
<1>2. before \in 0..Parts
  <2>1. CASE store[0] = None
    BY <2>1, <1>1
  <2>2. CASE store[0] # None
    <3>1. store[0] \in HeadEntry
      BY <2>2 DEF InPlace
    <3> QED BY <3>1, <2>2, <1>1 DEF HeadEntry
  <2> QED BY <2>1, <2>2
<1>3. tail \in Nat /\ t.parts + tail <= Parts
  <2> HIDE DEF before
  <2> QED BY <1>1, <1>2
<1> HIDE DEF before, tail
<1>4. \A i \in 1..t.parts : Good(A[i]) /\ A[i].at = i
  BY <1>1 DEF Write, Entry, PartEntry, InPlace, EntryOf
<1>5. Good(B[1]) /\ B[1].at = 0 /\ Len(B) = 1
  BY <1>1 DEF Write, Entry, HeadEntry, InPlace, EntryOf
<1>6. \A k \in 1..tail : Good(C[k])
  <2> TAKE k \in 1..tail
  <2>1. t.parts + k \in 1..Parts /\ ~(t.parts + k <= t.parts)
    BY <1>1, <1>3
  <2> QED BY <2>1 DEF Write, Entry, InPlace, Remove
<1>7. A \in Seq(Write) /\ Len(A) = t.parts
  <2> DEFINE W(i) == [at |-> i, entry |-> [of |-> t, at |-> i]]
  <2> HIDE DEF W
  <2>1. A = [i \in 1..t.parts |-> W(i)]
    BY DEF W
  <2>2. \A i \in 1..t.parts : W(i) \in Write
    BY <1>4 DEF W
  <2> HIDE DEF A
  <2> QED BY <1>1, <2>1, <2>2
<1>8. B \in Seq(Write)
  BY <1>5
<1>9. C \in Seq(Write) /\ Len(C) = tail
  BY <1>3, <1>6
<1> HIDE DEF A, B, C, Good
<1>10. /\ A \o B \in Seq(Write) /\ Len(A \o B) = t.parts + 1
       /\ \A k \in 1..(t.parts + 1) : Good((A \o B)[k])
       /\ \A k \in 1..t.parts : (A \o B)[k].at = k
       /\ (A \o B)[t.parts + 1].at = 0
  <2>1. \A k \in 1..(t.parts + 1) : (A \o B)[k] = IF k <= t.parts THEN A[k] ELSE B[k - t.parts]
    <3>1. \A k \in 1..(Len(A) + Len(B)) : (A \o B)[k] = IF k <= Len(A) THEN A[k] ELSE B[k - Len(A)]
      BY <1>7, <1>8, ConcatProperties
    <3> QED BY <3>1, <1>5, <1>7
  <2>2. \A k \in 1..(t.parts + 1) : k <= t.parts => k \in 1..t.parts
    BY <1>1
  <2>3. \A k \in 1..(t.parts + 1) : ~(k <= t.parts) => k - t.parts = 1
    BY <1>1
  <2>4. \A k \in 1..(t.parts + 1) : Good((A \o B)[k])
    BY <2>1, <2>2, <2>3, <1>4, <1>5
  <2>5. A \o B \in Seq(Write) /\ Len(A \o B) = Len(A) + Len(B)
    BY <1>7, <1>8, ConcatProperties
  <2>6. \A k \in 1..t.parts : (A \o B)[k].at = k
    <3> TAKE k \in 1..t.parts
    <3>1. k \in 1..(t.parts + 1) /\ k <= t.parts
      BY <1>1
    <3>2. (A \o B)[k] = A[k]
      BY <2>1, <3>1
    <3> QED BY <1>4, <3>2
  <2>7. (A \o B)[t.parts + 1].at = 0
    <3>1. /\ t.parts + 1 \in 1..(t.parts + 1) /\ ~(t.parts + 1 <= t.parts)
          /\ (t.parts + 1) - t.parts = 1
      BY <1>1
    <3>2. (A \o B)[t.parts + 1] = B[(t.parts + 1) - t.parts]
      BY <2>1, <3>1
    <3> QED BY <1>5, <3>1, <3>2
  <2> QED BY <2>4, <2>5, <2>6, <2>7, <1>5, <1>7
<1> DEFINE S == (A \o B) \o C
<1>11. /\ S \in Seq(Write) /\ Len(S) = t.parts + 1 + tail
       /\ \A k \in 1..Len(S) : Good(S[k])
       /\ \A k \in 1..t.parts : S[k].at = k
       /\ S[t.parts + 1].at = 0
  <2>1. \A k \in 1..(t.parts + 1 + tail) :
          S[k] = IF k <= t.parts + 1 THEN (A \o B)[k] ELSE C[k - (t.parts + 1)]
    <3> DEFINE AB == A \o B
    <3>1. AB \in Seq(Write) /\ Len(AB) = t.parts + 1
      BY <1>10
    <3> HIDE DEF AB
    <3>2. \A k \in 1..(Len(AB) + Len(C)) : (AB \o C)[k] = IF k <= Len(AB) THEN AB[k] ELSE C[k - Len(AB)]
      BY <3>1, <1>9, ConcatProperties
    <3>3. \A k \in 1..(t.parts + 1 + tail) :
            (AB \o C)[k] = IF k <= t.parts + 1 THEN AB[k] ELSE C[k - (t.parts + 1)]
      BY <3>1, <3>2, <1>9
    <3> QED BY <3>3 DEF AB
  <2> HIDE DEF S
  <2>4. S \in Seq(Write) /\ Len(S) = Len(A \o B) + Len(C)
    BY <1>9, <1>10, ConcatProperties DEF S
  <2>2. S \in Seq(Write) /\ Len(S) = t.parts + 1 + tail
    BY <2>4, <1>9, <1>10
  <2>3. ASSUME NEW k \in 1..(t.parts + 1 + tail)
        PROVE  Good(S[k])
    <3>1. CASE k <= t.parts + 1
      <4>1. k \in 1..(t.parts + 1)
        BY <3>1, <1>1, <1>3
      <4> QED BY <4>1, <3>1, <2>1, <1>10
    <3>2. CASE ~(k <= t.parts + 1)
      <4>1. k - (t.parts + 1) \in 1..tail
        BY <3>2, <1>1, <1>3
      <4> QED BY <4>1, <3>2, <2>1, <1>6
    <3> QED BY <3>1, <3>2
  <2>5. ASSUME NEW k \in 1..(t.parts + 1) PROVE S[k] = (A \o B)[k]
    <3>1. k \in 1..(t.parts + 1 + tail) /\ k <= t.parts + 1
      BY <1>1, <1>3
    <3> QED BY <2>1, <3>1 DEF S
  <2>6. /\ \A k \in 1..t.parts : k \in 1..(t.parts + 1)
        /\ t.parts + 1 \in 1..(t.parts + 1)
    BY <1>1
  <2>7. (\A k \in 1..t.parts : S[k].at = k) /\ S[t.parts + 1].at = 0
    BY <2>5, <2>6, <1>10
  <2> QED BY <2>2, <2>3, <2>7
<1>12. Saving(t) = S
  BY DEF Saving, before, tail, A, B, C
<1> HIDE DEF S
<1>13. \A i \in 0..t.parts : \E k \in 1..Len(S) : S[k].at = i
  <2>1. ASSUME NEW l, l = t.parts + 1 + tail
        PROVE  t.parts + 1 \in 1..l /\ \A i \in 0..t.parts : i # 0 => i \in 1..t.parts /\ i \in 1..l
    BY <2>1, <1>1, <1>3
  <2>2. /\ t.parts + 1 \in 1..Len(S)
        /\ \A i \in 0..t.parts : i # 0 => i \in 1..t.parts /\ i \in 1..Len(S)
    BY <2>1, <1>11
  <2> QED BY <2>2, <1>11
<1>14. Len(S) # 0
  BY <1>1, <1>3, <1>11
<1>15. \A k \in 1..Len(S) :
         /\ InPlace(S[k].at, S[k].entry)
         /\ S[k].at # 0 /\ S[k].entry # None => S[k].entry.of = t
         /\ S[k].at <= t.parts => S[k].entry = EntryOf(t, S[k].at)
  BY <1>11 DEF Good
<1>16. S \in Seq(Write) /\ S # << >>
  BY <1>11, <1>14
<1> QED BY <1>12, <1>13, <1>15, <1>16

LEMMA ForgettingWrites ==
  /\ Forgetting \in Seq(Write)
  /\ Len(Forgetting) = Parts + 1
  /\ \A k \in 1..Len(Forgetting) :
       Forgetting[k] = Remove(k - 1) /\ Remove(k - 1).entry = None
<1>1. Parts \in Nat
  BY SessionAssumption
<1>2. \A k \in 1..(Parts + 1) : Remove(k - 1) \in Write /\ Remove(k - 1).entry = None
  <2> TAKE k \in 1..(Parts + 1)
  <2>1. k - 1 \in 0..Parts
    BY <1>1
  <2> QED BY <2>1 DEF Remove, Write, Entry
<1> DEFINE R(k) == Remove(k - 1)
<1> HIDE DEF R
<1>3. Forgetting = [k \in 1..(Parts + 1) |-> R(k)]
  BY DEF Forgetting, R
<1>4. \A k \in 1..(Parts + 1) : R(k) \in Write /\ R(k).entry = None
  BY <1>2 DEF R
<1>5. \A k \in 1..(Parts + 1) : R(k) = Remove(k - 1)
  BY DEF R
<1> QED BY <1>1, <1>3, <1>4, <1>5

LEMMA ForgettingInPlace ==
  /\ Forgetting \in Seq(Write)
  /\ \A k \in 1..Len(Forgetting) : InPlace(Forgetting[k].at, Forgetting[k].entry)
BY ForgettingWrites DEF InPlace

\* A thread's step from one of its places to another.
LEMMA StepOfThread ==
  ASSUME FlowOK, NEW t \in Threads, NEW p \in Places(t), pc' = [pc EXCEPT ![t] = p]
  PROVE  /\ pc' \in [Threads -> AllPlaces]
         /\ \A u \in Threads : pc'[u] \in Places(u)
         /\ pc'[t] = p
         /\ \A u \in Threads \ {t} : pc'[u] = pc[u]
<1>1. p \in AllPlaces
  BY DEF AllPlaces
<1> QED BY <1>1 DEF FlowOK

\* A step of a thread that has no writes left, makes none and leaves what
\* was read alone, or throws it away.
LEMMA QuietStep ==
  ASSUME Flow, NEW t \in Threads, NEW p \in Places(t), pc' = [pc EXCEPT ![t] = p],
         pc[t] \notin {"writing", "forget"},
         UNCHANGED <<store, todo>>,
         \/ t # "launch" /\ got' = got
         \/ t = "launch" /\ got' = << >> /\ p \notin {"parts", "asking"}
  PROVE  Flow'
<1>1. /\ pc' \in [Threads -> AllPlaces]
      /\ \A u \in Threads : pc'[u] \in Places(u)
      /\ pc'[t] = p
      /\ \A u \in Threads \ {t} : pc'[u] = pc[u]
  BY StepOfThread DEF Flow
<1>2. FlowOK'
  <2>1. got' \in Seq(Entry)
    <3>1. got \in Seq(Entry) /\ << >> \in Seq(Entry) /\ (got' = got \/ got' = << >>)
      BY DEF Flow, FlowOK
    <3> QED BY <3>1
  <2> QED BY <1>1, <2>1 DEF Flow, FlowOK
<1>3. AtWrites'
  BY <1>1 DEF Flow, AtWrites
<1>4. Reading'
  <2>1. CASE t # "launch"
    BY <2>1, <1>1, Constants DEF Flow, Reading
  <2>2. CASE t = "launch"
    BY <2>2, <1>1 DEF Reading
  <2> QED BY <2>1, <2>2
<1>5. StoreInPlace'
  BY DEF Flow, StoreInPlace, InPlace
<1> QED BY <1>2, <1>3, <1>4, <1>5 DEF Flow

\* A step of a thread that has decided what to write.
LEMMA WriteStep ==
  ASSUME Flow, NEW t \in Threads, NEW p \in Places(t), pc' = [pc EXCEPT ![t] = p],
         p \in {"writing", "forget"},
         NEW w \in Seq(Write), todo' = [todo EXCEPT ![t] = w],
         \A k \in 1..Len(w) : InPlace(w[k].at, w[k].entry),
         UNCHANGED store,
         \/ t # "launch" /\ got' = got
         \/ t = "launch" /\ got' = << >>
  PROVE  Flow'
<1>1. /\ pc' \in [Threads -> AllPlaces]
      /\ \A u \in Threads : pc'[u] \in Places(u)
      /\ pc'[t] = p
      /\ \A u \in Threads \ {t} : pc'[u] = pc[u]
  BY StepOfThread DEF Flow
<1>2. /\ todo' \in [Threads -> Seq(Write)]
      /\ todo'[t] = w
      /\ \A u \in Threads \ {t} : todo'[u] = todo[u]
  BY DEF Flow, FlowOK
<1>3. FlowOK'
  <2>1. got' \in Seq(Entry)
    <3>1. got \in Seq(Entry) /\ << >> \in Seq(Entry) /\ (got' = got \/ got' = << >>)
      BY DEF Flow, FlowOK
    <3> QED BY <3>1
  <2> QED BY <1>1, <1>2, <2>1 DEF Flow, FlowOK
<1>4. AtWrites'
  BY <1>1, <1>2 DEF Flow, AtWrites
<1>5. Reading'
  <2>1. CASE t # "launch"
    BY <2>1, <1>1, Constants DEF Flow, Reading
  <2>2. CASE t = "launch"
    BY <2>2, <1>1 DEF Reading
  <2> QED BY <2>1, <2>2
<1>6. StoreInPlace'
  BY <1>2 DEF Flow, StoreInPlace, InPlace
<1> QED BY <1>3, <1>4, <1>5, <1>6 DEF Flow

LEMMA HeadAndTail ==
  ASSUME NEW s \in Seq(Write), s # << >>
  PROVE  /\ Len(s) > 0 /\ Head(s) = s[1] /\ Head(s) \in Write
         /\ Tail(s) \in Seq(Write) /\ Len(Tail(s)) = Len(s) - 1
         /\ \A k \in 1..Len(Tail(s)) : k + 1 \in 1..Len(s) /\ Tail(s)[k] = s[k + 1]
BY HeadTailProperties

\* What one write changes.
LEMMA OneWrite ==
  ASSUME Flow, NEW t \in Threads, StoreWrite(t)
  PROVE  /\ store' \in [0..Parts -> Entry]
         /\ todo[t][1].at \in 0..Parts /\ store'[todo[t][1].at] = todo[t][1].entry
         /\ \A i \in 0..Parts : i # todo[t][1].at => store'[i] = store[i]
         /\ todo' \in [Threads -> Seq(Write)]
         /\ Len(todo'[t]) = Len(todo[t]) - 1 /\ Len(todo[t]) > 0
         /\ \A k \in 1..Len(todo'[t]) : k + 1 \in 1..Len(todo[t]) /\ todo'[t][k] = todo[t][k + 1]
         /\ \A u \in Threads \ {t} : todo'[u] = todo[u]
         /\ pc[t] \in {"writing", "forget"}
         /\ pc' \in [Threads -> AllPlaces]
         /\ \A u \in Threads : pc'[u] \in Places(u)
         /\ \A u \in Threads \ {t} : pc'[u] = pc[u]
         /\ IF Len(todo[t]) > 1 THEN pc' = pc ELSE pc'[t] = "idle"
<1>1. todo[t] \in Seq(Write) /\ todo[t] # << >> /\ todo \in [Threads -> Seq(Write)]
  BY DEF Flow, FlowOK, StoreWrite
<1>2. pc[t] \in {"writing", "forget"}
  BY <1>1 DEF Flow, AtWrites
<1>3. todo[t][1] \in Write
  BY <1>1, HeadAndTail
<1>4. /\ store' \in [0..Parts -> Entry]
      /\ todo[t][1].at \in 0..Parts /\ store'[todo[t][1].at] = todo[t][1].entry
      /\ \A i \in 0..Parts : i # todo[t][1].at => store'[i] = store[i]
  BY <1>1, <1>3, HeadAndTail DEF StoreWrite, Write, Flow, FlowOK
<1>5. /\ todo' \in [Threads -> Seq(Write)]
      /\ todo'[t] = Tail(todo[t])
      /\ \A u \in Threads \ {t} : todo'[u] = todo[u]
  BY <1>1, HeadAndTail DEF StoreWrite
<1>6. /\ pc' \in [Threads -> AllPlaces]
      /\ \A u \in Threads : pc'[u] \in Places(u)
      /\ \A u \in Threads \ {t} : pc'[u] = pc[u]
      /\ IF Len(todo[t]) > 1 THEN pc' = pc ELSE pc'[t] = "idle"
  <2>1. CASE Len(todo[t]) > 1
    BY <2>1 DEF StoreWrite, Flow, FlowOK
  <2>2. CASE ~(Len(todo[t]) > 1)
    <3>1. "idle" \in Places(t)
      BY PlacesOf DEF Threads
    <3> QED BY <2>2, <3>1, StepOfThread DEF StoreWrite, Flow
  <2> QED BY <2>1, <2>2
<1> HIDE DEF StoreWrite
<1> QED BY <1>1, <1>2, <1>4, <1>5, <1>6, HeadAndTail

LEMMA TInvInit == Init => TInv
<1> SUFFICES ASSUME Init PROVE TInv
  OBVIOUS
<1>1. \A t \in Threads : "idle" \in Places(t)
  BY PlacesOf DEF Threads
<1>2. DataOK /\ RoomToSignIn /\ Asked
  <2>1. asked \in [Threads -> TokenSet \cup {None}]
    BY DEF Init
  <2>2. spent \subseteq 1..MaxTokens /\ minted \in 0..MaxTokens
    BY Constants DEF Init
  <2>3. sessions \in 0..MaxSessions /\ out \in 0..MaxSessions /\ gone \in 0..MaxSessions
    BY Constants DEF Init
  <2>4. RoomToSignIn /\ Asked
    BY Constants DEF Init, RoomToSignIn, Asked
  <2> QED BY <2>1, <2>2, <2>3, <2>4 DEF Init, DataOK
<1>3. FlowOK
  BY <1>1, Constants DEF Init, FlowOK, Entry, AllPlaces
<1>4. AtWrites /\ Reading /\ StoreInPlace
  BY Constants DEF Init, AtWrites, Reading, StoreInPlace, InPlace
<1>5. WatchOK
  BY DEF Init, WatchOK
<1> QED BY <1>2, <1>3, <1>4, <1>5 DEF TInv, Flow

\* Who watches the writers is told by those that begin to write and by what
\* a Sign out and a resume may cross.
LEMMA WatchStep ==
  ASSUME WatchOK, [Next]_vars
  PROVE  WatchOK'
<1> USE DEF ghosts
<1>1. CASE UNCHANGED <<alone, crossed>>
  BY <1>1 DEF WatchOK
<1>2. ASSUME NEW t \in Threads, KeepCurrent(t) PROVE WatchOK'
  BY <1>2 DEF KeepCurrent, NobodyWrites, WatchOK
<1>3. CASE Resume \/ SignOut
  BY <1>3 DEF Resume, SignOut, Crossed, WatchOK
<1>4. CASE ResumeRefused
  BY <1>4 DEF ResumeRefused, NobodyWrites, WatchOK
<1>5. CASE SignOutForgets
  BY <1>5 DEF SignOutForgets, NobodyWrites, Crossed, WatchOK
<1>6. ASSUME NEW c \in Calls, Call(c) PROVE WatchOK'
  BY <1>1, <1>6 DEF Call, GetFreshToken, PassGate, RefreshAnswered, RefreshFailed
<1>7. CASE Login
  BY <1>1, <1>7 DEF Login, SignIn, SignInFailed, SignInAnswered, SignedIn
<1>8. CASE LoadEntry \/ ResumeFailed \/ ResumeAnswered \/ ResumeChecks \/ Resumed
  BY <1>1, <1>8 DEF LoadEntry, ResumeFailed, ResumeAnswered, ResumeChecks, Resumed
<1>9. CASE SignOutChooses \/ SetStaySignedIn \/ Expires \/ Close
  BY <1>1, <1>9 DEF SignOutChooses, SetStaySignedIn, Expires, Close
<1>10. ASSUME NEW t \in Threads, StoreWrite(t) \/ StoreFails(t) PROVE WatchOK'
  BY <1>1, <1>10 DEF StoreWrite, StoreFails
<1>11. CASE UNCHANGED vars
  BY <1>1, <1>11 DEF vars
<1> QED BY <1>2, <1>3, <1>4, <1>5, <1>6, <1>7, <1>8, <1>9, <1>10, <1>11 DEF Next, Launch, Main

LEMMA TInvStep == TInv /\ [Next]_vars => TInv'
<1> SUFFICES ASSUME TInv, [Next]_vars PROVE TInv'
  OBVIOUS
<1>0. WatchOK'
  BY WatchStep DEF TInv
<1> USE <1>0, Constants DEF TInv
<1>1. ASSUME NEW c \in Calls, GetFreshToken(c)
      PROVE  TInv'
  <2>1. Flow'
    BY <1>1, QuietStep, PlacesOf DEF GetFreshToken
  <2>2. DataOK' /\ RoomToSignIn' /\ Asked'
    BY <1>1, PlacesOf DEF GetFreshToken, DataOK, RoomToSignIn, Asked, Flow, FlowOK, ghosts
  <2> QED BY <2>1, <2>2
<1>2. ASSUME NEW c \in Calls, PassGate(c)
      PROVE  TInv'
  <2>1. Flow'
    BY <1>2, QuietStep, PlacesOf DEF PassGate
  <2>2. CASE tokens # None /\ due /\ tokens.parts > 0
    BY <1>2, <2>2, <2>1 DEF PassGate, DataOK, RoomToSignIn, Asked, Flow, FlowOK, ghosts
  <2>3. CASE ~(tokens # None /\ due /\ tokens.parts > 0)
    BY <1>2, <2>3, <2>1 DEF PassGate, DataOK, RoomToSignIn, Asked, Flow, FlowOK, ghosts
  <2> QED BY <2>2, <2>3
<1>3. ASSUME NEW c \in Calls, RefreshAnswered(c)
      PROVE  TInv'
  <2>1. Flow'
    BY <1>3, QuietStep, PlacesOf DEF RefreshAnswered
  <2>2. asked[c] \in TokenSet /\ minted' = minted + 1 /\ minted' \in 1..MaxTokens
    BY <1>3 DEF RefreshAnswered, DataOK, Asked
  <2>3. tokens' \in TokenSet \cup {None} /\ due' \in BOOLEAN /\ spent' \subseteq 1..MaxTokens
    <3>1. CASE StillCurrent(asked[c])
      <4>1. \A u \in Renewed(asked[c]) : u \in TokenSet
        BY <2>2 DEF Renewed, TokenSet
      <4>2. tokens' \in Renewed(asked[c]) /\ due' = FALSE /\ spent' = spent \cup {asked[c].id}
        BY <1>3, <3>1 DEF RefreshAnswered
      <4>3. asked[c].id \in 1..MaxTokens
        BY <2>2 DEF TokenSet
      <4> QED BY <4>1, <4>2, <4>3 DEF DataOK
    <3>2. CASE ~StillCurrent(asked[c])
      BY <1>3, <3>2 DEF RefreshAnswered, DataOK
    <3> QED BY <3>1, <3>2
  <2>4. asked' \in [Threads -> TokenSet \cup {None}] /\ gate' \in Calls \cup {None}
    BY <1>3 DEF RefreshAnswered, DataOK
  <2>5. RoomToSignIn' /\ Asked'
    BY <1>3 DEF RefreshAnswered, RoomToSignIn, Asked, Flow, FlowOK, DataOK
  <2>6. DataOK'
    BY <1>3, <2>2, <2>3, <2>4 DEF RefreshAnswered, DataOK
  <2> QED BY <2>1, <2>5, <2>6
<1>4. ASSUME NEW c \in Calls, RefreshFailed(c)
      PROVE  TInv'
  <2>1. Flow'
    BY <1>4, QuietStep, PlacesOf DEF RefreshFailed
  <2>2. DataOK' /\ RoomToSignIn' /\ Asked'
    BY <1>4, PlacesOf DEF RefreshFailed, DataOK, RoomToSignIn, Asked, Flow, FlowOK, ghosts
  <2> QED BY <2>1, <2>2
<1>5. ASSUME SignIn
      PROVE  TInv'
  <2>1. Flow'
    BY <1>5, QuietStep, PlacesOf DEF SignIn
  <2>2. DataOK' /\ RoomToSignIn' /\ Asked'
    BY <1>5, PlacesOf DEF SignIn, DataOK, RoomToSignIn, Asked, Flow, FlowOK, ghosts
  <2> QED BY <2>1, <2>2
<1>6. ASSUME SignInFailed
      PROVE  TInv'
  <2>1. Flow'
    BY <1>6, QuietStep, PlacesOf DEF SignInFailed
  <2>2. DataOK' /\ RoomToSignIn' /\ Asked'
    BY <1>6, PlacesOf DEF SignInFailed, DataOK, RoomToSignIn, Asked, Flow, FlowOK, ghosts
  <2> QED BY <2>1, <2>2
<1>7. ASSUME SignInAnswered
      PROVE  TInv'
  <2>1. Flow'
    BY <1>7, QuietStep, PlacesOf DEF SignInAnswered
  <2>2. DataOK' /\ RoomToSignIn' /\ Asked'
    BY <1>7, PlacesOf DEF SignInAnswered, DataOK, RoomToSignIn, Asked, Flow, FlowOK, ghosts
  <2> QED BY <2>1, <2>2
<1>8. ASSUME SignedIn
      PROVE  TInv'
  <2>1. Flow'
    BY <1>8, QuietStep, PlacesOf DEF SignedIn
  <2>2. minted' \in 1..MaxTokens /\ sessions' \in 1..MaxSessions
    BY <1>8 DEF SignedIn, DataOK, RoomToSignIn
  <2>3. tokens' \in TokenSet
    BY <1>8, <2>2 DEF SignedIn, TokenSet
  <2>4. RoomToSignIn' /\ Asked'
    BY <1>8 DEF SignedIn, RoomToSignIn, Asked, Flow, FlowOK
  <2>5. DataOK'
    <3>1. minted' \in 0..MaxTokens /\ sessions' \in 0..MaxSessions
      BY <2>2
    <3>2. due' = FALSE /\ UNCHANGED <<choose, gate, asked, enabled, clean, spent, out, gone>>
      BY <1>8 DEF SignedIn, ghosts
    <3> QED BY <2>3, <3>1, <3>2 DEF DataOK
  <2> QED BY <2>1, <2>4, <2>5
<1>9. ASSUME Resume
      PROVE  TInv'
  <2>1. Flow'
    <3>1. got = << >>
      BY <1>9 DEF Resume, Flow, Reading
    <3> QED BY <1>9, <3>1, QuietStep, PlacesOf DEF Resume
  <2>2. DataOK' /\ RoomToSignIn' /\ Asked'
    BY <1>9 DEF Resume, DataOK, RoomToSignIn, Asked, Flow, FlowOK, ghosts
  <2> QED BY <2>1, <2>2
<1>10. ASSUME ResumeFailed
      PROVE  TInv'
  <2>1. Flow'
    BY <1>10, QuietStep, PlacesOf DEF ResumeFailed
  <2>2. DataOK' /\ RoomToSignIn' /\ Asked'
    BY <1>10, PlacesOf DEF ResumeFailed, DataOK, RoomToSignIn, Asked, Flow, FlowOK, ghosts
  <2> QED BY <2>1, <2>2
<1>11. ASSUME ResumeAnswered
      PROVE  TInv'
  <2>1. Flow'
    BY <1>11, QuietStep, PlacesOf DEF ResumeAnswered
  <2>2. Spelled(got) \in TokenSet
    <3>1. Len(got) > 1 /\ got[2] \in PartEntry
      BY <1>11 DEF ResumeAnswered, Flow, Reading, HeadEntry
    <3> QED BY <1>11, <3>1 DEF ResumeAnswered, Spelled, PartEntry
  <2>3. minted' \in 1..MaxTokens
    BY <1>11 DEF ResumeAnswered, DataOK
  <2>4. \A u \in Renewed(Spelled(got)) : u \in TokenSet
    BY <1>11, <2>2, <2>3 DEF ResumeAnswered, Renewed, TokenSet
  <2>5. asked' \in [Threads -> TokenSet \cup {None}]
    BY <1>11, <2>4 DEF ResumeAnswered, DataOK
  <2>6. RoomToSignIn' /\ Asked'
    <3>1. asked'["launch"] \in TokenSet /\ \A c \in Calls : asked'[c] = asked[c] /\ pc'[c] = pc[c]
      BY <1>11, <2>4 DEF ResumeAnswered, DataOK, Flow, FlowOK
    <3>2. asked'["launch"] # None
      BY <3>1, <2>4, Constants
    <3> QED BY <1>11, <3>1, <3>2 DEF ResumeAnswered, RoomToSignIn, Asked, Flow, FlowOK
  <2> QED BY <1>11, <2>1, <2>3, <2>5, <2>6 DEF ResumeAnswered, DataOK, ghosts
<1>12. ASSUME ResumeChecks
      PROVE  TInv'
  <2>1. Flow'
    <3>1. got = << >>
      BY <1>12 DEF ResumeChecks, Flow, Reading
    <3>2. CASE tokens = None
      BY <1>12, <3>1, <3>2, QuietStep, PlacesOf DEF ResumeChecks
    <3>3. CASE tokens # None
      BY <1>12, <3>1, <3>3, QuietStep, PlacesOf DEF ResumeChecks
    <3> QED BY <3>2, <3>3
  <2>2. DataOK' /\ RoomToSignIn' /\ Asked'
    BY <1>12 DEF ResumeChecks, DataOK, RoomToSignIn, Asked, Flow, FlowOK, ghosts
  <2> QED BY <2>1, <2>2
<1>13. ASSUME Resumed
      PROVE  TInv'
  <2>1. Flow'
    <3>1. got = << >>
      BY <1>13 DEF Resumed, Flow, Reading
    <3> QED BY <1>13, <3>1, QuietStep, PlacesOf DEF Resumed
  <2>2. DataOK' /\ RoomToSignIn' /\ Asked'
    BY <1>13 DEF Resumed, DataOK, RoomToSignIn, Asked, Flow, FlowOK, ghosts
  <2> QED BY <2>1, <2>2
<1>14. ASSUME SignOut
      PROVE  TInv'
  <2>1. Flow'
    BY <1>14, QuietStep, PlacesOf DEF SignOut
  <2>2. DataOK' /\ RoomToSignIn' /\ Asked'
    BY <1>14, PlacesOf DEF SignOut, DataOK, RoomToSignIn, Asked, Flow, FlowOK, ghosts
  <2> QED BY <2>1, <2>2
<1>15. ASSUME SignOutChooses
      PROVE  TInv'
  <2>1. Flow'
    BY <1>15, QuietStep, PlacesOf DEF SignOutChooses
  <2>2. DataOK' /\ RoomToSignIn' /\ Asked'
    BY <1>15, PlacesOf DEF SignOutChooses, DataOK, RoomToSignIn, Asked, Flow, FlowOK, ghosts
  <2> QED BY <2>1, <2>2
<1>16. ASSUME SetStaySignedIn
      PROVE  TInv'
  <2>1. Flow'
    BY <1>16, QuietStep, PlacesOf DEF SetStaySignedIn
  <2>2. DataOK' /\ RoomToSignIn' /\ Asked'
    BY <1>16, PlacesOf DEF SetStaySignedIn, DataOK, RoomToSignIn, Asked, Flow, FlowOK, ghosts
  <2> QED BY <2>1, <2>2
<1>17. ASSUME NEW t \in Threads, KeepCurrent(t)
       PROVE  TInv'
  <2>1. "writing" \in Places(t) /\ pc[t] = "keep"
    BY <1>17, PlacesOf DEF KeepCurrent, Threads
  <2>2. t = "launch" => got' = << >>
    BY <1>17 DEF KeepCurrent, Flow, Reading
  <2>3. got' = got
    BY <1>17 DEF KeepCurrent
  <2>4. Flow'
    <3>1. CASE enabled /\ tokens # None /\ tokens.parts > 0
      <4>1. tokens \in TokenSet /\ InPlace(0, store[0]) /\ store[0] \in Entry
        BY <3>1 DEF DataOK, Flow, FlowOK, StoreInPlace
      <4>2. todo' = [todo EXCEPT ![t] = Saving(tokens)]
        BY <1>17, <3>1 DEF KeepCurrent
      <4> QED BY <1>17, <2>1, <2>2, <2>3, <4>1, <4>2, <3>1, SavingWrites, WriteStep DEF KeepCurrent
    <3>2. CASE ~(enabled /\ tokens # None /\ tokens.parts > 0)
      <4>1. todo' = [todo EXCEPT ![t] = Forgetting]
        BY <1>17, <3>2 DEF KeepCurrent
      <4> QED BY <1>17, <2>1, <2>2, <2>3, <4>1, ForgettingInPlace, WriteStep DEF KeepCurrent
    <3> QED BY <3>1, <3>2
  <2>5. DataOK' /\ RoomToSignIn' /\ Asked'
    BY <1>17 DEF KeepCurrent, DataOK, RoomToSignIn, Asked, Flow, FlowOK, ghosts
  <2> QED BY <2>4, <2>5
<1>18. ASSUME ResumeRefused
       PROVE  TInv'
  <2>1. Flow'
    BY <1>18, PlacesOf, ForgettingInPlace, WriteStep DEF ResumeRefused
  <2>2. DataOK' /\ RoomToSignIn' /\ Asked'
    BY <1>18 DEF ResumeRefused, DataOK, RoomToSignIn, Asked, Flow, FlowOK, ghosts
  <2> QED BY <2>1, <2>2
<1>19. ASSUME SignOutForgets
       PROVE  TInv'
  <2>1. Flow'
    BY <1>19, PlacesOf, ForgettingInPlace, WriteStep DEF SignOutForgets
  <2>2. DataOK' /\ RoomToSignIn' /\ Asked'
    BY <1>19 DEF SignOutForgets, DataOK, RoomToSignIn, Asked, Flow, FlowOK, ghosts
  <2> QED BY <2>1, <2>2
<1>20. ASSUME LoadEntry
       PROVE  TInv'
  <2>1. /\ pc["launch"] \in {"head", "parts"} /\ Len(got) \in 0..Parts
        /\ store[Len(got)] # None =>
             IF got = << >> THEN store[Len(got)] \in HeadEntry ELSE store[Len(got)] \in PartEntry
    <3>1. pc["launch"] \in {"head", "parts"} /\ got \in Seq(Entry)
      BY <1>20 DEF LoadEntry, Flow, FlowOK
    <3>2. CASE got = << >>
      BY <3>1, <3>2 DEF Flow, StoreInPlace, InPlace
    <3>3. CASE got # << >>
      <4>1. pc["launch"] = "parts" /\ Len(got) > 0 /\ Len(got) <= got[1].parts /\ got[1] \in HeadEntry
        BY <3>1, <3>3 DEF Flow, Reading
      <4>2. Len(got) \in 1..Parts
        BY <4>1, <3>1 DEF HeadEntry
      <4> QED BY <3>1, <3>3, <4>2 DEF Flow, StoreInPlace, InPlace
    <3> QED BY <3>2, <3>3
  <2>2. CASE store[Len(got)] = None
    <3>1. Flow'
      BY <1>20, <2>1, <2>2, QuietStep, PlacesOf DEF LoadEntry
    <3>2. DataOK' /\ RoomToSignIn' /\ Asked'
      BY <1>20, <2>2 DEF LoadEntry, DataOK, RoomToSignIn, Asked, Flow, FlowOK, ghosts
    <3> QED BY <3>1, <3>2
  <2>3. CASE store[Len(got)] # None
    <3> DEFINE read == Append(got, store[Len(got)])
               p == IF Len(read) = read[1].parts + 1 THEN "asking" ELSE "parts"
    <3>1. /\ got' = read /\ pc' = [pc EXCEPT !["launch"] = p]
          /\ UNCHANGED <<tokens, due, choose, gate, asked, todo, enabled, store, minted, sessions, ghosts>>
      BY <1>20, <2>3 DEF LoadEntry
    <3>2. /\ read \in Seq(Entry) /\ Len(read) = Len(got) + 1
          /\ \A i \in 1..Len(got) : read[i] = got[i]
          /\ read[Len(got) + 1] = store[Len(got)]
      <4>1. got \in Seq(Entry) /\ store[Len(got)] \in Entry
        BY <2>1 DEF Flow, FlowOK
      <4> QED BY <4>1, AppendProperties
    <3> HIDE DEF read
    <3>3. p \in Places("launch") /\ p \in {"asking", "parts"}
      BY PlacesOf
    <3>4. /\ pc' \in [Threads -> AllPlaces]
          /\ \A u \in Threads : pc'[u] \in Places(u)
          /\ pc'["launch"] = p
          /\ \A u \in Threads \ {"launch"} : pc'[u] = pc[u]
      BY <3>1, <3>3, StepOfThread DEF Flow
    <3>5. FlowOK'
      BY <3>1, <3>2, <3>4 DEF Flow, FlowOK
    <3>6. AtWrites'
      BY <3>1, <3>4, <2>1 DEF Flow, AtWrites
    <3>7. StoreInPlace'
      BY <3>1 DEF Flow, StoreInPlace, InPlace, ghosts
    <3>8. Reading'
      <4>1. CASE got = << >>
        <5>1. Len(read) = 1 /\ read[1] \in HeadEntry
          BY <4>1, <3>2, <2>1, <2>3
        <5>2. read[1].parts \in 1..Parts
          BY <5>1 DEF HeadEntry
        <5>3. Len(got') = 1 /\ got'[1] = read[1] /\ got'[1] \in HeadEntry
          BY <3>1, <5>1
        <5>4. pc'["launch"] = IF 1 = got'[1].parts + 1 THEN "asking" ELSE "parts"
          BY <3>4, <5>1, <5>3
        <5> HIDE DEF p
        <5> QED BY <5>2, <5>3, <5>4 DEF Reading
      <4>2. CASE got # << >>
        <5>1. /\ Len(got) \in 1..Parts /\ got[1] \in HeadEntry /\ read[1] = got[1]
              /\ Len(got) <= got[1].parts
              /\ \A i \in 2..Len(got) : got[i] \in PartEntry
          <6>1. got \in Seq(Entry) /\ Len(got) > 0
            BY <4>2 DEF Flow, FlowOK
          <6>2. pc["launch"] = "parts"
            BY <6>1, <2>1 DEF Flow, Reading
          <6> QED BY <6>1, <6>2, <3>2, <2>1 DEF Flow, Reading
        <5>2. \A i \in 2..Len(read) : read[i] \in PartEntry
          <6> TAKE i \in 2..Len(read)
          <6>1. CASE i <= Len(got)
            BY <6>1, <5>1, <3>2
          <6>2. CASE i = Len(got) + 1
            BY <6>2, <4>2, <3>2, <2>1, <2>3
          <6> QED BY <6>1, <6>2, <5>1, <3>2
        <5>3. read[1].parts \in 1..Parts
          BY <5>1 DEF HeadEntry
        <5> QED BY <3>1, <3>2, <3>4, <5>1, <5>2, <5>3 DEF Reading
      <4> QED BY <4>1, <4>2
    <3>9. DataOK' /\ RoomToSignIn' /\ Asked'
      BY <3>1, <3>3, <3>4 DEF DataOK, RoomToSignIn, Asked, ghosts
    <3> QED BY <3>5, <3>6, <3>7, <3>8, <3>9 DEF Flow
  <2> QED BY <2>2, <2>3
<1>21. ASSUME NEW t \in Threads, StoreWrite(t)
       PROVE  TInv'
  <2>1. got' = got
    BY <1>21 DEF StoreWrite
  <2>2. FlowOK'
    BY <1>21, <2>1, OneWrite DEF Flow, FlowOK
  <2>3. AtWrites'
    <3>1. ASSUME NEW u \in Threads, todo'[u] # << >> PROVE pc'[u] \in {"writing", "forget"}
      <4>1. CASE u = t
        <5>1. todo'[t] \in Seq(Write) /\ todo[t] \in Seq(Write)
          BY <2>2 DEF FlowOK, Flow
        <5>2. Len(todo'[t]) > 0
          BY <5>1, <3>1, <4>1
        <5> QED BY <1>21, <4>1, <5>1, <5>2, OneWrite
      <4>2. CASE u # t
        BY <1>21, <3>1, <4>2, OneWrite DEF Flow, AtWrites
      <4> QED BY <4>1, <4>2
    <3> QED BY <3>1 DEF AtWrites
  <2>4. Reading'
    <3>1. CASE t # "launch"
      BY <1>21, <3>1, <2>1, OneWrite DEF Flow, Reading
    <3>2. CASE t = "launch"
      BY <1>21, <3>2, <2>1, OneWrite DEF Flow, Reading
    <3> QED BY <3>1, <3>2
  <2>5. StoreInPlace'
    <3>1. \A i \in 0..Parts : InPlace(i, store'[i])
      <4>1. InPlace(todo[t][1].at, todo[t][1].entry)
        BY <1>21, OneWrite DEF Flow, FlowOK, StoreInPlace
      <4> QED BY <1>21, <4>1, OneWrite DEF Flow, StoreInPlace
    <3>2. \A u \in Threads : \A k \in 1..Len(todo'[u]) : InPlace(todo'[u][k].at, todo'[u][k].entry)
      <4>1. \A k \in 1..Len(todo'[t]) : InPlace(todo'[t][k].at, todo'[t][k].entry)
        <5> TAKE k \in 1..Len(todo'[t])
        <5>1. k + 1 \in 1..Len(todo[t]) /\ todo'[t][k] = todo[t][k + 1]
          BY <1>21, OneWrite
        <5>2. InPlace(todo[t][k + 1].at, todo[t][k + 1].entry)
          BY <5>1 DEF Flow, StoreInPlace
        <5> QED BY <5>1, <5>2
      <4>2. \A u \in Threads \ {t} : todo'[u] = todo[u]
        BY <1>21, OneWrite
      <4> QED BY <4>1, <4>2 DEF Flow, StoreInPlace
    <3> QED BY <3>1, <3>2 DEF StoreInPlace, InPlace
  <2>6. DataOK' /\ RoomToSignIn' /\ Asked'
    <3>1. /\ pc'["login"] \in {"browser", "cleared"} => pc["login"] = pc'["login"]
          /\ \A c \in Calls : pc'[c] = "asking" => pc[c] = "asking"
          /\ pc'["launch"] \in {"resumed", "storing"} => pc["launch"] = pc'["launch"]
      BY <1>21, OneWrite
    <3>2. clean' \in BOOLEAN /\ gone' \in 0..MaxSessions
      BY <1>21 DEF StoreWrite, DataOK, WatchOK
    <3>3. DataOK'
      BY <1>21, <3>2 DEF StoreWrite, DataOK
    <3> QED BY <1>21, <3>1, <3>3 DEF StoreWrite, RoomToSignIn, Asked
  <2> QED BY <2>2, <2>3, <2>4, <2>5, <2>6 DEF Flow
<1>22. ASSUME NEW t \in Threads, StoreFails(t)
       PROVE  TInv'
  <2>1. pc[t] \in {"writing", "forget"} /\ "idle" \in Places(t)
    BY <1>22, PlacesOf DEF StoreFails, Flow, AtWrites, Threads
  <2>2. /\ pc' \in [Threads -> AllPlaces]
        /\ \A u \in Threads : pc'[u] \in Places(u)
        /\ pc'[t] = "idle"
        /\ \A u \in Threads \ {t} : pc'[u] = pc[u]
    BY <1>22, <2>1, StepOfThread DEF StoreFails, Flow
  <2>3. /\ todo' \in [Threads -> Seq(Write)]
        /\ todo'[t] = << >>
        /\ \A u \in Threads \ {t} : todo'[u] = todo[u]
        /\ store' = store /\ got' = got
    BY <1>22 DEF StoreFails, Flow, FlowOK
  <2>4. FlowOK' /\ AtWrites'
    BY <2>2, <2>3 DEF Flow, FlowOK, AtWrites
  <2>5. Reading'
    <3>1. CASE t # "launch"
      BY <3>1, <2>2, <2>3 DEF Flow, Reading
    <3>2. CASE t = "launch"
      BY <3>2, <2>1, <2>2, <2>3 DEF Flow, Reading
    <3> QED BY <3>1, <3>2
  <2>6. StoreInPlace'
    <3>1. \A k \in 1..Len(todo'[t]) : InPlace(todo'[t][k].at, todo'[t][k].entry)
      BY <2>3
    <3>2. \A u \in Threads : \A k \in 1..Len(todo'[u]) : InPlace(todo'[u][k].at, todo'[u][k].entry)
      BY <2>3, <3>1 DEF Flow, StoreInPlace
    <3> QED BY <2>3, <3>2 DEF Flow, StoreInPlace, InPlace
  <2>7. DataOK' /\ RoomToSignIn' /\ Asked'
    BY <1>22, <2>2 DEF StoreFails, DataOK, RoomToSignIn, Asked
  <2> QED BY <2>4, <2>5, <2>6, <2>7 DEF Flow
<1>23. ASSUME Expires
       PROVE  TInv'
  BY <1>23 DEF Expires, Flow, FlowOK, DataOK, AtWrites, RoomToSignIn, Asked, Reading, StoreInPlace, InPlace, ghosts
<1>24. ASSUME Close
       PROVE  TInv'
  <2>1. \A t \in Threads : "idle" \in Places(t) /\ "idle" \in AllPlaces
    BY PlacesOf DEF Threads, AllPlaces
  <2>2. FlowOK'
    BY <1>24, <2>1 DEF Close, Flow, FlowOK
  <2>3. AtWrites' /\ Reading' /\ StoreInPlace'
    BY <1>24 DEF Close, Flow, AtWrites, Reading, StoreInPlace, InPlace
  <2>4. RoomToSignIn' /\ Asked'
    BY <1>24 DEF Close, RoomToSignIn, Asked
  <2>5. DataOK'
    BY <1>24 DEF Close, DataOK
  <2> QED BY <2>2, <2>3, <2>4, <2>5 DEF Flow
<1>25. CASE UNCHANGED vars
  BY <1>25 DEF vars, memory, Flow, FlowOK, DataOK, AtWrites, RoomToSignIn, Asked, Reading, StoreInPlace, InPlace, ghosts
<1> HIDE DEF TInv
<1> QED BY <1>1, <1>2, <1>3, <1>4, <1>5, <1>6, <1>7, <1>8, <1>9, <1>10, <1>11, <1>12, <1>13, <1>14, <1>15, <1>16, <1>17, <1>18, <1>19, <1>20, <1>21, <1>22, <1>23, <1>24, <1>25 DEF Next, Call, Login, Launch, Main

\* Every variable keeps its type, whatever overlaps.
THEOREM TypeCorrect == Spec => []TypeOK
<1>1. TInv => TypeOK
  BY DEF TInv, DataOK, WatchOK, Flow, FlowOK, TypeOK
<1> QED BY <1>1, TInvInit, TInvStep, PTL DEF Spec

-----------------------------------------------------------------------------
(* The refresh.                                                            *)

\* A step that touches neither the tokens, nor the gate, nor who asks.
Aside ==
  /\ UNCHANGED <<tokens, due, gate, asked, minted, spent>>
  /\ \A c \in Calls : pc'[c] = "asking" <=> pc[c] = "asking"
  /\ pc'["launch"] \in {"resumed", "storing"} => pc["launch"] \in {"resumed", "storing"}

LEMMA AsideSteps ==
  ASSUME TInv,
         \/ \E c \in Calls : GetFreshToken(c)
         \/ SignIn \/ SignInFailed \/ SignInAnswered
         \/ Resume \/ LoadEntry \/ ResumeFailed \/ ResumeRefused
         \/ SignOutChooses \/ SignOutForgets \/ SetStaySignedIn
         \/ \E t \in Threads : KeepCurrent(t) \/ StoreWrite(t) \/ StoreFails(t)
         \/ UNCHANGED vars
  PROVE  Aside
<1> USE Constants DEF TInv, Flow, FlowOK, Aside, ghosts
<1>1. ASSUME NEW c \in Calls, GetFreshToken(c)
      PROVE  Aside
  BY <1>1 DEF GetFreshToken
<1>2. CASE SignIn
  BY <1>2 DEF SignIn
<1>3. CASE SignInFailed
  BY <1>3 DEF SignInFailed
<1>4. CASE SignInAnswered
  BY <1>4 DEF SignInAnswered
<1>5. CASE Resume
  BY <1>5 DEF Resume
<1>6. CASE LoadEntry
  BY <1>6 DEF LoadEntry
<1>7. CASE ResumeFailed
  BY <1>7 DEF ResumeFailed
<1>8. CASE ResumeRefused
  BY <1>8 DEF ResumeRefused
<1>9. CASE SignOutChooses
  BY <1>9 DEF SignOutChooses
<1>10. CASE SignOutForgets
  BY <1>10 DEF SignOutForgets
<1>11. CASE SetStaySignedIn
  BY <1>11 DEF SetStaySignedIn
<1>12. ASSUME NEW t \in Threads, KeepCurrent(t)
      PROVE  Aside
  BY <1>12 DEF KeepCurrent
<1>13. ASSUME NEW t \in Threads, StoreWrite(t)
      PROVE  Aside
  BY <1>13, OneWrite DEF StoreWrite
<1>14. ASSUME NEW t \in Threads, StoreFails(t)
      PROVE  Aside
  <2>1. pc[t] \in {"writing", "forget"}
    BY <1>14 DEF StoreFails, AtWrites
  <2> QED BY <1>14, <2>1 DEF StoreFails
<1>15. CASE UNCHANGED vars
  BY <1>15 DEF vars, memory
<1> HIDE DEF Aside
<1> QED BY <1>1, <1>2, <1>3, <1>4, <1>5, <1>6, <1>7, <1>8, <1>9, <1>10, <1>11, <1>12, <1>13, <1>14, <1>15

LEMMA RInvInit == Init => RInv
BY TInvInit, Constants DEF Init, RInv, Issued, Distinct, GateHeld, Unspent

LEMMA RInvStep == RInv /\ [Next]_vars => RInv'
<1> SUFFICES ASSUME RInv, [Next]_vars PROVE RInv'
  OBVIOUS
<1>1. TInv /\ TInv'
  BY TInvStep DEF RInv
<1>2. /\ tokens # None => tokens.id \in Nat
      /\ \A t \in Threads : asked[t] # None => asked[t].id \in Nat
      /\ minted \in Nat
      /\ \A i \in spent : i \in Nat
      /\ pc \in [Threads -> AllPlaces]
      /\ asked \in [Threads -> TokenSet \cup {None}]
  <2>1. \A u \in TokenSet : u.id \in Nat
    BY DEF TokenSet
  <2>2. /\ tokens \in TokenSet \cup {None}
        /\ asked \in [Threads -> TokenSet \cup {None}]
        /\ pc \in [Threads -> AllPlaces]
        /\ minted \in 0..MaxTokens /\ spent \subseteq 1..MaxTokens
    BY <1>1 DEF TInv, DataOK, Flow, FlowOK
  <2> QED BY <2>1, <2>2, Constants
<1>3. Asked /\ Asked'
  BY <1>1 DEF TInv
<1> USE Constants
<1>4. CASE Aside
  BY <1>1, <1>4 DEF RInv, Aside, Issued, Distinct, GateHeld, Unspent
<1>5. ASSUME NEW c \in Calls, PassGate(c)
      PROVE  RInv'
  <2>1. CASE tokens # None /\ due /\ tokens.parts > 0
    BY <1>1, <1>2, <1>3, <1>5, <2>1 DEF RInv, PassGate, Issued, Distinct, GateHeld, Unspent, ghosts
  <2>2. CASE ~(tokens # None /\ due /\ tokens.parts > 0)
    BY <1>1, <1>2, <1>3, <1>5, <2>2 DEF RInv, PassGate, Issued, Distinct, GateHeld, Unspent, ghosts
  <2> QED BY <2>1, <2>2
<1>6. ASSUME NEW c \in Calls, RefreshAnswered(c)
      PROVE  RInv'
  <2>1. \A d \in Calls : pc[d] = "asking" <=> d = c
    BY <1>6 DEF RInv, GateHeld, RefreshAnswered
  <2>2. /\ minted' = minted + 1 /\ gate' = None
        /\ \A d \in Calls : pc'[d] # "asking"
        /\ \A t \in Threads \ {c} : asked'[t] = asked[t]
        /\ asked'[c] = None
        /\ pc'["launch"] = pc["launch"]
    BY <1>2, <1>6, <2>1 DEF RefreshAnswered
  <2>3. CASE StillCurrent(asked[c])
    <3>1. tokens'.id = minted + 1 /\ spent' = spent \cup {asked[c].id}
      BY <1>6, <2>3 DEF RefreshAnswered, Renewed
    <3>2. asked[c].id <= minted /\ asked[c].id \in Nat
      BY <1>2, <1>3, <1>6 DEF RInv, Issued, RefreshAnswered, Asked
    <3>3. GateHeld' /\ Unspent'
      BY <2>2 DEF GateHeld, Unspent
    <3>4. Issued'
      BY <1>2, <2>2, <3>1, <3>2 DEF RInv, Issued
    <3>5. tokens' # None => tokens'.id \notin spent'
      BY <1>2, <3>1, <3>2 DEF RInv, Issued
    <3>6. pc'["launch"] \in {"resumed", "storing"} =>
            /\ tokens' # None => tokens'.id # asked'["launch"].id
            /\ asked'["launch"].id \notin spent'
      <4>1. pc["launch"] \in {"resumed", "storing"} =>
              /\ asked["launch"].id <= minted /\ asked["launch"].id \in Nat
              /\ asked["launch"].id # asked[c].id /\ asked["launch"].id \notin spent
        BY <1>2, <1>3, <2>1 DEF RInv, Issued, Distinct, Asked
      <4> QED BY <1>2, <2>2, <3>1, <4>1
    <3>7. Distinct'
      BY <2>2, <3>5, <3>6 DEF Distinct
    <3> QED BY <1>1, <3>3, <3>4, <3>7 DEF RInv
  <2>4. CASE ~StillCurrent(asked[c])
    <3>1. tokens' = tokens /\ spent' = spent
      BY <1>6, <2>4 DEF RefreshAnswered
    <3>2. GateHeld' /\ Unspent'
      BY <2>2 DEF GateHeld, Unspent
    <3>3. Issued'
      BY <1>2, <2>2, <3>1 DEF RInv, Issued
    <3>4. Distinct'
      BY <2>2, <3>1 DEF RInv, Distinct
    <3> QED BY <1>1, <3>2, <3>3, <3>4 DEF RInv
  <2> QED BY <2>3, <2>4
<1>7. ASSUME NEW c \in Calls, RefreshFailed(c)
      PROVE  RInv'
  BY <1>1, <1>2, <1>7 DEF RInv, RefreshFailed, Issued, Distinct, GateHeld, Unspent, ghosts
<1>8. CASE SignedIn
  <2>1. /\ minted' = minted + 1 /\ tokens'.id = minted + 1
        /\ UNCHANGED <<gate, asked, spent>>
        /\ \A t \in Threads \ {"login"} : pc'[t] = pc[t]
    BY <1>2, <1>8 DEF SignedIn, ghosts
  <2>2. GateHeld'
    BY <2>1 DEF RInv, GateHeld
  <2>3. Issued'
    BY <1>2, <2>1 DEF RInv, Issued
  <2>4. \A c \in Calls : pc[c] = "asking" => asked[c].id <= minted /\ asked[c].id \in Nat
    BY <1>2, <1>3 DEF RInv, Issued, Asked
  <2>5. pc["launch"] \in {"resumed", "storing"} =>
          asked["launch"].id <= minted /\ asked["launch"].id \in Nat
    BY <1>2, <1>3 DEF RInv, Issued, Asked
  <2>6. minted + 1 \notin spent
    BY <1>2 DEF RInv, Issued
  <2>7. Unspent'
    BY <1>2, <2>1, <2>4 DEF RInv, Unspent
  <2>8. Distinct'
    BY <1>2, <2>1, <2>4, <2>5, <2>6 DEF RInv, Distinct
  <2> QED BY <1>1, <2>2, <2>3, <2>7, <2>8 DEF RInv
<1>9. CASE ResumeAnswered
  <2>1. PICK fresh \in Renewed(Spelled(got)) : asked' = [asked EXCEPT !["launch"] = fresh]
    BY <1>9 DEF ResumeAnswered
  <2>2. fresh.id = minted + 1
    BY <2>1 DEF Renewed
  <2>3. /\ asked'["launch"] = fresh
        /\ \A t \in Threads \ {"launch"} : asked'[t] = asked[t]
        /\ \A c \in Calls : pc'[c] = pc[c]
        /\ minted' = minted + 1
        /\ UNCHANGED <<tokens, due, gate, spent>>
    BY <1>2, <1>9, <2>1 DEF ResumeAnswered, ghosts
  <2>4. GateHeld' /\ Unspent'
    BY <2>3 DEF RInv, GateHeld, Unspent
  <2>5. Issued'
    BY <1>2, <2>2, <2>3 DEF RInv, Issued
  <2>6. /\ tokens # None => tokens.id # minted + 1
        /\ \A c \in Calls : pc[c] = "asking" => asked[c].id # minted + 1
        /\ minted + 1 \notin spent
    BY <1>2, <1>3 DEF RInv, Issued, Asked
  <2>7. Distinct'
    BY <2>2, <2>3, <2>6 DEF RInv, Distinct
  <2> QED BY <1>1, <2>4, <2>5, <2>7 DEF RInv
<1>10. CASE ResumeChecks
  BY <1>1, <1>2, <1>10 DEF RInv, ResumeChecks, Issued, Distinct, GateHeld, Unspent, ghosts
<1>11. CASE Resumed
  BY <1>1, <1>2, <1>3, <1>11 DEF RInv, Resumed, Issued, Distinct, GateHeld, Unspent, Asked, ghosts
<1>12. CASE SignOut
  BY <1>1, <1>2, <1>3, <1>12 DEF RInv, SignOut, Issued, Distinct, GateHeld, Unspent, Asked
<1>13. CASE Expires
  BY <1>1, <1>2, <1>13 DEF RInv, Expires, Issued, Distinct, GateHeld, Unspent, ghosts
<1>14. CASE Close
  BY <1>1, <1>2, <1>14 DEF RInv, Close, Issued, Distinct, GateHeld, Unspent
<1> QED BY <1>1, <1>4, <1>5, <1>6, <1>7, <1>8, <1>9, <1>10, <1>11, <1>12, <1>13, <1>14, AsideSteps
        DEF Next, Call, Login, Launch, Main

\* Nobody asks with a token that was replaced or is not due, and nobody asks
\* together with somebody else, whatever overlaps.
THEOREM OneRefreshForAllHolds == Spec => []OneRefreshForAll
<1>1. RInv => OneRefreshForAll
  BY DEF RInv, GateHeld, Unspent, OneRefreshForAll
<1> QED BY <1>1, RInvInit, RInvStep, PTL DEF Spec

\* A refresh leaves the same session signed in, or nobody, whatever overlaps:
\* a call that stops asking was answered, was refused, or the application
\* closed.
THEOREM RefreshKeepsSessionHolds == Spec => RefreshKeepsSession
<1> DEFINE Keeps ==
      \A c \in Calls : pc[c] = "asking" /\ pc'[c] \in {"idle", "keep"} =>
        \/ tokens' = tokens
        \/ tokens' = None
        \/ tokens # None /\ tokens'.session = tokens.session
<1>1. RInv /\ [Next]_vars => Keeps
  <2> SUFFICES ASSUME RInv, [Next]_vars,
                      NEW c \in Calls, pc[c] = "asking", pc'[c] \in {"idle", "keep"}
               PROVE  \/ tokens' = tokens
                      \/ tokens' = None
                      \/ tokens # None /\ tokens'.session = tokens.session
    OBVIOUS
  <2>1. TInv /\ pc \in [Threads -> AllPlaces]
    BY DEF RInv, TInv, Flow, FlowOK
  <2>2. ~Aside
    BY DEF Aside
  <2>3. ASSUME NEW d \in Calls, PassGate(d) PROVE tokens' = tokens
    BY <2>3 DEF PassGate
  <2>4. ASSUME NEW d \in Calls, RefreshFailed(d) PROVE tokens' = tokens
    BY <2>4 DEF RefreshFailed
  <2>5. ASSUME NEW d \in Calls, RefreshAnswered(d)
        PROVE  tokens' = tokens \/ (tokens # None /\ tokens'.session = tokens.session)
    <3>1. CASE StillCurrent(asked[d])
      <4>1. tokens # None /\ tokens = asked[d]
        BY <2>5, <3>1 DEF RefreshAnswered, StillCurrent, RInv, Distinct
      <4>2. tokens'.session = asked[d].session
        BY <2>5, <3>1 DEF RefreshAnswered, Renewed
      <4> QED BY <4>1, <4>2
    <3>2. CASE ~StillCurrent(asked[d])
      BY <2>5, <3>2 DEF RefreshAnswered
    <3> QED BY <3>1, <3>2
  <2>6. ~SignedIn /\ ~ResumeAnswered /\ ~ResumeChecks /\ ~Resumed
    BY <2>1, Constants DEF SignedIn, ResumeAnswered, ResumeChecks, Resumed
  <2>7. SignOut \/ Close => tokens' = None
    BY DEF SignOut, Close
  <2>8. Expires => tokens' = tokens
    BY DEF Expires
  <2> QED BY <2>1, <2>2, <2>3, <2>4, <2>5, <2>6, <2>7, <2>8, AsideSteps DEF Next, Call, Login, Launch, Main
<1>2. Keeps <=> \A c \in Calls : pc[c] = "asking" /\ pc'[c] \in {"idle", "keep"} =>
        \/ tokens' = tokens
        \/ tokens' = None
        \/ tokens # None /\ tokens'.session = tokens.session
  OBVIOUS
<1> QED BY <1>1, RInvInit, RInvStep, PTL DEF Spec, RefreshKeepsSession

-----------------------------------------------------------------------------
(* Sign out.                                                               *)

LEMMA SInvInit == Init => SInv
<1> SUFFICES ASSUME Init PROVE SInv
  OBVIOUS
<1>1. ForgetGoesOn /\ ResumeInTime /\ SignedOutForGood
  BY Constants DEF Init, ForgetGoesOn, ResumeInTime, Resuming, SignedOutForGood
<1>2. Younger
  BY Constants DEF Init, Younger
<1>3. gone <= out /\ out <= sessions
  BY DEF Init
<1> QED BY <1>1, <1>2, <1>3, RInvInit DEF SInv, Outside

\* What has crossed has crossed.
LEMMA CrossedStays ==
  ASSUME [Next]_vars
  PROVE  crossed \subseteq crossed'
<1> USE DEF ghosts
<1>1. ASSUME NEW c \in Calls, Call(c) PROVE UNCHANGED crossed
  BY <1>1 DEF Call, GetFreshToken, PassGate, RefreshAnswered, RefreshFailed
<1>2. CASE Login
  BY <1>2 DEF Login, SignIn, SignInFailed, SignInAnswered, SignedIn
<1>3. CASE Launch
  BY <1>3 DEF Launch, Resume, LoadEntry, ResumeFailed, ResumeRefused, ResumeAnswered, ResumeChecks, Resumed, Crossed
<1>4. CASE Main
  BY <1>4 DEF Main, SignOut, SignOutChooses, SignOutForgets, SetStaySignedIn, Crossed
<1>5. ASSUME NEW t \in Threads, KeepCurrent(t) \/ StoreWrite(t) \/ StoreFails(t) PROVE UNCHANGED crossed
  BY <1>5 DEF KeepCurrent, StoreWrite, StoreFails
<1>6. CASE Expires \/ Close \/ UNCHANGED vars
  BY <1>6 DEF Expires, Close, vars
<1> QED BY <1>1, <1>2, <1>3, <1>4, <1>5, <1>6 DEF Next

LEMMA SInvStep ==
  ASSUME SInv, [Next]_vars
  PROVE  SInv'
<1>1. RInv /\ RInv' /\ TInv /\ TInv'
  BY RInvStep DEF SInv, RInv
<1>2. /\ out \in Nat /\ gone \in Nat /\ sessions \in Nat
      /\ pc \in [Threads -> AllPlaces]
      /\ asked \in [Threads -> TokenSet \cup {None}]
      /\ todo \in [Threads -> Seq(Write)]
  <2>1. out \in 0..MaxSessions /\ gone \in 0..MaxSessions /\ sessions \in 0..MaxSessions
    BY <1>1 DEF TInv, DataOK
  <2>2. /\ pc \in [Threads -> AllPlaces] /\ todo \in [Threads -> Seq(Write)]
        /\ asked \in [Threads -> TokenSet \cup {None}]
    BY <1>1 DEF TInv, DataOK, Flow, FlowOK
  <2> QED BY <2>1, <2>2, Constants
<1> SUFFICES ASSUME crossed' = {} PROVE Outside'
  BY <1>1 DEF SInv
<1>3. Outside
  BY CrossedStays DEF SInv
<1> USE Constants DEF Outside
<1>4. ASSUME NEW c \in Calls, GetFreshToken(c)
      PROVE  Outside'
  <2>1. ForgetGoesOn'
    BY <1>2, <1>3, <1>4 DEF GetFreshToken, ForgetGoesOn, ghosts
  <2>2. Younger'
    BY <1>2, <1>3, <1>4 DEF GetFreshToken, Younger, ghosts
  <2>3. ResumeInTime'
    BY <1>2, <1>3, <1>4 DEF GetFreshToken, ResumeInTime, Resuming, ghosts
  <2>4. gone' <= out' /\ out' <= sessions' /\ SignedOutForGood'
    BY <1>2, <1>3, <1>4 DEF GetFreshToken, SignedOutForGood, ResumeInTime, Younger, ghosts
  <2> QED BY <2>1, <2>2, <2>3, <2>4
<1>5. ASSUME NEW c \in Calls, PassGate(c)
      PROVE  Outside'
  <2>1. ForgetGoesOn'
    BY <1>2, <1>3, <1>5 DEF PassGate, ForgetGoesOn, ghosts
  <2>2. Younger'
    BY <1>2, <1>3, <1>5 DEF PassGate, Younger, ghosts
  <2>3. ResumeInTime'
    BY <1>2, <1>3, <1>5 DEF PassGate, ResumeInTime, Resuming, ghosts
  <2>4. gone' <= out' /\ out' <= sessions' /\ SignedOutForGood'
    BY <1>2, <1>3, <1>5 DEF PassGate, SignedOutForGood, ResumeInTime, Younger, ghosts
  <2> QED BY <2>1, <2>2, <2>3, <2>4
<1>6. ASSUME NEW c \in Calls, RefreshFailed(c)
      PROVE  Outside'
  <2>1. ForgetGoesOn'
    BY <1>2, <1>3, <1>6 DEF RefreshFailed, ForgetGoesOn, ghosts
  <2>2. Younger'
    BY <1>2, <1>3, <1>6 DEF RefreshFailed, Younger, ghosts
  <2>3. ResumeInTime'
    BY <1>2, <1>3, <1>6 DEF RefreshFailed, ResumeInTime, Resuming, ghosts
  <2>4. gone' <= out' /\ out' <= sessions' /\ SignedOutForGood'
    BY <1>2, <1>3, <1>6 DEF RefreshFailed, SignedOutForGood, ResumeInTime, Younger, ghosts
  <2> QED BY <2>1, <2>2, <2>3, <2>4
<1>7. ASSUME SignIn
      PROVE  Outside'
  <2>1. ForgetGoesOn'
    BY <1>2, <1>3, <1>7 DEF SignIn, ForgetGoesOn, ghosts
  <2>2. Younger'
    BY <1>2, <1>3, <1>7 DEF SignIn, Younger, ghosts
  <2>3. ResumeInTime'
    BY <1>2, <1>3, <1>7 DEF SignIn, ResumeInTime, Resuming, ghosts
  <2>4. gone' <= out' /\ out' <= sessions' /\ SignedOutForGood'
    BY <1>2, <1>3, <1>7 DEF SignIn, SignedOutForGood, ResumeInTime, Younger, ghosts
  <2> QED BY <2>1, <2>2, <2>3, <2>4
<1>8. ASSUME SignInFailed
      PROVE  Outside'
  <2>1. ForgetGoesOn'
    BY <1>2, <1>3, <1>8 DEF SignInFailed, ForgetGoesOn, ghosts
  <2>2. Younger'
    BY <1>2, <1>3, <1>8 DEF SignInFailed, Younger, ghosts
  <2>3. ResumeInTime'
    BY <1>2, <1>3, <1>8 DEF SignInFailed, ResumeInTime, Resuming, ghosts
  <2>4. gone' <= out' /\ out' <= sessions' /\ SignedOutForGood'
    BY <1>2, <1>3, <1>8 DEF SignInFailed, SignedOutForGood, ResumeInTime, Younger, ghosts
  <2> QED BY <2>1, <2>2, <2>3, <2>4
<1>9. ASSUME SignInAnswered
      PROVE  Outside'
  <2>1. ForgetGoesOn'
    BY <1>2, <1>3, <1>9 DEF SignInAnswered, ForgetGoesOn, ghosts
  <2>2. Younger'
    BY <1>2, <1>3, <1>9 DEF SignInAnswered, Younger, ghosts
  <2>3. ResumeInTime'
    BY <1>2, <1>3, <1>9 DEF SignInAnswered, ResumeInTime, Resuming, ghosts
  <2>4. gone' <= out' /\ out' <= sessions' /\ SignedOutForGood'
    BY <1>2, <1>3, <1>9 DEF SignInAnswered, SignedOutForGood, ResumeInTime, Younger, ghosts
  <2> QED BY <2>1, <2>2, <2>3, <2>4
<1>10. ASSUME Resume
      PROVE  Outside'
  <2>1. ForgetGoesOn'
    BY <1>2, <1>3, <1>10 DEF Resume, ForgetGoesOn, ghosts
  <2>2. Younger'
    BY <1>2, <1>3, <1>10 DEF Resume, Younger, ghosts
  <2>3. ResumeInTime'
    BY <1>2, <1>3, <1>10 DEF Resume, Crossed, SigningOut, Resuming, ResumeInTime
  <2>4. gone' <= out' /\ out' <= sessions' /\ SignedOutForGood'
    BY <1>2, <1>3, <1>10 DEF Resume, SignedOutForGood, ResumeInTime, Younger, ghosts
  <2> QED BY <2>1, <2>2, <2>3, <2>4
<1>11. ASSUME ResumeFailed
      PROVE  Outside'
  <2>1. ForgetGoesOn'
    BY <1>2, <1>3, <1>11 DEF ResumeFailed, ForgetGoesOn, ghosts
  <2>2. Younger'
    BY <1>2, <1>3, <1>11 DEF ResumeFailed, Younger, ghosts
  <2>3. ResumeInTime'
    BY <1>2, <1>3, <1>11 DEF ResumeFailed, ResumeInTime, Resuming, ghosts
  <2>4. gone' <= out' /\ out' <= sessions' /\ SignedOutForGood'
    BY <1>2, <1>3, <1>11 DEF ResumeFailed, SignedOutForGood, ResumeInTime, Younger, ghosts
  <2> QED BY <2>1, <2>2, <2>3, <2>4
<1>12. ASSUME ResumeChecks
      PROVE  Outside'
  <2>1. ForgetGoesOn'
    BY <1>2, <1>3, <1>12 DEF ResumeChecks, ForgetGoesOn, ghosts
  <2>2. Younger'
    BY <1>2, <1>3, <1>12 DEF ResumeChecks, Younger, ghosts
  <2>3. ResumeInTime'
    BY <1>2, <1>3, <1>12 DEF ResumeChecks, ResumeInTime, Resuming, ghosts
  <2>4. gone' <= out' /\ out' <= sessions' /\ SignedOutForGood'
    BY <1>2, <1>3, <1>12 DEF ResumeChecks, SignedOutForGood, ResumeInTime, Younger, ghosts
  <2> QED BY <2>1, <2>2, <2>3, <2>4
<1>13. ASSUME Resumed
      PROVE  Outside'
  <2>1. ForgetGoesOn'
    BY <1>2, <1>3, <1>13 DEF Resumed, ForgetGoesOn, ghosts
  <2>2. Younger'
    BY <1>2, <1>3, <1>13 DEF Resumed, Younger, ghosts
  <2>3. ResumeInTime'
    BY <1>2, <1>3, <1>13 DEF Resumed, ResumeInTime, Resuming, ghosts
  <2>4. gone' <= out' /\ out' <= sessions' /\ SignedOutForGood'
    <3>1. /\ UNCHANGED <<out, gone, sessions>> /\ tokens' = asked["launch"] /\ out = gone
          /\ asked["launch"].session > gone
      BY <1>3, <1>13 DEF Resumed, ResumeInTime, Resuming, Younger, ghosts
    <3> QED BY <1>3, <3>1 DEF SignedOutForGood
  <2> QED BY <2>1, <2>2, <2>3, <2>4
<1>14. ASSUME SignOut
      PROVE  Outside'
  <2>1. ForgetGoesOn'
    BY <1>2, <1>3, <1>14 DEF SignOut, ForgetGoesOn, ghosts
  <2>2. Younger'
    BY <1>2, <1>3, <1>14 DEF SignOut, Younger, ghosts
  <2>3. ResumeInTime'
    BY <1>2, <1>3, <1>14 DEF SignOut, Crossed, Resuming, ResumeInTime
  <2>4. gone' <= out' /\ out' <= sessions' /\ SignedOutForGood'
    BY <1>2, <1>3, <1>14 DEF SignOut, SignedOutForGood, ResumeInTime, Younger, ghosts
  <2> QED BY <2>1, <2>2, <2>3, <2>4
<1>15. ASSUME SignOutChooses
      PROVE  Outside'
  <2>1. ForgetGoesOn'
    BY <1>2, <1>3, <1>15 DEF SignOutChooses, ForgetGoesOn, ghosts
  <2>2. Younger'
    BY <1>2, <1>3, <1>15 DEF SignOutChooses, Younger, ghosts
  <2>3. ResumeInTime'
    BY <1>2, <1>3, <1>15 DEF SignOutChooses, ResumeInTime, Resuming, ghosts
  <2>4. gone' <= out' /\ out' <= sessions' /\ SignedOutForGood'
    BY <1>2, <1>3, <1>15 DEF SignOutChooses, SignedOutForGood, ResumeInTime, Younger, ghosts
  <2> QED BY <2>1, <2>2, <2>3, <2>4
<1>16. ASSUME SetStaySignedIn
      PROVE  Outside'
  <2>1. ForgetGoesOn'
    BY <1>2, <1>3, <1>16 DEF SetStaySignedIn, ForgetGoesOn, ghosts
  <2>2. Younger'
    BY <1>2, <1>3, <1>16 DEF SetStaySignedIn, Younger, ghosts
  <2>3. ResumeInTime'
    BY <1>2, <1>3, <1>16 DEF SetStaySignedIn, ResumeInTime, Resuming, ghosts
  <2>4. gone' <= out' /\ out' <= sessions' /\ SignedOutForGood'
    BY <1>2, <1>3, <1>16 DEF SetStaySignedIn, SignedOutForGood, ResumeInTime, Younger, ghosts
  <2> QED BY <2>1, <2>2, <2>3, <2>4
<1>17. ASSUME Expires
      PROVE  Outside'
  <2>1. ForgetGoesOn'
    BY <1>2, <1>3, <1>17 DEF Expires, ForgetGoesOn, ghosts
  <2>2. Younger'
    BY <1>2, <1>3, <1>17 DEF Expires, Younger, ghosts
  <2>3. ResumeInTime'
    BY <1>2, <1>3, <1>17 DEF Expires, ResumeInTime, Resuming, ghosts
  <2>4. gone' <= out' /\ out' <= sessions' /\ SignedOutForGood'
    BY <1>2, <1>3, <1>17 DEF Expires, SignedOutForGood, ResumeInTime, Younger, ghosts
  <2> QED BY <2>1, <2>2, <2>3, <2>4
<1>18. ASSUME NEW c \in Calls, RefreshAnswered(c)
       PROVE  Outside'
  <2>1. /\ UNCHANGED <<choose, got, todo, store, sessions, out, gone>>
        /\ pc'[c] # "asking" /\ pc'["main"] = pc["main"]
        /\ pc'["launch"] = pc["launch"] /\ pc'["login"] = pc["login"]
        /\ asked'["launch"] = asked["launch"]
    BY <1>2, <1>18 DEF RefreshAnswered
  <2>2. tokens' = tokens \/ (tokens # None /\ tokens' # None /\ tokens'.session = tokens.session)
    <3>1. CASE StillCurrent(asked[c])
      <4>1. tokens # None /\ tokens = asked[c]
        BY <1>1, <1>18, <3>1 DEF RefreshAnswered, StillCurrent, RInv, Distinct
      <4>2. tokens' \in Renewed(asked[c])
        BY <1>18, <3>1 DEF RefreshAnswered
      <4>3. tokens'.session = asked[c].session
        BY <4>2 DEF Renewed
      <4>4. tokens'.id = minted + 1 /\ minted \in Nat
        BY <1>1, <4>2 DEF Renewed, TInv, DataOK
      <4>5. tokens' # None
        <5>1. tokens' \in TokenSet \cup {None} /\ minted' = minted + 1 /\ minted + 1 \in 1..MaxTokens
          BY <1>1, <1>18 DEF TInv, DataOK, RefreshAnswered
        <5>2. asked[c] \in TokenSet
          BY <1>1, <4>1 DEF TInv, DataOK
        <5>3. \A u \in Renewed(asked[c]) : u \in TokenSet
          BY <5>1, <5>2 DEF Renewed, TokenSet
        <5> QED BY <4>2, <5>3
      <4> QED BY <4>1, <4>3, <4>5
    <3>2. CASE ~StillCurrent(asked[c])
      BY <1>18, <3>2 DEF RefreshAnswered
    <3> QED BY <3>1, <3>2
  <2>3. ForgetGoesOn'
    BY <1>3, <2>1 DEF ForgetGoesOn
  <2>4. Younger'
    BY <1>3, <2>1 DEF Younger
  <2>5. ResumeInTime' /\ SignedOutForGood'
    BY <1>3, <2>1, <2>2 DEF ResumeInTime, Resuming, SignedOutForGood
  <2> QED BY <1>3, <2>1, <2>3, <2>4, <2>5
<1>19. ASSUME SignedIn
       PROVE  Outside'
  <2>1. /\ UNCHANGED <<choose, asked, got, todo, store, out, gone>>
        /\ sessions' = sessions + 1 /\ tokens'.session = sessions'
        /\ \A t \in Threads \ {"login"} : pc'[t] = pc[t]
        /\ pc'["login"] = "keep"
    BY <1>2, <1>19 DEF SignedIn, ghosts
  <2>2. tokens' # None
    <3>1. minted' = minted + 1 /\ minted \in 0..MaxTokens /\ minted < MaxTokens
      BY <1>1, <1>19 DEF SignedIn, TInv, DataOK
    <3>2. minted' \in 1..MaxTokens /\ sessions' \in 1..MaxSessions
      BY <3>1, <1>1, <1>2, <2>1 DEF TInv, DataOK
    <3>3. tokens' \in TokenSet
      BY <1>19, <3>2 DEF SignedIn, TokenSet
    <3> QED BY <3>3
  <2>3. ForgetGoesOn'
    BY <1>3, <2>1 DEF ForgetGoesOn
  <2>4. Younger'
    BY <1>3, <2>1 DEF Younger
  <2>5. ResumeInTime' /\ SignedOutForGood' /\ gone' <= out' /\ out' <= sessions'
    BY <1>2, <1>3, <2>1, <2>2 DEF ResumeInTime, Resuming, SignedOutForGood
  <2> QED BY <2>3, <2>4, <2>5
<1>20. ASSUME LoadEntry
       PROVE  Outside'
  <2>1. /\ UNCHANGED <<tokens, choose, asked, todo, store, sessions, out, gone>>
        /\ \A t \in Threads \ {"launch"} : pc'[t] = pc[t]
        /\ pc["launch"] \in {"head", "parts"} /\ pc'["launch"] \in {"idle", "parts", "asking"}
    BY <1>2, <1>20 DEF LoadEntry, ghosts
  <2>2. ForgetGoesOn'
    BY <1>3, <2>1 DEF ForgetGoesOn
  <2>3. \A i \in 2..Len(got') : got'[i].of.session > gone
    <3>1. CASE store[Len(got)] = None
      BY <1>20, <3>1 DEF LoadEntry
    <3>2. CASE store[Len(got)] # None
      <4>1. got \in Seq(Entry) /\ got' = Append(got, store[Len(got)])
        BY <1>1, <1>20, <3>2 DEF LoadEntry, TInv, Flow, FlowOK
      <4>2. Len(got) \in 0..Parts
        <5>1. CASE got = << >>
          BY <5>1
        <5>2. CASE got # << >>
          <6>1. pc["launch"] = "parts" /\ Len(got) > 0 /\ got[1] \in HeadEntry /\ Len(got) <= got[1].parts
            BY <1>1, <4>1, <5>2, <2>1 DEF TInv, Flow, Reading
          <6> QED BY <4>1, <6>1 DEF HeadEntry
        <5> QED BY <5>1, <5>2
      <4>3. /\ Len(got') = Len(got) + 1 /\ got'[Len(got) + 1] = store[Len(got)]
            /\ \A i \in 1..Len(got) : got'[i] = got[i]
        <5>1. store[Len(got)] \in Entry
          BY <1>1, <4>2 DEF TInv, Flow, FlowOK
        <5> QED BY <4>1, <5>1, AppendProperties
      <4> TAKE i \in 2..Len(got')
      <4>4. CASE i <= Len(got)
        BY <1>3, <4>2, <4>3, <4>4 DEF Younger
      <4>5. CASE i = Len(got) + 1
        BY <1>3, <4>2, <4>3, <4>5, <3>2 DEF Younger
      <4> QED BY <4>2, <4>3, <4>4, <4>5
    <3> QED BY <3>1, <3>2
  <2>4. Younger'
    BY <1>3, <2>1, <2>3 DEF Younger
  <2>5. ResumeInTime' /\ SignedOutForGood'
    BY <1>3, <2>1 DEF ResumeInTime, Resuming, SignedOutForGood
  <2> QED BY <1>3, <2>1, <2>2, <2>4, <2>5
<1>21. ASSUME ResumeAnswered
       PROVE  Outside'
  <2>1. PICK fresh \in Renewed(Spelled(got)) : asked' = [asked EXCEPT !["launch"] = fresh]
    BY <1>21 DEF ResumeAnswered
  <2>2. /\ UNCHANGED <<tokens, choose, todo, store, sessions, out, gone>>
        /\ \A t \in Threads \ {"launch"} : pc'[t] = pc[t]
        /\ pc["launch"] = "asking" /\ pc'["launch"] = "resumed" /\ got' = << >>
    BY <1>2, <1>21 DEF ResumeAnswered, ghosts
  <2>3. asked'["launch"].session > gone
    <3>1. Len(got) > 1
      BY <1>1, <2>2 DEF TInv, Flow, Reading, HeadEntry
    <3>2. Spelled(got) = got[2].of /\ 2 \in 2..Len(got)
      BY <3>1, <1>1, <1>21 DEF ResumeAnswered, Spelled, TInv, Flow, FlowOK
    <3>3. fresh.session = Spelled(got).session /\ asked'["launch"] = fresh
      BY <1>2, <2>1 DEF Renewed
    <3>4. got[2].of.session > gone
      BY <1>3, <3>2 DEF Younger
    <3> QED BY <3>2, <3>3, <3>4
  <2>4. ForgetGoesOn'
    BY <1>3, <2>2 DEF ForgetGoesOn
  <2>5. Younger'
    BY <1>3, <2>2, <2>3 DEF Younger
  <2>6. ResumeInTime' /\ SignedOutForGood'
    BY <1>3, <2>2 DEF ResumeInTime, Resuming, SignedOutForGood
  <2> QED BY <1>3, <2>2, <2>4, <2>5, <2>6
<1>22. ASSUME NEW t \in Threads, KeepCurrent(t)
       PROVE  Outside'
  <2>1. /\ UNCHANGED <<tokens, choose, asked, got, store, sessions, out, gone>>
        /\ pc[t] = "keep" /\ pc'[t] = "writing"
        /\ \A u \in Threads \ {t} : pc'[u] = pc[u] /\ todo'[u] = todo[u]
    BY <1>2, <1>22 DEF KeepCurrent
  <2>2. ASSUME NEW k \in 1..Len(todo'[t]), todo'[t][k].at # 0, todo'[t][k].entry # None
        PROVE  todo'[t][k].entry.of.session > gone /\ todo'[t][k].entry.of.session > out
    <3>1. CASE enabled /\ tokens # None /\ tokens.parts > 0
      <4>1. todo'[t] = Saving(tokens)
        BY <1>2, <1>22, <3>1 DEF KeepCurrent
      <4>2. tokens \in TokenSet /\ InPlace(0, store[0]) /\ store[0] \in Entry
        BY <1>1, <3>1 DEF TInv, DataOK, Flow, FlowOK, StoreInPlace
      <4>3. tokens.session > gone /\ tokens.session > out
        BY <1>3, <3>1 DEF SignedOutForGood
      <4> QED BY <2>2, <3>1, <4>1, <4>2, <4>3, SavingWrites
    <3>2. CASE ~(enabled /\ tokens # None /\ tokens.parts > 0)
      <4>1. todo'[t] = Forgetting
        BY <1>2, <1>22, <3>2 DEF KeepCurrent
      <4> QED BY <2>2, <4>1, ForgettingWrites
    <3> QED BY <3>1, <3>2
  <2>3. ForgetGoesOn'
    BY <1>3, <2>1, <2>2 DEF ForgetGoesOn
  <2>4. Younger'
    BY <1>3, <2>1, <2>2 DEF Younger
  <2>5. ResumeInTime' /\ SignedOutForGood'
    BY <1>3, <2>1 DEF ResumeInTime, Resuming, SignedOutForGood
  <2> QED BY <1>3, <2>1, <2>3, <2>4, <2>5
<1>23. ASSUME ResumeRefused
       PROVE  Outside'
  <2>1. /\ UNCHANGED <<tokens, choose, asked, store, sessions, out, gone>>
        /\ pc["launch"] = "asking" /\ pc'["launch"] = "writing" /\ got' = << >>
        /\ \A u \in Threads \ {"launch"} : pc'[u] = pc[u] /\ todo'[u] = todo[u]
        /\ todo'["launch"] = Forgetting
    BY <1>2, <1>23 DEF ResumeRefused
  <2>2. \A k \in 1..Len(todo'["launch"]) : todo'["launch"][k].entry = None
    BY <2>1, ForgettingWrites
  <2>3. ForgetGoesOn'
    BY <1>3, <2>1, <2>2 DEF ForgetGoesOn
  <2>4. Younger'
    BY <1>3, <2>1, <2>2 DEF Younger
  <2>5. ResumeInTime' /\ SignedOutForGood'
    BY <1>3, <2>1 DEF ResumeInTime, Resuming, SignedOutForGood
  <2> QED BY <1>3, <2>1, <2>3, <2>4, <2>5
<1>24. ASSUME SignOutForgets
       PROVE  Outside'
  <2>1. /\ UNCHANGED <<tokens, choose, asked, got, store, sessions, out, gone>>
        /\ pc["main"] = "forgetting" /\ pc'["main"] = "forget"
        /\ \A u \in Threads \ {"main"} : pc'[u] = pc[u] /\ todo'[u] = todo[u]
        /\ todo'["main"] = Forgetting
    BY <1>2, <1>24 DEF SignOutForgets
  \* No save is under way: it would have crossed the Sign out.
  <2>2. \A u \in Threads : \A k \in 1..Len(todo[u]) : todo[u][k].entry = None
    <3>1. ~Saves
      BY <1>24 DEF SignOutForgets, Crossed
    <3>2. \A u \in Threads : DOMAIN todo[u] = 1..Len(todo[u])
      BY <1>2
    <3> QED BY <3>1, <3>2 DEF Saves
  <2>3. ForgetGoesOn'
    <3>1. Parts \in Nat /\ Len(todo'["main"]) = Parts + 1
      BY <2>1, ForgettingWrites, Constants
    <3>2. \A k \in 1..(Parts + 1) : todo'["main"][k] = Remove(Parts - (Parts + 1) + k)
      <4> TAKE k \in 1..(Parts + 1)
      <4>1. Parts - (Parts + 1) + k = k - 1
        BY <3>1
      <4> QED BY <2>1, <3>1, <4>1, ForgettingWrites
    <3>3. \A i \in 1..Parts : ~(i <= Parts - (Parts + 1))
      BY <3>1
    <3>4. \A u \in Threads \ {"main"} : \A k \in 1..Len(todo'[u]) : todo'[u][k].entry = None
      BY <2>1, <2>2
    <3> QED BY <3>1, <3>2, <3>3, <3>4 DEF ForgetGoesOn
  <2>4. Younger'
    <3>1. \A k \in 1..Len(todo'["main"]) : todo'["main"][k].entry = None
      BY <2>1, ForgettingWrites
    <3> QED BY <1>3, <2>1, <3>1 DEF Younger
  <2>5. ResumeInTime' /\ SignedOutForGood'
    BY <1>3, <2>1 DEF ResumeInTime, Resuming, SignedOutForGood
  <2> QED BY <1>3, <2>1, <2>3, <2>4, <2>5
<1>25. ASSUME NEW t \in Threads, StoreWrite(t)
       PROVE  Outside'
  <2> DEFINE w == todo[t][1]
  <2>1. /\ UNCHANGED <<tokens, choose, asked, got, sessions, out>>
        /\ IF Len(todo[t]) > 1 \/ pc[t] # "forget" THEN gone' = gone ELSE gone' = out
    BY <1>2, <1>25 DEF StoreWrite
  <2>2. /\ w.at \in 0..Parts /\ store'[w.at] = w.entry
        /\ \A i \in 0..Parts : i # w.at => store'[i] = store[i]
        /\ Len(todo'[t]) = Len(todo[t]) - 1 /\ Len(todo[t]) \in Nat /\ Len(todo[t]) > 0
        /\ \A k \in 1..Len(todo'[t]) : k + 1 \in 1..Len(todo[t]) /\ todo'[t][k] = todo[t][k + 1]
        /\ \A u \in Threads \ {t} : todo'[u] = todo[u] /\ pc'[u] = pc[u]
        /\ pc[t] \in {"writing", "forget"}
        /\ IF Len(todo[t]) > 1 THEN pc' = pc ELSE pc'[t] = "idle"
    BY <1>1, <1>2, <1>25, OneWrite DEF TInv
  <2>3. pc[t] = "forget" => t = "main"
    BY <1>1, PlacesOf DEF TInv, Flow, FlowOK, Threads
  <2>4. \A i \in 0..Parts : i = w.at \/ store'[i] = store[i]
    BY <2>2
  \* A part that is there afterwards was there, or was to be written.
  <2>5. ASSUME NEW n \in Nat,
               \A k \in 1..Len(todo[t]) :
                 todo[t][k].at # 0 /\ todo[t][k].entry # None => todo[t][k].entry.of.session > n
        PROVE  /\ w.at # 0 /\ w.entry # None => w.entry.of.session > n
               /\ \A k \in 1..Len(todo'[t]) :
                    todo'[t][k].at # 0 /\ todo'[t][k].entry # None => todo'[t][k].entry.of.session > n
    BY <2>2, <2>5
  <2>6. CASE pc[t] = "forget"
    <3> DEFINE left == Len(todo["main"])
    <3>1. /\ t = "main" /\ left \in 1..(Parts + 1)
          /\ \A k \in 1..left : todo["main"][k] = Remove(Parts - left + k)
          /\ \A i \in 1..Parts : i <= Parts - left /\ store[i] # None => store[i].of.session > out
          /\ \A u \in Threads \ {"main"} : \A k \in 1..Len(todo[u]) :
               todo[u][k].at # 0 /\ todo[u][k].entry # None => todo[u][k].entry.of.session > out
      BY <1>3, <2>3, <2>6 DEF ForgetGoesOn
    <3>2. w = Remove(Parts - left + 1)
      BY <3>1
    <3>3. w.at = Parts - left + 1 /\ w.entry = None
      BY <3>2 DEF Remove
    <3>4. \A i \in 1..Parts : i <= Parts - left + 1 /\ store'[i] # None => store'[i].of.session > out
      <4> TAKE i \in 1..Parts
      <4>1. CASE i = Parts - left + 1
        BY <4>1, <3>3, <2>2
      <4>2. CASE i # Parts - left + 1
        <5>1. i <= Parts - left + 1 => i <= Parts - left
          BY <3>1, <4>2
        <5>2. store'[i] = store[i]
          BY <2>2, <3>3, <4>2
        <5> QED BY <5>1, <5>2, <3>1
      <4> QED BY <4>1, <4>2
    <3>5. CASE left > 1
      <4>1. pc' = pc /\ gone' = gone /\ Len(todo'["main"]) = left - 1
        BY <2>1, <2>2, <3>1, <3>5
      <4>2. \A k \in 1..(left - 1) : todo'["main"][k] = Remove(Parts - (left - 1) + k)
        <5> TAKE k \in 1..(left - 1)
        <5>1. k + 1 \in 1..left /\ todo'["main"][k] = todo["main"][k + 1]
          BY <2>2, <3>1, <4>1
        <5>2. Parts - left + (k + 1) = Parts - (left - 1) + k
          BY <3>1
        <5> QED BY <3>1, <5>1, <5>2
      <4>3. \A i \in 1..Parts : i <= Parts - (left - 1) /\ store'[i] # None => store'[i].of.session > out
        BY <3>1, <3>4
      <4>4. left - 1 \in 1..(Parts + 1)
        BY <3>1, <3>5
      <4>5. \A u \in Threads \ {"main"} : todo'[u] = todo[u]
        BY <2>2, <3>1
      <4> HIDE DEF left
      <4>6. ForgetGoesOn'
        BY <2>1, <3>1, <4>1, <4>2, <4>3, <4>4, <4>5 DEF ForgetGoesOn
      <4>7. Younger'
        <5>1. \A i \in 1..Parts : store'[i] = store[i] \/ store'[i] = None
          BY <2>4, <2>2, <3>3
        <5>2. \A k \in 1..Len(todo'[t]) :
                todo'[t][k].at # 0 /\ todo'[t][k].entry # None => todo'[t][k].entry.of.session > gone
          BY <1>2, <1>3, <2>5 DEF Younger
        <5>3. pc' = pc
          BY <4>1
        <5> QED BY <1>3, <2>1, <3>1, <4>1, <4>5, <5>1, <5>2, <5>3 DEF Younger
      <4>8. ResumeInTime' /\ SignedOutForGood'
        BY <1>3, <2>1, <4>1 DEF ResumeInTime, Resuming, SignedOutForGood
      <4> QED BY <1>3, <2>1, <4>1, <4>6, <4>7, <4>8
    <3>6. CASE ~(left > 1)
      <4>1. left = 1 /\ pc'["main"] = "idle" /\ gone' = out /\ Len(todo'["main"]) = 0
        <5>1. left \in 1..(Parts + 1)
          BY <3>1
        <5>2. left = 1
          <6> HIDE DEF left
          <6> QED BY <5>1, <3>6
        <5> QED BY <2>1, <2>2, <2>6, <3>1, <5>2
      <4>2. \A u \in Threads \ {"main"} : pc'[u] = pc[u] /\ todo'[u] = todo[u]
        BY <2>2, <3>1
      <4>3. ~Resuming
        BY <1>3, <2>6, <3>1 DEF ResumeInTime
      <4>4. got' = << >>
        BY <1>1, <2>1, <4>3 DEF TInv, Flow, Reading, Resuming
      <4>5. \A i \in 1..Parts : store'[i] # None => store'[i].of.session > out
        BY <3>4, <4>1
      <4>6. Younger'
        <5>1. \A u \in Threads : \A k \in 1..Len(todo'[u]) :
                todo'[u][k].at # 0 /\ todo'[u][k].entry # None => todo'[u][k].entry.of.session > out
          <6> TAKE u \in Threads
          <6>1. CASE u = "main"
            BY <4>1, <6>1
          <6>2. CASE u # "main"
            BY <3>1, <4>2, <6>2
          <6> QED BY <6>1, <6>2
        <5>2. \A i \in 2..Len(got') : FALSE
          BY <4>4
        <5>3. pc'["launch"] \notin {"resumed", "storing"}
          BY <4>2, <4>3, Constants DEF Resuming
        <5> QED BY <4>1, <4>5, <5>1, <5>2, <5>3 DEF Younger
      <4>7. ForgetGoesOn'
        BY <4>1 DEF ForgetGoesOn
      <4>8. ResumeInTime' /\ SignedOutForGood'
        BY <1>3, <2>1, <4>1, <4>2 DEF ResumeInTime, Resuming, SignedOutForGood
      <4> QED BY <1>2, <1>3, <2>1, <4>1, <4>6, <4>7, <4>8
    <3> QED BY <3>5, <3>6
  <2>7. CASE pc[t] # "forget"
    <3>1. gone' = gone
      BY <2>1, <2>7
    <3>2. /\ \A u \in Threads \ {t} : pc'[u] = pc[u]
          /\ pc[t] = "writing" /\ pc'[t] \in {"writing", "idle"}
      BY <2>2, <2>7
    <3>3. Younger'
      <4>1. /\ w.at # 0 /\ w.entry # None => w.entry.of.session > gone
            /\ \A k \in 1..Len(todo'[t]) :
                 todo'[t][k].at # 0 /\ todo'[t][k].entry # None => todo'[t][k].entry.of.session > gone
        BY <1>2, <1>3, <2>5 DEF Younger
      <4>2. \A i \in 1..Parts : store'[i] # None =>
              store'[i] = store[i] \/ store'[i].of.session > gone
        BY <2>2, <2>4, <4>1
      <4> HIDE DEF w
      <4>3. \A u \in Threads : \A k \in 1..Len(todo'[u]) :
              todo'[u][k].at # 0 /\ todo'[u][k].entry # None => todo'[u][k].entry.of.session > gone
        <5> TAKE u \in Threads
        <5>1. CASE u = t
          BY <4>1, <5>1
        <5>2. CASE u # t
          BY <1>3, <2>2, <5>2 DEF Younger
        <5> QED BY <5>1, <5>2
      <4>4. pc'["launch"] \in {"resumed", "storing"} => pc["launch"] \in {"resumed", "storing"}
        BY <3>2, Constants
      <4> QED BY <1>3, <2>1, <3>1, <4>2, <4>3, <4>4 DEF Younger
    <3>4. ForgetGoesOn'
      <4>1. CASE pc'["main"] = "forget"
        <5>1. t # "main" /\ pc["main"] = "forget"
          BY <3>2, <4>1
        <5>2. todo'["main"] = todo["main"]
          BY <2>2, <5>1
        <5>3. \A k \in 1..Len(todo[t]) :
                todo[t][k].at # 0 /\ todo[t][k].entry # None => todo[t][k].entry.of.session > out
          BY <1>3, <5>1 DEF ForgetGoesOn
        <5>4. /\ t \in Threads \ {"main"} /\ out \in Nat /\ out' = out
              /\ \A u \in Threads \ {t} : todo'[u] = todo[u]
          BY <1>2, <2>1, <2>2, <5>1
        <5>5. /\ w.at # 0 /\ w.entry # None => w.entry.of.session > out
              /\ \A k \in 1..Len(todo'[t]) :
                   todo'[t][k].at # 0 /\ todo'[t][k].entry # None => todo'[t][k].entry.of.session > out
          BY <2>5, <5>3, <5>4
        <5>6. \A i \in 1..Parts : store'[i] # None =>
                store'[i] = store[i] \/ store'[i].of.session > out
          BY <2>2, <2>4, <5>5
        <5> HIDE DEF w
        <5>7. \A u \in Threads \ {"main"} : \A k \in 1..Len(todo'[u]) :
                todo'[u][k].at # 0 /\ todo'[u][k].entry # None => todo'[u][k].entry.of.session > out
          <6> TAKE u \in Threads \ {"main"}
          <6>1. CASE u = t
            BY <5>5, <6>1
          <6>2. CASE u # t
            BY <1>3, <5>1, <5>4, <6>2 DEF ForgetGoesOn
          <6> QED BY <6>1, <6>2
        <5> QED BY <1>3, <5>1, <5>2, <5>4, <5>6, <5>7 DEF ForgetGoesOn
      <4> QED BY <4>1 DEF ForgetGoesOn
    <3>5. ResumeInTime' /\ SignedOutForGood'
      BY <1>3, <2>1, <3>1, <3>2 DEF ResumeInTime, Resuming, SignedOutForGood
    <3> QED BY <1>3, <2>1, <3>1, <3>3, <3>4, <3>5
  <2> QED BY <2>6, <2>7
<1>26. ASSUME NEW t \in Threads, StoreFails(t)
       PROVE  Outside'
  <2>1. /\ UNCHANGED <<tokens, choose, asked, got, store, sessions, out, gone>>
        /\ todo[t] # << >>
        /\ pc'[t] = "idle" /\ todo'[t] = << >>
        /\ \A u \in Threads \ {t} : pc'[u] = pc[u] /\ todo'[u] = todo[u]
    BY <1>2, <1>26 DEF StoreFails
  <2>2. pc[t] \in {"writing", "forget"}
    BY <1>1, <2>1 DEF TInv, Flow, AtWrites
  <2>3. ForgetGoesOn'
    <3>1. Len(todo'[t]) = 0 /\ (pc'["main"] = "forget" => t # "main" /\ pc["main"] = "forget")
      BY <2>1, Constants
    <3>2. ASSUME pc'["main"] = "forget", NEW u \in Threads \ {"main"}, NEW k \in 1..Len(todo'[u]),
                 todo'[u][k].at # 0, todo'[u][k].entry # None
          PROVE  todo'[u][k].entry.of.session > out
      <4>1. u # t
        BY <3>1, <3>2
      <4>2. todo'[u] = todo[u]
        BY <2>1, <4>1
      <4>3. \A v \in Threads \ {"main"} : \A j \in 1..Len(todo[v]) :
              todo[v][j].at # 0 /\ todo[v][j].entry # None => todo[v][j].entry.of.session > out
        BY <1>3, <3>1, <3>2 DEF ForgetGoesOn
      <4> QED BY <3>2, <4>2, <4>3
    <3>3. pc'["main"] = "forget" => todo'["main"] = todo["main"]
      BY <2>1, <3>1, Constants
    <3> QED BY <1>3, <2>1, <3>1, <3>2, <3>3 DEF ForgetGoesOn
  <2>4. Younger'
    <3>1. Len(todo'[t]) = 0
      BY <2>1
    <3>2. \A u \in Threads : \A k \in 1..Len(todo'[u]) :
            todo'[u][k].at # 0 /\ todo'[u][k].entry # None => todo'[u][k].entry.of.session > gone
      BY <1>3, <2>1, <3>1 DEF Younger
    <3> QED BY <1>3, <2>1, <2>2, <3>2 DEF Younger
  <2>5. ResumeInTime' /\ SignedOutForGood'
    BY <1>3, <2>1, <2>2 DEF ResumeInTime, Resuming, SignedOutForGood
  <2> QED BY <1>3, <2>1, <2>3, <2>4, <2>5
<1>27. ASSUME Close
       PROVE  Outside'
  <2>1. /\ UNCHANGED <<store, sessions, gone>> /\ out' = gone /\ tokens' = None
        /\ got' = << >>
        /\ \A t \in Threads : pc'[t] = "idle" /\ todo'[t] = << >>
    BY <1>27 DEF Close
  <2>2. ForgetGoesOn' /\ ResumeInTime' /\ SignedOutForGood'
    BY <2>1 DEF ForgetGoesOn, ResumeInTime, SignedOutForGood
  <2>3. Younger'
    <3>1. \A t \in Threads : Len(todo'[t]) = 0
      BY <2>1
    <3> QED BY <1>3, <2>1, <3>1 DEF Younger
  <2> QED BY <1>2, <1>3, <2>1, <2>2, <2>3
<1>28. ASSUME UNCHANGED vars
       PROVE  Outside'
  <2>1. UNCHANGED <<tokens, choose, asked, got, todo, pc, store, sessions, out, gone>>
    BY <1>28 DEF vars, memory, ghosts
  <2>2. ForgetGoesOn' /\ Younger'
    BY <1>3, <2>1 DEF ForgetGoesOn, Younger
  <2>3. ResumeInTime' /\ SignedOutForGood'
    BY <1>3, <2>1 DEF ResumeInTime, Resuming, SignedOutForGood
  <2>4. gone' <= out' /\ out' <= sessions'
    BY <1>3, <2>1
  <2> QED BY <2>2, <2>3, <2>4
<1> HIDE DEF Outside
<1>29. Outside'
  <2>1. CASE \E c \in Calls : Call(c)
    BY <2>1, <1>4, <1>5, <1>6, <1>18 DEF Call
  <2>2. CASE Login
    BY <2>2, <1>7, <1>8, <1>9, <1>19 DEF Login
  <2>3. CASE Launch
    BY <2>3, <1>10, <1>11, <1>12, <1>13, <1>20, <1>21, <1>23 DEF Launch
  <2>4. CASE Main
    BY <2>4, <1>14, <1>15, <1>16, <1>24 DEF Main
  <2>5. CASE \E t \in Threads : KeepCurrent(t) \/ StoreWrite(t) \/ StoreFails(t)
    BY <2>5, <1>22, <1>25, <1>26
  <2> QED BY <2>1, <2>2, <2>3, <2>4, <2>5, <1>17, <1>27, <1>28 DEF Next
<1> QED BY <1>29

\* Sign out is for good, whatever overlaps, unless a save was under way when a
\* Sign out began to forget what is kept, or a resume crossed a Sign out: only
\* then may a session that was signed out be the current one again, in this run
\* or, once Sign out has answered, in a later one.
THEOREM SignedOutForGoodHolds == Spec => [](crossed = {} => SignedOutForGood)
<1>1. SInv /\ [Next]_vars => SInv'
  BY SInvStep
<1>2. SInv => (crossed = {} => SignedOutForGood)
  BY DEF SInv, Outside
<1> QED BY <1>1, <1>2, SInvInit, PTL DEF Spec

-----------------------------------------------------------------------------
(* What is kept.                                                           *)

LEMMA HeadIsThere ==
  ASSUME TInv, tokens # None
  PROVE  tokens \in TokenSet /\ InPlace(0, store[0]) /\ store[0] \in Entry
<1>1. 0 \in 0..Parts
  BY Constants
<1> QED BY <1>1 DEF TInv, DataOK, Flow, FlowOK, StoreInPlace

LEMMA SavingLeads ==
  ASSUME TInv, enabled, tokens # None, tokens.parts > 0
  PROVE  Leads(Saving(tokens))
<1>1. tokens \in TokenSet /\ InPlace(0, store[0]) /\ store[0] \in Entry
  BY HeadIsThere
<1> QED BY <1>1, SavingWrites DEF Leads

LEMMA ForgettingLeads == Leads(Forgetting)
<1>1. 1 \in 1..Len(Forgetting)
  BY ForgettingWrites, Constants
<1>2. Forgetting[1].at = 0
  BY <1>1, ForgettingWrites DEF Remove
<1> QED BY <1>1, <1>2, ForgettingWrites DEF Leads

\* The first write done, the rest leads where they did.
LEMMA WriteLeads ==
  ASSUME TInv, NEW t \in Threads, StoreWrite(t), Leads(todo[t])
  PROVE  Leads(todo[t])'
<1> DEFINE w == todo[t]
           v == todo'[t]
<1>1. /\ Len(w) \in Nat /\ Len(w) > 0 /\ Len(v) = Len(w) - 1
      /\ w[1].at \in 0..Parts /\ store'[w[1].at] = w[1].entry
      /\ \A i \in 0..Parts : i # w[1].at => store'[i] = store[i]
      /\ \A k \in 1..Len(v) : k + 1 \in 1..Len(w) /\ v[k] = w[k + 1]
  <2>1. w \in Seq(Write)
    BY DEF TInv, Flow, FlowOK
  <2>2. Len(w) \in Nat
    BY <2>1
  <2> QED BY <2>2, OneWrite DEF TInv
<1>2. enabled' = enabled /\ tokens' = tokens
  BY DEF StoreWrite
<1> HIDE DEF w, v
\* A write that is left is at k - 1.
<1>3. \A k \in 1..Len(w) : k = 1 \/ (k - 1 \in 1..Len(v) /\ v[k - 1] = w[k])
  <2> TAKE k \in 1..Len(w)
  <2>1. k # 1 => k - 1 \in 1..Len(v) /\ (k - 1) + 1 = k
    BY <1>1
  <2> QED BY <1>1, <2>1
<1>4. ASSUME NEW i \in 0..Parts, NEW k \in 1..Len(w), w[k].at = i
      PROVE  store'[i] = w[1].entry \/ \E j \in 1..Len(v) : v[j].at = i
  BY <1>1, <1>3, <1>4
<1>5. CASE /\ \A k \in 1..Len(w) : w[k].entry = None
           /\ store[0] = None \/ \E k \in 1..Len(w) : w[k].at = 0
  <2>1. \A k \in 1..Len(v) : v[k].entry = None
    BY <1>1, <1>5
  <2>2. w[1].entry = None
    BY <1>1, <1>5
  <2>3. 0 \in 0..Parts
    BY Constants
  <2>4. store'[0] = None \/ \E k \in 1..Len(v) : v[k].at = 0
    <3>1. CASE store[0] = None
      BY <1>1, <2>2, <2>3, <3>1
    <3>2. CASE \E k \in 1..Len(w) : w[k].at = 0
      BY <1>4, <2>2, <2>3, <3>2
    <3> QED BY <1>5, <3>1, <3>2
  <2> QED BY <2>1, <2>4 DEF Leads, v
<1>6. CASE /\ enabled /\ tokens # None /\ tokens.parts > 0
           /\ \A k \in 1..Len(w) :
                w[k].at <= tokens.parts => w[k].entry = EntryOf(tokens, w[k].at)
           /\ \A i \in 0..tokens.parts :
                store[i] = EntryOf(tokens, i) \/ \E k \in 1..Len(w) : w[k].at = i
  <2>1. tokens.parts \in 0..Parts
    BY <1>6, Constants DEF TInv, DataOK, TokenSet
  <2>2. \A k \in 1..Len(v) :
          v[k].at <= tokens.parts => v[k].entry = EntryOf(tokens, v[k].at)
    <3> TAKE k \in 1..Len(v)
    <3>1. k + 1 \in 1..Len(w) /\ v[k] = w[k + 1]
      BY <1>1
    <3> QED BY <1>6, <3>1
  <2>3. \A i \in 0..tokens.parts :
          store'[i] = EntryOf(tokens, i) \/ \E k \in 1..Len(v) : v[k].at = i
    <3> TAKE i \in 0..tokens.parts
    <3>1. i \in 0..Parts /\ i <= tokens.parts
      BY <2>1, Constants
    <3>2. CASE i = w[1].at
      BY <1>1, <1>6, <3>1, <3>2
    <3>3. CASE i # w[1].at
      <4>1. store'[i] = store[i]
        BY <1>1, <3>1, <3>3
      <4>2. (\E k \in 1..Len(w) : w[k].at = i) => \E k \in 1..Len(v) : v[k].at = i
        BY <1>3, <3>3
      <4> QED BY <1>6, <4>1, <4>2
    <3> QED BY <3>2, <3>3
  <2> QED BY <1>2, <1>6, <2>2, <2>3 DEF Leads, v
<1> QED BY <1>5, <1>6 DEF Leads, w

\* A step that changes neither the store, nor the writes, nor what is to be
\* kept, and after which no more is decided than before.
Beside ==
  /\ UNCHANGED <<store, todo, tokens, enabled, clean, alone>>
  /\ Pending => Pending'

LEMMA BesideStays == ASSUME KInv, TInv', Beside PROVE KInv'
BY DEF KInv, Beside, OneWriter, KeptLeads, Leads, NobodyWrites

LEMMA BesideSteps ==
  ASSUME TInv,
         \/ \E c \in Calls : GetFreshToken(c) \/ PassGate(c) \/ RefreshFailed(c)
         \/ SignIn \/ SignInFailed \/ SignInAnswered
         \/ Resume \/ LoadEntry \/ ResumeFailed \/ ResumeAnswered \/ ResumeChecks
         \/ SignOutChooses \/ Expires \/ UNCHANGED vars
  PROVE  Beside
<1> DEFINE Stays(t) == pc'[t] = pc[t] \/ pc[t] \notin {"keep", "choosing", "forgetting"}
                       \/ pc'[t] \in {"keep", "choosing", "forgetting"}
<1>1. (\A t \in Threads : Stays(t)) => (Pending => Pending')
  BY DEF Pending
<1>2. pc \in [Threads -> AllPlaces]
  BY DEF TInv, Flow, FlowOK
<1>3. ASSUME NEW c \in Calls, GetFreshToken(c) \/ PassGate(c) \/ RefreshFailed(c)
      PROVE  Beside
  BY <1>1, <1>2, <1>3, Constants DEF GetFreshToken, PassGate, RefreshFailed, Beside, ghosts
<1>4. CASE SignIn \/ SignInFailed \/ SignInAnswered
  BY <1>1, <1>2, <1>4, Constants DEF SignIn, SignInFailed, SignInAnswered, Beside, ghosts
<1>5. CASE Resume \/ ResumeFailed \/ ResumeAnswered
  BY <1>1, <1>2, <1>5, Constants DEF Resume, ResumeFailed, ResumeAnswered, Beside, ghosts
<1>6. CASE ResumeChecks
  BY <1>1, <1>2, <1>6, Constants DEF ResumeChecks, Beside, ghosts
<1>7. CASE LoadEntry
  BY <1>1, <1>2, <1>7, Constants DEF LoadEntry, Beside, ghosts
<1>8. CASE SignOutChooses
  BY <1>1, <1>2, <1>8, Constants DEF SignOutChooses, Beside, ghosts
<1>9. CASE Expires
  BY <1>1, <1>9 DEF Expires, Beside, ghosts
<1>10. CASE UNCHANGED vars
  BY <1>1, <1>10 DEF vars, memory, ghosts, Beside
<1> HIDE DEF Stays
<1> QED BY <1>3, <1>4, <1>5, <1>6, <1>7, <1>8, <1>9, <1>10

\* A step that changes what is to be kept, and leaves somebody to decide.
Changes == UNCHANGED <<todo, clean, alone>> /\ Pending'

LEMMA ChangesStay == ASSUME KInv, TInv', Changes PROVE KInv'
BY DEF KInv, Changes, OneWriter, KeptLeads, NobodyWrites

LEMMA ChangesSteps ==
  ASSUME TInv, SignedIn \/ Resumed \/ SignOut \/ SetStaySignedIn
  PROVE  Changes
<1>1. pc \in [Threads -> AllPlaces]
  BY DEF TInv, Flow, FlowOK
<1> QED BY <1>1, Constants DEF SignedIn, Resumed, SignOut, SetStaySignedIn, Changes, Pending, ghosts

\* A refresh that is stored is to be kept; one that is not changes nothing.
LEMMA RefreshChanges ==
  ASSUME TInv, NEW c \in Calls, RefreshAnswered(c)
  PROVE  Changes \/ Beside
<1>1. pc \in [Threads -> AllPlaces] /\ c \in Threads
  BY Constants DEF TInv, Flow, FlowOK
<1>2. CASE tokens # None
  BY <1>1, <1>2 DEF RefreshAnswered, Changes, Pending
<1>3. CASE tokens = None
  <2>1. ~StillCurrent(asked[c])
    BY <1>3 DEF StillCurrent
  <2>2. \A t \in Threads : pc[t] = "asking" \/ pc'[t] = pc[t]
    BY <1>1 DEF RefreshAnswered
  <2>3. UNCHANGED <<store, todo, tokens, enabled, clean, alone>>
    BY <2>1 DEF RefreshAnswered
  <2> QED BY <2>2, <2>3 DEF Beside, Pending
<1> QED BY <1>2, <1>3

\* A thread that decides: with nobody writing it has the store to itself, and
\* beside another the store is nobody's until the next one that is alone.
LEMMA DecidesLeads ==
  ASSUME KInv, TInv', NEW t \in Threads, NEW w, Leads(w), w # << >>,
         todo' = [todo EXCEPT ![t] = w], alone' = NobodyWrites, UNCHANGED <<store, tokens, enabled>>
  PROVE  KInv'
<1>1. todo'[t] = w /\ \A u \in Threads \ {t} : todo'[u] = todo[u]
  BY DEF KInv, TInv, Flow, FlowOK
<1>2. ~NobodyWrites'
  BY <1>1 DEF NobodyWrites
<1>3. CASE NobodyWrites
  <2>1. \A u \in Threads : todo'[u] # << >> => u = t
    BY <1>1, <1>3 DEF NobodyWrites
  <2>2. Leads(w)'
    BY DEF Leads
  <2> QED BY <1>1, <1>2, <2>1, <2>2 DEF KInv, OneWriter, KeptLeads
<1>4. CASE ~NobodyWrites
  BY <1>2, <1>4 DEF KInv
<1> QED BY <1>3, <1>4

LEMMA KInvStep ==
  ASSUME KInv, [Next]_vars
  PROVE  KInv'
<1>1. TInv /\ TInv' /\ todo \in [Threads -> Seq(Write)]
  BY TInvStep DEF KInv, TInv, Flow, FlowOK
<1>2. CASE Beside \/ Changes
  BY <1>1, <1>2, BesideStays, ChangesStay
<1>3. ASSUME NEW c \in Calls, RefreshAnswered(c) PROVE KInv'
  BY <1>1, <1>2, <1>3, RefreshChanges
<1>4. ASSUME NEW t \in Threads, KeepCurrent(t) PROVE KInv'
  <2>1. PICK w \in Seq(Write) : Leads(w) /\ w # << >> /\ todo' = [todo EXCEPT ![t] = w]
    <3>1. CASE enabled /\ tokens # None /\ tokens.parts > 0
      <4>1. Saving(tokens) \in Seq(Write) /\ Saving(tokens) # << >>
        BY <1>1, <3>1, HeadIsThere, SavingWrites
      <4> QED BY <1>1, <1>4, <3>1, <4>1, SavingLeads DEF KeepCurrent
    <3>2. CASE ~(enabled /\ tokens # None /\ tokens.parts > 0)
      <4>1. Forgetting \in Seq(Write) /\ Forgetting # << >>
        <5>1. Len(Forgetting) > 0
          BY ForgettingWrites, Constants
        <5> QED BY <5>1, ForgettingWrites
      <4> QED BY <1>4, <3>2, <4>1, ForgettingLeads DEF KeepCurrent
    <3> QED BY <3>1, <3>2
  <2>2. alone' = NobodyWrites /\ UNCHANGED <<store, tokens, enabled>>
    BY <1>4 DEF KeepCurrent
  <2> QED BY <1>1, <2>1, <2>2, DecidesLeads
<1>5. ASSUME NEW t \in {"launch", "main"},
             \/ t = "launch" /\ ResumeRefused
             \/ t = "main" /\ SignOutForgets
      PROVE  KInv'
  <2>1. /\ todo' = [todo EXCEPT ![t] = Forgetting]
        /\ alone' = NobodyWrites /\ UNCHANGED <<store, tokens, enabled>>
    BY <1>5 DEF ResumeRefused, SignOutForgets
  <2>2. Forgetting # << >> /\ t \in Threads
    BY ForgettingWrites, Constants
  <2> QED BY <1>1, <2>1, <2>2, ForgettingLeads, DecidesLeads
<1>6. ASSUME NEW t \in Threads, StoreWrite(t) PROVE KInv'
  <2>1. /\ \A u \in Threads \ {t} : todo'[u] = todo[u]
        /\ todo[t] # << >> /\ todo'[t] \in Seq(Write)
        /\ Len(todo'[t]) = Len(todo[t]) - 1 /\ Len(todo[t]) \in Nat
    BY <1>1, <1>6, OneWrite DEF TInv, StoreWrite
  <2>2. alone' = alone /\ IF Len(todo[t]) > 1 THEN clean' = clean ELSE clean' = alone
    BY <1>6 DEF StoreWrite
  <2>3. clean' /\ NobodyWrites' => alone'
    <3>1. CASE Len(todo[t]) > 1
      <4>1. todo'[t] # << >>
        BY <2>1, <3>1
      <4> QED BY <4>1 DEF NobodyWrites
    <3>2. CASE ~(Len(todo[t]) > 1)
      BY <2>2, <3>2
    <3> QED BY <3>1, <3>2
  <2>4. Pending => Pending'
    <3>1. \A u \in Threads : pc'[u] = pc[u] \/ pc[u] \in {"writing", "forget"}
      BY <1>1, <1>6, OneWrite DEF TInv
    <3> QED BY <3>1 DEF Pending
  <2>5. ASSUME alone
        PROVE  OneWriter' /\ KeptLeads'
    <3>1. \A u \in Threads \ {t} : todo[u] = << >>
      BY <2>1, <2>5 DEF KInv, OneWriter
    <3>2. OneWriter'
      BY <2>1, <3>1 DEF OneWriter
    <3>3. ~Pending' => Leads(todo[t])'
      BY <1>1, <1>6, <2>1, <2>4, <2>5, WriteLeads DEF KInv, KeptLeads
    <3> QED BY <2>1, <3>1, <3>2, <3>3 DEF KeptLeads
  <2> QED BY <1>1, <2>2, <2>3, <2>5 DEF KInv
<1>7. ASSUME NEW t \in Threads, StoreFails(t) PROVE KInv'
  <2>1. /\ \A u \in Threads \ {t} : todo'[u] = todo[u]
        /\ todo[t] # << >> /\ todo'[t] = << >> /\ ~clean' /\ alone' = alone
    BY <1>1, <1>7 DEF StoreFails
  <2>2. alone => OneWriter' /\ \A u \in Threads : todo'[u] = << >>
    BY <2>1 DEF KInv, OneWriter
  <2> QED BY <1>1, <2>1, <2>2 DEF KInv, KeptLeads
<1>8. CASE Close
  <2>1. (\A u \in Threads : todo'[u] = << >>) /\ ~clean'
    BY <1>8 DEF Close
  <2> QED BY <1>1, <2>1 DEF KInv, OneWriter, KeptLeads
<1> QED
  BY <1>1, <1>2, <1>3, <1>4, <1>5, <1>6, <1>7, <1>8, BesideSteps, ChangesSteps
  DEF Next, Call, Login, Launch, Main

LEMMA KInvInit == Init => KInv
<1> SUFFICES ASSUME Init PROVE KInv
  OBVIOUS
<1>1. store[0] = None /\ \A t \in Threads : todo[t] = << >>
  BY Constants DEF Init
<1>2. Leads(<< >>)
  BY <1>1 DEF Leads
<1>3. alone
  BY DEF Init
<1> QED BY <1>1, <1>2, <1>3, TInvInit DEF KInv, OneWriter, KeptLeads

\* What a launch would read is the token of which all entries are there.
LEMMA WholeIsSpelled ==
  ASSUME TInv, tokens # None, tokens.parts > 0,
         \A i \in 0..tokens.parts : store[i] = EntryOf(tokens, i)
  PROVE  Kept = tokens /\ store[0].session = tokens.session
<1> DEFINE n == tokens.parts
           s == [i \in 1..(n + 1) |-> store[i - 1]]
<1>1. tokens \in TokenSet /\ n \in 1..Parts /\ Parts \in Nat
  <2>1. tokens \in TokenSet
    BY DEF TInv, DataOK
  <2>2. n \in Lengths
    BY <2>1 DEF TokenSet
  <2>3. n \in 0..Parts /\ Parts \in Nat
    BY <2>2, Constants
  <2> QED BY <2>1, <2>3
<1>2. store[0] = [parts |-> n, session |-> tokens.session]
  <2>1. 0 \in 0..n
    BY <1>1
  <2> QED BY <2>1 DEF EntryOf
<1>3. \A i \in 1..n : store[i] = [of |-> tokens, at |-> i]
  BY <1>1 DEF EntryOf
<1>4. \A i \in 0..n : store[i] # None
  <2>1. [parts |-> n, session |-> tokens.session] \in HeadEntry
    BY <1>1 DEF HeadEntry, TokenSet
  <2>2. \A i \in 1..n : [of |-> tokens, at |-> i] \in PartEntry
    BY <1>1 DEF PartEntry
  <2>3. None \notin HeadEntry /\ None \notin PartEntry
    BY SessionAssumption
  <2>4. \A i \in 0..n : i = 0 \/ i \in 1..n
    BY <1>1
  <2>5. store[0] # None
    BY <1>2, <2>1, <2>3
  <2>6. \A i \in 1..n : store[i] # None
    BY <1>3, <2>2, <2>3
  <2> QED BY <2>4, <2>5, <2>6
<1>5. store[0].parts = n /\ store[0].session = tokens.session
  BY <1>2
<1>6. Kept = Spelled(s)
  BY <1>1, <1>4, <1>5 DEF Kept
<1>7. Len(s) = n + 1
  BY <1>1
<1>8. \A i \in 2..(n + 1) : s[i] = [of |-> tokens, at |-> i - 1]
  BY <1>1, <1>3
<1>9. s[2].of = tokens
  <2>1. 2 \in 2..(n + 1)
    BY <1>1
  <2>2. s[2] = [of |-> tokens, at |-> 2 - 1]
    BY <1>8, <2>1
  <2> HIDE DEF s
  <2> QED BY <2>2
<1> HIDE DEF s
<1>10. Spelled(s) = tokens
  BY <1>1, <1>7, <1>8, <1>9 DEF Spelled
<1> QED BY <1>5, <1>6, <1>10

\* Once nobody is writing or about to, and the last write went well and had the
\* store to itself, what is kept is the current token, whole and under its own
\* account, or there is none; whatever was cut short or overlapped before.
THEOREM KeptIsCurrentHolds == Spec => []KeptIsCurrent
<1>1. KInv /\ [Next]_vars => KInv'
  BY KInvStep
<1>2. KInv => KeptIsCurrent
  <2> SUFFICES ASSUME KInv, Settled, store[0] # None
               PROVE  enabled /\ tokens # None /\ Kept = tokens /\ store[0].session = tokens.session
    BY DEF KeptIsCurrent
  <2>1. Leads(<< >>)
    BY DEF KInv, KeptLeads, Settled, Pending, NobodyWrites
  <2>2. /\ enabled /\ tokens # None /\ tokens.parts > 0
        /\ \A i \in 0..tokens.parts : store[i] = EntryOf(tokens, i)
    BY <2>1 DEF Leads
  <2> QED BY <2>2, WholeIsSpelled DEF KInv
<1> QED BY <1>1, <1>2, KInvInit, PTL DEF Spec
=============================================================================
