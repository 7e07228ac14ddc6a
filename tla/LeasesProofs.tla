---------------------------- MODULE LeasesProofs ----------------------------
(***************************************************************************)
(* Proofs about Leases, for any number of accounts, cases, persons,        *)
(* browsers and takes of an account.                                       *)
(*                                                                         *)
(* That nobody's session is ended needs two facts no step shows alone: who *)
(* signs in holds the account's lease (SignHolds), and so does whoever     *)
(* works as an account (LeaseCovers).  LeaseCovers is lost if a process    *)
(* that was signed in could be handed out as a new one, or belong to two,  *)
(* so the invariant follows every process: Driving, ClosingAt, Owners and  *)
(* Tracked.  What a run finds in the store is the account's last sign-in   *)
(* (KeptLast) because whoever signs in has emptied the store before        *)
(* (HolderNone, TemplateNone); the generations are not needed for it.      *)
(* The two together give the refinement of AccountUse.                     *)
(***************************************************************************)
EXTENDS Leases, TLAPS

\* Who asks, signs in or drives knows the account, and has a browser or none.
Driving ==
  \A u \in Users :
    /\ pc[u] \in {"wait", "way", "fetch", "sign"} => want[u] # None
    /\ u = "template" /\ pc[u] \in {"open", "use"} => want[u] # None
    /\ pc[u] \in {"sign", "use"} => own[u] # None
    /\ u # "template" /\ pc[u] \in {"open", "wait", "way"} => own[u] # None
    /\ pc[u] = "idle" => own[u] = None
    /\ u = "template" /\ pc[u] \in {"wait", "way", "fetch", "open"} => own[u] = None

\* When a user still closes a browser.
ClosingAt ==
  \A u \in Users : closing[u] # {} =>
    \/ pc[u] = "sign"
    \/ u = "template" /\ pc[u] = "open"
    \/ pc[u] = "end" /\ own[u] = None

TInv == TypeOK /\ Driving /\ ClosingAt

\* A process is driven by one user, kept for one account or closed by one.
Owners ==
  /\ \A u, v \in Users : own[u] # None /\ own[u] = own[v] => u = v
  /\ \A a, c \in Accounts :
       kept[a] # None /\ kept[c] # None /\ kept[a].browser = kept[c].browser => a = c
  /\ \A u \in Users, a \in Accounts : kept[a] # None => kept[a].browser # own[u]
  /\ \A q \in Closers, u \in Users : own[u] \notin closing[q]
  /\ \A q \in Closers, a \in Accounts : kept[a] # None => kept[a].browser \notin closing[q]
  /\ \A q, r \in Closers : \A b \in Browsers : b \in closing[q] /\ b \in closing[r] => q = r

\* A process that is signed in is somebody's.
Somebodys(b) ==
  \/ \E u \in Users : own[u] = b
  \/ \E a \in Accounts : kept[a] # None /\ kept[a].browser = b
  \/ \E q \in Closers : b \in closing[q]
Tracked == \A b \in Browsers : signedAs[b] # None => Somebodys(b)

\* Who signs in holds the account.
SignHolds ==
  \A u \in Users :
    pc[u] \in {"way", "fetch", "sign"} \/ (u = "template" /\ pc[u] \in {"open", "use"})
      => table[want[u]] = u

\* Who works as an account, or may go back to it, holds it.
LeaseCovers ==
  \A u \in Users, a \in Accounts :
    pc[u] \in {"open", "wait", "use"} /\ own[u] # None /\ signedAs[own[u]] = a => table[a] = u

\* A kept browser is signed in as its account, a run's as the run's.
SignedInAs ==
  /\ \A a \in Accounts : kept[a] # None => signedAs[kept[a].browser] = a
  /\ pc["template"] = "use" => signedAs[own["template"]] = want["template"]

LInv == TInv /\ Owners /\ Tracked /\ SignHolds /\ LeaseCovers /\ SignedInAs

\* Nothing is kept for an account a holder has, once it has given way.
HolderNone ==
  \A h \in Holders, a \in Accounts :
    table[a] = h /\ ~(pc[h] = "way" /\ want[h] = a) => kept[a] = None

\* Nor for the account of a run that has looked.
TemplateNone == pc["template"] \in {"open", "sign", "use"} => kept[want["template"]] = None

\* A kept browser is its account's last sign-in, and so is one in use.
KeptLast ==
  /\ \A a \in Accounts : kept[a] # None => session[a] = kept[a].browser
  /\ \A u \in Users, a \in Accounts :
       pc[u] \in {"open", "wait", "use"} /\ own[u] # None /\ signedAs[own[u]] = a => session[a] = own[u]
  /\ reused => pc["template"] = "use"

KInv == LInv /\ HolderNone /\ TemplateNone /\ KeptLast

-----------------------------------------------------------------------------
(* Well-typed.                                                             *)

\* The kinds of users and closers are different, and None is none of them.
LEMMA Kinds ==
  /\ \A h \in Holders : h \in Users /\ h # "template"
  /\ Users = Holders \cup {"template"}
  /\ "template" \in Users /\ "template" \notin Holders
  /\ \A u \in Users : u \in Closers /\ u \notin {"sweep", "aside"}
  /\ \A h \in Cases \cup Persons : h \in Holders
  /\ "sweep" \in Closers /\ "aside" \in Closers
  /\ None \notin Users /\ None \notin Accounts /\ None \notin Browsers /\ None \notin HeldEntry
  BY LeasesAssumption DEF Users, Closers, Holders

\* What is in the store.
LEMMA InKept ==
  ASSUME NEW S, NEW b
  PROVE  b \in KeptBrowsers(S) <=> \E a \in S : kept[a] # None /\ b = kept[a].browser
  BY DEF KeptBrowsers

\* The store holds processes.
LEMMA KeptTyped ==
  ASSUME TypeOK, NEW S \in SUBSET Accounts
  PROVE  KeptBrowsers(S) \in SUBSET Browsers
  BY Kinds DEF KeptBrowsers, TypeOK, HeldEntry

\* Every step keeps the types and the places.
LEMMA TInvStep ==
  ASSUME TInv, [Next]_vars
  PROVE  TInv'
<1>1. ASSUME NEW u \in Users, Take(u) PROVE TInv'
  <2>1. TypeOK'
    BY <1>1, Kinds, LeasesAssumption
    DEF Take, Bumped, TInv, TypeOK, Driving, Places, TemplatePlaces
  <2>2. Driving'
    BY <1>1 DEF Take, TInv, Driving
  <2>3. ClosingAt'
    BY <1>1 DEF Take, TInv, ClosingAt
  <2>q. QED  BY <2>1, <2>2, <2>3 DEF TInv
<1>2. ASSUME NEW u \in Users, Refused(u) PROVE TInv'
  <2>2. TypeOK'
    BY <1>2 DEF Refused, Before, TInv, TypeOK, Places
  <2>3. ASSUME NEW v \in Users PROVE Driving!(v)'
    BY <1>2, <2>3, Kinds DEF Refused, TInv, TypeOK, Driving
  <2>4. Driving'
    BY <2>3 DEF Driving
  <2>5. ClosingAt'
    BY <1>2 DEF Refused, TInv, ClosingAt
  <2>q. QED  BY <2>2, <2>4, <2>5 DEF TInv
<1>3. ASSUME NEW u \in Users, GiveWay(u) PROVE TInv'
  <2>1. TypeOK'
    BY <1>3, Kinds, KeptTyped DEF GiveWay, TInv, TypeOK, Driving, Places
  <2>2. Driving'
    BY <1>3 DEF GiveWay, TInv, Driving
  <2>3. ClosingAt'
    BY <1>3 DEF GiveWay, TInv, TypeOK, ClosingAt
  <2>q. QED  BY <2>1, <2>2, <2>3 DEF TInv
<1>4. ASSUME NEW u \in Users, SignIn(u) PROVE TInv'
  BY <1>4, Kinds DEF SignIn, TInv, TypeOK, Driving, ClosingAt, Places
<1>5. ASSUME NEW u \in Users, CloseOwn(u) PROVE TInv'
  BY <1>5, Kinds DEF CloseOwn, TInv, TypeOK, Driving, ClosingAt
<1>6. ASSUME NEW u \in Users, Done(u) PROVE TInv'
  BY <1>6 DEF Done, TInv, TypeOK, Driving, ClosingAt, Places
<1>7. ASSUME NEW h \in Holders, OpenBrowser(h) PROVE TInv'
  <2>1. TypeOK'
    BY <1>7, Kinds DEF OpenBrowser, Unused, TInv, TypeOK, Places
  <2>2. Driving'
    BY <1>7, Kinds DEF OpenBrowser, Unused, TInv, TypeOK, Driving
  <2>3. ClosingAt'
    BY <1>7 DEF OpenBrowser, TInv, ClosingAt
  <2>q. QED  BY <2>1, <2>2, <2>3 DEF TInv
<1>8. ASSUME NEW h \in Holders, NEW a \in Accounts, Hold(h, a) PROVE TInv'
  BY <1>8, Kinds DEF Hold, TInv, TypeOK, Driving, ClosingAt, Places
<1>9. ASSUME NEW h \in Holders, StopHold(h) PROVE TInv'
  BY <1>9, Kinds DEF StopHold, TInv, TypeOK, Driving, ClosingAt, Places
<1>10. ASSUME NEW h \in Holders, LetGo(h) PROVE TInv'
  BY <1>10, Kinds DEF LetGo, TInv, TypeOK, Driving, ClosingAt, Places
<1>11. ASSUME NEW h \in Holders, Close(h) PROVE TInv'
  BY <1>11, Kinds DEF Close, TInv, TypeOK, Driving, ClosingAt, Places
<1>12. ASSUME NEW a \in Accounts, Claim(a) PROVE TInv'
  <2>1. TypeOK'
    BY <1>12, Kinds DEF Claim, TInv, TypeOK, TemplatePlaces
  <2>2. Driving' /\ ClosingAt'
    BY <1>12, Kinds DEF Claim, TInv, TypeOK, Driving, ClosingAt
  <2>q. QED  BY <2>1, <2>2 DEF TInv
<1>13. ASSUME Fetch PROVE TInv'
  <2> DEFINE a == want["template"]
  <2>0. a \in Accounts /\ (kept[a] # None => kept[a].browser \in Browsers)
    BY <1>13, Kinds DEF Fetch, TInv, TypeOK, Driving, HeldEntry
  <2>1. CASE kept' = kept /\ own' = own /\ closing' = closing /\ reused' = reused
    BY <1>13, <2>0, <2>1, Kinds DEF Fetch, TInv, TypeOK, Driving, ClosingAt, TemplatePlaces
  <2>2. CASE /\ kept[a] # None
             /\ kept' = [kept EXCEPT ![a] = None]
             /\ own' = [own EXCEPT !["template"] = kept[a].browser]
             /\ pc' = [pc EXCEPT !["template"] = "use"]
             /\ closing' = closing /\ reused' = TRUE
    <3>1. TypeOK'
      BY <1>13, <2>0, <2>2, Kinds DEF Fetch, TInv, TypeOK, TemplatePlaces
    <3>2. Driving'
      BY <1>13, <2>0, <2>2, Kinds DEF Fetch, TInv, TypeOK, Driving
    <3>3. ClosingAt'
      BY <1>13, <2>0, <2>2 DEF Fetch, TInv, ClosingAt
    <3>q. QED  BY <3>1, <3>2, <3>3 DEF TInv
  <2>3. CASE /\ kept[a] # None
             /\ closing' = [closing EXCEPT !["template"] = {kept[a].browser}]
             /\ own' = own
    BY <1>13, <2>0, <2>3, Kinds DEF Fetch, TInv, TypeOK, Driving, ClosingAt, TemplatePlaces
  <2>q. QED  BY <1>13, <2>1, <2>2, <2>3 DEF Fetch
<1>14. ASSUME OpenFresh PROVE TInv'
  <2>1. TypeOK'
    BY <1>14, Kinds DEF OpenFresh, Unused, TInv, TypeOK, TemplatePlaces
  <2>2. Driving'
    BY <1>14, Kinds DEF OpenFresh, Unused, TInv, TypeOK, Driving
  <2>3. ClosingAt'
    BY <1>14 DEF OpenFresh, TInv, TypeOK, ClosingAt
  <2>q. QED  BY <2>1, <2>2, <2>3 DEF TInv
<1>15. ASSUME Dropped PROVE TInv'
  <2>0. own["template"] \in Browsers
    BY <1>15, Kinds DEF Dropped, TInv, TypeOK, Driving
  <2>1. TypeOK'
    BY <1>15, <2>0, Kinds DEF Dropped, TInv, TypeOK, Places, TemplatePlaces
  <2>2. Driving'
    BY <1>15 DEF Dropped, TInv, TypeOK, Driving
  <2>3. ClosingAt'
    BY <1>15 DEF Dropped, TInv, TypeOK, ClosingAt
  <2>q. QED  BY <2>1, <2>2, <2>3 DEF TInv
<1>16. ASSUME Keep PROVE TInv'
  <2> DEFINE a == want["template"]
             b == own["template"]
  <2>0. b \in Browsers /\ a \in Accounts
    BY <1>16, Kinds DEF Keep, TInv, TypeOK, Driving
  <2>1. [browser |-> b, gen |-> gen[a]] \in HeldEntry
    BY <2>0 DEF TInv, TypeOK, HeldEntry
  <2>2. TypeOK'
    <3>1. kept' \in [Accounts -> HeldEntry \cup {None}]
      BY <1>16, <2>0, <2>1 DEF Keep, TInv, TypeOK
    <3>2. closing' \in [Closers -> SUBSET Browsers]
      BY <1>16, <2>0, KeptTyped DEF Keep, TInv, TypeOK
    <3>q. QED
      BY <1>16, <3>1, <3>2, Kinds DEF Keep, TInv, TypeOK, Places, TemplatePlaces
  <2>3. Driving'
    BY <1>16 DEF Keep, TInv, TypeOK, Driving
  <2>4. ClosingAt'
    BY <1>16, Kinds DEF Keep, TInv, TypeOK, ClosingAt
  <2>q. QED  BY <2>2, <2>3, <2>4 DEF TInv
<1>17. ASSUME FinishUnkept PROVE TInv'
  BY <1>17, Kinds DEF FinishUnkept, TInv, TypeOK, Driving, ClosingAt, Places, TemplatePlaces
<1>18. ASSUME Sweep PROVE TInv'
  <2>1. TypeOK'
    BY <1>18, Kinds, KeptTyped DEF Sweep, TInv, TypeOK
  <2>2. Driving'
    BY <1>18 DEF Sweep, TInv, Driving
  <2>3. ClosingAt'
    BY <1>18, Kinds DEF Sweep, TInv, ClosingAt
  <2>q. QED  BY <2>1, <2>2, <2>3 DEF TInv
<1>19. ASSUME CloseAll PROVE TInv'
  <2>1. TypeOK'
    BY <1>19, Kinds, KeptTyped DEF CloseAll, TInv, TypeOK
  <2>2. Driving'
    BY <1>19 DEF CloseAll, TInv, Driving
  <2>3. ClosingAt'
    BY <1>19, Kinds DEF CloseAll, TInv, ClosingAt
  <2>q. QED  BY <2>1, <2>2, <2>3 DEF TInv
<1>20. ASSUME Shut PROVE TInv'
  BY <1>20 DEF Shut, TInv, TypeOK, Driving, ClosingAt
<1>21. ASSUME NEW q \in Closers, Ended(q) PROVE TInv'
  BY <1>21 DEF Ended, TInv, TypeOK, Driving, ClosingAt
<1>22. CASE UNCHANGED vars
  BY <1>22 DEF vars, TInv, TypeOK, Driving, ClosingAt
<1>q. QED
  BY <1>1, <1>2, <1>3, <1>4, <1>5, <1>6, <1>7, <1>8, <1>9, <1>10, <1>11,
     <1>12, <1>13, <1>14, <1>15, <1>16, <1>17, <1>18, <1>19, <1>20, <1>21, <1>22
     DEF Next, User, Holder, Template

-----------------------------------------------------------------------------
(* Every process is somebody's, and one owner's.                             *)

\* Every step keeps a process with one owner.
LEMMA OwnersStep ==
  ASSUME TInv /\ Owners, [Next]_vars
  PROVE  Owners'
<1>1. ASSUME NEW u \in Users, Take(u) PROVE Owners'
  BY <1>1 DEF Take, Owners
<1>2. ASSUME NEW u \in Users, Refused(u) PROVE Owners'
  BY <1>2 DEF Refused, Owners
<1>3. ASSUME NEW u \in Users, GiveWay(u) PROVE Owners'
  BY <1>3, InKept DEF GiveWay, TInv, TypeOK, Driving, Owners
<1>4. ASSUME NEW u \in Users, SignIn(u) PROVE Owners'
  BY <1>4 DEF SignIn, Owners
<1>5. ASSUME NEW u \in Users, CloseOwn(u) PROVE Owners'
  BY <1>5, Kinds DEF CloseOwn, TInv, TypeOK, HeldEntry, Owners
<1>6. ASSUME NEW u \in Users, Done(u) PROVE Owners'
  BY <1>6 DEF Done, Owners
<1>7. ASSUME NEW h \in Holders, OpenBrowser(h) PROVE Owners'
  BY <1>7, InKept DEF OpenBrowser, Unused, Alive, Owners
<1>8. ASSUME NEW h \in Holders, NEW a \in Accounts, Hold(h, a) PROVE Owners'
  BY <1>8 DEF Hold, Owners
<1>9. ASSUME NEW h \in Holders, StopHold(h) PROVE Owners'
  <2>0. /\ h \in Closers /\ h # "aside" /\ "aside" \in Closers
        /\ own' = own /\ kept' = kept
        /\ closing' = [closing EXCEPT ![h] = {}, !["aside"] = @ \cup closing[h]]
    BY <1>9, Kinds DEF StopHold
  <2>1. \A q \in Closers : \A b : b \in closing'[q] =>
          /\ q # h
          /\ b \in closing[q] \/ (q = "aside" /\ b \in closing[h])
    BY <2>0 DEF TInv, TypeOK
  <2>2. ASSUME NEW q \in Closers, NEW r \in Closers, NEW b \in Browsers,
               b \in closing'[q], b \in closing'[r]
        PROVE  q = r
    <3>1. \A x, y \in Closers : b \in closing[x] /\ b \in closing[y] => x = y
      BY DEF Owners
    <3>q. QED  BY <2>0, <2>1, <2>2, <3>1
  <2>3. ASSUME NEW q \in Closers, NEW u \in Users
        PROVE  own[u] \notin closing'[q]
    <3>1. \A r \in Closers : own[u] \notin closing[r]
      BY DEF Owners
    <3>q. QED  BY <2>0, <2>1, <3>1
  <2>4. ASSUME NEW q \in Closers, NEW a \in Accounts, kept[a] # None
        PROVE  kept[a].browser \notin closing'[q]
    <3>1. \A r \in Closers : kept[a].browser \notin closing[r]
      BY <2>4 DEF Owners
    <3>q. QED  BY <2>0, <2>1, <3>1
  <2>q. QED  BY <2>0, <2>2, <2>3, <2>4 DEF Owners
<1>10. ASSUME NEW h \in Holders, LetGo(h) PROVE Owners'
  BY <1>10 DEF LetGo, Owners
<1>11. ASSUME NEW h \in Holders, Close(h) PROVE Owners'
  BY <1>11 DEF Close, Owners
<1>12. ASSUME NEW a \in Accounts, Claim(a) PROVE Owners'
  BY <1>12 DEF Claim, Owners
<1>13. ASSUME Fetch PROVE Owners'
  <2> DEFINE a == want["template"]
  <2>0. /\ a \in Accounts /\ own["template"] = None /\ closing["template"] = {}
        /\ kept[a] # None => kept[a].browser \in Browsers
    BY <1>13, Kinds DEF Fetch, TInv, TypeOK, Driving, ClosingAt, HeldEntry
  <2>1. CASE kept' = kept /\ own' = own /\ closing' = closing
    BY <2>1 DEF Owners
  <2>2. CASE /\ kept[a] # None /\ kept' = [kept EXCEPT ![a] = None]
             /\ own' = [own EXCEPT !["template"] = kept[a].browser] /\ closing' = closing
    BY <2>0, <2>2 DEF TInv, TypeOK, Owners
  <2>3. CASE /\ kept[a] # None /\ kept' = [kept EXCEPT ![a] = None] /\ own' = own
             /\ closing' = [closing EXCEPT !["template"] = {kept[a].browser}]
    BY <2>0, <2>3 DEF TInv, TypeOK, Owners
  <2>q. QED  BY <1>13, <2>1, <2>2, <2>3 DEF Fetch
<1>14. ASSUME OpenFresh PROVE Owners'
  BY <1>14, InKept DEF OpenFresh, Unused, Alive, TInv, TypeOK, Owners
<1>15. ASSUME Dropped PROVE Owners'
  BY <1>15, Kinds DEF Dropped, TInv, TypeOK, HeldEntry, Driving, Owners
<1>16. ASSUME Keep PROVE Owners'
  <2> DEFINE a == want["template"]
             b == own["template"]
  <2>0. a \in Accounts /\ b \in Browsers /\ closing["template"] = {}
    BY <1>16, Kinds DEF Keep, TInv, TypeOK, Driving, ClosingAt
  <2>1. CASE kept' = kept /\ closing' = [closing EXCEPT !["template"] = {b}]
    BY <1>16, <2>0, <2>1, Kinds DEF Keep, TInv, TypeOK, HeldEntry, Owners
  <2>2. CASE /\ kept' = [kept EXCEPT ![a] = [browser |-> b, gen |-> gen[a]]]
             /\ closing' = [closing EXCEPT !["template"] = KeptBrowsers({a})]
    <3>1. own' = [own EXCEPT !["template"] = None]
      BY <1>16 DEF Keep
    <3>2. \A c \in Accounts : kept'[c] # None =>
            kept'[c].browser = IF c = a THEN b ELSE kept[c].browser
      BY <2>0, <2>2 DEF TInv, TypeOK
    <3>3. \A c \in Accounts : c # a => kept'[c] = kept[c]
      BY <2>2
    <3>4. \A x : x \in closing'["template"] <=> kept[a] # None /\ x = kept[a].browser
      BY <2>2, Kinds, InKept DEF TInv, TypeOK
    <3>5. \A q \in Closers : q # "template" => closing'[q] = closing[q]
      BY <2>2
    <3>6. \A u \in Users : own'[u] = None \/ (own'[u] = own[u] /\ u # "template")
      BY <3>1, Kinds DEF TInv, TypeOK
    <3>7. /\ \A u, v \in Users : own'[u] # None /\ own'[u] = own'[v] => u = v
          /\ \A u \in Users, c \in Accounts : kept'[c] # None => kept'[c].browser # own'[u]
      BY <2>0, <3>2, <3>3, <3>6, Kinds DEF TInv, TypeOK, HeldEntry, Owners
    <3>8. \A c, d \in Accounts :
            kept'[c] # None /\ kept'[d] # None /\ kept'[c].browser = kept'[d].browser => c = d
      BY <2>0, <3>2, <3>3, Kinds DEF Owners
    <3>9. /\ \A q \in Closers, u \in Users : own'[u] \notin closing'[q]
          /\ \A q \in Closers, c \in Accounts : kept'[c] # None => kept'[c].browser \notin closing'[q]
      BY <2>0, <3>2, <3>3, <3>4, <3>5, <3>6, Kinds DEF TInv, TypeOK, HeldEntry, Owners
    <3>10. \A q, r \in Closers : \A b1 \in Browsers : b1 \in closing'[q] /\ b1 \in closing'[r] => q = r
      BY <2>0, <3>4, <3>5, Kinds DEF Owners
    <3>q. QED  BY <3>7, <3>8, <3>9, <3>10 DEF Owners
  <2>q. QED  BY <1>16, <2>1, <2>2 DEF Keep
<1>17. ASSUME FinishUnkept PROVE Owners'
  BY <1>17 DEF FinishUnkept, Owners
<1>18. ASSUME Sweep PROVE Owners'
  BY <1>18, InKept DEF Sweep, HeldEntry, Owners
<1>19. ASSUME CloseAll PROVE Owners'
  BY <1>19, InKept DEF CloseAll, Owners
<1>20. ASSUME Shut PROVE Owners'
  BY <1>20 DEF Shut, Owners
<1>21. ASSUME NEW q \in Closers, Ended(q) PROVE Owners'
  BY <1>21 DEF Ended, Owners
<1>22. CASE UNCHANGED vars
  BY <1>22 DEF vars, Owners
<1>q. QED
  BY <1>1, <1>2, <1>3, <1>4, <1>5, <1>6, <1>7, <1>8, <1>9, <1>10, <1>11,
     <1>12, <1>13, <1>14, <1>15, <1>16, <1>17, <1>18, <1>19, <1>20, <1>21, <1>22
     DEF Next, User, Holder, Template

\* No step loses a process that is signed in.
LEMMA TrackedStep ==
  ASSUME TInv /\ Tracked, [Next]_vars
  PROVE  Tracked'
<1>1. ASSUME NEW u \in Users, Take(u) PROVE Tracked'
  BY <1>1 DEF Take, Somebodys, Tracked
<1>2. ASSUME NEW u \in Users, Refused(u) PROVE Tracked'
  BY <1>2 DEF Refused, Somebodys, Tracked
<1>3. ASSUME NEW u \in Users, GiveWay(u) PROVE Tracked'
  BY <1>3, Kinds, InKept DEF GiveWay, TInv, TypeOK, ClosingAt, Somebodys, Tracked
<1>4. ASSUME NEW u \in Users, SignIn(u) PROVE Tracked'
  BY <1>4 DEF SignIn, TInv, TypeOK, Somebodys, Tracked
<1>5. ASSUME NEW u \in Users, CloseOwn(u) PROVE Tracked'
  BY <1>5, Kinds DEF CloseOwn, TInv, TypeOK, ClosingAt, Somebodys, Tracked
<1>6. ASSUME NEW u \in Users, Done(u) PROVE Tracked'
  BY <1>6 DEF Done, Somebodys, Tracked
<1>7. ASSUME NEW h \in Holders, OpenBrowser(h) PROVE Tracked'
  BY <1>7, Kinds DEF OpenBrowser, TInv, Driving, Somebodys, Tracked
<1>8. ASSUME NEW h \in Holders, NEW a \in Accounts, Hold(h, a) PROVE Tracked'
  BY <1>8 DEF Hold, Somebodys, Tracked
<1>9. ASSUME NEW h \in Holders, StopHold(h) PROVE Tracked'
  BY <1>9, Kinds DEF StopHold, TInv, TypeOK, Somebodys, Tracked
<1>10. ASSUME NEW h \in Holders, LetGo(h) PROVE Tracked'
  BY <1>10 DEF LetGo, Somebodys, Tracked
<1>11. ASSUME NEW h \in Holders, Close(h) PROVE Tracked'
  BY <1>11 DEF Close, Somebodys, Tracked
<1>12. ASSUME NEW a \in Accounts, Claim(a) PROVE Tracked'
  BY <1>12 DEF Claim, Somebodys, Tracked
<1>13. ASSUME Fetch PROVE Tracked'
  BY <1>13, Kinds DEF Fetch, TInv, TypeOK, Driving, ClosingAt, Somebodys, Tracked
<1>14. ASSUME OpenFresh PROVE Tracked'
  BY <1>14, Kinds DEF OpenFresh, TInv, TypeOK, Driving, Somebodys, Tracked
<1>15. ASSUME Dropped PROVE Tracked'
  BY <1>15, Kinds DEF Dropped, TInv, TypeOK, ClosingAt, Somebodys, Tracked
<1>16. ASSUME Keep PROVE Tracked'
  BY <1>16, Kinds, InKept
  DEF Keep, TInv, TypeOK, HeldEntry, Driving, ClosingAt, Somebodys, Tracked
<1>17. ASSUME FinishUnkept PROVE Tracked'
  BY <1>17 DEF FinishUnkept, Somebodys, Tracked
<1>18. ASSUME Sweep PROVE Tracked'
  BY <1>18, Kinds, InKept DEF Sweep, TInv, TypeOK, Somebodys, Tracked
<1>19. ASSUME CloseAll PROVE Tracked'
  BY <1>19, Kinds, InKept DEF CloseAll, TInv, TypeOK, Somebodys, Tracked
<1>20. ASSUME Shut PROVE Tracked'
  BY <1>20 DEF Shut, Somebodys, Tracked
<1>21. ASSUME NEW q \in Closers, Ended(q) PROVE Tracked'
  BY <1>21 DEF Ended, TInv, TypeOK, Somebodys, Tracked
<1>22. CASE UNCHANGED vars
  BY <1>22 DEF vars, Tracked, Somebodys
<1>q. QED
  BY <1>1, <1>2, <1>3, <1>4, <1>5, <1>6, <1>7, <1>8, <1>9, <1>10, <1>11,
     <1>12, <1>13, <1>14, <1>15, <1>16, <1>17, <1>18, <1>19, <1>20, <1>21, <1>22
     DEF Next, User, Holder, Template

\* No step lets the account of a sign-in under way go.
LEMMA SignHoldsStep ==
  ASSUME TInv /\ SignHolds, [Next]_vars
  PROVE  SignHolds'
<1>1. ASSUME NEW u \in Users, Take(u) PROVE SignHolds'
  BY <1>1, Kinds DEF Take, MayTake, Before, TInv, TypeOK, Driving, SignHolds
<1>2. ASSUME NEW u \in Users, Refused(u) PROVE SignHolds'
  BY <1>2, Kinds DEF Refused, SignHolds
<1>3. ASSUME NEW u \in Users, GiveWay(u) PROVE SignHolds'
  BY <1>3 DEF GiveWay, SignHolds
<1>4. ASSUME NEW u \in Users, SignIn(u) PROVE SignHolds'
  BY <1>4 DEF SignIn, TInv, TypeOK, SignHolds
<1>5. ASSUME NEW u \in Users, CloseOwn(u) PROVE SignHolds'
  BY <1>5 DEF CloseOwn, SignHolds
<1>6. ASSUME NEW u \in Users, Done(u) PROVE SignHolds'
  BY <1>6 DEF Done, TInv, TypeOK, Driving, SignHolds
<1>7. ASSUME NEW h \in Holders, OpenBrowser(h) PROVE SignHolds'
  BY <1>7, Kinds DEF OpenBrowser, SignHolds
<1>8. ASSUME NEW h \in Holders, NEW a \in Accounts, Hold(h, a) PROVE SignHolds'
  BY <1>8 DEF Hold, TInv, TypeOK, SignHolds
<1>9. ASSUME NEW h \in Holders, StopHold(h) PROVE SignHolds'
  BY <1>9 DEF StopHold, SignHolds
<1>10. ASSUME NEW h \in Holders, LetGo(h) PROVE SignHolds'
  BY <1>10, Kinds DEF LetGo, TInv, TypeOK, Driving, SignHolds
<1>11. ASSUME NEW h \in Holders, Close(h) PROVE SignHolds'
  BY <1>11 DEF Close, SignHolds
<1>12. ASSUME NEW a \in Accounts, Claim(a) PROVE SignHolds'
  BY <1>12 DEF Claim, SignHolds
<1>13. ASSUME Fetch PROVE SignHolds'
  BY <1>13 DEF Fetch, TInv, TypeOK, SignHolds
<1>14. ASSUME OpenFresh PROVE SignHolds'
  BY <1>14 DEF OpenFresh, TInv, TypeOK, SignHolds
<1>15. ASSUME Dropped PROVE SignHolds'
  BY <1>15 DEF Dropped, SignHolds
<1>16. ASSUME Keep PROVE SignHolds'
  BY <1>16 DEF Keep, SignHolds
<1>17. ASSUME FinishUnkept PROVE SignHolds'
  BY <1>17 DEF FinishUnkept, SignHolds
<1>18. ASSUME Sweep PROVE SignHolds'
  BY <1>18 DEF Sweep, SignHolds
<1>19. ASSUME CloseAll PROVE SignHolds'
  BY <1>19 DEF CloseAll, SignHolds
<1>20. ASSUME Shut PROVE SignHolds'
  BY <1>20 DEF Shut, SignHolds
<1>21. ASSUME NEW q \in Closers, Ended(q) PROVE SignHolds'
  BY <1>21 DEF Ended, SignHolds
<1>22. CASE UNCHANGED vars
  BY <1>22 DEF vars, SignHolds
<1>q. QED
  BY <1>1, <1>2, <1>3, <1>4, <1>5, <1>6, <1>7, <1>8, <1>9, <1>10, <1>11,
     <1>12, <1>13, <1>14, <1>15, <1>16, <1>17, <1>18, <1>19, <1>20, <1>21, <1>22
     DEF Next, User, Holder, Template

\* No step lets go of, or gives away, an account somebody works as.
LEMMA LeaseCoversStep ==
  ASSUME LInv, [Next]_vars
  PROVE  LeaseCovers'
<1>1. ASSUME NEW u \in Users, Take(u) PROVE LeaseCovers'
  BY <1>1, Kinds DEF Take, MayTake, Before, LInv, TInv, TypeOK, LeaseCovers
<1>2. ASSUME NEW u \in Users, Refused(u) PROVE LeaseCovers'
  BY <1>2 DEF Refused, LInv, LeaseCovers
<1>3. ASSUME NEW u \in Users, GiveWay(u) PROVE LeaseCovers'
  BY <1>3 DEF GiveWay, LInv, TInv, Driving, LeaseCovers
<1>4. ASSUME NEW u \in Users, SignIn(u) PROVE LeaseCovers'
  BY <1>4, Kinds DEF SignIn, LInv, TInv, TypeOK, Owners, SignHolds, LeaseCovers
<1>5. ASSUME NEW u \in Users, CloseOwn(u) PROVE LeaseCovers'
  BY <1>5 DEF CloseOwn, LInv, LeaseCovers
<1>6. ASSUME NEW u \in Users, Done(u) PROVE LeaseCovers'
  BY <1>6 DEF Done, LInv, LeaseCovers
<1>7. ASSUME NEW h \in Holders, OpenBrowser(h) PROVE LeaseCovers'
  BY <1>7, Kinds, InKept
  DEF OpenBrowser, Unused, Alive, Somebodys, LInv, TInv, TypeOK, Tracked, LeaseCovers
<1>8. ASSUME NEW h \in Holders, NEW a \in Accounts, Hold(h, a) PROVE LeaseCovers'
  BY <1>8 DEF Hold, LInv, LeaseCovers
<1>9. ASSUME NEW h \in Holders, StopHold(h) PROVE LeaseCovers'
  BY <1>9 DEF StopHold, LInv, LeaseCovers
<1>10. ASSUME NEW h \in Holders, LetGo(h) PROVE LeaseCovers'
  BY <1>10, Kinds DEF LetGo, LInv, TInv, TypeOK, LeaseCovers
<1>11. ASSUME NEW h \in Holders, Close(h) PROVE LeaseCovers'
  BY <1>11 DEF Close, LInv, LeaseCovers
<1>12. ASSUME NEW a \in Accounts, Claim(a) PROVE LeaseCovers'
  BY <1>12 DEF Claim, LInv, TInv, Driving, LeaseCovers
<1>13. ASSUME Fetch PROVE LeaseCovers'
  BY <1>13 DEF Fetch, LInv, TInv, TypeOK, Driving, SignHolds, LeaseCovers, SignedInAs
<1>14. ASSUME OpenFresh PROVE LeaseCovers'
  BY <1>14 DEF OpenFresh, LInv, TInv, TypeOK, LeaseCovers
<1>15. ASSUME Dropped PROVE LeaseCovers'
  BY <1>15 DEF Dropped, LInv, LeaseCovers
<1>16. ASSUME Keep PROVE LeaseCovers'
  BY <1>16 DEF Keep, LInv, LeaseCovers
<1>17. ASSUME FinishUnkept PROVE LeaseCovers'
  BY <1>17 DEF FinishUnkept, LInv, LeaseCovers
<1>18. ASSUME Sweep PROVE LeaseCovers'
  BY <1>18 DEF Sweep, LInv, LeaseCovers
<1>19. ASSUME CloseAll PROVE LeaseCovers'
  BY <1>19 DEF CloseAll, LInv, LeaseCovers
<1>20. ASSUME Shut PROVE LeaseCovers'
  BY <1>20 DEF Shut, LInv, LeaseCovers
<1>21. ASSUME NEW q \in Closers, Ended(q) PROVE LeaseCovers'
  BY <1>21, Kinds DEF Ended, LInv, LeaseCovers
<1>22. CASE UNCHANGED vars
  BY <1>22 DEF vars, LInv, LeaseCovers
<1>q. QED
  BY <1>1, <1>2, <1>3, <1>4, <1>5, <1>6, <1>7, <1>8, <1>9, <1>10, <1>11,
     <1>12, <1>13, <1>14, <1>15, <1>16, <1>17, <1>18, <1>19, <1>20, <1>21, <1>22
     DEF Next, User, Holder, Template

\* No step changes whom a kept browser, or a run's, is signed in as.
LEMMA SignedInAsStep ==
  ASSUME LInv, [Next]_vars
  PROVE  SignedInAs'
<1>1. ASSUME NEW u \in Users, Take(u) PROVE SignedInAs'
  BY <1>1 DEF Take, LInv, SignedInAs
<1>2. ASSUME NEW u \in Users, Refused(u) PROVE SignedInAs'
  BY <1>2, Kinds DEF Refused, LInv, SignedInAs
<1>3. ASSUME NEW u \in Users, GiveWay(u) PROVE SignedInAs'
  BY <1>3 DEF GiveWay, LInv, SignedInAs
<1>4. ASSUME NEW u \in Users, SignIn(u) PROVE SignedInAs'
  BY <1>4, Kinds DEF SignIn, LInv, TInv, TypeOK, HeldEntry, Driving, Owners, SignedInAs
<1>5. ASSUME NEW u \in Users, CloseOwn(u) PROVE SignedInAs'
  BY <1>5 DEF CloseOwn, LInv, SignedInAs
<1>6. ASSUME NEW u \in Users, Done(u) PROVE SignedInAs'
  BY <1>6 DEF Done, LInv, SignedInAs
<1>7. ASSUME NEW h \in Holders, OpenBrowser(h) PROVE SignedInAs'
  BY <1>7 DEF OpenBrowser, LInv, SignedInAs
<1>8. ASSUME NEW h \in Holders, NEW a \in Accounts, Hold(h, a) PROVE SignedInAs'
  BY <1>8, Kinds DEF Hold, LInv, SignedInAs
<1>9. ASSUME NEW h \in Holders, StopHold(h) PROVE SignedInAs'
  BY <1>9 DEF StopHold, LInv, SignedInAs
<1>10. ASSUME NEW h \in Holders, LetGo(h) PROVE SignedInAs'
  BY <1>10, Kinds DEF LetGo, LInv, TInv, TypeOK, Owners, SignedInAs
<1>11. ASSUME NEW h \in Holders, Close(h) PROVE SignedInAs'
  BY <1>11 DEF Close, LInv, SignedInAs
<1>12. ASSUME NEW a \in Accounts, Claim(a) PROVE SignedInAs'
  BY <1>12 DEF Claim, LInv, SignedInAs
<1>13. ASSUME Fetch PROVE SignedInAs'
  BY <1>13 DEF Fetch, LInv, TInv, TypeOK, Driving, SignedInAs
<1>14. ASSUME OpenFresh PROVE SignedInAs'
  BY <1>14 DEF OpenFresh, LInv, TInv, TypeOK, SignedInAs
<1>15. ASSUME Dropped PROVE SignedInAs'
  BY <1>15 DEF Dropped, LInv, TInv, TypeOK, SignedInAs
<1>16. ASSUME Keep PROVE SignedInAs'
  BY <1>16 DEF Keep, LInv, TInv, TypeOK, SignedInAs
<1>17. ASSUME FinishUnkept PROVE SignedInAs'
  BY <1>17 DEF FinishUnkept, LInv, SignedInAs
<1>18. ASSUME Sweep PROVE SignedInAs'
  BY <1>18 DEF Sweep, LInv, SignedInAs
<1>19. ASSUME CloseAll PROVE SignedInAs'
  BY <1>19 DEF CloseAll, LInv, SignedInAs
<1>20. ASSUME Shut PROVE SignedInAs'
  BY <1>20 DEF Shut, LInv, SignedInAs
<1>21. ASSUME NEW q \in Closers, Ended(q) PROVE SignedInAs'
  BY <1>21, Kinds DEF Ended, LInv, Owners, SignedInAs
<1>22. CASE UNCHANGED vars
  BY <1>22 DEF vars, LInv, SignedInAs
<1>q. QED
  BY <1>1, <1>2, <1>3, <1>4, <1>5, <1>6, <1>7, <1>8, <1>9, <1>10, <1>11,
     <1>12, <1>13, <1>14, <1>15, <1>16, <1>17, <1>18, <1>19, <1>20, <1>21, <1>22
     DEF Next, User, Holder, Template

-----------------------------------------------------------------------------
(* What is kept is the account's last sign-in.                             *)

\* No step keeps a browser of an account a holder has.
LEMMA HolderNoneStep ==
  ASSUME LInv /\ HolderNone, [Next]_vars
  PROVE  HolderNone'
<1>1. ASSUME NEW u \in Users, Take(u) PROVE HolderNone'
  BY <1>1, Kinds DEF Take, LInv, TInv, TypeOK, HolderNone
<1>2. ASSUME NEW u \in Users, Refused(u) PROVE HolderNone'
  BY <1>2 DEF Refused, HolderNone
<1>3. ASSUME NEW u \in Users, GiveWay(u) PROVE HolderNone'
  BY <1>3 DEF GiveWay, LInv, TInv, TypeOK, HolderNone
<1>4. ASSUME NEW u \in Users, SignIn(u) PROVE HolderNone'
  BY <1>4, Kinds DEF SignIn, LInv, TInv, TypeOK, HolderNone
<1>5. ASSUME NEW u \in Users, CloseOwn(u) PROVE HolderNone'
  BY <1>5 DEF CloseOwn, HolderNone
<1>6. ASSUME NEW u \in Users, Done(u) PROVE HolderNone'
  BY <1>6, Kinds DEF Done, HolderNone
<1>7. ASSUME NEW h \in Holders, OpenBrowser(h) PROVE HolderNone'
  BY <1>7 DEF OpenBrowser, HolderNone
<1>8. ASSUME NEW h \in Holders, NEW a \in Accounts, Hold(h, a) PROVE HolderNone'
  BY <1>8 DEF Hold, HolderNone
<1>9. ASSUME NEW h \in Holders, StopHold(h) PROVE HolderNone'
  BY <1>9 DEF StopHold, HolderNone
<1>10. ASSUME NEW h \in Holders, LetGo(h) PROVE HolderNone'
  BY <1>10 DEF LetGo, HolderNone
<1>11. ASSUME NEW h \in Holders, Close(h) PROVE HolderNone'
  BY <1>11 DEF Close, HolderNone
<1>12. ASSUME NEW a \in Accounts, Claim(a) PROVE HolderNone'
  BY <1>12 DEF Claim, HolderNone
<1>13. ASSUME Fetch PROVE HolderNone'
  BY <1>13, Kinds DEF Fetch, LInv, TInv, TypeOK, HolderNone
<1>14. ASSUME OpenFresh PROVE HolderNone'
  BY <1>14, Kinds DEF OpenFresh, LInv, TInv, TypeOK, HolderNone
<1>15. ASSUME Dropped PROVE HolderNone'
  BY <1>15 DEF Dropped, HolderNone
<1>16. ASSUME Keep PROVE HolderNone'
  BY <1>16, Kinds DEF Keep, LInv, TInv, TypeOK, SignHolds, HolderNone
<1>17. ASSUME FinishUnkept PROVE HolderNone'
  BY <1>17 DEF FinishUnkept, HolderNone
<1>18. ASSUME Sweep PROVE HolderNone'
  BY <1>18 DEF Sweep, HolderNone
<1>19. ASSUME CloseAll PROVE HolderNone'
  BY <1>19 DEF CloseAll, HolderNone
<1>20. ASSUME Shut PROVE HolderNone'
  BY <1>20 DEF Shut, HolderNone
<1>21. ASSUME NEW q \in Closers, Ended(q) PROVE HolderNone'
  BY <1>21 DEF Ended, HolderNone
<1>22. CASE UNCHANGED vars
  BY <1>22 DEF vars, HolderNone
<1>q. QED
  BY <1>1, <1>2, <1>3, <1>4, <1>5, <1>6, <1>7, <1>8, <1>9, <1>10, <1>11,
     <1>12, <1>13, <1>14, <1>15, <1>16, <1>17, <1>18, <1>19, <1>20, <1>21, <1>22
     DEF Next, User, Holder, Template

\* No step keeps one of the account a run signs in as.
LEMMA TemplateNoneStep ==
  ASSUME LInv /\ TemplateNone, ~Unreadable, [Next]_vars
  PROVE  TemplateNone'
<1>1. ASSUME NEW u \in Users, Take(u) PROVE TemplateNone'
  BY <1>1 DEF Take, TemplateNone
<1>2. ASSUME NEW u \in Users, Refused(u) PROVE TemplateNone'
  BY <1>2, Kinds DEF Refused, TemplateNone
<1>3. ASSUME NEW u \in Users, GiveWay(u) PROVE TemplateNone'
  BY <1>3 DEF GiveWay, LInv, TInv, TypeOK, Driving, TemplateNone
<1>4. ASSUME NEW u \in Users, SignIn(u) PROVE TemplateNone'
  BY <1>4, Kinds DEF SignIn, LInv, TInv, TypeOK, TemplateNone
<1>5. ASSUME NEW u \in Users, CloseOwn(u) PROVE TemplateNone'
  BY <1>5 DEF CloseOwn, TemplateNone
<1>6. ASSUME NEW u \in Users, Done(u) PROVE TemplateNone'
  BY <1>6 DEF Done, TemplateNone
<1>7. ASSUME NEW h \in Holders, OpenBrowser(h) PROVE TemplateNone'
  BY <1>7, Kinds DEF OpenBrowser, TemplateNone
<1>8. ASSUME NEW h \in Holders, NEW a \in Accounts, Hold(h, a) PROVE TemplateNone'
  BY <1>8, Kinds DEF Hold, TemplateNone
<1>9. ASSUME NEW h \in Holders, StopHold(h) PROVE TemplateNone'
  BY <1>9 DEF StopHold, TemplateNone
<1>10. ASSUME NEW h \in Holders, LetGo(h) PROVE TemplateNone'
  BY <1>10, Kinds DEF LetGo, TemplateNone
<1>11. ASSUME NEW h \in Holders, Close(h) PROVE TemplateNone'
  BY <1>11 DEF Close, TemplateNone
<1>12. ASSUME NEW a \in Accounts, Claim(a) PROVE TemplateNone'
  BY <1>12 DEF Claim, TemplateNone
<1>13. ASSUME Fetch PROVE TemplateNone'
  BY <1>13 DEF Fetch, LInv, TInv, TypeOK, Driving, TemplateNone
<1>14. ASSUME OpenFresh PROVE TemplateNone'
  BY <1>14 DEF OpenFresh, TemplateNone
<1>15. ASSUME Dropped PROVE TemplateNone'
  BY <1>15 DEF Dropped, TemplateNone
<1>16. ASSUME Keep PROVE TemplateNone'
  BY <1>16, Kinds DEF Keep, LInv, TInv, TypeOK, TemplateNone
<1>17. ASSUME FinishUnkept PROVE TemplateNone'
  BY <1>17 DEF FinishUnkept, TemplateNone
<1>18. ASSUME Sweep PROVE TemplateNone'
  BY <1>18, Kinds DEF Sweep, LInv, TInv, TypeOK, Driving, TemplateNone
<1>19. ASSUME CloseAll PROVE TemplateNone'
  BY <1>19, Kinds DEF CloseAll, LInv, TInv, TypeOK, Driving, TemplateNone
<1>20. ASSUME Shut PROVE TemplateNone'
  BY <1>20 DEF Shut, TemplateNone
<1>21. ASSUME NEW q \in Closers, Ended(q) PROVE TemplateNone'
  BY <1>21 DEF Ended, TemplateNone
<1>22. CASE UNCHANGED vars
  BY <1>22 DEF vars, TemplateNone
<1>q. QED
  BY <1>1, <1>2, <1>3, <1>4, <1>5, <1>6, <1>7, <1>8, <1>9, <1>10, <1>11,
     <1>12, <1>13, <1>14, <1>15, <1>16, <1>17, <1>18, <1>19, <1>20, <1>21, <1>22
     DEF Next, User, Holder, Template

\* No step signs in beside a browser kept or in use.
LEMMA KeptLastStep ==
  ASSUME KInv, [Next]_vars
  PROVE  KeptLast'
<1>1. ASSUME NEW u \in Users, Take(u) PROVE KeptLast'
  BY <1>1 DEF Take, KInv, LInv, KeptLast
<1>2. ASSUME NEW u \in Users, Refused(u) PROVE KeptLast'
  BY <1>2 DEF Refused, KInv, LInv, KeptLast
<1>3. ASSUME NEW u \in Users, GiveWay(u) PROVE KeptLast'
  BY <1>3 DEF GiveWay, KInv, LInv, TInv, Driving, KeptLast
<1>4. ASSUME NEW u \in Users, SignIn(u) PROVE KeptLast'
  BY <1>4, Kinds
  DEF SignIn, KInv, LInv, TInv, TypeOK, Driving, SignHolds, LeaseCovers, HolderNone, TemplateNone, KeptLast
<1>5. ASSUME NEW u \in Users, CloseOwn(u) PROVE KeptLast'
  BY <1>5 DEF CloseOwn, KInv, LInv, KeptLast
<1>6. ASSUME NEW u \in Users, Done(u) PROVE KeptLast'
  BY <1>6 DEF Done, KInv, LInv, KeptLast
<1>7. ASSUME NEW h \in Holders, OpenBrowser(h) PROVE KeptLast'
  BY <1>7, Kinds, InKept
  DEF OpenBrowser, Unused, Alive, Somebodys, KInv, LInv, TInv, TypeOK, Tracked, KeptLast
<1>8. ASSUME NEW h \in Holders, NEW a \in Accounts, Hold(h, a) PROVE KeptLast'
  BY <1>8, Kinds DEF Hold, KInv, LInv, KeptLast
<1>9. ASSUME NEW h \in Holders, StopHold(h) PROVE KeptLast'
  BY <1>9 DEF StopHold, KInv, LInv, KeptLast
<1>10. ASSUME NEW h \in Holders, LetGo(h) PROVE KeptLast'
  <2>0. /\ session' = session /\ kept' = kept /\ reused' = reused /\ own' = own
        /\ signedAs' = [signedAs EXCEPT ![own[h]] = None]
        /\ pc' = [pc EXCEPT ![h] = "open"]
        /\ pc[h] = "use" /\ h \in Users /\ h # "template"
    BY <1>10, Kinds DEF LetGo
  <2>1. ASSUME NEW u \in Users, NEW a \in Accounts, u # h, own[u] # None, signedAs'[own[u]] = a
        PROVE  signedAs[own[u]] = a
    BY <2>0, <2>1, Kinds
  <2>2. ASSUME own[h] # None PROVE signedAs'[own[h]] = None
    BY <2>0, <2>2 DEF KInv, LInv, TInv, TypeOK
  <2>3. \A u \in Users : u # h => pc'[u] = pc[u]
    BY <2>0
  <2>4. ASSUME NEW u \in Users, NEW a \in Accounts,
               pc'[u] \in {"open", "wait", "use"}, own[u] # None, signedAs'[own[u]] = a
        PROVE  session[a] = own[u]
    BY <2>1, <2>2, <2>3, <2>4, Kinds DEF KInv, KeptLast
  <2>q. QED  BY <2>0, <2>3, <2>4, Kinds DEF KInv, KeptLast
<1>11. ASSUME NEW h \in Holders, Close(h) PROVE KeptLast'
  BY <1>11, Kinds DEF Close, KInv, LInv, KeptLast
<1>12. ASSUME NEW a \in Accounts, Claim(a) PROVE KeptLast'
  BY <1>12 DEF Claim, KInv, LInv, TInv, Driving, KeptLast
<1>13. ASSUME Fetch PROVE KeptLast'
  <2> DEFINE a == want["template"]
  <2>0. /\ a \in Accounts /\ pc["template"] = "fetch" /\ reused = FALSE
        /\ session' = session /\ signedAs' = signedAs
    BY <1>13, Kinds DEF Fetch, KInv, KeptLast, LInv, TInv, TypeOK, Driving
  <2>1. CASE kept' = kept /\ own' = own /\ reused' = reused /\ pc' = [pc EXCEPT !["template"] = "open"]
    BY <2>0, <2>1 DEF KInv, KeptLast, LInv, TInv, Driving
  <2>2. CASE /\ kept[a] # None /\ kept' = [kept EXCEPT ![a] = None]
             /\ own' = [own EXCEPT !["template"] = kept[a].browser] /\ reused' = TRUE
             /\ pc' = [pc EXCEPT !["template"] = "use"]
    BY <2>0, <2>2, Kinds DEF KInv, KeptLast, LInv, TInv, TypeOK, SignedInAs
  <2>3. CASE /\ kept[a] # None /\ kept' = [kept EXCEPT ![a] = None] /\ own' = own
             /\ reused' = reused /\ pc' = [pc EXCEPT !["template"] = "open"]
    BY <2>0, <2>3 DEF KInv, KeptLast, LInv, TInv, Driving
  <2>q. QED  BY <1>13, <2>1, <2>2, <2>3 DEF Fetch
<1>14. ASSUME OpenFresh PROVE KeptLast'
  BY <1>14 DEF OpenFresh, KInv, LInv, TInv, TypeOK, KeptLast
<1>15. ASSUME Dropped PROVE KeptLast'
  BY <1>15 DEF Dropped, KInv, LInv, KeptLast
<1>16. ASSUME Keep PROVE KeptLast'
  BY <1>16, Kinds DEF Keep, KInv, LInv, TInv, TypeOK, Driving, SignedInAs, KeptLast
<1>17. ASSUME FinishUnkept PROVE KeptLast'
  BY <1>17 DEF FinishUnkept, KInv, LInv, KeptLast
<1>18. ASSUME Sweep PROVE KeptLast'
  BY <1>18 DEF Sweep, KInv, LInv, KeptLast
<1>19. ASSUME CloseAll PROVE KeptLast'
  BY <1>19 DEF CloseAll, KInv, LInv, KeptLast
<1>20. ASSUME Shut PROVE KeptLast'
  BY <1>20 DEF Shut, KInv, LInv, KeptLast
<1>21. ASSUME NEW q \in Closers, Ended(q) PROVE KeptLast'
  BY <1>21 DEF Ended, KInv, LInv, Driving, Owners, LeaseCovers, KeptLast
<1>22. CASE UNCHANGED vars
  BY <1>22 DEF vars, KInv, KeptLast
<1>q. QED
  BY <1>1, <1>2, <1>3, <1>4, <1>5, <1>6, <1>7, <1>8, <1>9, <1>10, <1>11,
     <1>12, <1>13, <1>14, <1>15, <1>16, <1>17, <1>18, <1>19, <1>20, <1>21, <1>22
     DEF Next, User, Holder, Template

-----------------------------------------------------------------------------
(* The theorems.                                                           *)

\* The invariant at the start, and always.
LEMMA LInvInit == Init => LInv
<1> SUFFICES ASSUME Init PROVE LInv
  OBVIOUS
<1>1. TypeOK
  <2>1. gen \in [Accounts -> 0..MaxGen]
    BY LeasesAssumption DEF Init
  <2>2. /\ pc \in [Users -> Places \cup TemplatePlaces]
        /\ \A h \in Holders : pc[h] \in Places
    BY Kinds DEF Init, Places
  <2>q. QED  BY <2>1, <2>2 DEF Init, TypeOK
<1>2. Driving /\ ClosingAt
  BY Kinds DEF Init, Driving, ClosingAt
<1>3. Owners /\ Tracked
  BY Kinds DEF Init, Owners, Tracked
<1>4. SignHolds /\ LeaseCovers /\ SignedInAs
  BY Kinds DEF Init, SignHolds, LeaseCovers, SignedInAs
<1>q. QED  BY <1>1, <1>2, <1>3, <1>4 DEF LInv, TInv

LEMMA LInvAlways == Spec => []LInv
<1>1. LInv /\ [Next]_vars => LInv'
  BY TInvStep, OwnersStep, TrackedStep, SignHoldsStep, LeaseCoversStep, SignedInAsStep DEF LInv
<1>q. QED  BY LInvInit, <1>1, PTL DEF Spec

\* With its second half, unless an account is unreadable for a moment.
LEMMA KInvAlways ==
  ASSUME ~Unreadable
  PROVE  Spec => []KInv
<1>1. Init => HolderNone /\ TemplateNone /\ KeptLast
  BY Kinds DEF Init, HolderNone, TemplateNone, KeptLast
<1>2. KInv /\ [Next]_vars => HolderNone' /\ TemplateNone' /\ KeptLast'
  BY HolderNoneStep, TemplateNoneStep, KeptLastStep DEF KInv
<1>q. QED  BY LInvInit, LInvAlways, <1>1, <1>2, PTL DEF Spec, KInv

\* The table, the store and every user are always well typed.
THEOREM TypeCorrect == Spec => []TypeOK
<1>1. LInv => TypeOK
  BY DEF LInv, TInv
<1>q. QED  BY LInvAlways, <1>1, PTL

\* No browser process is driven, kept or closed by two at once.
THEOREM OneOwnerHolds == Spec => []OneOwner
<1>1. LInv => OneOwner
  <2> SUFFICES ASSUME LInv PROVE OneOwner
    OBVIOUS
  <2>1. \A q \in Closers : closing[q] \in SUBSET Browsers
    BY DEF LInv, TInv, TypeOK
  <2>2. \A u \in Users : own[u] \notin KeptBrowsers(Accounts)
    BY InKept DEF LInv, Owners
  <2>3. \A q \in Closers : \A b \in closing[q] : b \notin KeptBrowsers(Accounts)
    BY InKept DEF LInv, Owners
  <2>4. \A q \in Closers : \A b \in closing[q] : b \notin {own[u] : u \in Users}
    BY DEF LInv, Owners
  <2>5. \A q, r \in Closers : q # r => closing[q] \cap closing[r] = {}
    BY <2>1 DEF LInv, Owners
  <2>6. \A u, v \in Users : u # v /\ own[u] # None => own[u] # own[v]
    BY DEF LInv, Owners
  <2>q. QED  BY <2>2, <2>3, <2>4, <2>5, <2>6 DEF OneOwner
<1>q. QED  BY LInvAlways, <1>1, PTL

\* Nobody signs an account in while another browser works as it.
THEOREM InUseUndisturbedHolds == Spec => InUseUndisturbed
<1> DEFINE Kept(u, a) ==
      InUse(u, a) /\ session'[a] \notin {session[a], None} => session'[a] = own[u]
<1>1. LInv /\ [Next]_vars => [\A a \in Accounts, u \in Users : Kept(u, a)]_vars
  <2> SUFFICES ASSUME LInv, Next, NEW a \in Accounts, NEW u \in Users,
                      InUse(u, a), session'[a] \notin {session[a], None}
               PROVE  session'[a] = own[u]
    OBVIOUS
  <2>1. table[a] = u
    BY DEF InUse, LInv, LeaseCovers
  <2>2. PICK v \in Users : SignIn(v) /\ want[v] = a
    <3>1. session' # session /\ session'[a] # None
      OBVIOUS
    <3>2. ASSUME NEW q \in Closers, Ended(q) PROVE FALSE
      BY <3>2 DEF Ended
    <3>3. \E v \in Users : SignIn(v)
      BY <3>1, <3>2 DEF Next, User, Holder, Template, Take, Refused, GiveWay, CloseOwn, Done,
         OpenBrowser, Hold, StopHold, LetGo, Close, Claim, Fetch, OpenFresh, Dropped, Keep,
         FinishUnkept, Sweep, CloseAll, Shut
    <3>q. QED  BY <3>3 DEF SignIn, LInv, TInv, TypeOK
  <2>3. v = u
    BY <2>1, <2>2 DEF SignIn, LInv, SignHolds
  <2>q. QED  BY <2>2, <2>3 DEF SignIn, LInv, TInv, TypeOK
<1>q. QED  BY LInvAlways, <1>1, PTL DEF Spec, InUseUndisturbed

\* An account is used by one user at a time, and keeps its session while it
\* is used: the leases and the store implement AccountUse.
THEOREM ImplementsUseHolds ==
  ASSUME ~Unreadable
  PROVE  Spec => ImplementsUse
<1> DEFINE U(a) == {u \in Users : InUse(u, a)}
<1>1. Init => Use!Init
  BY Kinds DEF Init, Use!Init, InUse
<1>2. ASSUME KInv, KInv', [Next]_vars PROVE [Use!Next]_(Use!vars)
  <2>1. CASE UNCHANGED vars
    BY <2>1 DEF vars, Use!vars, InUse
  <2>2. CASE Next
    <3> SUFFICES ASSUME NEW a \in Accounts
                 PROVE  \/ /\ U(a) = {} /\ U(a)' = {}
                           /\ session'[a] \in Browsers \cup {None}
                        \/ /\ U(a) = {} /\ \E u \in Users : U(a)' = {u}
                           /\ session'[a] \in Browsers
                        \/ /\ U(a) # {} /\ U(a)' \in {U(a), {}}
                           /\ session'[a] = session[a]
      BY DEF Use!Next, Use!Free, Use!Begin, Use!GoOn
    <3>1. \A u \in Users : InUse(u, a) => table[a] = u /\ session[a] = own[u]
      BY <1>2 DEF InUse, KInv, LInv, LeaseCovers, KeptLast
    <3>2. \A u \in Users : InUse(u, a)' => table'[a] = u /\ session'[a] = own'[u] /\ own'[u] # None
      BY <1>2 DEF InUse, KInv, LInv, LeaseCovers, KeptLast
    <3>3. session'[a] \in Browsers \cup {None} /\ \A u \in Users : own'[u] \in Browsers \cup {None}
      BY <1>2 DEF KInv, LInv, TInv, TypeOK
    <3>4. CASE U(a) = {}
      BY <3>2, <3>3, <3>4
    <3>5. CASE U(a) # {}
      <4>1. PICK u \in Users : InUse(u, a)
        BY <3>5
      <4>2. U(a) = {u}
        BY <3>1, <4>1
      <4>3. ASSUME NEW v \in Users, InUse(v, a)' PROVE v = u
        <5>1. table'[a] = v /\ table[a] = u
          BY <3>1, <3>2, <4>1, <4>3
        <5>2. \A w \in Users : Take(w) /\ table'[a] # table[a] => table'[a] \in {w, None} /\ ~InUse(w, a)'
          BY <1>2 DEF Take, InUse, KInv, LInv, TInv, TypeOK
        <5>3. table'[a] \in {table[a], None} \/ \E w \in Users : Take(w)
          <6>1. ASSUME NEW w, Done(w) \/ LetGo(w) PROVE table'[a] \in {table[a], None}
            BY <6>1 DEF Done, LetGo
          <6>q. QED
            BY <2>2, <6>1
            DEF Next, User, Holder, Template, Refused, GiveWay, SignIn, CloseOwn, OpenBrowser, Hold,
                StopHold, Close, Claim, Fetch, OpenFresh, Dropped, Keep, FinishUnkept, Sweep,
                CloseAll, Shut, Ended
        <5>q. QED  BY <4>3, <5>1, <5>2, <5>3, Kinds
      <4>4. session'[a] = session[a]
        <5>1. ASSUME NEW w \in Users, SignIn(w) PROVE session'[a] = session[a]
          <6>1. want[w] # a
            BY <3>1, <4>1, <5>1, <1>2 DEF SignIn, InUse, KInv, LInv, SignHolds
          <6>q. QED  BY <5>1, <6>1, <1>2 DEF SignIn, KInv, LInv, TInv, TypeOK
        <5>2. ASSUME NEW q \in Closers, Ended(q) PROVE session'[a] = session[a]
          BY <3>1, <4>1, <5>2, <1>2 DEF Ended, KInv, LInv, Owners
        <5>q. QED
          BY <2>2, <5>1, <5>2
          DEF Next, User, Holder, Template, Take, Refused, GiveWay, CloseOwn, Done, OpenBrowser,
              Hold, StopHold, LetGo, Close, Claim, Fetch, OpenFresh, Dropped, Keep, FinishUnkept,
              Sweep, CloseAll, Shut
      <4>q. QED  BY <4>2, <4>3, <4>4
    <3>q. QED  BY <3>4, <3>5
  <2>q. QED  BY <1>2, <2>1, <2>2
<1>q. QED  BY KInvAlways, <1>1, <1>2, PTL DEF Spec, ImplementsUse, Use!Spec

\* What a run finds in the store and reuses is the account's last sign-in,
\* if no run fails to read its account and signs it in a moment later.
THEOREM ReusedIsLastSignInHolds ==
  ASSUME ~Unreadable
  PROVE  Spec => []ReusedIsLastSignIn
<1>1. KInv => ReusedIsLastSignIn
  <2> SUFFICES ASSUME KInv, reused PROVE session[want["template"]] = own["template"]
    BY DEF ReusedIsLastSignIn
  <2>1. pc["template"] = "use" /\ want["template"] \in Accounts /\ own["template"] # None
    BY Kinds DEF KInv, KeptLast, LInv, TInv, TypeOK, Driving
  <2>q. QED  BY <2>1, Kinds DEF KInv, KeptLast, LInv, SignedInAs
<1>q. QED  BY KInvAlways, <1>1, PTL

\* Whoever works as an account has emptied the store of it, on the same
\* assumption.
THEOREM NoneKeptBesideUseHolds ==
  ASSUME ~Unreadable
  PROVE  Spec => []NoneKeptBesideUse
<1>1. KInv => NoneKeptBesideUse
  BY Kinds
  DEF KInv, LInv, LeaseCovers, SignedInAs, HolderNone, TemplateNone, NoneKeptBesideUse, InUse
<1>q. QED  BY KInvAlways, <1>1, PTL

\* Once the exit has drained the store nothing is kept again.
THEOREM NothingKeptAfterExitHolds == Spec => []NothingKeptAfterExit
<1> DEFINE Empty == exit = "drained" => \A a \in Accounts : kept[a] = None
<1>1. Init => Empty
  BY DEF Init
<1>2. LInv /\ Empty /\ [Next]_vars => Empty'
  <2> SUFFICES ASSUME LInv, Empty, [Next]_vars, exit' = "drained"
               PROVE  \A a \in Accounts : kept'[a] = None
    OBVIOUS
  <2>1. CASE exit = exit' /\ kept = kept'
    BY <2>1
  <2>2. CASE CloseAll
    BY <2>2 DEF CloseAll
  <2>3. ASSUME NEW u \in Users, GiveWay(u) PROVE \A a \in Accounts : kept'[a] = None
    BY <2>3 DEF GiveWay, LInv, TInv, TypeOK
  <2>4. CASE Fetch
    BY <2>4 DEF Fetch, LInv, TInv, TypeOK
  <2>5. CASE Keep
    BY <2>5 DEF Keep, Latched
  <2>6. CASE Sweep
    BY <2>6 DEF Sweep
  <2>q. QED
    BY <2>1, <2>2, <2>3, <2>4, <2>5, <2>6
    DEF Next, User, Holder, Template, Take, Refused, SignIn, CloseOwn, Done, OpenBrowser, Hold,
        StopHold, LetGo, Close, Claim, OpenFresh, Dropped, FinishUnkept, Shut, Ended, vars
<1>3. Empty => NothingKeptAfterExit
  BY DEF KeptBrowsers, NothingKeptAfterExit
<1>q. QED  BY LInvAlways, <1>1, <1>2, <1>3, PTL DEF Spec
=============================================================================
