----------------------------- MODULE AccountUse -----------------------------
(***************************************************************************)
(* What the leases promise, without leases, stores or processes being      *)
(* closed: an account is used by one user at a time, and its session with  *)
(* PeoplesHR does not change while somebody uses it.                       *)
(***************************************************************************)
EXTENDS Naturals

CONSTANTS Accounts, Users, Browsers, None

VARIABLES users,    \* who works as each account
          session   \* the browser with each account's session

vars == <<users, session>>

Init ==
  /\ users = [a \in Accounts |-> {}]
  /\ session = [a \in Accounts |-> None]

\* Nobody works as a: sign-ins that fail, and browsers that end, may leave
\* its session anywhere.
Free(a) ==
  /\ users[a] = {}
  /\ users'[a] = {}
  /\ session'[a] \in Browsers \cup {None}

\* Somebody begins to work as a, and it has a session from then on.
Begin(a) ==
  /\ users[a] = {}
  /\ \E u \in Users : users'[a] = {u}
  /\ session'[a] \in Browsers

\* Whoever works as a goes on, or stops.
GoOn(a) ==
  /\ users[a] # {}
  /\ users'[a] \in {users[a], {}}
  /\ session'[a] = session[a]

Next == \A a \in Accounts : Free(a) \/ Begin(a) \/ GoOn(a)

Spec == Init /\ [][Next]_vars
=============================================================================
