--------------------------- MODULE UploadHistory ---------------------------
(***************************************************************************)
(* Upload with two history variables: what was there when the upload       *)
(* began, and which of the things the code does not keep apart have        *)
(* crossed so far.  They are written, never read: a behaviour of HSpec is  *)
(* a behaviour of Upload's Spec with its own history beside it.            *)
(***************************************************************************)
EXTENDS Upload

VARIABLES begun,     \* how many cases there were when the upload began
          crossed    \* what has crossed

Crossings == {"beside", "checks", "earlier", "stranger", "lateWork", "lateAnswer"}

Begins == stage = "confirming" /\ stage' = "uploading"
CheckOut == \E c \in Checkers : check[c].at # "none"
LooksUp == loop = "looking" /\ loop' = "sending"

\* An upload begins while a Check is out.
BesideCheck == Begins /\ CheckOut

\* A Check is asked while another one is out.
SecondCheck == CheckOut /\ \E c \in Checkers : check[c].at = "none" /\ check'[c].at = "asked"

\* The lookup of a lost batch finds a case that was there before the upload ...
FindsEarlier == LooksUp /\ \E f \in Candidates : f.id <= begun

\* ... or one a colleague made.
FindsStranger == LooksUp /\ \E f \in Candidates : cases[f.id].by = Nobody

\* The server works on at a batch that failed with an error.
WorksOn == loop = "waiting" /\ loop' = "looking" /\ ~timedOut' /\ late' # late

\* A Check is answered while the server still works on a create with a title
\* of the hold it was asked with.
AnsweredBeforeMade ==
  \E c \in Checkers :
    /\ check[c].at = "asked" /\ check'[c].at = "answered"
    /\ \E req \in late : req.uid = 0 /\ EntriesOf(check[c].hold.entries, req.title) # {}

Crosses ==
  {x \in Crossings : CASE x = "beside" -> BesideCheck
                       [] x = "checks" -> SecondCheck
                       [] x = "earlier" -> FindsEarlier
                       [] x = "stranger" -> FindsStranger
                       [] x = "lateWork" -> WorksOn
                       [] x = "lateAnswer" -> AnsweredBeforeMade}

HInit == Init /\ begun = 0 /\ crossed = {}

HNext ==
  /\ Next
  /\ begun' = IF Begins THEN Len(cases) ELSE begun
  /\ crossed' = crossed \cup Crosses

hvars == <<vars, begun, crossed>>
HSpec == HInit /\ [][HNext]_hvars
=============================================================================
