------------------------------ MODULE PartsMC ------------------------------
(***************************************************************************)
(* An instance of four components that share no state: lists of articles,  *)
(* references to categories, avatars and quiet hours.  No step of one      *)
(* enables, disables or is seen by a step of another, so that a behaviour  *)
(* of all of them is one of each, interleaved.  It is enough to let one of *)
(* them run, whichever, while the others rest in an initial state.         *)
(***************************************************************************)
EXTENDS ArticleList, CategoryReferences, Avatars, QuietHours

VARIABLE part  \* the component that runs

partVars == <<part, listVars, refVars, avatarVars, quietVars>>

ListRests ==
    /\ ListInit
    /\ sort = [field |-> "createdAt", direction |-> "desc", thenNewest |-> FALSE]
    /\ limit = 1
    /\ value = [a \in ArticleIds |-> 0] /\ Listed = {}
RefRests == RefInit /\ made = {} /\ \A c \in Categories : status[c] = "new"
AvatarsRest ==
    /\ AvatarInit
    /\ ~dotted
    /\ \A u \in Uploads : /\ upload[u].name = CHOOSE n \in Names : TRUE
                          /\ upload[u].user = CHOOSE x \in Users : TRUE
QuietRests ==
    /\ QuietInit
    /\ preference = [muted |-> FALSE, enabled |-> FALSE, start |-> 0, end |-> 0, days |-> {}]

Init ==
    \/ part = "lists" /\ ListInit /\ RefRests /\ AvatarsRest /\ QuietRests
    \/ part = "references" /\ ListRests /\ RefInit /\ AvatarsRest /\ QuietRests
    \/ part = "avatars" /\ ListRests /\ RefRests /\ AvatarInit /\ QuietRests
    \/ part = "quiet" /\ ListRests /\ RefRests /\ AvatarsRest /\ QuietInit

Next ==
    /\ UNCHANGED part
    /\ \/ part = "lists" /\ ListNext /\ UNCHANGED <<refVars, avatarVars, quietVars>>
       \/ part = "references" /\ RefNext /\ UNCHANGED <<listVars, avatarVars, quietVars>>
       \/ part = "avatars" /\ AvatarNext /\ UNCHANGED <<listVars, refVars, quietVars>>
       \/ part = "quiet" /\ QuietNext /\ UNCHANGED <<listVars, refVars, avatarVars>>

\* A component that rests is not asked to go on.
Fairness ==
    /\ WF_partVars(part = "lists" /\ NextPage /\ UNCHANGED <<refVars, avatarVars, quietVars, part>>)
    /\ \A r \in Requests :
          WF_partVars(/\ part = "references"
                      /\ Proceed(r)
                      /\ UNCHANGED <<listVars, avatarVars, quietVars, part>>)

Spec == Init /\ [][Next]_partVars /\ Fairness

\* The types of the variables of all four.
PartsTypeOK == ListTypeOK /\ RefTypeOK /\ AvatarTypeOK /\ QuietTypeOK

\* Who follows the cursors of a list comes to its end, whatever the sort is, and
\* for a limit of 0; with a negative limit there always is another page.
PagesEnd == part = "lists" /\ limit >= 0 ~> ~more
============================================================================
