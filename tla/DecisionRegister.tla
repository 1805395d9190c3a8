-------------------------- MODULE DecisionRegister --------------------------
(***************************************************************************)
(* What an approval promises its users: one of the decisions they send is  *)
(* taken, once and for all; who is told "accepted" is the one who took it, *)
(* and who is told "refused" came after another.  An error says nothing.   *)
(***************************************************************************)
CONSTANTS Users, Open   \* Open: the value of a register that is undecided

VARIABLES
    wish,     \* wish[u]: the decision u sends
    value,    \* the decision taken, or Open
    author,   \* who took it, or Open
    answer    \* answer[u]: what u has been told

vars == <<wish, value, author, answer>>

Init ==
    /\ Open \notin Users
    /\ value = Open
    /\ author = Open
    /\ answer = [u \in Users |-> "none"]

Decide(u) ==
    /\ value = Open
    /\ answer[u] = "none"
    /\ value' = wish[u]
    /\ author' = u
    /\ UNCHANGED <<wish, answer>>

Tell(u, text) ==
    /\ answer[u] = "none"
    /\ answer' = [answer EXCEPT ![u] = text]
    /\ UNCHANGED <<wish, value, author>>

Accept(u) == author = u /\ Tell(u, "accepted")
Refuse(u) == value # Open /\ author # u /\ Tell(u, "refused")
GiveUp(u) == Tell(u, "unknown")

(* An update that is carried out and whose answer is lost. *)
DecideUntold(u) ==
    /\ value = Open
    /\ answer[u] = "none"
    /\ value' = wish[u]
    /\ author' = u
    /\ answer' = [answer EXCEPT ![u] = "unknown"]
    /\ UNCHANGED wish

(* A restart: everybody who waits is told nothing. *)
Forget ==
    /\ answer' \in [Users -> {"none", "accepted", "refused", "unknown"}]
    /\ \A u \in Users : answer'[u] # answer[u] => answer[u] = "none" /\ answer'[u] = "unknown"
    /\ UNCHANGED <<wish, value, author>>

Next ==
    \/ \E u \in Users : Decide(u) \/ DecideUntold(u) \/ Accept(u) \/ Refuse(u) \/ GiveUp(u)
    \/ Forget

Spec == Init /\ [][Next]_vars
=============================================================================
