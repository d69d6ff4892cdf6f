----------------------------- MODULE TeamLedger -----------------------------
(***************************************************************************)
(* What a user of the team creator is promised: a request to create a team *)
(* is answered at most once; "Success!" means that the group lists the     *)
(* team, "Couldn't create team" that it does not and never will.  That a   *)
(* team is stored and listed in two writes does not show.                  *)
(***************************************************************************)
CONSTANT Teams

VARIABLES
  listed,    \* the teams that the group lists
  verdict    \* what the requester of a team was told

vars == <<listed, verdict>>

Init ==
  /\ listed = {}
  /\ verdict = [t \in Teams |-> "none"]

List(t) ==
  /\ verdict[t] = "none"
  /\ listed' = listed \cup {t}
  /\ UNCHANGED verdict

Confirm(t) ==
  /\ verdict[t] = "none"
  /\ t \in listed
  /\ verdict' = [verdict EXCEPT ![t] = "success"]
  /\ UNCHANGED listed

Refuse(t) ==
  /\ verdict[t] = "none"
  /\ t \notin listed
  /\ verdict' = [verdict EXCEPT ![t] = "failure"]
  /\ UNCHANGED listed

Next == \E t \in Teams : List(t) \/ Confirm(t) \/ Refuse(t)

Spec == Init /\ [][Next]_vars
=============================================================================
