------------------------------- MODULE Gather -------------------------------
(***************************************************************************)
(* What the screens rely on when they hand a list of references to a       *)
(* loader of FirebaseController: they hear either of the whole list, once, *)
(* or of a failure, possibly several times, and never of both.             *)
(***************************************************************************)
EXTENDS Naturals, Sequences

CONSTANTS Docs, MaxRefs

VARIABLES
  refs,     \* the references asked for
  told      \* what the caller was told, as of the last completion call

vars == <<refs, told>>

Nothing == [kind |-> "none", list |-> <<>>]
Failure == [kind |-> "nil", list |-> <<>>]

\* A whole list names every position of refs, in an order of its own.
IsWhole(list) ==
  /\ Len(list) = Len(refs)
  /\ \A p \in DOMAIN refs : \E k \in DOMAIN list : list[k] = p

Init ==
  /\ refs \in UNION {[1 .. n -> Docs] : n \in 0 .. MaxRefs}
  /\ told = Nothing

Fail ==
  /\ told.kind # "list"
  /\ refs # <<>>
  /\ told' = Failure
  /\ UNCHANGED refs

Deliver ==
  /\ told = Nothing
  /\ \E list \in [DOMAIN refs -> DOMAIN refs] :
       /\ IsWhole(list)
       /\ told' = [kind |-> "list", list |-> list]
  /\ UNCHANGED refs

Next == Fail \/ Deliver

Spec == Init /\ [][Next]_vars
=============================================================================
