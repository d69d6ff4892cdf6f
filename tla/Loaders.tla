------------------------------ MODULE Loaders ------------------------------
(***************************************************************************)
(* The list loaders of FirebaseController: each starts one document        *)
(* request per reference and folds the answers, in whatever order they     *)
(* come, into one optional array that its callbacks share.  This module    *)
(* holds the state of one call and what one answer does to it; FanOut      *)
(* checks one call by itself, GroupScreen composes two of them.            *)
(***************************************************************************)
EXTENDS Naturals, Sequences, Functions

CONSTANT Docs           \* documents that a reference can name

CountOnSuccess == "getGroupsInCourse"
CountAlways    == {"getStudentsInCourse", "getTeamsInCourse"}
EachArrival    == "getTasksInProject"
LastArrival    == "getTareasData"

Counted == {CountOnSuccess} \cup CountAlways
LoaderNames == Counted \cup {EachArrival, LastArrival}

(***************************************************************************)
(* A call in progress.  "waiting" holds the positions of refs whose        *)
(* request has no answer yet; "list" holds the positions of the documents  *)
(* appended so far, in order of arrival, and <<>> stands for the nil that  *)
(* the array starts as (it is never emptied again).                        *)
(***************************************************************************)
StartLoad(name, refs) ==
  [name |-> name, refs |-> refs, waiting |-> DOMAIN refs, list |-> <<>>]

Retrieved(load, i) ==
  [load EXCEPT !.waiting = @ \ {i}, !.list = Append(@, i)]

NotRetrieved(load, i) == [load EXCEPT !.waiting = @ \ {i}]

(***************************************************************************)
(* One call of completionBlock: nil, or the array as it is now.            *)
(***************************************************************************)
Nil         == [kind |-> "nil", list |-> <<>>]
ListOf(load) == [kind |-> "list", list |-> load.list]

IsFull(load) == load.list # <<>> /\ Len(load.list) = Len(load.refs)

\* Mistaken forms, for the mutation runs: one document short, no word of a
\* failure, only the first task announced.
IfFullEarly(load) ==
  IF load.list # <<>> /\ Len(load.list) + 1 >= Len(load.refs)
  THEN <<ListOf(load)>> ELSE <<>>

MemberCallbacksSilent(load, found) == IF found THEN IfFullEarly(load) ELSE <<>>

TaskCallbacksOnce(load, found) ==
  IF found /\ Len(load.list) = 1 THEN <<ListOf(load)>> ELSE <<>>

TareaCallbacksFirst(load, i, found) ==
  IF found /\ load.refs[i] = load.refs[1] THEN <<ListOf(load)>> ELSE <<>>

IfFull(load) == IF IsFull(load) THEN <<ListOf(load)>> ELSE <<>>

(***************************************************************************)
(* The completion calls that the answer for position i makes; "load" is    *)
(* the call after the answer was folded in, "found" says that a document   *)
(* came back.  A counted loader answers once the array is as long as       *)
(* the list of references, the task loaders answer on every task or on     *)
(* the task that the last reference names.                                 *)
(***************************************************************************)
GroupCallbacks(load, found) == IF found THEN IfFull(load) ELSE <<Nil>>

MemberCallbacks(load, found) ==
  (IF found THEN <<>> ELSE <<Nil>>) \o IfFull(load)

TaskCallbacks(load, found) == IF found THEN <<ListOf(load)>> ELSE <<Nil>>

TareaCallbacks(load, i, found) ==
  CASE ~found -> <<Nil>>
    [] found /\ load.refs[i] = load.refs[Len(load.refs)] -> <<ListOf(load)>>
    [] OTHER -> <<>>

Callbacks(load, i, found) ==
  CASE load.name = CountOnSuccess -> GroupCallbacks(load, found)
    [] load.name \in CountAlways  -> MemberCallbacks(load, found)
    [] load.name = EachArrival    -> TaskCallbacks(load, found)
    [] OTHER                      -> TareaCallbacks(load, i, found)

(***************************************************************************)
(* An answer as a screen meets it: the call with the answer folded in, the *)
(* callbacks that run, and the documents that the array then holds.        *)
(***************************************************************************)
Folded(load, i, found) == IF found THEN Retrieved(load, i) ELSE NotRetrieved(load, i)

Heard(load, i, found) == Callbacks(Folded(load, i, found), i, found)

Documents(load, i) ==
  LET list == Retrieved(load, i).list IN [k \in DOMAIN list |-> load.refs[list[k]]]

\* The documents of refs, each as often as refs names it, in some order: an
\* injection of a finite set into itself leaves nothing out.
Permutes(list, refs) ==
  \E order \in Injection(DOMAIN refs, DOMAIN refs) :
    list = [k \in DOMAIN refs |-> refs[order[k]]]
=============================================================================
