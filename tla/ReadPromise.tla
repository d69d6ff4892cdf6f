----------------------------- MODULE ReadPromise -----------------------------
(***************************************************************************)
(* What the application relies on when it reads a document of the server   *)
(* with getDocument: each call is answered at most once, with what the     *)
(* document was at some version that is not older than what an earlier     *)
(* call had been answered when this one was made, or with an error: that   *)
(* the phone is offline, or, where the rules of the server refuse the      *)
(* reader, that it may not read.                                           *)
(***************************************************************************)
EXTENDS Naturals

CONSTANTS
  MaxReads,    \* bound on the calls of getDocument
  MaxVersion   \* bound on the changes of the document on the server

VARIABLES
  version,   \* of the document on the server: it exists at the odd ones
  denied,    \* the server refuses the reader
  asked,     \* calls so far
  answer,    \* per call: what it was answered
  floor      \* per call: the newest version that was answered before it

vars == <<version, denied, asked, answer, floor>>

Reads == 1 .. MaxReads
Exists(v) == v % 2 = 1
NoAnswer == [kind |-> "none", v |-> 0]

\* The newest version among the answers so far.
IsNewest(n) ==
  /\ \A r \in Reads : answer[r].v <= n
  /\ n = 0 \/ \E r \in Reads : answer[r].v = n

Init ==
  /\ version = 0
  /\ denied \in BOOLEAN
  /\ asked = 0
  /\ answer = [r \in Reads |-> NoAnswer]
  /\ floor = [r \in Reads |-> 0]

Change ==
  /\ version < MaxVersion
  /\ version' = version + 1
  /\ UNCHANGED <<denied, asked, answer, floor>>

Ask ==
  /\ asked < MaxReads
  /\ asked' = asked + 1
  /\ \E n \in 0 .. MaxVersion : IsNewest(n) /\ floor' = [floor EXCEPT ![asked + 1] = n]
  /\ UNCHANGED <<version, denied, answer>>

\* Of a version that is refused to the reader nothing is said.
Allowed(r) ==
  {[kind |-> "document", v |-> n] : n \in {m \in floor[r] .. version : Exists(m)}}
    \cup {[kind |-> "absent", v |-> n] : n \in {m \in floor[r] .. version : ~Exists(m)}}

Failures == {[kind |-> "unavailable", v |-> 0]}
              \cup (IF denied THEN {[kind |-> "refused", v |-> 0]} ELSE {})

Answer(r) ==
  /\ r <= asked
  /\ answer[r] = NoAnswer
  /\ \E a \in Failures \cup (IF denied THEN {} ELSE Allowed(r)) :
       answer' = [answer EXCEPT ![r] = a]
  /\ UNCHANGED <<version, denied, asked, floor>>

Next == Change \/ Ask \/ \E r \in Reads : Answer(r)

Spec == Init /\ [][Next]_vars
=============================================================================
