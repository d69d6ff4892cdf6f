---------------------------- MODULE DurableWrites ----------------------------
(***************************************************************************)
(* What the application relies on when it writes: a call of writeMutations *)
(* is kept until the server has taken or refused it, whatever the network, *)
(* the process and the signed-in user do; the server takes the writes of a *)
(* user in the order of the calls, refused ones left out; a completion is  *)
(* called at most once, with the server's verdict, or never.               *)
(***************************************************************************)
EXTENDS Naturals, Sequences

CONSTANTS
  Users,       \* accounts, the absent one included
  MaxWrites    \* bound on the calls of writeMutations

VARIABLES
  calls,      \* the user of each call so far, in the order of the calls
  pending,    \* calls whose verdict the phone has yet to process
  applied,    \* calls that the server has taken
  refused,    \* calls that the server has refused
  told        \* per call: what its completion was told

vars == <<calls, pending, applied, refused, told>>

Numbers == 1 .. MaxWrites

Init ==
  /\ calls = <<>>
  /\ pending = {}
  /\ applied = {}
  /\ refused = {}
  /\ told = [n \in Numbers |-> "none"]

Call(u) ==
  /\ Len(calls) < MaxWrites
  /\ calls' = Append(calls, u)
  /\ pending' = pending \cup {Len(calls) + 1}
  /\ UNCHANGED <<applied, refused, told>>

\* The next of its user's calls: every earlier one has its verdict.
Due(n) ==
  /\ n \in DOMAIN calls \ (applied \cup refused)
  /\ \A m \in DOMAIN calls : m < n /\ calls[m] = calls[n] => m \in applied \cup refused

Take(n) ==
  /\ Due(n)
  /\ applied' = applied \cup {n}
  /\ UNCHANGED <<calls, pending, refused, told>>

Refuse(n) ==
  /\ Due(n)
  /\ refused' = refused \cup {n}
  /\ UNCHANGED <<calls, pending, applied, told>>

Verdict(n) == IF n \in applied THEN "ok" ELSE "error"

\* The phone processes the verdict; the caller may be gone.
Settle(n) ==
  /\ n \in pending \cap (applied \cup refused)
  /\ pending' = pending \ {n}
  /\ \/ told' = [told EXCEPT ![n] = Verdict(n)] /\ told[n] = "none"
     \/ UNCHANGED told
  /\ UNCHANGED <<calls, applied, refused>>

\* The process ends after the completion and before the phone has noted that
\* the write is settled.
TellEarly(n) ==
  /\ n \in pending \cap applied
  /\ told[n] = "none"
  /\ told' = [told EXCEPT ![n] = "ok"]
  /\ UNCHANGED <<calls, pending, applied, refused>>

Next ==
  \/ \E u \in Users : Call(u)
  \/ \E n \in Numbers : Take(n) \/ Refuse(n) \/ Settle(n) \/ TellEarly(n)

Spec == Init /\ [][Next]_vars
=============================================================================
