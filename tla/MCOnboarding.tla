---------------------------- MODULE MCOnboarding ----------------------------
(***************************************************************************)
(* Instances of Onboarding: two addresses, so that one person can sign out *)
(* and another in.                                                         *)
(***************************************************************************)
EXTENDS Onboarding

CONSTANTS e1, e2

MCEmails == {e1, e2}
=============================================================================
