--------------------------- MODULE MCTeamCreation ---------------------------
(***************************************************************************)
(* Instances of TeamCreation: two phones that create a team each, or one   *)
(* phone that asks for two.                                                *)
(***************************************************************************)
EXTENDS TeamCreation

CONSTANTS p1, p2, t1, t2, s1, c1, c2, c3

OnePhone  == {p1}
TwoPhones == {p1, p2}
TwoTeams  == {t1, t2}

OneStudent == {s1}

\* One more creator than a phone can have requests: opening one never waits.
TwoCreators   == {c1, c2}
ThreeCreators == {c1, c2, c3}

\* Each phone draws one identifier, or one phone draws all.
OneEach == [t \in TwoTeams |-> IF t = t1 THEN p1 ELSE p2]
AllByOne == [t \in Teams |-> p1]
=============================================================================
