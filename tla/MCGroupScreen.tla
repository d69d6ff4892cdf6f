---------------------------- MODULE MCGroupScreen ----------------------------
(***************************************************************************)
(* Instances of GroupScreen.  One group has a student in all of its teams, *)
(* one in some and one in none; one has a single team; a new one has no    *)
(* team, and one has no student.                                           *)
(***************************************************************************)
EXTENDS GroupScreen

CONSTANTS t1, t2, s1, s2, s3

MCDocs        == {t1, t2, s1, s2, s3}
MCIntegrantes == [t \in {t1, t2} |-> IF t = t1 THEN {s1} ELSE {s1, s2}]

TwoTeamGroup == [equipos |-> <<t1, t2>>, estudiantes |-> <<s1, s2, s3>>]
OneTeamGroup == [equipos |-> <<t1>>, estudiantes |-> <<s1, s2, s3>>]
NewGroup     == [equipos |-> <<>>, estudiantes |-> <<s1, s2, s3>>]
EmptiedGroup == [equipos |-> <<t1, t2>>, estudiantes |-> <<>>]

AllGroups == {TwoTeamGroup, OneTeamGroup, NewGroup, EmptiedGroup}
=============================================================================
