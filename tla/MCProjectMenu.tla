---------------------------- MODULE MCProjectMenu ----------------------------
(***************************************************************************)
(* Instances of ProjectMenu.  The two courses share a group, and the        *)
(* student's document may change between readings: once with a course and   *)
(* no team, once with both courses, once with none.                         *)
(***************************************************************************)
EXTENDS ProjectMenu

CONSTANTS c1, c2, g1, g2, q1

MCDocs   == {g1, g2}
MCGrupos == [c \in {c1, c2} |-> IF c = c1 THEN <<g1, g2>> ELSE <<g2>>]

MCEstudiantes ==
  {[grupos |-> <<g1>>, cursos |-> <<c1>>, equipos |-> <<>>],
   [grupos |-> <<g1, g2>>, cursos |-> <<c1, c2>>, equipos |-> <<q1>>],
   [grupos |-> <<>>, cursos |-> <<>>, equipos |-> <<q1>>]}
=============================================================================
