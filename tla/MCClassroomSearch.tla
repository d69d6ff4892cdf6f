------------------------- MODULE MCClassroomSearch -------------------------
(***************************************************************************)
(* An instance of ClassroomSearch: two classrooms on two floors, one with  *)
(* a panorama; a document of each has the same name.                       *)
(***************************************************************************)
EXTENDS ClassroomSearch

CONSTANTS s1, s2, i1, i2, d1, d2, d3, pdf, pdf3, jpg1, jpg2

MCNumero      == [s \in {s1, s2} |-> IF s = s1 THEN 101 ELSE 210]
MCImagenes    == [s \in {s1, s2} |-> IF s = s1 THEN <<i1, i2>> ELSE <<>>]
MCDocumentos  == [s \in {s1, s2} |-> IF s = s1 THEN <<d1, d3>> ELSE <<d2>>]
MCNombre      == [u \in {i1, i2, d1, d2, d3} |->
                    CASE u = i1 -> jpg1 [] u = i2 -> jpg2 [] u = d3 -> pdf3 [] OTHER -> pdf]
MCNamed    == [t \in {"a"} |-> {s2}]
MCCollections == {<<s1, s2>>, <<s2>>, <<>>}
=============================================================================
