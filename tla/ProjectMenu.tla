----------------------------- MODULE ProjectMenu -----------------------------
(***************************************************************************)
(* ProjectMenuViewController and CoursesViewController: the menu downloads  *)
(* the student each time it appears, a tapped course or group is downloaded *)
(* and then pushed, and a course downloads its groups through a loader.     *)
(* Nothing keeps the user from tapping again, or from leaving, while an     *)
(* answer is on its way; the closures keep the screen that asked.  What a   *)
(* group does on its screen, and to the HUD, is GroupScreen's.              *)
(***************************************************************************)
EXTENDS Loaders, SequencesExt

CONSTANTS
  Estudiantes,     \* what the student's document may be when it is read
  Grupos,          \* per course, its field "grupos"
  Ninguno,         \* the row that stands in for an empty table
  MaxRequests      \* bound on the requests for single documents

Courses == DOMAIN Grupos
Tables == {"grupos", "cursos", "equipos"}

ASSUME EstudiantesAssumption ==
  \A e \in Estudiantes : DOMAIN e = Tables /\ Range(e.cursos) \subseteq Courses
ASSUME GruposAssumption == \A c \in Courses : Grupos[c] \in Seq(Docs)
ASSUME NingunoAssumption == Ninguno \notin Courses \cup Docs
ASSUME RequestsAssumption == MaxRequests \in Nat \ {0}

VARIABLES
  screens,     \* every screen made so far, with the rows of its tables
  stack,       \* the navigation stack above the home screen, as indices of screens
  sent,        \* requests for single documents so far
  requests,    \* those without an answer, numbered
  loads,       \* the calls of getGroupsInCourse, each with the screen that made it
  hud,         \* what the HUD says is downloaded, or "hidden"
  trapped      \* a forced unwrap of nil has ended the program

vars == <<screens, stack, sent, requests, loads, hud, trapped>>

Menu      == [kind |-> "menu", doc |-> Ninguno, rows |-> [t \in Tables |-> <<Ninguno>>]]
Course(c) == [kind |-> "course", doc |-> c, rows |-> [t \in {"grupos"} |-> <<>>]]
Group(g)  == [kind |-> "group", doc |-> g, rows |-> <<>>]

Shows(kind) == ~trapped /\ stack # <<>> /\ screens[Last(stack)].kind = kind

Init ==
  /\ screens = <<>> /\ stack = <<>>
  /\ sent = 0 /\ requests = {}
  /\ loads = <<>>
  /\ hud = "hidden"
  /\ trapped = FALSE
-----------------------------------------------------------------------------
(* The user.  The HUD takes no touches.                                     *)

\* A request for a document, behind the HUD.
Ask(kind, from, doc) ==
  /\ sent < MaxRequests
  /\ sent' = sent + 1
  /\ requests' = requests \cup {[n |-> sent + 1, kind |-> kind, from |-> from, doc |-> doc]}
  /\ hud' = kind

LoadGroups(from, c) ==
  Append(loads, [from |-> from, call |-> StartLoad(CountOnSuccess, Grupos[c])])

\* From the home screen; the menu's viewWillAppear asks for the student.
OpenMenu ==
  /\ ~trapped /\ stack = <<>>
  /\ screens' = Append(screens, Menu)
  /\ stack' = <<Len(screens) + 1>>
  /\ Ask("estudiante", Len(screens) + 1, Ninguno)
  /\ UNCHANGED <<loads, trapped>>

\* didSelectRowAt of the table of courses; the row may be the one that says
\* that there are none.
TapCourse(row) ==
  /\ Shows("menu") /\ row \in Range(screens[Last(stack)].rows.cursos)
  /\ Ask("curso", Last(stack), row)
  /\ UNCHANGED <<screens, stack, loads, trapped>>

TapGroup(row) ==
  /\ Shows("course") /\ row \in Range(screens[Last(stack)].rows.grupos)
  /\ Ask("grupo", Last(stack), row)
  /\ UNCHANGED <<screens, stack, loads, trapped>>

\* The screen beneath appears, and downloads again.
Back ==
  /\ ~trapped /\ stack # <<>>
  /\ stack' = Front(stack)
  /\ CASE stack' = <<>> -> UNCHANGED <<sent, requests, hud, loads>>
       [] stack' # <<>> /\ screens[Last(stack')].kind = "menu" ->
            Ask("estudiante", Last(stack'), Ninguno) /\ UNCHANGED loads
       [] stack' # <<>> /\ screens[Last(stack')].kind = "course" ->
            /\ loads' = LoadGroups(Last(stack'), screens[Last(stack')].doc)
            /\ UNCHANGED <<sent, requests, hud>>
       [] OTHER -> UNCHANGED <<sent, requests, hud, loads>>
  /\ UNCHANGED <<screens, trapped>>
-----------------------------------------------------------------------------
(* The answers.                                                             *)

Answers(r, kind) == ~trapped /\ r.kind = kind /\ requests' = requests \ {r}

\* Mistaken form of Filled, for a mutation run: the table is never emptied.
Extended(rows, e) == [t \in Tables |-> rows[t] \o e[t]]

\* A table is emptied only when there is something to put into it.
Filled(rows, e) == [t \in Tables |-> IF e[t] # <<>> THEN e[t] ELSE rows[t]]

\* Mistaken form of StudentArrives, for a mutation run: the HUD is left up.
StudentArrivesBusy(r, e) ==
  /\ Answers(r, "estudiante")
  /\ screens' = [screens EXCEPT ![r.from].rows = Filled(@, e)]
  /\ UNCHANGED <<stack, sent, loads, hud, trapped>>

StudentArrives(r, e) ==
  /\ Answers(r, "estudiante")
  /\ screens' = [screens EXCEPT ![r.from].rows = Filled(@, e)]
  /\ hud' = "hidden"
  /\ UNCHANGED <<stack, sent, loads, trapped>>

\* performSegue pushes onto the stack that the screen is part of; a screen
\* that has been popped is part of none and shows nothing.
Presents(from) == from \in Range(stack)

\* Mistaken form of CourseArrives, for a mutation run: the course is pushed
\* even when the menu that asked for it has been left.
CourseArrivesAnyway(r) ==
  /\ Answers(r, "curso") /\ r.doc \in Courses
  /\ hud' = "hidden"
  /\ screens' = Append(screens, Course(r.doc))
  /\ stack' = Append(stack, Len(screens) + 1)
  /\ loads' = LoadGroups(Len(screens) + 1, r.doc)
  /\ UNCHANGED <<sent, trapped>>

CourseArrives(r) ==
  /\ Answers(r, "curso") /\ r.doc \in Courses
  /\ hud' = "hidden"
  /\ IF Presents(r.from)
     THEN /\ screens' = Append(screens, Course(r.doc))
          /\ stack' = Append(stack, Len(screens) + 1)
          /\ loads' = LoadGroups(Len(screens) + 1, r.doc)
     ELSE UNCHANGED <<screens, stack, loads>>
  /\ UNCHANGED <<sent, trapped>>

GroupArrives(r) ==
  /\ Answers(r, "grupo")
  /\ hud' = "hidden"
  /\ IF Presents(r.from)
     THEN /\ screens' = Append(screens, Group(r.doc))
          /\ stack' = Append(stack, Len(screens) + 1)
     ELSE UNCHANGED <<screens, stack>>
  /\ UNCHANGED <<sent, loads, trapped>>

\* Nil is unwrapped: by data()! for a document that does not exist, whoever asked
\* for it and left since; after an error, for the student or for what is pushed.
FailureTraps(r) ==
  /\ ~trapped
  /\ trapped' = TRUE
  /\ UNCHANGED <<screens, stack, sent, requests, loads, hud>>

\* An error, when the screen that asked has been left.
FailureUnseen(r) ==
  /\ Answers(r, "curso") \/ Answers(r, "grupo")
  /\ ~Presents(r.from)
  /\ hud' = "hidden"
  /\ UNCHANGED <<screens, stack, sent, loads, trapped>>

\* One of a course's groups, or an error in its place; grupos! unwraps nil.
LoadAnswered(l, i, found) ==
  LET call == loads[l].call
      heard == Heard(call, i, found)
  IN  /\ ~trapped /\ i \in call.waiting
      /\ loads' = [loads EXCEPT ![l].call = Folded(call, i, found)]
      /\ trapped' = (Nil \in Range(heard))
      /\ screens' = IF heard # <<>> /\ found
                    THEN [screens EXCEPT ![loads[l].from].rows.grupos = Documents(call, i)]
                    ELSE screens
  /\ UNCHANGED <<stack, sent, requests, hud>>
-----------------------------------------------------------------------------
Answered(r) == \/ \E e \in Estudiantes : StudentArrives(r, e)
               \/ CourseArrives(r) \/ GroupArrives(r) \/ FailureTraps(r) \/ FailureUnseen(r)

Next ==
  \/ OpenMenu \/ Back
  \/ \E row \in Courses \cup {Ninguno} : TapCourse(row)
  \/ \E row \in Docs : TapGroup(row)
  \/ \E r \in requests : Answered(r)
  \/ \E l \in DOMAIN loads : \E i \in loads[l].call.waiting, found \in BOOLEAN :
       LoadAnswered(l, i, found)

Spec == Init /\ [][Next]_vars

\* Firestore answers every request in the end.
Fairness == \A n \in 1 .. MaxRequests : WF_vars(\E r \in requests : r.n = n /\ Answered(r))

FairSpec == Spec /\ Fairness
-----------------------------------------------------------------------------
OnStack(k) == screens[stack[k]]

\* The shape of the state.
TypeOK ==
  /\ \A s \in Range(screens) : s.kind \in {"menu", "course", "group"}
  /\ stack \in Seq(DOMAIN screens)
  /\ sent \in 0 .. MaxRequests
  /\ requests \subseteq [n : 1 .. sent, kind : {"estudiante", "curso", "grupo"},
                         from : DOMAIN screens, doc : Courses \cup Docs \cup {Ninguno}]
  /\ \A l \in DOMAIN loads : /\ screens[loads[l].from].kind = "course"
                             /\ loads[l].call.waiting \subseteq DOMAIN loads[l].call.refs
  /\ hud \in {"hidden", "estudiante", "curso", "grupo"}
  /\ trapped \in BOOLEAN

\* Whatever appearances and answers overlap, a table of the menu holds what one
\* reading of the student said, or still the row that it began with, and is
\* never empty; a course shows all of its groups or none.
TablesWhole ==
  /\ TypeOK
  /\ \A s \in Range(screens) :
       /\ s.kind = "menu" =>
            \A t \in Tables : /\ s.rows[t] # <<>>
                              /\ \/ s.rows[t] = <<Ninguno>>
                                 \/ \E e \in Estudiantes : s.rows[t] = e[t]
       /\ s.kind = "course" =>
            s.rows.grupos = <<>> \/ Permutes(s.rows.grupos, Grupos[s.doc])

\* However late an answer pushes its screen, the way back from a group leads
\* through a course that has it, and the way back from that to the one menu.
UnderItsParent ==
  \A k \in DOMAIN stack :
    /\ OnStack(k).kind = "menu" <=> k = 1
    /\ OnStack(k).kind = "group" =>
         \E j \in 1 .. k - 1 : OnStack(j).kind = "course"
                               /\ OnStack(k).doc \in Range(Grupos[OnStack(j).doc])

\* While the HUD says that something is downloaded, an answer for just that is
\* on its way, though any answer takes the HUD down and any tap puts it up.
HudSpeaksTruth ==
  (hud # "hidden" /\ ~trapped) => \E r \in requests : r.kind = hud

\* The HUD does not stay for ever, whatever is tapped and left behind it.
HudComesDown == (hud # "hidden") ~> (hud = "hidden" \/ trapped)
=============================================================================
