----------------------------- MODULE GroupScreen -----------------------------
(***************************************************************************)
(* GroupViewController: each time it appears it downloads the group's teams *)
(* and then its students, through two loaders of FirebaseController; the    *)
(* classroom is downloaded on demand; the team creator is opened with the   *)
(* students that selectableStudents picks from what has arrived so far.     *)
(* Earlier downloads go on while a later one starts, and all share the HUD. *)
(***************************************************************************)
EXTENDS Loaders, SequencesExt

CONSTANTS
  Groups,          \* groups that may be shown: their "equipos" and "estudiantes"
  Integrantes,     \* the members that each team's document names
  MaxAppearances,  \* bound on the times that the screen appears
  MaxClassrooms    \* bound on the classroom requests

ASSUME GroupsAssumption ==
  \A g \in Groups : g \in [equipos : Seq(Docs), estudiantes : Seq(Docs)]
ASSUME IntegrantesAssumption ==
  \A g \in Groups : Range(g.equipos) \subseteq DOMAIN Integrantes
ASSUME AppearancesAssumption == MaxAppearances \in Nat \ {0}
ASSUME ClassroomsAssumption == MaxClassrooms \in Nat

VARIABLES
  group,       \* the snapshot of the group that the screen was opened with
  teams,       \* the teams that the table shows
  students,    \* the students that the collection shows
  downloads,   \* one per appearance: its call for teams, its call for students
  salones,     \* classroom requests: sent so far, and still without an answer
  stack,       \* the navigation stack from the group screen upwards
  offer,       \* what the creator was opened with: rows shown, references kept
  hud,         \* the message of the HUD, or "hidden"
  trapped      \* a forced unwrap of nil has ended the program

screens == <<stack, offer>>
vars == <<group, teams, students, downloads, salones, screens, hud, trapped>>

Top == Last(stack)

\* setupDynamicData: the teams are asked for at once, the students later.
NotYet == StartLoad("getStudentsInCourse", <<>>)
Download(g) == [equipos     |-> StartLoad("getTeamsInCourse", g.equipos),
                estudiantes |-> NotYet]

Init ==
  /\ group \in Groups
  /\ teams = <<>>
  /\ students = <<>>
  /\ downloads = <<Download(group)>>
  /\ salones = [sent |-> 0, waiting |-> 0]
  /\ stack = <<"group">>
  /\ offer = [rows |-> <<>>, refs |-> <<>>]
  /\ hud = "equipos"
  /\ trapped = FALSE
-----------------------------------------------------------------------------
(* The answers.  Every document that the group names is stored (FanOut has  *)
(* the missing ones), so an answer is a document or an error.               *)

Waits(load, i) == ~trapped /\ i \in load.waiting

\* Mistaken form of TeamsShown, for a mutation run: the students are not
\* asked for.
TeamsShownOnly(d, i) ==
  LET load == downloads[d].equipos
  IN  /\ Waits(load, i) /\ Heard(load, i, TRUE) # <<>>
      /\ teams' = Documents(load, i)
      /\ downloads' = [downloads EXCEPT ![d].equipos = Retrieved(load, i)]
      /\ hud' = "estudiantes"
  /\ UNCHANGED <<group, students, salones, screens, trapped>>

\* Mistaken form of TeamsShown, for a mutation run: the HUD keeps its message.
TeamsShownSilently(d, i) ==
  LET load == downloads[d].equipos
  IN  /\ Waits(load, i) /\ Heard(load, i, TRUE) # <<>>
      /\ teams' = Documents(load, i)
      /\ downloads' = [downloads EXCEPT ![d] =
           [equipos     |-> Retrieved(load, i),
            estudiantes |-> StartLoad("getStudentsInCourse", group.estudiantes)]]
  /\ UNCHANGED <<group, students, salones, screens, hud, trapped>>

\* The last team: the table is filled and the students are asked for.
TeamsShown(d, i) ==
  LET load == downloads[d].equipos
  IN  /\ Waits(load, i) /\ Heard(load, i, TRUE) # <<>>
      /\ teams' = Documents(load, i)
      /\ downloads' = [downloads EXCEPT ![d] =
           [equipos     |-> Retrieved(load, i),
            estudiantes |-> StartLoad("getStudentsInCourse", group.estudiantes)]]
      /\ hud' = "estudiantes"
  /\ UNCHANGED <<group, students, salones, screens, trapped>>

TeamArrives(d, i) ==
  LET load == downloads[d].equipos
  IN  /\ Waits(load, i) /\ Heard(load, i, TRUE) = <<>>
      /\ downloads' = [downloads EXCEPT ![d].equipos = Retrieved(load, i)]
  /\ UNCHANGED <<group, teams, students, salones, screens, hud, trapped>>

\* The last student: the collection is filled and the HUD dismissed.
StudentsShown(d, i) ==
  LET load == downloads[d].estudiantes
  IN  /\ Waits(load, i) /\ Heard(load, i, TRUE) # <<>>
      /\ students' = Documents(load, i)
      /\ downloads' = [downloads EXCEPT ![d].estudiantes = Retrieved(load, i)]
      /\ hud' = "hidden"
  /\ UNCHANGED <<group, teams, salones, screens, trapped>>

StudentArrives(d, i) ==
  LET load == downloads[d].estudiantes
  IN  /\ Waits(load, i) /\ Heard(load, i, TRUE) = <<>>
      /\ downloads' = [downloads EXCEPT ![d].estudiantes = Retrieved(load, i)]
  /\ UNCHANGED <<group, teams, students, salones, screens, hud, trapped>>

\* A failed download is told as nil, which teams! and students! unwrap.
DownloadFails(d, i) ==
  /\ \E load \in {downloads[d].equipos, downloads[d].estudiantes} :
       Waits(load, i) /\ Nil \in Range(Heard(load, i, FALSE))
  /\ trapped' = TRUE
  /\ UNCHANGED <<group, teams, students, downloads, salones, screens, hud>>
-----------------------------------------------------------------------------
(* The user.  The HUD takes no touches.                                     *)

\* The elements of a list in turn, each as often as "times" says.
Repeated(list, times) ==
  LET upTo[k \in 0 .. Len(list)] ==
        IF k = 0 THEN <<>> ELSE upTo[k - 1] \o [n \in 1 .. times[list[k]] |-> list[k]]
  IN  upTo[Len(list)]

\* How many positions of a list hold a member of S.
Count(list, S) == Cardinality({k \in DOMAIN list : list[k] \in S})

TeamsWith(s) == {t \in DOMAIN Integrantes : s \in Integrantes[t]}

\* Mistaken form of Selectable, for a mutation run: the test is not negated.
SelectableTeamed(g, shown) ==
  Repeated(g.estudiantes, [s \in Docs |-> Count(shown, TeamsWith(s))])

\* The references that selectableStudents keeps: a student's, once for every
\* team of the table that the student is not a member of.
Selectable(g, shown) ==
  Repeated(g.estudiantes, [s \in Docs |-> Count(shown, Docs \ TeamsWith(s))])

\* The rows: the students that have arrived, in the order of their arrival,
\* each once for every reference to it.
RowsOf(arrived, refs) == Repeated(arrived, [s \in Docs |-> Count(refs, {s})])

\* addTeam, and prepare for its segue.
AddTeam ==
  /\ ~trapped /\ Top = "group"
  /\ stack' = Append(stack, "creator")
  /\ LET refs == Selectable(group, teams)
     IN  offer' = [rows |-> RowsOf(students, refs), refs |-> refs]
  /\ UNCHANGED <<group, teams, students, downloads, salones, hud, trapped>>

SeeClassroom ==
  /\ ~trapped /\ Top = "group" /\ salones.sent < MaxClassrooms
  /\ salones' = [sent |-> salones.sent + 1, waiting |-> salones.waiting + 1]
  /\ hud' = "salon"
  /\ UNCHANGED <<group, teams, students, downloads, screens, trapped>>

\* The classroom's screen is pushed on top, whatever is there by then.
ClassroomArrives ==
  /\ ~trapped /\ salones.waiting > 0
  /\ salones' = [salones EXCEPT !.waiting = @ - 1]
  /\ stack' = Append(stack, "classroom")
  /\ hud' = "hidden"
  /\ UNCHANGED <<group, teams, students, downloads, offer, trapped>>

\* Without a classroom the screen is pushed all the same, and unwraps nil.
ClassroomFails ==
  /\ ~trapped /\ salones.waiting > 0
  /\ trapped' = TRUE
  /\ UNCHANGED <<group, teams, students, downloads, salones, screens, hud>>

\* The top screen is popped, by the user or by a created team; when the group
\* appears again it downloads everything again.
Pop ==
  /\ ~trapped /\ Len(stack) > 1
  /\ stack' = Front(stack)
  /\ IF Last(stack') = "group"
     THEN /\ Len(downloads) < MaxAppearances
          /\ downloads' = Append(downloads, Download(group))
          /\ hud' = "equipos"
     ELSE UNCHANGED <<downloads, hud>>
  /\ UNCHANGED <<group, teams, students, salones, offer, trapped>>
-----------------------------------------------------------------------------
Answer(d, i) == \/ TeamsShown(d, i) \/ TeamArrives(d, i)
                \/ StudentsShown(d, i) \/ StudentArrives(d, i) \/ DownloadFails(d, i)

MaxRefs(g) == IF Len(g.equipos) > Len(g.estudiantes) THEN Len(g.equipos)
                                                     ELSE Len(g.estudiantes)

Next ==
  \/ \E d \in DOMAIN downloads, i \in 1 .. MaxRefs(group) : Answer(d, i)
  \/ AddTeam \/ SeeClassroom \/ ClassroomArrives \/ ClassroomFails \/ Pop

Spec == Init /\ [][Next]_vars

\* Firestore answers every request in the end.
Answered(n) == n \in DOMAIN downloads /\ \E i \in 1 .. MaxRefs(group) : Answer(n, i)

Fairness == /\ \A n \in 1 .. MaxAppearances : WF_vars(Answered(n))
            /\ WF_vars(ClassroomArrives \/ ClassroomFails)

FairSpec == Spec /\ Fairness
-----------------------------------------------------------------------------
Ended(load) == load.waiting = {}
Finished(d) == /\ Ended(downloads[d].equipos) /\ Ended(downloads[d].estudiantes)
               /\ downloads[d].estudiantes # NotYet

Load == [name : LoaderNames, refs : Seq(Docs), waiting : SUBSET Nat, list : Seq(Nat)]

\* The shape of the state.
TypeOK ==
  /\ group \in Groups
  /\ teams \in Seq(Docs) /\ students \in Seq(Docs)
  /\ downloads \in Seq([equipos : Load, estudiantes : Load])
  /\ salones \in [sent : 0 .. MaxClassrooms, waiting : 0 .. MaxClassrooms]
  /\ stack \in Seq({"group", "creator", "classroom"}) /\ Head(stack) = "group"
  /\ offer \in [rows : Seq(Docs), refs : Seq(Docs)]
  /\ hud \in {"hidden", "equipos", "estudiantes", "salon"}
  /\ trapped \in BOOLEAN

\* The screen shows all the group's teams or none, and all its students or
\* none, however the answers of several downloads mix; and students only when
\* teams are there for selectableStudents to compare them with.
ShowsWhole ==
  /\ TypeOK
  /\ teams # <<>> => Permutes(teams, group.equipos)
  /\ students # <<>> => Permutes(students, group.estudiantes) /\ teams # <<>>

\* Opening the creator offers exactly the students of the group for whom some
\* team has no place, and nobody before a download of the students has come to
\* its end: so nobody at all while the group has no team.
Opens == stack' = Append(stack, "creator")

OffersWhoLacksATeam ==
  [][Opens => \A s \in Range(group.estudiantes) :
       s \in Range(offer'.rows) <=>
         students # <<>> /\ \E t \in Range(group.equipos) : s \notin Integrantes[t]]_vars

\* Every appearance of a group that has teams and students ends with both on the
\* screen, or the program ends with the failure.  (A list without references makes
\* no request, so its download never ends.)
EventuallyShown ==
  \A n \in 1 .. MaxAppearances :
    (Len(downloads) = n /\ group.equipos # <<>> /\ group.estudiantes # <<>>)
      ~> \/ trapped
         \/ Len(downloads) > n
         \/ Len(downloads) = n /\ Finished(n) /\ hud = "hidden"

\* What the HUD says is being downloaded (GroupViewController.swift:46, 50, 69)
\* is awaited: some request for a team, for a student or for the classroom has no
\* answer yet, whichever of the overlapping appearances made it, unless the list
\* that it names has no reference at all.
DownloadingWhenSaid ==
  ~trapped =>
    /\ hud = "equipos" =>
         group.equipos = <<>> \/ \E d \in DOMAIN downloads : ~Ended(downloads[d].equipos)
    /\ hud = "estudiantes" =>
         group.estudiantes = <<>>
           \/ \E d \in DOMAIN downloads : ~Ended(downloads[d].estudiantes)
    /\ hud = "salon" => salones.waiting > 0

\* "Select your teammates" (Main.storyboard:643): the row that names a student
\* stands for the reference to that student.
RowsNameTheirReferences ==
  \A k \in DOMAIN offer.rows : offer.refs[k] = offer.rows[k]
=============================================================================
