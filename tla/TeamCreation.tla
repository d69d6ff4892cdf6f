---------------------------- MODULE TeamCreation ----------------------------
(***************************************************************************)
(* Creating a team of one group: TeamCreatorViewController on several      *)
(* phones, FirebaseController.addTeamToGroup with its two writes, the      *)
(* write queue that Firestore keeps on each phone, and the HUD whose       *)
(* delayed dismissal pops a screen off the navigation stack: the creator,  *)
(* or the classroom that came up over it.  A phone can die and be restarted *)
(* at any point; its queue survives, its callbacks do not.                 *)
(***************************************************************************)
EXTENDS Naturals, SequencesExt

CONSTANTS
  Phones,       \* running instances of the application
  Teams,        \* documents that addDocument can create; bounds the requests
  Drawer,       \* the phone that draws a document's automatic identifier
  Students,     \* rows that the creator offers
  limit,        \* TeamCreatorViewController.limit
  Creators,     \* creator screens of a phone; one is used again when nothing keeps it
  MaxClassrooms,\* bound on a phone's classroom requests without an answer
  MaxCrashes    \* bound on the crashes of all phones together

ASSUME DrawerAssumption == Drawer \in [Teams -> Phones]
ASSUME LimitAssumption == limit \in Nat \ {0}
ASSUME CreatorsAssumption == Creators \cap {"group", "classroom", "none"} = {}
ASSUME ClassroomsAssumption == MaxClassrooms \in Nat
ASSUME CrashesAssumption == MaxCrashes \in Nat

VARIABLES
  stack,      \* per phone: the screens from the group's upwards; none when it is dead
  salones,    \* per phone: classroom requests without an answer
  loading,    \* per phone: the group screen is downloading
  teamName,   \* per phone: the name field is filled in
  selected,   \* per phone: the selected rows
  alert,      \* per phone: a modal alert covers the screen
  hud,        \* per phone: the progress HUD is visible
  queue,      \* per phone: writes that Firestore has yet to settle, in order
  phase,      \* per team: where addTeamToGroup is with the request for it
  draft,      \* per team: the members that the request asks for
  verdict,    \* per team: what completionBlock told the creator
  timer,      \* per team: the delayed dismissal started with the verdict
  asker,      \* per team: the creator that its closures keep, or "none"
  equipo,     \* the server's collection "equipo"
  equipos,    \* the field "equipos" of the group's document
  trapped,    \* phones that died of a forced unwrap of nil
  crashes     \* crashes so far

screens == <<stack, salones>>
ui      == <<screens, loading, teamName, selected, alert, hud>>
request == <<phase, draft, verdict>>
closing == <<timer, asker>>
server  == <<equipo, equipos>>
ends    == <<trapped, crashes>>
vars    == <<ui, queue, request, closing, server, ends>>

By(p) == {t \in Teams : Drawer[t] = p}

Alive(p) == stack[p] # <<>>
Top(p)   == Last(stack[p])

Create(t) == [op |-> "create", team |-> t]
Link(t)   == [op |-> "link", team |-> t]

Init ==
  /\ stack = [p \in Phones |-> <<"group">>]
  /\ salones = [p \in Phones |-> 0]
  /\ loading = [p \in Phones |-> FALSE]
  /\ teamName = [p \in Phones |-> FALSE]
  /\ selected = [p \in Phones |-> {}]
  /\ alert = [p \in Phones |-> FALSE]
  /\ hud = [p \in Phones |-> FALSE]
  /\ queue = [p \in Phones |-> <<>>]
  /\ phase = [t \in Teams |-> "unused"]
  /\ draft = [t \in Teams |-> {}]
  /\ verdict = [t \in Teams |-> "none"]
  /\ timer = [t \in Teams |-> "off"]
  /\ asker = [t \in Teams |-> "none"]
  /\ equipo = {}
  /\ equipos = {}
  /\ trapped = {}
  /\ crashes = 0
-----------------------------------------------------------------------------
(* The screens.  A modal alert takes every touch; the HUD, with its default *)
(* mask, takes none.                                                        *)

\* Mistaken form of CanCreate, for a mutation run: the selection is not tested.
CanCreateNamed(p) == teamName[p]

\* The creator screens that no request keeps.
Fresh(p) == Creators \ {asker[t] : t \in By(p)}

OpenCreator(p) ==
  /\ Alive(p) /\ Top(p) = "group" /\ ~alert[p] /\ Fresh(p) # {}
  /\ stack' = [stack EXCEPT ![p] = Append(@, CHOOSE c \in Fresh(p) : TRUE)]
  /\ teamName' = [teamName EXCEPT ![p] = FALSE]
  /\ selected' = [selected EXCEPT ![p] = {}]
  /\ UNCHANGED <<salones, loading, alert, hud, queue, request, closing, server, ends>>

\* The group screen's button for the classroom.
SeeClassroom(p) ==
  /\ Alive(p) /\ Top(p) = "group" /\ ~alert[p] /\ salones[p] < MaxClassrooms
  /\ salones' = [salones EXCEPT ![p] = @ + 1]
  /\ hud' = [hud EXCEPT ![p] = TRUE]
  /\ UNCHANGED <<stack, loading, teamName, selected, alert, queue, request, closing,
                 server, ends>>

\* The classroom's screen is pushed on top, whatever is there by then.  (Without
\* a classroom the program ends: a Crash, which GroupScreen has in detail.)
ClassroomArrives(p) ==
  /\ salones[p] > 0
  /\ salones' = [salones EXCEPT ![p] = @ - 1]
  /\ stack' = [stack EXCEPT ![p] = Append(@, "classroom")]
  /\ hud' = [hud EXCEPT ![p] = FALSE]
  /\ UNCHANGED <<loading, teamName, selected, alert, queue, request, closing,
                 server, ends>>

Touchable(p) == Alive(p) /\ Top(p) \in Creators /\ ~alert[p]

NameTeam(p) ==
  /\ Touchable(p)
  /\ teamName' = [teamName EXCEPT ![p] = ~@]
  /\ UNCHANGED <<screens, loading, selected, alert, hud, queue, request, closing,
                 server, ends>>

\* willSelectRowAt shows the alert when the limit is reached, and returns the
\* row all the same.
SelectRow(p, s) ==
  /\ Touchable(p)
  /\ s \notin selected[p]
  /\ selected' = [selected EXCEPT ![p] = @ \cup {s}]
  /\ alert' = [alert EXCEPT ![p] = Cardinality(selected[p]) = limit]
  /\ UNCHANGED <<screens, loading, teamName, hud, queue, request, closing, server,
                 ends>>

DeselectRow(p, s) ==
  /\ Touchable(p)
  /\ s \in selected[p]
  /\ selected' = [selected EXCEPT ![p] = @ \ {s}]
  /\ UNCHANGED <<screens, loading, teamName, alert, hud, queue, request, closing,
                 server, ends>>

DismissAlert(p) ==
  /\ alert[p]
  /\ alert' = [alert EXCEPT ![p] = FALSE]
  /\ UNCHANGED <<screens, loading, teamName, selected, hud, queue, request,
                 closing, server, ends>>

CanCreate(p) == teamName[p] /\ selected[p] # {}

\* createTeam without a name or without a member: an alert, and return.
RefuseToCreate(p) ==
  /\ Touchable(p)
  /\ ~CanCreate(p)
  /\ alert' = [alert EXCEPT ![p] = TRUE]
  /\ UNCHANGED <<screens, loading, teamName, selected, hud, queue, request,
                 closing, server, ends>>

\* Mistaken form of CreateTeam, for the mutation runs: both writes are queued at
\* once, without waiting for the server to have the team.
CreateTeamEagerly(p, t) ==
  /\ Touchable(p)
  /\ CanCreate(p)
  /\ t \in By(p) /\ phase[t] = "unused"
  /\ hud' = [hud EXCEPT ![p] = TRUE]
  /\ queue' = [queue EXCEPT ![p] = @ \o <<Create(t), Link(t)>>]
  /\ phase' = [phase EXCEPT ![t] = "creating"]
  /\ draft' = [draft EXCEPT ![t] = selected[p]]
  /\ asker' = [asker EXCEPT ![t] = Top(p)]
  /\ UNCHANGED <<screens, loading, teamName, selected, alert, verdict, timer,
                 server, ends>>

\* createTeam: the HUD goes up and the first write is queued.  Nothing keeps
\* the button from being tapped again.
CreateTeam(p, t) ==
  /\ Touchable(p)
  /\ CanCreate(p)
  /\ t \in By(p) /\ phase[t] = "unused"
  /\ hud' = [hud EXCEPT ![p] = TRUE]
  /\ queue' = [queue EXCEPT ![p] = Append(@, Create(t))]
  /\ phase' = [phase EXCEPT ![t] = "creating"]
  /\ draft' = [draft EXCEPT ![t] = selected[p]]
  /\ asker' = [asker EXCEPT ![t] = Top(p)]
  /\ UNCHANGED <<screens, loading, teamName, selected, alert, verdict, timer,
                 server, ends>>

\* The top screen of phone p is popped.  When the group screen appears again,
\* its viewWillAppear starts the downloads behind the HUD.
Popped(p) ==
  /\ stack' = [stack EXCEPT ![p] = Front(@)]
  /\ loading' = [loading EXCEPT ![p] = @ \/ Len(stack[p]) = 2]
  /\ hud' = [hud EXCEPT ![p] = @ \/ Len(stack[p]) = 2]

Back(p) ==
  /\ Len(stack[p]) > 1 /\ ~alert[p]
  /\ Popped(p)
  /\ UNCHANGED <<salones, teamName, selected, alert, queue, request, closing, server,
                 ends>>

\* The group screen's downloads show the HUD and dismiss it as GroupScreen
\* has it; several may be under way, one for each time the screen appeared.
GroupLoads(p) ==
  /\ loading[p]
  /\ \E shown, more \in BOOLEAN :
       /\ hud' = [hud EXCEPT ![p] = shown]
       /\ loading' = [loading EXCEPT ![p] = more]
  /\ UNCHANGED <<screens, teamName, selected, alert, queue, request, closing,
                 server, ends>>
-----------------------------------------------------------------------------
(* Firestore.  A write stays in the phone's queue, across restarts, until   *)
(* the server's answer to it is processed; the server takes the writes of   *)
(* a phone in order, and takes one again when its answer was lost.          *)

Applied(w) == IF w.op = "create" THEN w.team \in equipo ELSE w.team \in equipos

\* Mistaken form of ArrayUnion, for the mutation runs: the field is replaced.
OnlyThis(t) == {t}

\* "equipos" : FieldValue.arrayUnion([teamID!])
ArrayUnion(t) == equipos \cup {t}

ServerApplies(p) ==
  /\ Alive(p)
  /\ \E k \in DOMAIN queue[p] :
       /\ ~Applied(queue[p][k])
       /\ \A j \in 1 .. k - 1 : Applied(queue[p][j])
       /\ LET w == queue[p][k]
          IN  /\ equipo' = IF w.op = "create" THEN equipo \cup {w.team} ELSE equipo
              /\ equipos' = IF w.op = "link" THEN ArrayUnion(w.team) ELSE equipos
  /\ UNCHANGED <<ui, queue, request, closing, ends>>

\* completionBlock(happened) of addTeamToGroup: showInfo or showError, and a
\* dismissal of the HUD three seconds later.
Tell(t, happened) ==
  /\ phase' = [phase EXCEPT ![t] = "done"]
  /\ verdict' = [verdict EXCEPT ![t] = IF happened THEN "success" ELSE "failure"]
  /\ timer' = [timer EXCEPT ![t] = "delay"]
  /\ hud' = [hud EXCEPT ![Drawer[t]] = TRUE]

\* Mistaken form of SettledSilently, for a mutation run: after a restart the
\* request goes on where its process died.
SettledAndResumed(p) ==
  /\ Alive(p) /\ queue[p] # <<>>
  /\ LET w == Head(queue[p])
     IN  /\ phase[w.team] = "lost"
         /\ queue' = [queue EXCEPT ![p] =
                        IF w.op = "create" THEN Append(Tail(@), Link(w.team)) ELSE Tail(@)]
  /\ UNCHANGED <<ui, request, closing, server, ends>>

\* Writes whose request died with its process settle without a callback.
SettledSilently(p) ==
  /\ Alive(p) /\ queue[p] # <<>>
  /\ phase[Head(queue[p]).team] = "lost"
  /\ queue' = [queue EXCEPT ![p] = Tail(@)]
  /\ UNCHANGED <<ui, request, closing, server, ends>>

\* Mistaken form of Created, for a mutation run: the team is stored and the
\* group is not touched.
CreatedOnly(p) ==
  /\ Alive(p) /\ queue[p] # <<>>
  /\ LET w == Head(queue[p])
     IN  /\ w.op = "create" /\ Applied(w) /\ phase[w.team] = "creating"
         /\ phase' = [phase EXCEPT ![w.team] = "linking"]
  /\ queue' = [queue EXCEPT ![p] = Tail(@)]
  /\ UNCHANGED <<ui, draft, verdict, closing, server, ends>>

\* The callback of addDocument: the reference of the new team is added to the
\* group with arrayUnion.
Created(p) ==
  /\ Alive(p) /\ queue[p] # <<>>
  /\ LET w == Head(queue[p])
     IN  /\ w.op = "create" /\ Applied(w) /\ phase[w.team] = "creating"
         /\ phase' = [phase EXCEPT ![w.team] = "linking"]
         /\ queue' = [queue EXCEPT ![p] = Append(Tail(@), Link(w.team))]
  /\ UNCHANGED <<ui, draft, verdict, closing, server, ends>>

\* The callback of updateData without an error.
Linked(p) ==
  /\ Alive(p) /\ queue[p] # <<>>
  /\ LET w == Head(queue[p])
     IN  /\ w.op = "link" /\ Applied(w) /\ phase[w.team] = "linking"
         /\ Tell(w.team, TRUE)
  /\ queue' = [queue EXCEPT ![p] = Tail(@)]
  /\ UNCHANGED <<screens, loading, teamName, selected, alert, draft, asker,
                 server, ends>>

\* The server refuses the write at the head for good: it is dropped, and
\* whichever callback waits for it reports the failure.
Rejected(p) ==
  /\ Alive(p) /\ queue[p] # <<>>
  /\ LET w == Head(queue[p])
     IN  /\ ~Applied(w) /\ phase[w.team] \in {"creating", "linking"}
         /\ Tell(w.team, FALSE)
  /\ queue' = [queue EXCEPT ![p] = Tail(@)]
  /\ UNCHANGED <<screens, loading, teamName, selected, alert, draft, asker,
                 server, ends>>
-----------------------------------------------------------------------------
(* The delayed dismissal.  It cannot be cancelled; its completion runs only *)
(* when nothing showed the HUD again while it faded.                        *)

FadeStarts(t) ==
  /\ timer[t] = "delay"
  /\ timer' = [timer EXCEPT ![t] = "fade"]
  /\ hud' = [hud EXCEPT ![Drawer[t]] = FALSE]
  /\ UNCHANGED <<screens, loading, teamName, selected, alert, queue, request,
                 asker, server, ends>>

\* The completion of "Success!" runs: nothing has shown the HUD since.
Completes(t) == timer[t] = "fade" /\ verdict[t] = "success" /\ ~hud[Drawer[t]]

\* The dismissal of t is over, and its closures let go of their creator.
Over(t) ==
  /\ timer' = [timer EXCEPT ![t] = "off"]
  /\ asker' = [asker EXCEPT ![t] = "none"]

FadeEndsQuietly(t) ==
  /\ timer[t] = "fade" /\ ~Completes(t)
  /\ Over(t)
  /\ UNCHANGED <<ui, queue, request, server, ends>>

\* A creator has a navigation controller as long as it is on the stack.
Pushed(t) == asker[t] \in Range(stack[Drawer[t]])

\* Mistaken form of PopCreator, for a mutation run: the navigation controller is
\* the one that the creator had when it asked.
PopCreatorCaptured(t) ==
  /\ Completes(t)
  /\ Over(t)
  /\ Popped(Drawer[t])
  /\ UNCHANGED <<salones, teamName, selected, alert, queue, request, server, ends>>

\* popViewController through the creator's own navigation controller: the top
\* screen goes, whichever it is.
PopCreator(t) ==
  /\ Completes(t) /\ Pushed(t)
  /\ Over(t)
  /\ Popped(Drawer[t])
  /\ UNCHANGED <<salones, teamName, selected, alert, queue, request, server, ends>>

\* The process of phone p ends: its screens, timers and callbacks are gone.
Dies(p) ==
  /\ stack' = [stack EXCEPT ![p] = <<>>]
  /\ salones' = [salones EXCEPT ![p] = 0]
  /\ loading' = [loading EXCEPT ![p] = FALSE]
  /\ alert' = [alert EXCEPT ![p] = FALSE]
  /\ hud' = [hud EXCEPT ![p] = FALSE]
  /\ phase' = [t \in Teams |-> IF t \in By(p) /\ phase[t] \in {"creating", "linking"}
                               THEN "lost" ELSE phase[t]]
  /\ timer' = [t \in Teams |-> IF t \in By(p) THEN "off" ELSE timer[t]]
  /\ asker' = [t \in Teams |-> IF t \in By(p) THEN "none" ELSE asker[t]]
  /\ UNCHANGED <<teamName, selected, queue, draft, verdict, server>>

\* A creator that was popped has no navigation controller any more.
PopTraps(t) ==
  /\ Completes(t) /\ ~Pushed(t)
  /\ Dies(Drawer[t])
  /\ trapped' = trapped \cup {Drawer[t]}
  /\ UNCHANGED crashes

Crash(p) ==
  /\ Alive(p) /\ crashes < MaxCrashes
  /\ Dies(p)
  /\ crashes' = crashes + 1
  /\ UNCHANGED trapped

\* Started again and back on the group screen, which loads.
Restart(p) ==
  /\ ~Alive(p)
  /\ stack' = [stack EXCEPT ![p] = <<"group">>]
  /\ loading' = [loading EXCEPT ![p] = TRUE]
  /\ hud' = [hud EXCEPT ![p] = TRUE]
  /\ UNCHANGED <<salones, teamName, selected, alert, queue, request, closing, server,
                 ends>>
-----------------------------------------------------------------------------
Screen(p) ==
  \/ SeeClassroom(p) \/ ClassroomArrives(p)
  \/ OpenCreator(p) \/ NameTeam(p) \/ DismissAlert(p) \/ RefuseToCreate(p) \/ Back(p)
  \/ GroupLoads(p)
  \/ \E s \in Students : SelectRow(p, s) \/ DeselectRow(p, s)
  \/ \E t \in Teams : CreateTeam(p, t)

Firestore(p) ==
  ServerApplies(p) \/ SettledSilently(p) \/ Created(p) \/ Linked(p) \/ Rejected(p)

Dismissal(t) ==
  FadeStarts(t) \/ FadeEndsQuietly(t) \/ PopCreator(t) \/ PopTraps(t)

Next ==
  \/ \E p \in Phones : Screen(p) \/ Firestore(p) \/ Crash(p) \/ Restart(p)
  \/ \E t \in Teams : Dismissal(t)

Spec == Init /\ [][Next]_vars

\* The phone has a connection again and again, so Firestore sends what is
\* queued and hears the answers.
Fairness == \A p \in Phones : WF_vars(ServerApplies(p)) /\ WF_vars(Created(p) \/ Linked(p))
                              /\ WF_vars(SettledSilently(p))

FairSpec == Spec /\ Fairness
-----------------------------------------------------------------------------
Phases   == {"unused", "creating", "linking", "done", "lost"}
Verdicts == {"none", "success", "failure"}
Write    == [op : {"create", "link"}, team : Teams]

\* The shape of the state.
TypeOK ==
  /\ stack \in [Phones -> Seq({"group", "classroom"} \cup Creators)]
  /\ salones \in [Phones -> 0 .. MaxClassrooms]
  /\ loading \in [Phones -> BOOLEAN]
  /\ teamName \in [Phones -> BOOLEAN]
  /\ selected \in [Phones -> SUBSET Students]
  /\ alert \in [Phones -> BOOLEAN]
  /\ hud \in [Phones -> BOOLEAN]
  /\ queue \in [Phones -> Seq(Write)]
  /\ phase \in [Teams -> Phases]
  /\ draft \in [Teams -> SUBSET Students]
  /\ verdict \in [Teams -> Verdicts]
  /\ timer \in [Teams -> {"off", "delay", "fade"}]
  /\ asker \in [Teams -> Creators \cup {"none"}]
  /\ equipo \in SUBSET Teams
  /\ equipos \in SUBSET Teams
  /\ trapped \in SUBSET Phones
  /\ crashes \in 0 .. MaxCrashes

Queued(w) == w \in Range(queue[Drawer[w.team]])

\* Every team that the group lists is a document of "equipo", so that no
\* download of the group's teams meets a snapshot without data: the link is
\* written only after the server has the team, across retries and restarts.
ListedTeamsExist == equipos \subseteq equipo

\* "Success!" is shown only for a team that the group lists, and an error
\* only for one that it does not list and that no queued write will add.
TruthfulVerdict ==
  \A t \in Teams :
    /\ verdict[t] = "success" => t \in equipos
    /\ verdict[t] = "failure" => t \notin equipos /\ ~Queued(Link(t))

\* The message "Please add at least one team member": no team is stored
\* without one, however rows were tapped and untapped before.
TeamsHaveMembers == \A t \in equipo : draft[t] # {}

\* The delayed popViewController of a success comes only when the team is
\* listed, and takes away the creator that asked for it or a classroom that came
\* up over that creator: never the group screen beneath nor another creator,
\* though the user leaves and comes back in the three seconds, and a second
\* request of the same creator may have popped it before.
Closes(t) ==
  timer[t] = "fade" /\ timer'[t] = "off" /\ stack' # stack /\ Alive(Drawer[t])'

ClosesItsCreator ==
  [][\A t \in Teams :
       Closes(t) => t \in equipos /\ Top(Drawer[t]) \in {asker[t], "classroom"}]_vars

\* A request that died with its process before its link was queued never
\* adds a team to the group later, although its document may still appear.
LostStaysUnlisted ==
  [][\A t \in Teams :
       (phase[t] = "lost" /\ t \notin equipos /\ ~Queued(Link(t)))
         => (t \notin equipos' /\ ~Queued(Link(t))')]_vars

\* Inductive strengthening of the invariants above.  A queued write belongs to
\* a request that still waits for it or died waiting; a link is queued only for
\* a team that the server has; a team has at most one write queued; a request
\* that is not made has left no trace, and one with a verdict is over.
OneWriteEach(writes) ==
  \A j, k \in DOMAIN writes : writes[j].team = writes[k].team => j = k

QueueInv ==
  \A p \in Phones :
    /\ OneWriteEach(queue[p])
    /\ \A w \in Range(queue[p]) :
         /\ Drawer[w.team] = p
         /\ w.op = "create" => phase[w.team] \in {"creating", "lost"}
         /\ w.op = "link" => phase[w.team] \in {"linking", "lost"} /\ w.team \in equipo

PhaseInv ==
  \A t \in Teams :
    /\ phase[t] = "unused" => t \notin equipo
    /\ phase[t] # "unused" => draft[t] # {}
    /\ verdict[t] # "none" => phase[t] = "done"

RequestInv ==
  TypeOK /\ QueueInv /\ PhaseInv /\ ListedTeamsExist /\ TruthfulVerdict

\* The two writes and the queue implement the promise of one atomic answer.
Ledger == INSTANCE TeamLedger WITH listed <- equipos
KeepsLedger == Ledger!Spec

\* Every request gets its verdict, unless its process dies first.
EventuallyTold ==
  \A t \in Teams : phase[t] \in {"creating", "linking"} ~> phase[t] \in {"done", "lost"}
=============================================================================
