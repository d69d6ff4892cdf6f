------------------------- MODULE TeamCreationProofs -------------------------
(***************************************************************************)
(* Proofs about the creation of teams, for any number of phones, teams,    *)
(* students and crashes.                                                   *)
(***************************************************************************)
EXTENDS TeamCreation, SequenceTheorems, TLAPS

USE DrawerAssumption, CrashesAssumption DEF ArrayUnion

\* The two writes of a team are writes.
LEMMA WriteType ==
  ASSUME NEW t \in Teams
  PROVE  Create(t) \in Write /\ Link(t) \in Write
  BY DEF Create, Link, Write

\* What the writes of a queue are after one is added at the end...
LEMMA AppendWrites ==
  ASSUME NEW s \in Seq(Write), NEW x \in Write
  PROVE  /\ Append(s, x) \in Seq(Write)
         /\ Range(Append(s, x)) = Range(s) \cup {x}
         /\ (OneWriteEach(s) /\ \A w \in Range(s) : w.team # x.team)
              => OneWriteEach(Append(s, x))
<1>1. /\ Append(s, x) \in Seq(Write)
      /\ DOMAIN Append(s, x) = 1 .. Len(s) + 1
      /\ DOMAIN s = 1 .. Len(s)
      /\ Len(s) \in Nat
      /\ \A k \in DOMAIN s : Append(s, x)[k] = s[k]
      /\ Append(s, x)[Len(s) + 1] = x
  BY AppendProperties, LenProperties
<1>2. \A k \in DOMAIN Append(s, x) : k \in DOMAIN s \/ k = Len(s) + 1
  BY <1>1
<1>3. Range(Append(s, x)) = Range(s) \cup {x}
  BY <1>1, <1>2 DEF Range
<1>4. ASSUME OneWriteEach(s), \A w \in Range(s) : w.team # x.team
      PROVE  OneWriteEach(Append(s, x))
  <2>1. \A k \in DOMAIN s : s[k].team # x.team
    BY <1>4 DEF Range
  <2> QED
    BY <1>1, <1>2, <1>4, <2>1 DEF OneWriteEach
<1> QED
  BY <1>1, <1>3, <1>4

\* ... and after the one at the head is settled.
LEMMA TailWrites ==
  ASSUME NEW s \in Seq(Write), s # <<>>
  PROVE  /\ Head(s) \in Write
         /\ Head(s).team \in Teams
         /\ Head(s) \in Range(s)
         /\ Tail(s) \in Seq(Write)
         /\ OneWriteEach(s) => /\ OneWriteEach(Tail(s))
                               /\ Range(Tail(s)) \subseteq Range(s)
                               /\ \A w \in Range(Tail(s)) : w.team # Head(s).team
<1>1. /\ Head(s) \in Write
      /\ Tail(s) \in Seq(Write)
      /\ Len(Tail(s)) = Len(s) - 1
      /\ \A k \in 1 .. Len(Tail(s)) : Tail(s)[k] = s[k + 1]
  BY HeadTailProperties
<1>2. /\ Len(s) \in Nat \ {0}
      /\ DOMAIN s = 1 .. Len(s)
      /\ DOMAIN Tail(s) = 1 .. Len(s) - 1
  BY <1>1, EmptySeq, LenProperties
<1>3. Head(s) = s[1] /\ 1 \in DOMAIN s
  BY <1>2
<1>4. \A k \in DOMAIN Tail(s) : k + 1 \in DOMAIN s /\ k + 1 # 1 /\ Tail(s)[k] = s[k + 1]
  BY <1>1, <1>2
<1>5. ASSUME OneWriteEach(s) PROVE OneWriteEach(Tail(s))
  <2>1. \A j, k \in DOMAIN Tail(s) : j + 1 = k + 1 => j = k
    BY <1>2
  <2> QED
    BY <1>4, <1>5, <2>1 DEF OneWriteEach
<1>6. Range(Tail(s)) \subseteq Range(s)
  BY <1>4 DEF Range
<1>7. ASSUME OneWriteEach(s), NEW w \in Range(Tail(s)) PROVE w.team # Head(s).team
  BY <1>3, <1>4, <1>7 DEF OneWriteEach, Range
<1>8. Head(s).team \in Teams /\ Head(s) \in Range(s)
  BY <1>1, <1>3 DEF Write, Range
<1> QED
  BY <1>1, <1>5, <1>6, <1>7, <1>8

\* What is queued on a phone are writes of teams.
LEMMA QueueType ==
  ASSUME TypeOK, NEW p \in Phones
  PROVE  /\ queue[p] \in Seq(Write)
         /\ \A w \in Range(queue[p]) : w \in Write /\ w.team \in Teams
<1>1. queue[p] \in Seq(Write) /\ DOMAIN queue[p] = 1 .. Len(queue[p])
  BY LenProperties DEF TypeOK
<1>2. \A k \in DOMAIN queue[p] : queue[p][k] \in Write
  BY <1>1, ElementOfSeq
<1> QED
  BY <1>1, <1>2 DEF Range, Write

\* The screens that can be on a stack.
Shown == {"group", "classroom"} \cup Creators

\* A stack with a screen pushed ...
LEMMA Pushing ==
  ASSUME NEW s \in Seq(Shown), NEW x \in Shown
  PROVE  /\ Append(s, x) \in Seq(Shown)
         /\ Append(s, x) # <<>>
         /\ Len(Append(s, x)) = Len(s) + 1
         /\ \A k \in 1 .. Len(s) : Append(s, x)[k] = s[k]
         /\ Append(s, x)[Len(s) + 1] = x
<1>1. Len(s) \in Nat /\ Len(s) + 1 # 0
  BY LenProperties
<1> QED
  BY <1>1, AppendProperties, EmptySeq

\* ... and with its top screen popped.
LEMMA Popping ==
  ASSUME NEW s \in Seq(Shown), s # <<>>
  PROVE  /\ Len(s) \in Nat \ {0}
         /\ Last(s) = s[Len(s)]
         /\ Last(s) \in Shown
         /\ Front(s) \in Seq(Shown)
         /\ Len(Front(s)) = Len(s) - 1
         /\ \A k \in 1 .. Len(s) - 1 : Front(s)[k] = s[k]
<1>1. Len(s) \in Nat \ {0} /\ DOMAIN s = 1 .. Len(s)
  BY EmptySeq, LenProperties
<1>2. PICK m \in Nat : m = Len(s) - 1 /\ m + 1 = Len(s)
  <2>1. Len(s) - 1 \in Nat /\ Len(s) - 1 + 1 = Len(s)
    BY <1>1
  <2> QED
    BY <2>1
<1>3. \A k \in 1 .. m : s[k] \in Shown
  BY <1>1, <1>2, ElementOfSeq
<1>4. /\ SubSeq(s, 1, m) \in Seq(Shown)
      /\ Len(SubSeq(s, 1, m)) = IF 1 <= m THEN m - 1 + 1 ELSE 0
      /\ \A k \in 1 .. m - 1 + 1 : SubSeq(s, 1, m)[k] = s[1 + k - 1]
  BY <1>2, <1>3, SubSeqProperties
<1>5. Len(SubSeq(s, 1, m)) = m
  BY <1>2, <1>4
<1>6. \A k \in 1 .. m : SubSeq(s, 1, m)[k] = s[k]
  <2>1. \A k \in 1 .. m : k \in 1 .. m - 1 + 1 /\ 1 + k - 1 = k
    BY <1>2
  <2> QED
    BY <1>4, <2>1
<1>7. Front(s) = SubSeq(s, 1, m)
  BY <1>2 DEF Front
<1>8. Last(s) = s[Len(s)] /\ s[Len(s)] \in Shown
  <2>1. Len(s) \in 1 .. Len(s)
    BY <1>1
  <2> QED
    BY <1>1, <2>1, ElementOfSeq DEF Last
<1> QED
  BY <1>1, <1>2, <1>4, <1>5, <1>6, <1>7, <1>8

\* A creator that is opened is one of the creators.
LEMMA FreshCreator ==
  ASSUME NEW p \in Phones, Fresh(p) # {}
  PROVE  (CHOOSE c \in Fresh(p) : TRUE) \in Creators
  BY DEF Fresh
-----------------------------------------------------------------------------
\* Phones, queues, requests and the server's data keep their shape.
THEOREM TypeCorrect == Spec => []TypeOK
<1>1. Init => TypeOK
  <2>1. <<"group">> \in Seq({"group", "classroom"} \cup Creators)
    OBVIOUS
  <2> QED
    BY <2>1, EmptySeq, ClassroomsAssumption DEF Init, TypeOK, Phases, Verdicts
<1>2. TypeOK /\ [Next]_vars => TypeOK'
  <2> SUFFICES ASSUME TypeOK, [Next]_vars PROVE TypeOK'
    OBVIOUS
  <2> USE DEF TypeOK, screens, ui, request, closing, server, ends, Phases, Verdicts
  <2>0. ASSUME NEW p \in Phones, stack[p] # <<>>, Popped(p)
        PROVE  /\ stack' \in [Phones -> Seq({"group", "classroom"} \cup Creators)]
               /\ loading' \in [Phones -> BOOLEAN]
               /\ hud' \in [Phones -> BOOLEAN]
    <3>1. Front(stack[p]) \in Seq({"group", "classroom"} \cup Creators)
      BY <2>0, Popping DEF Shown
    <3>2. stack' \in [Phones -> Seq({"group", "classroom"} \cup Creators)]
      BY <2>0, <3>1 DEF Popped
    <3>3. (loading[p] \/ Len(stack[p]) = 2) \in BOOLEAN /\ (hud[p] \/ Len(stack[p]) = 2) \in BOOLEAN
      OBVIOUS
    <3> QED
      BY <2>0, <3>2, <3>3 DEF Popped
  <2>1. ASSUME NEW p \in Phones, Screen(p) PROVE TypeOK'
    <3>1. ASSUME OpenCreator(p) PROVE TypeOK'
      <4>1. Append(stack[p], CHOOSE c \in Fresh(p) : TRUE)
              \in Seq({"group", "classroom"} \cup Creators)
        BY <3>1, FreshCreator, Pushing DEF OpenCreator, Shown
      <4> QED
        BY <3>1, <4>1 DEF OpenCreator
    <3>2. ASSUME NameTeam(p) PROVE TypeOK'
      BY <3>2 DEF NameTeam
    <3>3. ASSUME DismissAlert(p) PROVE TypeOK'
      BY <3>3 DEF DismissAlert
    <3>4. ASSUME RefuseToCreate(p) PROVE TypeOK'
      BY <3>4 DEF RefuseToCreate
    <3>5. ASSUME Back(p) PROVE TypeOK'
      <4>1. stack[p] # <<>>
        BY <3>5, EmptySeq DEF Back
      <4> QED
        BY <2>0, <3>5, <4>1 DEF Back
    <3>6. ASSUME GroupLoads(p) PROVE TypeOK'
      BY <3>6 DEF GroupLoads
    <3>7. ASSUME NEW s \in Students, SelectRow(p, s) PROVE TypeOK'
      BY <3>7 DEF SelectRow
    <3>8. ASSUME NEW s \in Students, DeselectRow(p, s) PROVE TypeOK'
      BY <3>8 DEF DeselectRow
    <3>9. ASSUME NEW t \in Teams, CreateTeam(p, t) PROVE TypeOK'
      <4>1. Append(queue[p], Create(t)) \in Seq(Write)
        BY WriteType, AppendProperties
      <4>2. Top(p) \in Creators
        BY <3>9 DEF CreateTeam, Touchable
      <4> QED
        BY <3>9, <4>1, <4>2 DEF CreateTeam
    <3>10. ASSUME SeeClassroom(p) PROVE TypeOK'
      <4>1. salones[p] + 1 \in 0 .. MaxClassrooms
        BY <3>10, ClassroomsAssumption DEF SeeClassroom
      <4> QED
        BY <3>10, <4>1 DEF SeeClassroom
    <3>11. ASSUME ClassroomArrives(p) PROVE TypeOK'
      <4>1. salones[p] - 1 \in 0 .. MaxClassrooms
        BY <3>11, ClassroomsAssumption DEF ClassroomArrives
      <4>2. Append(stack[p], "classroom") \in Seq({"group", "classroom"} \cup Creators)
        BY Pushing DEF Shown
      <4> QED
        BY <3>11, <4>1, <4>2 DEF ClassroomArrives
    <3> QED
      BY <2>1, <3>1, <3>2, <3>3, <3>4, <3>5, <3>6, <3>7, <3>8, <3>9, <3>10, <3>11 DEF Screen
  <2>2. ASSUME NEW p \in Phones, Firestore(p) PROVE TypeOK'
    <3>1. ASSUME ServerApplies(p) PROVE TypeOK'
      <4>1. PICK k \in DOMAIN queue[p] :
              LET w == queue[p][k]
              IN  /\ equipo' = IF w.op = "create" THEN equipo \cup {w.team} ELSE equipo
                  /\ equipos' = IF w.op = "link" THEN equipos \cup {w.team} ELSE equipos
        BY <3>1 DEF ServerApplies
      <4>2. queue[p][k] \in Write
        BY <4>1, ElementOfSeq, LenProperties
      <4>3. queue[p][k].team \in Teams
        BY <4>2 DEF Write
      <4> QED
        BY <3>1, <4>1, <4>3 DEF ServerApplies
    <3>2. ASSUME SettledSilently(p) PROVE TypeOK'
      BY <3>2, QueueType, TailWrites DEF SettledSilently
    <3>3. ASSUME Created(p) PROVE TypeOK'
      <4>1. /\ Head(queue[p]).team \in Teams
            /\ Append(Tail(queue[p]), Link(Head(queue[p]).team)) \in Seq(Write)
        BY <3>3, QueueType, TailWrites, WriteType, AppendProperties DEF Created
      <4> QED
        BY <3>3, <4>1 DEF Created
    <3>4. ASSUME Linked(p) PROVE TypeOK'
      BY <3>4, QueueType, TailWrites DEF Linked, Tell
    <3>5. ASSUME Rejected(p) PROVE TypeOK'
      BY <3>5, QueueType, TailWrites DEF Rejected, Tell
    <3> QED
      BY <2>2, <3>1, <3>2, <3>3, <3>4, <3>5 DEF Firestore
  <2>3. ASSUME NEW p \in Phones, Crash(p) PROVE TypeOK'
    BY <2>3, EmptySeq, ClassroomsAssumption DEF Crash, Dies
  <2>4. ASSUME NEW p \in Phones, Restart(p) PROVE TypeOK'
    <3>1. <<"group">> \in Seq({"group", "classroom"} \cup Creators)
      OBVIOUS
    <3> QED
      BY <2>4, <3>1 DEF Restart
  <2>5. ASSUME NEW t \in Teams, Dismissal(t) PROVE TypeOK'
    <3>1. ASSUME FadeStarts(t) PROVE TypeOK'
      BY <3>1 DEF FadeStarts
    <3>2. ASSUME FadeEndsQuietly(t) PROVE TypeOK'
      BY <3>2 DEF FadeEndsQuietly, Over
    <3>3. ASSUME PopCreator(t) PROVE TypeOK'
      <4>1. Drawer[t] \in Phones /\ stack[Drawer[t]] # <<>>
        BY <3>3, EmptySeq DEF PopCreator, Pushed, Range
      <4> QED
        BY <2>0, <3>3, <4>1 DEF PopCreator, Over
    <3>4. ASSUME PopTraps(t) PROVE TypeOK'
      BY <3>4, EmptySeq, ClassroomsAssumption DEF PopTraps, Dies
    <3> QED
      BY <2>5, <3>1, <3>2, <3>3, <3>4 DEF Dismissal
  <2>6. CASE UNCHANGED vars
    BY <2>6 DEF vars
  <2> QED
    BY <2>1, <2>2, <2>3, <2>4, <2>5, <2>6 DEF Next
<1> QED
  BY <1>1, <1>2, PTL DEF Spec
-----------------------------------------------------------------------------
(* The inductive invariant RequestInv.                                      *)

core == <<queue, phase, draft, verdict, server>>

Steady == QueueInv /\ PhaseInv /\ ListedTeamsExist /\ TruthfulVerdict

\* What the screens and the HUD do leaves requests, queues and server alone.
LEMMA SteadyUnchanged == Steady /\ UNCHANGED core => Steady'
  BY DEF Steady, core, server, QueueInv, OneWriteEach, PhaseInv,
         ListedTeamsExist, TruthfulVerdict, Queued, Link

\* A new request: its team is named by no write yet.
LEMMA SteadyCreate ==
  ASSUME TypeOK, Steady, NEW p \in Phones, NEW t \in Teams, CreateTeam(p, t)
  PROVE  Steady'
<1>1. /\ Drawer[t] = p /\ phase[t] = "unused" /\ selected[p] # {}
      /\ queue' = [queue EXCEPT ![p] = Append(queue[p], Create(t))]
      /\ phase' = [phase EXCEPT ![t] = "creating"]
      /\ draft' = [draft EXCEPT ![t] = selected[p]]
      /\ UNCHANGED <<verdict, equipo, equipos>>
  BY DEF CreateTeam, By, CanCreate, server
<1>2. \A q \in Phones : \A w \in Range(queue[q]) : w \in Write /\ w.team \in Teams /\ w.team # t
  BY <1>1, QueueType DEF Steady, QueueInv, Write
<1>3. /\ Range(queue'[p]) = Range(queue[p]) \cup {Create(t)}
      /\ OneWriteEach(queue'[p])
      /\ \A q \in Phones : q # p => queue'[q] = queue[q]
  <2>1. queue'[p] = Append(queue[p], Create(t)) /\ Create(t).team = t
    BY <1>1 DEF TypeOK, Create
  <2>2. /\ queue[p] \in Seq(Write)
        /\ OneWriteEach(queue[p])
        /\ \A w \in Range(queue[p]) : w.team # Create(t).team
    BY <1>2, <2>1, QueueType DEF Steady, QueueInv
  <2>3. Range(queue'[p]) = Range(queue[p]) \cup {Create(t)} /\ OneWriteEach(queue'[p])
    BY <2>1, <2>2, WriteType, AppendWrites
  <2>4. \A q \in Phones : q # p => queue'[q] = queue[q]
    BY <1>1 DEF TypeOK
  <2> QED
    BY <2>3, <2>4
<1>4. QueueInv'
  <2>1. ASSUME NEW q \in Phones, q # p
        PROVE  /\ OneWriteEach(queue'[q])
               /\ \A w \in Range(queue'[q]) :
                    /\ Drawer[w.team] = q
                    /\ w.op = "create" => phase'[w.team] \in {"creating", "lost"}
                    /\ w.op = "link" => phase'[w.team] \in {"linking", "lost"}
                                        /\ w.team \in equipo'
    BY <1>1, <1>2, <1>3, <2>1 DEF Steady, QueueInv, TypeOK
  <2>2. \A w \in Range(queue[p]) :
          /\ Drawer[w.team] = p
          /\ w.op = "create" => phase'[w.team] \in {"creating", "lost"}
          /\ w.op = "link" => phase'[w.team] \in {"linking", "lost"} /\ w.team \in equipo'
    BY <1>1, <1>2 DEF Steady, QueueInv, TypeOK
  <2>3. Create(t).team = t /\ Create(t).op = "create" /\ phase'[t] = "creating"
    BY <1>1 DEF Create, TypeOK
  <2> QED
    BY <1>1, <1>3, <2>1, <2>2, <2>3 DEF QueueInv, OneWriteEach
<1>5. PhaseInv'
  BY <1>1 DEF Steady, PhaseInv, TypeOK
<1>6. \A u \in Teams : Queued(Link(u))' => Queued(Link(u))
  BY <1>3 DEF Queued, Link, Create
<1>7. TruthfulVerdict' /\ ListedTeamsExist'
  BY <1>1, <1>6 DEF Steady, TruthfulVerdict, ListedTeamsExist
<1> QED
  BY <1>4, <1>5, <1>7 DEF Steady

\* The server takes a write: a link names a team that it already has, and a
\* request with a verdict has no write queued.
LEMMA SteadyApplies ==
  ASSUME TypeOK, Steady, NEW p \in Phones, ServerApplies(p)
  PROVE  Steady'
<1>1. PICK w \in Range(queue[p]) :
        /\ equipo' = IF w.op = "create" THEN equipo \cup {w.team} ELSE equipo
        /\ equipos' = IF w.op = "link" THEN equipos \cup {w.team} ELSE equipos
  BY DEF ServerApplies, Range
<1>2. UNCHANGED <<queue, phase, draft, verdict>>
  BY DEF ServerApplies, request
<1>3. w.team \in Teams
  BY QueueType
<1>4. /\ w.op = "create" => phase[w.team] \in {"creating", "lost"}
      /\ w.op = "link" => phase[w.team] \in {"linking", "lost"} /\ w.team \in equipo
  BY DEF Steady, QueueInv
<1>5. \/ equipo' = equipo \cup {w.team} /\ equipos' = equipos /\ phase[w.team] \in {"creating", "lost"}
      \/ equipo' = equipo /\ equipos' = equipos \cup {w.team}
         /\ phase[w.team] \in {"linking", "lost"} /\ w.team \in equipo
      \/ equipo' = equipo /\ equipos' = equipos
  BY <1>1, <1>4
<1>6. QueueInv'
  BY <1>2, <1>5 DEF Steady, QueueInv, OneWriteEach
<1>7. PhaseInv'
  BY <1>2, <1>3, <1>5 DEF Steady, PhaseInv
<1>8. ListedTeamsExist'
  BY <1>5 DEF Steady, ListedTeamsExist
<1>9. TruthfulVerdict'
  BY <1>2, <1>3, <1>5 DEF Steady, TruthfulVerdict, PhaseInv, Queued, Link
<1> QED
  BY <1>6, <1>7, <1>8, <1>9 DEF Steady

\* Settling the head of a queue drops the only write of its team.
LEMMA DropHead ==
  ASSUME TypeOK, Steady, NEW p \in Phones, queue[p] # <<>>,
         queue' = [queue EXCEPT ![p] = Tail(queue[p])]
  PROVE  /\ \A q \in Phones :
              /\ OneWriteEach(queue'[q])
              /\ Range(queue'[q]) \subseteq Range(queue[q])
              /\ \A w \in Range(queue'[q]) : w \in Write /\ w.team # Head(queue[p]).team
         /\ \A t \in Teams : Queued(Link(t))' => Queued(Link(t))
         /\ \A t \in Teams : t = Head(queue[p]).team => ~Queued(Link(t))'
<1>1. queue'[p] = Tail(queue[p]) /\ \A q \in Phones : q # p => queue'[q] = queue[q]
  BY DEF TypeOK
<1>2. \A q \in Phones : OneWriteEach(queue[q]) /\ \A w \in Range(queue[q]) : Drawer[w.team] = q
  BY DEF Steady, QueueInv
<1>3. /\ Head(queue[p]) \in Range(queue[p])
      /\ Head(queue[p]).team \in Teams
      /\ OneWriteEach(Tail(queue[p]))
      /\ Range(Tail(queue[p])) \subseteq Range(queue[p])
      /\ \A w \in Range(Tail(queue[p])) : w.team # Head(queue[p]).team
  BY <1>2, QueueType, TailWrites
<1>4. ASSUME NEW q \in Phones
      PROVE  /\ OneWriteEach(queue'[q])
             /\ Range(queue'[q]) \subseteq Range(queue[q])
             /\ \A w \in Range(queue'[q]) : w \in Write /\ w.team # Head(queue[p]).team
  <2>1. CASE q = p
    BY <1>1, <1>3, <2>1, QueueType
  <2>2. CASE q # p
    BY <1>1, <1>2, <1>3, <2>2, QueueType
  <2> QED
    BY <2>1, <2>2
<1>5. \A t \in Teams : Drawer[t] \in Phones /\ Link(t).team = t
  BY DEF Link
<1>6. \A t \in Teams : Queued(Link(t))' <=> Link(t) \in Range(queue'[Drawer[t]])
  BY <1>5 DEF Queued
<1>7. \A t \in Teams : Queued(Link(t)) <=> Link(t) \in Range(queue[Drawer[t]])
  BY <1>5 DEF Queued
<1>8. \A t \in Teams : t = Head(queue[p]).team => ~Queued(Link(t))'
  BY <1>4, <1>5, <1>6
<1>9. \A t \in Teams : Queued(Link(t))' => Queued(Link(t))
  BY <1>4, <1>5, <1>6, <1>7
<1> QED
  BY <1>4, <1>8, <1>9

\* A write of a process that died is dropped without a callback.
LEMMA SteadySettled ==
  ASSUME TypeOK, Steady, NEW p \in Phones, SettledSilently(p)
  PROVE  Steady'
<1>1. /\ queue[p] # <<>>
      /\ queue' = [queue EXCEPT ![p] = Tail(queue[p])]
      /\ UNCHANGED <<phase, draft, verdict, equipo, equipos>>
  BY DEF SettledSilently, request, server
<1>2. QueueInv'
  BY <1>1, DropHead DEF Steady, QueueInv, OneWriteEach
<1>3. TruthfulVerdict'
  BY <1>1, DropHead DEF Steady, TruthfulVerdict
<1> QED
  BY <1>1, <1>2, <1>3 DEF Steady, PhaseInv, ListedTeamsExist

\* A verdict is told for the team whose write is dropped.
LEMMA SteadyTold ==
  ASSUME TypeOK, Steady, NEW p \in Phones, queue[p] # <<>>,
         queue' = [queue EXCEPT ![p] = Tail(queue[p])],
         NEW t \in Teams, t = Head(queue[p]).team,
         NEW happened \in BOOLEAN, Tell(t, happened),
         UNCHANGED <<draft, equipo, equipos>>,
         phase[t] \in {"creating", "linking"},
         happened <=> t \in equipos
  PROVE  Steady'
<1>1. /\ t \in Teams
      /\ phase' = [phase EXCEPT ![t] = "done"]
      /\ verdict' = [verdict EXCEPT ![t] = IF happened THEN "success" ELSE "failure"]
  BY DEF Tell
<1>2. QueueInv'
  <2>1. ASSUME NEW q \in Phones, NEW w \in Range(queue'[q])
        PROVE  /\ Drawer[w.team] = q
               /\ w.op = "create" => phase'[w.team] \in {"creating", "lost"}
               /\ w.op = "link" => phase'[w.team] \in {"linking", "lost"}
                                   /\ w.team \in equipo'
    <3>1. w \in Range(queue[q]) /\ w.team # t /\ w.team \in Teams
      BY <2>1, DropHead, QueueType
    <3>2. phase'[w.team] = phase[w.team]
      BY <1>1, <3>1 DEF TypeOK
    <3> QED
      BY <3>1, <3>2 DEF Steady, QueueInv
  <2> QED
    BY <2>1, DropHead DEF QueueInv, OneWriteEach
<1>3. PhaseInv'
  BY <1>1 DEF Steady, PhaseInv, TypeOK
<1>4. ~Queued(Link(t))' /\ \A u \in Teams : Queued(Link(u))' => Queued(Link(u))
  BY DropHead
<1>5. TruthfulVerdict'
  <2>1. ASSUME NEW u \in Teams, u # t
        PROVE  /\ verdict'[u] = "success" => u \in equipos'
               /\ verdict'[u] = "failure" => u \notin equipos' /\ ~Queued(Link(u))'
    BY <1>1, <1>4, <2>1 DEF Steady, TruthfulVerdict, TypeOK
  <2>2. /\ verdict'[t] = "success" => t \in equipos'
        /\ verdict'[t] = "failure" => t \notin equipos' /\ ~Queued(Link(t))'
    BY <1>1, <1>4 DEF TypeOK
  <2> QED
    BY <2>1, <2>2 DEF TruthfulVerdict, Queued
<1> QED
  BY <1>2, <1>3, <1>5 DEF Steady, ListedTeamsExist

\* addDocument succeeded: its write makes room for the link of the same team.
LEMMA SteadyCreated ==
  ASSUME TypeOK, Steady, NEW p \in Phones, Created(p)
  PROVE  Steady'
<1>0. PICK t : t = Head(queue[p]).team
  OBVIOUS
<1> DEFINE rest == Tail(queue[p])
<1>1. /\ queue[p] # <<>>
      /\ Head(queue[p]).op = "create" /\ t \in equipo /\ phase[t] = "creating"
      /\ phase' = [phase EXCEPT ![t] = "linking"]
      /\ queue' = [queue EXCEPT ![p] = Append(rest, Link(t))]
      /\ UNCHANGED <<draft, verdict, equipo, equipos>>
  BY <1>0 DEF Created, Applied, server
<1>2. \A q \in Phones : /\ OneWriteEach(queue[q])
                        /\ \A w \in Range(queue[q]) : w.team \in Teams /\ Drawer[w.team] = q
  BY QueueType DEF Steady, QueueInv
<1>3. /\ Head(queue[p]) \in Range(queue[p])
      /\ t \in Teams /\ Drawer[t] = p
      /\ rest \in Seq(Write)
      /\ OneWriteEach(rest)
      /\ Range(rest) \subseteq Range(queue[p])
      /\ \A w \in Range(rest) : w.team # t
  BY <1>0, <1>1, <1>2, QueueType, TailWrites
<1>4. Link(t) \in Write /\ Link(t).team = t /\ Link(t).op = "link"
  BY <1>3, WriteType DEF Link
<1>5. /\ Range(queue'[p]) = Range(rest) \cup {Link(t)}
      /\ OneWriteEach(queue'[p])
  <2>1. queue'[p] = Append(rest, Link(t))
    BY <1>1 DEF TypeOK
  <2>2. /\ Range(Append(rest, Link(t))) = Range(rest) \cup {Link(t)}
        /\ OneWriteEach(Append(rest, Link(t)))
    BY <1>3, <1>4, AppendWrites
  <2> QED
    BY <2>1, <2>2
<1>6. \A q \in Phones : q # p => queue'[q] = queue[q]
  BY <1>1 DEF TypeOK
<1>7. \A u \in Teams : u # t => phase'[u] = phase[u]
  BY <1>1 DEF TypeOK
<1>8. QueueInv'
  <2>1. ASSUME NEW q \in Phones, NEW w \in Range(queue'[q])
        PROVE  /\ Drawer[w.team] = q
               /\ w.op = "create" => phase'[w.team] \in {"creating", "lost"}
               /\ w.op = "link" => phase'[w.team] \in {"linking", "lost"}
                                   /\ w.team \in equipo'
    <3>1. CASE q = p /\ w = Link(t)
      BY <1>1, <1>3, <1>4, <3>1 DEF TypeOK
    <3>2. CASE ~(q = p /\ w = Link(t))
      <4>1. w \in Range(queue[q]) /\ w.team # t /\ w.team \in Teams
        BY <1>2, <1>3, <1>5, <1>6, <2>1, <3>2
      <4> QED
        BY <1>1, <1>7, <4>1 DEF Steady, QueueInv
    <3> QED
      BY <3>1, <3>2
  <2>2. \A q \in Phones : OneWriteEach(queue'[q])
    BY <1>2, <1>5, <1>6
  <2> QED
    BY <2>1, <2>2 DEF QueueInv, OneWriteEach
<1>9. PhaseInv'
  BY <1>1 DEF Steady, PhaseInv, TypeOK
<1>10. TruthfulVerdict'
  <2>1. \A u \in Teams : verdict[u] = "failure" => u # t
    BY <1>1 DEF Steady, PhaseInv
  <2>2. ASSUME NEW u \in Teams, u # t, Queued(Link(u))' PROVE Queued(Link(u))
    <3>1. Drawer[u] \in Phones /\ Link(u) # Link(t)
      BY <2>2 DEF Link
    <3> QED
      BY <1>3, <1>5, <1>6, <2>2, <3>1 DEF Queued, Link
  <2> QED
    BY <1>1, <2>1, <2>2 DEF Steady, TruthfulVerdict
<1> QED
  BY <1>1, <1>8, <1>9, <1>10 DEF Steady, ListedTeamsExist

\* A process ends: requests that waited are lost, their writes stay queued.
LEMMA SteadyDies ==
  ASSUME TypeOK, Steady, NEW p \in Phones, Dies(p)
  PROVE  Steady'
<1>1. /\ phase' = [t \in Teams |-> IF t \in By(p) /\ phase[t] \in {"creating", "linking"}
                                   THEN "lost" ELSE phase[t]]
      /\ UNCHANGED <<queue, draft, verdict, equipo, equipos>>
  BY DEF Dies, server
<1>2. \A t \in Teams : \/ phase'[t] = phase[t]
                       \/ phase[t] \in {"creating", "linking"} /\ phase'[t] = "lost"
  BY <1>1
<1>3. \A q \in Phones : \A w \in Range(queue[q]) : w.team \in Teams
  BY QueueType
<1>4. QueueInv'
  BY <1>1, <1>2, <1>3 DEF Steady, QueueInv, OneWriteEach
<1>5. PhaseInv'
  BY <1>1, <1>2 DEF Steady, PhaseInv
<1> QED
  BY <1>1, <1>4, <1>5 DEF Steady, TruthfulVerdict, ListedTeamsExist, Queued, Link

\* What Firestore does to a phone keeps the invariant.
LEMMA SteadyFirestore ==
  ASSUME TypeOK, Steady, NEW p \in Phones, Firestore(p)
  PROVE  Steady'
<1>1. ASSUME Linked(p) PROVE Steady'
  <2>1. /\ queue[p] # <<>>
        /\ queue' = [queue EXCEPT ![p] = Tail(queue[p])]
        /\ Tell(Head(queue[p]).team, TRUE)
        /\ UNCHANGED <<draft, equipo, equipos>>
        /\ phase[Head(queue[p]).team] = "linking"
        /\ Head(queue[p]).team \in equipos
    BY <1>1 DEF Linked, Applied, server
  <2>2. Head(queue[p]).team \in Teams
    BY <2>1, QueueType, TailWrites
  <2> QED
    BY <2>1, <2>2, SteadyTold
<1>2. ASSUME Rejected(p) PROVE Steady'
  <2>1. /\ queue[p] # <<>>
        /\ queue' = [queue EXCEPT ![p] = Tail(queue[p])]
        /\ Tell(Head(queue[p]).team, FALSE)
        /\ UNCHANGED <<draft, equipo, equipos>>
        /\ phase[Head(queue[p]).team] \in {"creating", "linking"}
        /\ ~Applied(Head(queue[p]))
    BY <1>2 DEF Rejected, server
  <2>2. Head(queue[p]).team \notin equipos
    BY <2>1 DEF Applied, Steady, ListedTeamsExist
  <2>3. Head(queue[p]).team \in Teams
    BY <2>1, QueueType, TailWrites
  <2> QED
    BY <2>1, <2>2, <2>3, SteadyTold
<1> QED
  BY <1>1, <1>2, SteadyApplies, SteadySettled, SteadyCreated DEF Firestore

\* The other steps of a screen and of a dismissal do not touch the core.
LEMMA SteadyElsewhere ==
  ASSUME NEW p \in Phones,
         \/ OpenCreator(p) \/ NameTeam(p) \/ DismissAlert(p) \/ RefuseToCreate(p)
         \/ SeeClassroom(p) \/ ClassroomArrives(p) \/ Back(p) \/ GroupLoads(p) \/ Restart(p)
         \/ \E s \in Students : SelectRow(p, s) \/ DeselectRow(p, s)
         \/ \E t \in Teams : FadeStarts(t) \/ FadeEndsQuietly(t) \/ PopCreator(t)
  PROVE  UNCHANGED core
  BY DEF OpenCreator, SeeClassroom, ClassroomArrives, NameTeam, DismissAlert,
         RefuseToCreate, Back, GroupLoads,
         Restart, SelectRow, DeselectRow, FadeStarts, FadeEndsQuietly, PopCreator,
         core, request, server

\* So does every step.
LEMMA SteadyStep == TypeOK /\ Steady /\ [Next]_vars => Steady'
<1> SUFFICES ASSUME TypeOK, Steady, [Next]_vars PROVE Steady'
  OBVIOUS
<1>1. ASSUME NEW p \in Phones, Screen(p) PROVE Steady'
  BY <1>1, SteadyCreate, SteadyElsewhere, SteadyUnchanged DEF Screen
<1>2. ASSUME NEW p \in Phones, Firestore(p) PROVE Steady'
  BY <1>2, SteadyFirestore
<1>3. ASSUME NEW p \in Phones, Crash(p) PROVE Steady'
  BY <1>3, SteadyDies DEF Crash
<1>4. ASSUME NEW p \in Phones, Restart(p) PROVE Steady'
  BY <1>4, SteadyElsewhere, SteadyUnchanged
<1>5. ASSUME NEW t \in Teams, Dismissal(t) PROVE Steady'
  <2>1. Drawer[t] \in Phones
    OBVIOUS
  <2>2. CASE PopTraps(t)
    BY <2>1, <2>2, SteadyDies DEF PopTraps
  <2>3. CASE FadeStarts(t) \/ FadeEndsQuietly(t) \/ PopCreator(t)
    BY <2>1, <2>3, SteadyElsewhere, SteadyUnchanged
  <2> QED
    BY <1>5, <2>2, <2>3 DEF Dismissal
<1>6. CASE UNCHANGED vars
  BY <1>6, SteadyUnchanged DEF vars, core, request, server
<1> QED
  BY <1>1, <1>2, <1>3, <1>4, <1>5, <1>6 DEF Next

\* With nothing asked for, the invariant holds.
LEMMA SteadyInit == Init => Steady
  BY DEF Init, Steady, QueueInv, OneWriteEach, PhaseInv, ListedTeamsExist,
         TruthfulVerdict, Range

\* The invariant of the runs is the type invariant and the steady part.
LEMMA RequestInvParts == RequestInv <=> TypeOK /\ Steady
  BY DEF RequestInv, Steady

\* The invariant that the runs check, for every number of phones and teams.
THEOREM RequestInvariant == Spec => []RequestInv
<1>1. Spec => []Steady
  BY SteadyInit, SteadyStep, TypeCorrect, PTL DEF Spec
<1> QED
  BY <1>1, TypeCorrect, RequestInvParts, PTL

\* The group never lists a team that the server does not have.
THEOREM ListedTeamsExistHolds == Spec => []ListedTeamsExist
BY RequestInvariant, PTL DEF RequestInv

\* "Success!" and "Couldn't create team" are both true when they are told,
\* and stay true.
THEOREM TruthfulVerdictHolds == Spec => []TruthfulVerdict
BY RequestInvariant, PTL DEF RequestInv

\* No team is stored without a member: the request for a stored team was made
\* with a selection, and a request keeps what it asks for.
THEOREM TeamsHaveMembersHolds == Spec => []TeamsHaveMembers
<1>1. RequestInv => TeamsHaveMembers
  BY DEF RequestInv, TypeOK, PhaseInv, TeamsHaveMembers
<1> QED
  BY <1>1, RequestInvariant, PTL
-----------------------------------------------------------------------------
(* What a step may do to the group and to the verdicts.                     *)

\* The steps that touch the group's list or a verdict: a link is applied,
\* or a verdict is told at the head of a queue.
LEMMA GroupOrVerdict ==
  ASSUME TypeOK, Steady, [Next]_vars
  PROVE  \/ UNCHANGED <<equipos, verdict>>
         \/ \E t \in Teams : /\ Queued(Link(t)) /\ verdict[t] = "none"
                             /\ equipos' = equipos \cup {t}
                             /\ UNCHANGED verdict
         \/ \E t \in Teams : /\ verdict[t] = "none" /\ UNCHANGED equipos
                             /\ \/ t \in equipos
                                   /\ verdict' = [verdict EXCEPT ![t] = "success"]
                                \/ t \notin equipos
                                   /\ verdict' = [verdict EXCEPT ![t] = "failure"]
<1>1. ASSUME NEW p \in Phones, Screen(p) PROVE UNCHANGED <<equipos, verdict>>
  <2>1. ASSUME NEW t \in Teams, CreateTeam(p, t) PROVE UNCHANGED <<equipos, verdict>>
    BY <2>1 DEF CreateTeam, server
  <2> QED
    BY <1>1, <2>1, SteadyElsewhere DEF Screen, core, server
<1>2. ASSUME NEW p \in Phones, ServerApplies(p)
      PROVE  \/ UNCHANGED <<equipos, verdict>>
             \/ \E t \in Teams : /\ Queued(Link(t)) /\ verdict[t] = "none"
                                 /\ equipos' = equipos \cup {t}
                                 /\ UNCHANGED verdict
  <2>1. PICK w \in Range(queue[p]) :
          equipos' = IF w.op = "link" THEN equipos \cup {w.team} ELSE equipos
    BY <1>2 DEF ServerApplies, Range
  <2>2. UNCHANGED verdict /\ w \in Write /\ w.team \in Teams /\ Drawer[w.team] = p
    BY <1>2, QueueType DEF ServerApplies, request, Steady, QueueInv
  <2>3. CASE w.op = "link"
    <3>1. w = Link(w.team) /\ Queued(Link(w.team))
      BY <2>1, <2>2, <2>3 DEF Link, Write, Queued
    <3>2. verdict[w.team] = "none"
      BY <2>2, <2>3 DEF Steady, QueueInv, PhaseInv
    <3> QED
      BY <2>1, <2>2, <2>3, <3>1, <3>2
  <2>4. CASE w.op # "link"
    BY <2>1, <2>2, <2>4
  <2> QED
    BY <2>3, <2>4
<1>3. ASSUME NEW p \in Phones, Linked(p) \/ Rejected(p)
      PROVE  \E t \in Teams : /\ verdict[t] = "none" /\ UNCHANGED equipos
                              /\ \/ t \in equipos
                                    /\ verdict' = [verdict EXCEPT ![t] = "success"]
                                 \/ t \notin equipos
                                    /\ verdict' = [verdict EXCEPT ![t] = "failure"]
  <2>1. PICK t : t = Head(queue[p]).team
    OBVIOUS
  <2>2. /\ t \in Teams /\ phase[t] \in {"creating", "linking"} /\ UNCHANGED equipos
        /\ \/ t \in equipos /\ verdict' = [verdict EXCEPT ![t] = "success"]
           \/ ~Applied(Head(queue[p])) /\ verdict' = [verdict EXCEPT ![t] = "failure"]
    BY <1>3, <2>1, QueueType, TailWrites DEF Linked, Rejected, Applied, Tell, server
  <2>3. verdict[t] = "none"
    BY <2>2 DEF Steady, PhaseInv
  <2>4. ~Applied(Head(queue[p])) => t \notin equipos
    BY <2>1 DEF Applied, Steady, ListedTeamsExist
  <2> QED
    BY <2>2, <2>3, <2>4
<1>4. ASSUME NEW p \in Phones, SettledSilently(p) \/ Created(p) \/ Crash(p) \/ Restart(p)
      PROVE  UNCHANGED <<equipos, verdict>>
  BY <1>4 DEF SettledSilently, Created, Crash, Dies, Restart, server, request
<1>5. ASSUME NEW t \in Teams, Dismissal(t) PROVE UNCHANGED <<equipos, verdict>>
  BY <1>5 DEF Dismissal, FadeStarts, FadeEndsQuietly, PopCreator, PopTraps, Dies,
              server, request
<1>6. CASE UNCHANGED vars
  BY <1>6 DEF vars, server, request
<1> QED
  BY <1>1, <1>2, <1>3, <1>4, <1>5, <1>6 DEF Next, Firestore

\* Two writes, a queue that outlives the process and answers that do not:
\* seen from outside, a request lists its team at most in one step and is
\* answered once, truthfully.
THEOREM LedgerKept == Spec => KeepsLedger
<1>1. Init => Ledger!Init
  BY DEF Init, Ledger!Init
<1>2. TypeOK /\ Steady /\ [Next]_vars => [Ledger!Next]_Ledger!vars
  <2> SUFFICES ASSUME TypeOK, Steady, [Next]_vars PROVE [Ledger!Next]_Ledger!vars
    OBVIOUS
  <2> QED
    BY GroupOrVerdict
    DEF Ledger!Next, Ledger!vars, Ledger!List, Ledger!Confirm, Ledger!Refuse
<1>3. Spec => []Steady
  BY RequestInvariant, RequestInvParts, PTL
<1> QED
  BY <1>1, <1>2, <1>3, TypeCorrect, PTL DEF Spec, KeepsLedger, Ledger!Spec

\* A queued link was there before, or its request was being created.
LEMMA LinkQueuedBy ==
  ASSUME TypeOK, Steady, [Next]_vars, NEW t \in Teams, phase[t] = "lost", Queued(Link(t))'
  PROVE  Queued(Link(t))
<1>0. Drawer[t] \in Phones /\ Link(t).team = t /\ Link(t).op = "link"
  BY DEF Link
<1>1. ASSUME queue' = queue PROVE Queued(Link(t))
  BY <1>1 DEF Queued
<1>2. ASSUME NEW p \in Phones, NEW u \in Teams, CreateTeam(p, u) PROVE Queued(Link(t))
  <2>1. queue' = [queue EXCEPT ![p] = Append(queue[p], Create(u))]
    BY <1>2 DEF CreateTeam
  <2>2. Range(queue'[p]) = Range(queue[p]) \cup {Create(u)}
    BY <2>1, QueueType, WriteType, AppendWrites DEF TypeOK
  <2>3. Link(t) # Create(u)
    BY DEF Link, Create
  <2> QED
    BY <1>0, <2>1, <2>2, <2>3 DEF Queued, TypeOK
<1>3. ASSUME NEW p \in Phones, SettledSilently(p) \/ Linked(p) \/ Rejected(p)
      PROVE  Queued(Link(t))
  BY <1>3, DropHead DEF SettledSilently, Linked, Rejected
<1>4. ASSUME NEW p \in Phones, Created(p) PROVE Queued(Link(t))
  <2>1. PICK u : u = Head(queue[p]).team
    OBVIOUS
  <2>2. /\ queue[p] # <<>> /\ phase[u] = "creating"
        /\ queue' = [queue EXCEPT ![p] = Append(Tail(queue[p]), Link(u))]
    BY <1>4, <2>1 DEF Created
  <2>3. /\ Link(u) # Link(t)
        /\ Link(u) \in Write
        /\ Tail(queue[p]) \in Seq(Write)
        /\ Range(Tail(queue[p])) \subseteq Range(queue[p])
    BY <2>1, <2>2, QueueType, TailWrites, WriteType DEF Link, Steady, QueueInv
  <2>4. Range(Append(Tail(queue[p]), Link(u))) = Range(Tail(queue[p])) \cup {Link(u)}
    BY <2>3, AppendWrites
  <2> QED
    BY <1>0, <2>2, <2>3, <2>4 DEF Queued, TypeOK
<1>5. ASSUME NEW p \in Phones, ServerApplies(p) \/ Crash(p) \/ Restart(p)
      PROVE  queue' = queue
  BY <1>5 DEF ServerApplies, Crash, Dies, Restart
<1>6. ASSUME NEW u \in Teams, Dismissal(u) PROVE queue' = queue
  BY <1>6 DEF Dismissal, FadeStarts, FadeEndsQuietly, PopCreator, PopTraps, Dies
<1>7. ASSUME NEW p \in Phones, Screen(p) PROVE Queued(Link(t))
  BY <1>1, <1>2, <1>7, SteadyElsewhere DEF Screen, core
<1>8. CASE UNCHANGED vars
  BY <1>1, <1>8 DEF vars
<1> QED
  BY <1>1, <1>3, <1>4, <1>5, <1>6, <1>7, <1>8 DEF Next, Firestore

\* A request that died before its link was queued never lists its team.
THEOREM LostStaysUnlistedHolds == Spec => LostStaysUnlisted
<1>1. ASSUME TypeOK, Steady, [Next]_vars,
             NEW t \in Teams, phase[t] = "lost", t \notin equipos, ~Queued(Link(t))
      PROVE  t \notin equipos' /\ ~Queued(Link(t))'
  <2>1. t \notin equipos'
    BY <1>1, GroupOrVerdict
  <2>2. ~Queued(Link(t))'
    BY <1>1, LinkQueuedBy
  <2> QED
    BY <2>1, <2>2
<1>2. TypeOK /\ Steady /\ [Next]_vars =>
        [\A t \in Teams :
          (phase[t] = "lost" /\ t \notin equipos /\ ~Queued(Link(t)))
            => (t \notin equipos' /\ ~Queued(Link(t))')]_vars
  BY <1>1 DEF Queued
<1>3. Spec => []Steady
  BY RequestInvariant, RequestInvParts, PTL
<1> QED
  BY <1>2, <1>3, TypeCorrect, PTL DEF Spec, LostStaysUnlisted
-----------------------------------------------------------------------------
(* What the delayed dismissal of a success pops.                            *)

\* A stack is the group screen, one creator at most right above it, and
\* classrooms; a dead phone waits for no classroom.
StackInv ==
  \A p \in Phones :
    /\ \A k \in DOMAIN stack[p] :
         (stack[p][k] = "group" <=> k = 1) /\ (stack[p][k] \in Creators => k = 2)
    /\ stack[p] = <<>> => salones[p] = 0

\* Popping a screen keeps the shape of the stack.
LEMMA StackPopped ==
  ASSUME TypeOK, StackInv, NEW p \in Phones, Popped(p), stack[p] # <<>>, Len(stack[p]) # 1,
         UNCHANGED salones
  PROVE  StackInv'
<1>1. stack[p] \in Seq(Shown)
  BY DEF TypeOK, Shown
<1>2. stack'[p] = Front(stack[p]) /\ \A q \in Phones : q # p => stack'[q] = stack[q]
  BY DEF TypeOK, Popped
<1>3. /\ Len(stack[p]) \in Nat \ {0, 1}
      /\ Len(Front(stack[p])) = Len(stack[p]) - 1
      /\ Front(stack[p]) \in Seq(Shown)
      /\ \A k \in 1 .. Len(stack[p]) - 1 : Front(stack[p])[k] = stack[p][k]
  BY <1>1, Popping
<1>4. /\ DOMAIN stack[p] = 1 .. Len(stack[p])
      /\ DOMAIN Front(stack[p]) = 1 .. Len(stack[p]) - 1
      /\ Front(stack[p]) # <<>>
  <2>1. Len(stack[p]) - 1 # 0
    BY <1>3
  <2> QED
    BY <1>1, <1>3, <2>1, LenProperties, EmptySeq
<1>5. \A k \in DOMAIN Front(stack[p]) : k \in DOMAIN stack[p] /\ Front(stack[p])[k] = stack[p][k]
  BY <1>3, <1>4
<1> QED
  BY <1>2, <1>4, <1>5 DEF StackInv

\* So does pushing a creator on the group screen, or a classroom on any.
LEMMA StackPushed ==
  ASSUME TypeOK, StackInv, NEW p \in Phones, stack[p] # <<>>, NEW x \in Shown,
         x \in Creators => Last(stack[p]) = "group", x # "group",
         stack' = [stack EXCEPT ![p] = Append(stack[p], x)],
         \A q \in Phones : q # p => salones'[q] = salones[q]
  PROVE  StackInv'
<1>1. stack[p] \in Seq(Shown)
  BY DEF TypeOK, Shown
<1>2. stack'[p] = Append(stack[p], x) /\ \A q \in Phones : q # p => stack'[q] = stack[q]
  BY DEF TypeOK
<1>3. /\ Len(stack[p]) \in Nat \ {0}
      /\ Last(stack[p]) = stack[p][Len(stack[p])]
      /\ Append(stack[p], x) \in Seq(Shown)
      /\ Append(stack[p], x) # <<>>
      /\ Len(Append(stack[p], x)) = Len(stack[p]) + 1
      /\ \A k \in 1 .. Len(stack[p]) : Append(stack[p], x)[k] = stack[p][k]
      /\ Append(stack[p], x)[Len(stack[p]) + 1] = x
  BY <1>1, Popping, Pushing
<1>4. /\ DOMAIN stack[p] = 1 .. Len(stack[p])
      /\ DOMAIN Append(stack[p], x) = 1 .. Len(stack[p]) + 1
  BY <1>1, <1>3, LenProperties
<1>5. x \in Creators => Len(stack[p]) = 1
  <2>1. PICK n \in DOMAIN stack[p] : n = Len(stack[p])
    <3>1. Len(stack[p]) \in 1 .. Len(stack[p])
      BY <1>3
    <3> QED
      BY <1>4, <3>1
  <2>2. Last(stack[p]) = stack[p][n] /\ (stack[p][n] = "group" <=> n = 1)
    BY <1>3, <2>1 DEF StackInv
  <2> QED
    BY <2>1, <2>2
<1>6. ASSUME NEW k \in DOMAIN Append(stack[p], x)
      PROVE  /\ Append(stack[p], x)[k] = "group" <=> k = 1
             /\ Append(stack[p], x)[k] \in Creators => k = 2
  <2>1. k \in 1 .. Len(stack[p]) \/ k = Len(stack[p]) + 1
    BY <1>3, <1>4
  <2>2. CASE k \in 1 .. Len(stack[p])
    BY <1>3, <1>4, <2>2 DEF StackInv
  <2>3. CASE k = Len(stack[p]) + 1
    BY <1>3, <1>5, <2>3
  <2> QED
    BY <2>1, <2>2, <2>3
<1> QED
  BY <1>2, <1>3, <1>6 DEF StackInv

\* A process ends with no screen and no classroom on its way.
LEMMA StackDies ==
  ASSUME TypeOK, StackInv, NEW p \in Phones, Dies(p)
  PROVE  StackInv'
<1>1. /\ stack'[p] = <<>> /\ salones'[p] = 0
      /\ \A q \in Phones : q # p => stack'[q] = stack[q] /\ salones'[q] = salones[q]
  BY DEF Dies, TypeOK
<1>2. DOMAIN stack'[p] = {}
  BY <1>1, EmptySeq
<1> QED
  BY <1>1, <1>2 DEF StackInv

\* Every step keeps the shape of the stacks.
LEMMA StackStep == TypeOK /\ StackInv /\ [Next]_vars => StackInv'
<1> SUFFICES ASSUME TypeOK, StackInv, [Next]_vars PROVE StackInv'
  OBVIOUS
<1>0. ASSUME UNCHANGED <<stack, salones>> PROVE StackInv'
  BY <1>0 DEF StackInv
<1>1. ASSUME NEW p \in Phones, Screen(p) PROVE StackInv'
  <2>1. ASSUME OpenCreator(p) PROVE StackInv'
    <3>1. PICK c \in Creators : stack' = [stack EXCEPT ![p] = Append(stack[p], c)]
      BY <2>1, FreshCreator DEF OpenCreator
    <3>2. c # "group" /\ c \in Shown
      BY CreatorsAssumption DEF Shown
    <3> QED
      BY <2>1, <3>1, <3>2, StackPushed DEF OpenCreator, Alive, Top
  <2>2. ASSUME ClassroomArrives(p) PROVE StackInv'
    <3>1. "classroom" \in Shown /\ "classroom" \notin Creators
      BY CreatorsAssumption DEF Shown
    <3>2. stack[p] # <<>> /\ \A q \in Phones : q # p => salones'[q] = salones[q]
      BY <2>2 DEF ClassroomArrives, StackInv, TypeOK
    <3>3. stack' = [stack EXCEPT ![p] = Append(stack[p], "classroom")]
      BY <2>2 DEF ClassroomArrives
    <3> QED
      BY <3>1, <3>2, <3>3, StackPushed
  <2>3. ASSUME Back(p) PROVE StackInv'
    <3>1. stack[p] # <<>> /\ Len(stack[p]) # 1
      <4>0. Len(stack[p]) > 1
        BY <2>3 DEF Back
      <4>1. stack[p] \in Seq(Shown)
        BY DEF TypeOK, Shown
      <4>2. PICK n \in Nat : n = Len(stack[p])
        BY <4>1, LenProperties
      <4>3. n > 1
        BY <4>0, <4>2
      <4>4. n # 0 /\ n # 1
        BY <4>3
      <4> QED
        BY <4>1, <4>2, <4>4, EmptySeq
    <3> QED
      BY <2>3, <3>1, StackPopped DEF Back
  <2>4. ASSUME SeeClassroom(p) PROVE StackInv'
    BY <2>4 DEF SeeClassroom, StackInv, TypeOK, Alive
  <2>5. ASSUME \/ NameTeam(p) \/ DismissAlert(p) \/ RefuseToCreate(p) \/ GroupLoads(p)
               \/ \E s \in Students : SelectRow(p, s) \/ DeselectRow(p, s)
               \/ \E t \in Teams : CreateTeam(p, t)
        PROVE  StackInv'
    BY <1>0, <2>5 DEF NameTeam, DismissAlert, RefuseToCreate, GroupLoads, SelectRow,
                      DeselectRow, CreateTeam, screens
  <2> QED
    BY <1>1, <2>1, <2>2, <2>3, <2>4, <2>5 DEF Screen
<1>2. ASSUME NEW p \in Phones, Firestore(p) PROVE StackInv'
  BY <1>0, <1>2 DEF Firestore, ServerApplies, SettledSilently, Created, Linked, Rejected,
                    ui, screens
<1>3. ASSUME NEW p \in Phones, Crash(p) PROVE StackInv'
  BY <1>3, StackDies DEF Crash
<1>4. ASSUME NEW p \in Phones, Restart(p) PROVE StackInv'
  <2>1. /\ stack'[p] = <<"group">> /\ salones' = salones
        /\ \A q \in Phones : q # p => stack'[q] = stack[q]
    BY <1>4 DEF Restart, TypeOK
  <2>2. /\ <<"group">> # <<>>
        /\ DOMAIN <<"group">> = {1} /\ <<"group">>[1] = "group"
        /\ "group" \notin Creators
    BY CreatorsAssumption
  <2> QED
    BY <2>1, <2>2 DEF StackInv
<1>5. ASSUME NEW t \in Teams, Dismissal(t) PROVE StackInv'
  <2>1. Drawer[t] \in Phones
    OBVIOUS
  <2>2. ASSUME PopCreator(t) PROVE StackInv'
    <3>1. PICK k \in DOMAIN stack[Drawer[t]] : stack[Drawer[t]][k] = asker[t]
      BY <2>2 DEF PopCreator, Pushed, Range
    <3>2. stack[Drawer[t]] \in Seq(Shown) /\ asker[t] \in Creators
      <4>1. stack[Drawer[t]] \in Seq(Shown)
        BY <2>1 DEF TypeOK, Shown
      <4>2. asker[t] \in Shown
        BY <3>1, <4>1, LenProperties, ElementOfSeq
      <4> QED
        BY <4>1, <4>2, CreatorsAssumption DEF TypeOK, Shown
    <3>3. 2 \in DOMAIN stack[Drawer[t]]
      BY <2>1, <3>1, <3>2 DEF StackInv
    <3>4. stack[Drawer[t]] # <<>> /\ Len(stack[Drawer[t]]) # 1
      <4>1. /\ DOMAIN stack[Drawer[t]] = 1 .. Len(stack[Drawer[t]])
            /\ Len(stack[Drawer[t]]) \in Nat
        BY <3>2, LenProperties
      <4>2. Len(stack[Drawer[t]]) # 0 /\ Len(stack[Drawer[t]]) # 1
        BY <3>3, <4>1
      <4> QED
        BY <3>2, <4>2, EmptySeq
    <3> QED
      BY <2>1, <2>2, <3>4, StackPopped DEF PopCreator
  <2>3. ASSUME PopTraps(t) PROVE StackInv'
    BY <2>1, <2>3, StackDies DEF PopTraps
  <2>4. ASSUME FadeStarts(t) \/ FadeEndsQuietly(t) PROVE StackInv'
    BY <1>0, <2>4 DEF FadeStarts, FadeEndsQuietly, ui, screens
  <2> QED
    BY <1>5, <2>2, <2>3, <2>4 DEF Dismissal
<1>6. CASE UNCHANGED vars
  BY <1>0, <1>6 DEF vars, ui, screens
<1> QED
  BY <1>1, <1>2, <1>3, <1>4, <1>5, <1>6 DEF Next

\* A step that closes a screen three seconds after a success is the pop of the
\* creator's own navigation controller.
LEMMA ClosedByPop ==
  ASSUME TypeOK, [Next]_vars, NEW t \in Teams, Closes(t)
  PROVE  PopCreator(t)
<1>0. timer[t] = "fade" /\ timer'[t] = "off" /\ stack' # stack /\ stack'[Drawer[t]] # <<>>
  BY DEF Closes, Alive
<1>1. ASSUME NEW p \in Phones, Screen(p) PROVE FALSE
  <2>1. timer' = timer
    BY <1>1 DEF Screen, OpenCreator, SeeClassroom, ClassroomArrives, NameTeam, DismissAlert,
                RefuseToCreate, Back, GroupLoads, SelectRow, DeselectRow, CreateTeam, closing
  <2> QED
    BY <1>0, <2>1
<1>2. ASSUME NEW p \in Phones, Firestore(p) PROVE FALSE
  <2>1. stack' = stack
    BY <1>2 DEF Firestore, ServerApplies, SettledSilently, Created, Linked, Rejected,
                ui, screens
  <2> QED
    BY <1>0, <2>1
<1>3. ASSUME NEW p \in Phones, Dies(p) PROVE FALSE
  <2>1. CASE t \in By(p)
    BY <1>0, <1>3, <2>1 DEF Dies, By, TypeOK
  <2>2. CASE t \notin By(p)
    BY <1>0, <1>3, <2>2 DEF Dies
  <2> QED
    BY <2>1, <2>2
<1>4. ASSUME NEW p \in Phones, Restart(p) PROVE FALSE
  BY <1>0, <1>4 DEF Restart, closing
<1>5. ASSUME NEW u \in Teams, Dismissal(u) PROVE PopCreator(t)
  <2>1. Drawer[u] \in Phones
    OBVIOUS
  <2>2. ASSUME FadeStarts(u) \/ FadeEndsQuietly(u) PROVE FALSE
    BY <1>0, <2>2 DEF FadeStarts, FadeEndsQuietly, ui, screens
  <2>3. ASSUME PopTraps(u) PROVE FALSE
    BY <1>3, <2>1, <2>3 DEF PopTraps
  <2>4. ASSUME PopCreator(u), u # t PROVE FALSE
    BY <1>0, <2>4 DEF PopCreator, Over, TypeOK
  <2> QED
    BY <1>5, <2>2, <2>3, <2>4 DEF Dismissal
<1>6. CASE UNCHANGED vars
  BY <1>0, <1>6 DEF vars, ui, screens
<1> QED
  BY <1>1, <1>2, <1>3, <1>4, <1>5, <1>6 DEF Next, Crash

\* The pop three seconds after a success takes away the creator of a team that
\* the group lists, or a classroom that lies over that creator.
LEMMA PopsItsCreator ==
  ASSUME TypeOK, StackInv, TruthfulVerdict, NEW t \in Teams, PopCreator(t)
  PROVE  t \in equipos /\ Top(Drawer[t]) \in {asker[t], "classroom"}
<1>1. t \in equipos
  BY DEF PopCreator, Completes, TruthfulVerdict
<1>2. PICK p \in Phones : p = Drawer[t]
  OBVIOUS
<1>3. PICK k \in DOMAIN stack[p] : stack[p][k] = asker[t]
  BY <1>2 DEF PopCreator, Pushed, Range
<1>4. stack[p] \in Seq(Shown) /\ DOMAIN stack[p] = 1 .. Len(stack[p]) /\ Len(stack[p]) \in Nat
  BY LenProperties DEF TypeOK, Shown
<1>5. asker[t] \in Creators
  <2>1. asker[t] \in Shown
    BY <1>3, <1>4, ElementOfSeq
  <2> QED
    BY <2>1, CreatorsAssumption DEF TypeOK, Shown
<1>6. k = 2
  BY <1>3, <1>5 DEF StackInv
<1>7. /\ Len(stack[p]) \in DOMAIN stack[p] /\ Len(stack[p]) # 1
      /\ stack[p] # <<>>
  BY <1>3, <1>4, <1>6, EmptySeq
<1>8. Top(p) = stack[p][Len(stack[p])] /\ Top(p) \in Shown
  BY <1>4, <1>7, Popping DEF Top
<1>9. CASE Top(p) \in Creators
  BY <1>1, <1>2, <1>3, <1>6, <1>7, <1>8, <1>9 DEF StackInv
<1>10. CASE Top(p) \notin Creators
  BY <1>1, <1>2, <1>7, <1>8, <1>10 DEF StackInv, Shown
<1> QED
  BY <1>9, <1>10

\* The dismissal three seconds after a success closes no screen but the creator
\* that asked for the team, or a classroom over it, and only for a listed team.
THEOREM ClosesItsCreatorHolds == Spec => ClosesItsCreator
<1>1. Init => StackInv
  <2>1. /\ <<"group">> # <<>>
        /\ DOMAIN <<"group">> = {1} /\ <<"group">>[1] = "group"
        /\ "group" \notin Creators
    BY CreatorsAssumption
  <2> QED
    BY <2>1 DEF Init, StackInv
<1>2. TypeOK /\ StackInv /\ TruthfulVerdict /\ [Next]_vars =>
        [\A t \in Teams : Closes(t) => t \in equipos
                                     /\ Top(Drawer[t]) \in {asker[t], "classroom"}]_vars
  BY ClosedByPop, PopsItsCreator
<1>3. Spec => []StackInv
  BY <1>1, StackStep, TypeCorrect, PTL DEF Spec
<1> QED
  BY <1>2, <1>3, TypeCorrect, TruthfulVerdictHolds, PTL DEF Spec, ClosesItsCreator
=============================================================================
