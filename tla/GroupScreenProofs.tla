--------------------------- MODULE GroupScreenProofs ---------------------------
(***************************************************************************)
(* Proofs about GroupScreen: that the screen shows whole lists, that the   *)
(* creator is offered exactly the students who lack a team, and that the   *)
(* HUD names a download that goes on, for every group (empty ones as well), *)
(* every number of appearances and of classroom requests, and every order  *)
(* of the answers.                                                         *)
(***************************************************************************)
EXTENDS GroupScreen, FiniteSetTheorems, SequenceTheorems, WellFoundedInduction, TLAPS

-----------------------------------------------------------------------------
(* The calls.                                                               *)

\* A call of a loader that counts every answer: what it has appended was
\* awaited, is awaited no more, and is counted.
CallInv(load, refs) ==
  /\ load \in [name : CountAlways, refs : {refs}, waiting : SUBSET DOMAIN refs, list : Seq(Nat)]
  /\ \A k \in DOMAIN load.list : load.list[k] \in DOMAIN refs \ load.waiting
  /\ \A j, k \in DOMAIN load.list : load.list[j] = load.list[k] => j = k
  /\ Len(load.list) + Cardinality(load.waiting) = Len(refs)

\* The positions of a list of references.
LEMMA Positions ==
  ASSUME NEW refs \in Seq(Docs)
  PROVE  /\ DOMAIN refs = 1 .. Len(refs) /\ Len(refs) \in Nat /\ DOMAIN refs \subseteq Nat
         /\ IsFiniteSet(DOMAIN refs) /\ Cardinality(DOMAIN refs) = Len(refs)
  <1>1. DOMAIN refs = 1 .. Len(refs) /\ Len(refs) \in Nat
    OBVIOUS
  <1>2. \A n \in Nat : IsFiniteSet(1 .. n) /\ Cardinality(1 .. n) = n
    BY FS_Interval
  <1> QED BY <1>1, <1>2

\* A call is one of those that the type invariant speaks of.
LEMMA CallTyped ==
  ASSUME NEW refs \in Seq(Docs), NEW load, CallInv(load, refs)
  PROVE  load \in Load
  BY Positions DEF CallInv, Load, LoaderNames, Counted

\* A call that has just been made.
LEMMA StartedCall ==
  ASSUME NEW name \in CountAlways, NEW refs \in Seq(Docs)
  PROVE  CallInv(StartLoad(name, refs), refs)
  <1>1. DOMAIN <<>> = {} /\ Len(<<>>) = 0 /\ <<>> \in Seq(Nat)
    BY EmptySeq
  <1>2. 0 + Cardinality(DOMAIN refs) = Len(refs)
    BY Positions
  <1> QED BY <1>1, <1>2 DEF StartLoad, CallInv

\* What a member loader says when a document has come.
LEMMA MemberHeard ==
  ASSUME NEW refs \in Seq(Docs), NEW load, CallInv(load, refs), NEW i \in load.waiting
  PROVE  Heard(load, i, TRUE) = IfFull(Retrieved(load, i))
  <1> DEFINE after == Retrieved(load, i)
  <1>1. after.name \in CountAlways
    BY DEF CallInv, Retrieved
  <1>2. IfFull(after) \in Seq({ListOf(after)})
    <2>1. <<ListOf(after)>> \in Seq({ListOf(after)}) /\ <<>> \in Seq({ListOf(after)})
      OBVIOUS
    <2> QED BY <2>1 DEF IfFull
  <1>3. Heard(load, i, TRUE) = Callbacks(after, i, TRUE)
    BY DEF Heard, Folded
  <1> HIDE DEF after
  <1>4. Callbacks(after, i, TRUE) = <<>> \o IfFull(after)
    BY <1>1 DEF Callbacks, MemberCallbacks, CountOnSuccess, CountAlways, EachArrival
  <1>5. <<>> \o IfFull(after) = IfFull(after)
    BY <1>2, ConcatEmptySeq
  <1> QED BY <1>3, <1>4, <1>5 DEF after

\* A document that comes is appended once; the list that is told is the list of
\* references in another order, and while nothing is told something is awaited.
LEMMA RetrievedCall ==
  ASSUME NEW refs \in Seq(Docs), NEW load, CallInv(load, refs), NEW i \in load.waiting
  PROVE  /\ CallInv(Retrieved(load, i), refs)
         /\ Heard(load, i, TRUE) # <<>> =>
              Permutes(Documents(load, i), refs) /\ Documents(load, i) # <<>>
         /\ Heard(load, i, TRUE) = <<>> => Retrieved(load, i).waiting # {}
  <1> DEFINE list == Append(load.list, i)
             waiting == load.waiting \ {i}
  <1>1. /\ load.list \in Seq(Nat) /\ load.waiting \subseteq DOMAIN refs /\ i \in DOMAIN refs
        /\ i \in Nat /\ load.refs = refs
    BY Positions DEF CallInv
  <1>2. /\ Retrieved(load, i).list = list /\ Retrieved(load, i).refs = refs
        /\ Retrieved(load, i).waiting = waiting
    BY DEF Retrieved, CallInv
  <1>3. /\ list \in Seq(Nat) /\ Len(list) = Len(load.list) + 1 /\ Len(load.list) \in Nat
        /\ DOMAIN load.list = 1 .. Len(load.list) /\ DOMAIN list = 1 .. Len(list)
        /\ \A k \in 1 .. Len(load.list) : list[k] = load.list[k]
        /\ list[Len(load.list) + 1] = i
    BY <1>1, AppendProperties
  <1>4. PICK top \in Nat : top = Len(load.list) + 1
    BY <1>3
  <1>5. /\ list[top] = i /\ top \notin DOMAIN load.list /\ top \in DOMAIN list
        /\ \A k \in DOMAIN list : k = top \/ k \in DOMAIN load.list
    BY <1>3, <1>4
  <1>6. Len(list) + Cardinality(waiting) = Len(refs)
    <2>1. IsFiniteSet(load.waiting)
      BY <1>1, Positions, FS_Subset
    <2>2. Cardinality(waiting) = Cardinality(load.waiting) - 1
      BY <2>1, FS_RemoveElement
    <2>3. Cardinality(load.waiting) \in Nat
      BY <2>1, FS_CardinalityType
    <2>4. Len(load.list) + Cardinality(load.waiting) = Len(refs)
      BY DEF CallInv
    <2> HIDE DEF list, waiting
    <2> QED BY <1>3, <2>2, <2>3, <2>4
  <1> HIDE DEF list
  <1>7. \A k \in DOMAIN list : list[k] \in DOMAIN refs \ waiting
    BY <1>1, <1>3, <1>5 DEF CallInv
  <1>8. \A j, k \in DOMAIN list : list[j] = list[k] => j = k
    <2> SUFFICES ASSUME NEW j \in DOMAIN list, NEW k \in DOMAIN list, list[j] = list[k]
                 PROVE  j = k
      OBVIOUS
    <2>1. CASE j \in DOMAIN load.list /\ k \in DOMAIN load.list
      BY <1>3, <2>1 DEF CallInv
    <2>2. \A m \in DOMAIN load.list : list[m] # i
      BY <1>3 DEF CallInv
    <2> QED BY <1>5, <2>1, <2>2
  <1>9. CallInv(Retrieved(load, i), refs)
    <2>1. Retrieved(load, i) \in
            [name : CountAlways, refs : {refs}, waiting : SUBSET DOMAIN refs, list : Seq(Nat)]
      BY <1>3 DEF Retrieved, CallInv, list
    <2> QED BY <1>2, <1>6, <1>7, <1>8, <2>1 DEF CallInv
  <1>10. Heard(load, i, TRUE) # <<>> <=> Len(list) = Len(refs)
    <2>1. list # <<>>
      BY <1>5
    <2>2. IsFull(Retrieved(load, i)) <=> Len(list) = Len(refs)
      BY <1>2, <2>1 DEF IsFull
    <2>3. <<ListOf(Retrieved(load, i))>> # <<>>
      OBVIOUS
    <2>4. IfFull(Retrieved(load, i)) # <<>> <=> IsFull(Retrieved(load, i))
      BY <2>3, Zenon DEF IfFull
    <2>5. Heard(load, i, TRUE) = IfFull(Retrieved(load, i))
      BY MemberHeard
    <2> QED BY <2>2, <2>4, <2>5, Zenon
  <1>11. ASSUME Len(list) = Len(refs)
         PROVE  Permutes(Documents(load, i), refs) /\ Documents(load, i) # <<>>
    <2>1. DOMAIN list = DOMAIN refs
      BY <1>3, <1>11, Positions
    <2>2. list \in [DOMAIN refs -> DOMAIN refs]
      <3>1. list \in [DOMAIN list -> Nat]
        BY <1>3
      <3> QED BY <1>7, <2>1, <3>1
    <2>3. list \in Injection(DOMAIN refs, DOMAIN refs)
      BY <1>8, <2>1, <2>2 DEF Injection, IsInjective
    <2>4. Documents(load, i) = [k \in DOMAIN refs |-> refs[list[k]]]
      <3>1. Documents(load, i) = [k \in DOMAIN Retrieved(load, i).list |->
                                    load.refs[Retrieved(load, i).list[k]]]
        BY DEF Documents
      <3> QED BY <1>1, <1>2, <2>1, <3>1, Zenon
    <2>5. DOMAIN Documents(load, i) # DOMAIN <<>>
      BY <1>1, <2>4
    <2> QED BY <2>3, <2>4, <2>5 DEF Permutes
  <1>12. Len(list) # Len(refs) => waiting # {}
    <2>1. Cardinality({}) = 0
      BY FS_EmptySet
    <2> HIDE DEF waiting
    <2>2. waiting = {} => Cardinality(waiting) = 0
      BY <2>1
    <2> QED BY <1>3, <1>6, <2>2
  <1> QED BY <1>2, <1>9, <1>10, <1>11, <1>12

\* A permutation has the same members.
LEMMA PermutesSame ==
  ASSUME NEW refs \in Seq(Docs), NEW list, Permutes(list, refs)
  PROVE  list \in Seq(Docs) /\ Range(list) = Range(refs)
  <1>1. PICK order \in Injection(DOMAIN refs, DOMAIN refs) :
          list = [k \in DOMAIN refs |-> refs[order[k]]]
    BY DEF Permutes
  <1>2. order \in Surjection(DOMAIN refs, DOMAIN refs)
    BY Positions, FS_Injection
  <1>3. order \in [DOMAIN refs -> DOMAIN refs]
    BY <1>1 DEF Injection
  <1>4. list \in [1 .. Len(refs) -> Docs] /\ Len(refs) \in Nat
    BY <1>1, <1>3, Positions
  <1>5. list \in Seq(Docs)
    BY <1>4
  <1>6. \A k \in DOMAIN refs : \E j \in DOMAIN refs : order[j] = k
    BY <1>2 DEF Surjection
  <1>7. Range(refs) \subseteq Range(list)
    BY <1>1, <1>6 DEF Range
  <1>8. Range(list) \subseteq Range(refs)
    BY <1>1, <1>3 DEF Range
  <1> QED BY <1>5, <1>7, <1>8
-----------------------------------------------------------------------------
(* What the screen shows.                                                   *)

Entries == [equipos : Load, estudiantes : Load]

\* The students of a download are asked for when teams are on the screen.
EntryInv(e) ==
  /\ e \in Entries
  /\ CallInv(e.equipos, group.equipos)
  /\ e.estudiantes = NotYet \/ (CallInv(e.estudiantes, group.estudiantes) /\ teams # <<>>)

DownloadsInv ==
  /\ group \in Groups
  /\ downloads \in Seq(Entries)
  /\ \A d \in DOMAIN downloads : EntryInv(downloads[d])

ListsInv ==
  /\ teams = <<>> \/ Permutes(teams, group.equipos)
  /\ students = <<>> \/ (Permutes(students, group.estudiantes) /\ teams # <<>>)

RestInv ==
  /\ salones \in [sent : 0 .. MaxClassrooms, waiting : 0 .. MaxClassrooms]
  /\ salones.waiting <= salones.sent
  /\ stack \in Seq({"group", "creator", "classroom"}) /\ stack # <<>> /\ stack[1] = "group"
  /\ offer \in [rows : Seq(Docs), refs : Seq(Docs)]
  /\ hud \in {"hidden", "equipos", "estudiantes", "salon"}
  /\ trapped \in BOOLEAN

\* Inductive strengthening of ShowsWhole.
ShowInv == DownloadsInv /\ ListsInv /\ RestInv

\* What a group and its lists are.
LEMMA GroupShape ==
  ASSUME NEW g \in Groups
  PROVE  g.equipos \in Seq(Docs) /\ g.estudiantes \in Seq(Docs)
  BY GroupsAssumption

\* A download starts with the call for the teams.
LEMMA StartedDownload ==
  ASSUME group \in Groups
  PROVE  EntryInv(Download(group)) /\ Download(group).equipos.waiting = DOMAIN group.equipos
  <1>1. NotYet \in Load
    <2>1. <<>> \in Seq(Docs)
      BY EmptySeq
    <2> QED BY <2>1, StartedCall, CallTyped DEF NotYet, CountAlways
  <1>2. /\ StartLoad("getTeamsInCourse", group.equipos) \in Load
        /\ CallInv(StartLoad("getTeamsInCourse", group.equipos), group.equipos)
    BY GroupShape, StartedCall, CallTyped DEF CountAlways
  <1>3. StartLoad("getTeamsInCourse", group.equipos).waiting = DOMAIN group.equipos
    BY DEF StartLoad
  <1> QED BY <1>1, <1>2, <1>3 DEF Download, EntryInv, Entries

\* One download takes a step while the others stay as they are.
LEMMA OneDownload ==
  ASSUME DownloadsInv, NEW d \in DOMAIN downloads, NEW e \in Entries,
         downloads' = [downloads EXCEPT ![d] = e], group' = group, EntryInv(e)',
         teams # <<>> => teams' # <<>>
  PROVE  DownloadsInv'
  <1>1. DOMAIN downloads = 1 .. Len(downloads)
    BY DEF DownloadsInv
  <1>2. /\ downloads' \in Seq(Entries) /\ DOMAIN downloads' = DOMAIN downloads
        /\ \A k \in DOMAIN downloads : downloads'[k] = IF k = d THEN e ELSE downloads[k]
    BY <1>1, ExceptSeq DEF DownloadsInv
  <1>3. ASSUME NEW k \in DOMAIN downloads'
        PROVE  EntryInv(downloads[k])'
    <2>1. CASE k = d
      BY <1>2, <2>1 DEF EntryInv
    <2>2. CASE k # d
      <3>1. downloads'[k] = downloads[k] /\ EntryInv(downloads[k])
        BY <1>2, <2>2 DEF DownloadsInv
      <3> QED BY <3>1 DEF EntryInv
    <2> QED BY <2>1, <2>2
  <1> QED BY <1>2, <1>3 DEF DownloadsInv

\* What is known of one download.
LEMMA EntryShape ==
  ASSUME DownloadsInv, NEW d \in DOMAIN downloads
  PROVE  /\ downloads[d] \in Entries
         /\ group.equipos \in Seq(Docs) /\ group.estudiantes \in Seq(Docs)
         /\ CallInv(downloads[d].equipos, group.equipos)
         /\ \/ downloads[d].estudiantes = NotYet
            \/ CallInv(downloads[d].estudiantes, group.estudiantes) /\ teams # <<>>
  BY GroupShape DEF DownloadsInv, EntryInv

\* A student is awaited only after the students were asked for.
LEMMA StudentAwaited ==
  ASSUME DownloadsInv, NEW d \in DOMAIN downloads, NEW i \in downloads[d].estudiantes.waiting
  PROVE  CallInv(downloads[d].estudiantes, group.estudiantes) /\ teams # <<>>
  <1>1. NotYet.waiting = {}
    BY DEF NotYet, StartLoad
  <1> QED BY <1>1, EntryShape

\* The last team fills the table, and asks for the students.
LEMMA TeamsShownStep ==
  ASSUME DownloadsInv, ListsInv, NEW d \in DOMAIN downloads, NEW i, TeamsShown(d, i)
  PROVE  DownloadsInv' /\ ListsInv'
  <1> DEFINE load == downloads[d].equipos
  <1>0. PICK e : e = [equipos     |-> Retrieved(load, i),
                      estudiantes |-> StartLoad("getStudentsInCourse", group.estudiantes)]
    OBVIOUS
  <1>1. /\ i \in load.waiting /\ Heard(load, i, TRUE) # <<>>
        /\ teams' = Documents(load, i) /\ downloads' = [downloads EXCEPT ![d] = e]
        /\ UNCHANGED <<group, students>>
    BY <1>0 DEF TeamsShown, Waits
  <1>2. /\ CallInv(Retrieved(load, i), group.equipos)
        /\ Permutes(teams', group.equipos) /\ teams' # <<>>
    BY <1>1, EntryShape, RetrievedCall
  <1>3. CallInv(StartLoad("getStudentsInCourse", group.estudiantes), group.estudiantes)
    BY EntryShape, StartedCall DEF CountAlways
  <1>4. /\ e \in Entries /\ e.equipos = Retrieved(load, i)
        /\ e.estudiantes = StartLoad("getStudentsInCourse", group.estudiantes)
    BY <1>0, <1>2, <1>3, EntryShape, CallTyped DEF Entries
  <1>5. EntryInv(e)'
    BY <1>1, <1>2, <1>3, <1>4 DEF EntryInv
  <1> QED BY <1>1, <1>2, <1>4, <1>5, OneDownload DEF ListsInv

\* Another team is appended.
LEMMA TeamArrivesStep ==
  ASSUME DownloadsInv, ListsInv, NEW d \in DOMAIN downloads, NEW i, TeamArrives(d, i)
  PROVE  DownloadsInv' /\ ListsInv'
  <1> DEFINE load == downloads[d].equipos
  <1>0. PICK e : e = [downloads[d] EXCEPT !.equipos = Retrieved(load, i)]
    OBVIOUS
  <1>1. /\ i \in load.waiting /\ downloads' = [downloads EXCEPT ![d] = e]
        /\ UNCHANGED <<group, teams, students>>
    BY <1>0 DEF TeamArrives, Waits
  <1>2. CallInv(Retrieved(load, i), group.equipos)
    BY <1>1, EntryShape, RetrievedCall
  <1>3. /\ e \in Entries /\ e.equipos = Retrieved(load, i)
        /\ e.estudiantes = downloads[d].estudiantes
    BY <1>0, <1>2, EntryShape, CallTyped DEF Entries
  <1>4. EntryInv(e)'
    BY <1>1, <1>2, <1>3, EntryShape DEF EntryInv
  <1> QED BY <1>1, <1>3, <1>4, OneDownload DEF ListsInv

\* The last student fills the collection, or another one is appended.
LEMMA StudentStep ==
  ASSUME DownloadsInv, ListsInv, NEW d \in DOMAIN downloads, NEW i,
         StudentsShown(d, i) \/ StudentArrives(d, i)
  PROVE  DownloadsInv' /\ ListsInv'
  <1> DEFINE load == downloads[d].estudiantes
  <1>0. PICK e : e = [downloads[d] EXCEPT !.estudiantes = Retrieved(load, i)]
    OBVIOUS
  <1>1. /\ i \in load.waiting /\ downloads' = [downloads EXCEPT ![d] = e]
        /\ UNCHANGED <<group, teams>>
        /\ \/ Heard(load, i, TRUE) # <<>> /\ students' = Documents(load, i)
           \/ students' = students
    BY <1>0 DEF StudentsShown, StudentArrives, Waits
  <1>2. CallInv(load, group.estudiantes) /\ teams # <<>>
    BY <1>1, StudentAwaited
  <1>3. /\ CallInv(Retrieved(load, i), group.estudiantes)
        /\ Heard(load, i, TRUE) # <<>> => Permutes(Documents(load, i), group.estudiantes)
    BY <1>1, <1>2, EntryShape, RetrievedCall
  <1>4. /\ e \in Entries /\ e.estudiantes = Retrieved(load, i)
        /\ e.equipos = downloads[d].equipos
    BY <1>0, <1>3, EntryShape, CallTyped DEF Entries
  <1>5. EntryInv(e)'
    BY <1>1, <1>2, <1>3, <1>4, EntryShape DEF EntryInv
  <1> QED BY <1>1, <1>2, <1>3, <1>4, <1>5, OneDownload DEF ListsInv

\* When the group appears again one more download starts.
LEMMA AppearsStep ==
  ASSUME DownloadsInv, downloads' = Append(downloads, Download(group)), UNCHANGED <<group, teams>>
  PROVE  DownloadsInv'
  <1> DEFINE e == Download(group)
  <1>1. EntryInv(e) /\ e \in Entries
    BY StartedDownload DEF DownloadsInv, EntryInv
  <1>2. downloads' = Append(downloads, e)
    OBVIOUS
  <1> HIDE DEF e
  <1>3. PICK n \in Nat : n = Len(downloads) + 1
    BY DEF DownloadsInv
  <1>4. /\ downloads' \in Seq(Entries) /\ DOMAIN downloads' = 1 .. n /\ downloads'[n] = e
        /\ DOMAIN downloads = 1 .. n - 1
        /\ \A k \in DOMAIN downloads : downloads'[k] = downloads[k]
    BY <1>1, <1>2, <1>3, AppendProperties, LenProperties DEF DownloadsInv
  <1>5. \A k \in DOMAIN downloads' : k = n \/ k \in DOMAIN downloads
    BY <1>4
  <1>6. \A k \in DOMAIN downloads' : EntryInv(downloads'[k])
    BY <1>1, <1>4, <1>5 DEF DownloadsInv
  <1>7. \A k \in DOMAIN downloads' : EntryInv(downloads[k])'
    BY <1>6 DEF EntryInv
  <1> QED BY <1>4, <1>7 DEF DownloadsInv

\* Every step keeps the downloads and the lists.
LEMMA ListsStep ==
  ASSUME DownloadsInv, ListsInv, [Next]_vars
  PROVE  DownloadsInv' /\ ListsInv'
  <1>1. CASE UNCHANGED <<group, teams, students, downloads>>
    BY <1>1 DEF DownloadsInv, ListsInv, EntryInv
  <1>2. ASSUME NEW d \in DOMAIN downloads, NEW i, Answer(d, i)
        PROVE  DownloadsInv' /\ ListsInv'
    <2>1. CASE DownloadFails(d, i)
      BY <1>1, <2>1 DEF DownloadFails
    <2> QED BY <1>2, <2>1, TeamsShownStep, TeamArrivesStep, StudentStep DEF Answer
  <1>3. CASE Pop
    <2>1. CASE downloads' = downloads
      BY <1>1, <1>3, <2>1 DEF Pop
    <2>2. CASE downloads' = Append(downloads, Download(group))
      BY <1>3, <2>2, AppearsStep DEF Pop, ListsInv
    <2> QED BY <1>3, <2>1, <2>2 DEF Pop
  <1> QED
    BY <1>1, <1>2, <1>3 DEF Next, vars, AddTeam, SeeClassroom, ClassroomArrives, ClassroomFails
-----------------------------------------------------------------------------
(* What the creator is offered.                                             *)

\* A set of naturals that is not empty has a least element.
LEMMA LeastNat ==
  ASSUME NEW T, T \subseteq Nat, T # {}
  PROVE  \E x \in T : \A y \in T : x <= y
  <1>1. IsWellFoundedOn(OpToRel(<, Nat), Nat)
    BY NatLessThanWellFounded
  <1>2. PICK x \in T : \A y \in T : ~(<<y, x>> \in OpToRel(<, Nat))
    BY <1>1, WFMin
  <1>3. ASSUME NEW y \in T
        PROVE  x <= y
    <2>1. y < x => <<y, x>> \in OpToRel(<, Nat)
      BY DEF OpToRel
    <2>2. ~(y < x)
      BY <1>2, <2>1
    <2> QED BY <2>2
  <1> QED BY <1>3

\* One element of a list, so many times.
Copies(n, x) == [k \in 1 .. n |-> x]

\* f holds what is made of the first elements of list, up to n of them.
RepeatedUpTo(f, list, times, n) ==
  f = [k \in 0 .. n |-> IF k = 0 THEN <<>> ELSE f[k - 1] \o Copies(times[list[k]], list[k])]

\* The loops of selectableStudents have such an f.
LEMMA RepeatedDefined ==
  ASSUME NEW list, NEW times, Len(list) \in Nat
  PROVE  \E f : RepeatedUpTo(f, list, times, Len(list))
  <1> DEFINE Bad == {n \in 0 .. Len(list) : ~ \E f : RepeatedUpTo(f, list, times, n)}
  <1> SUFFICES ASSUME Bad # {} PROVE FALSE
    <2>1. Len(list) \in 0 .. Len(list)
      OBVIOUS
    <2> QED BY <2>1
  <1>1. Bad \subseteq Nat
    OBVIOUS
  <1> HIDE DEF Bad
  <1>2. PICK n \in Bad : \A m \in Bad : n <= m
    BY <1>1, LeastNat
  <1>3. n \in Nat /\ n \in 0 .. Len(list) /\ ~ \E f : RepeatedUpTo(f, list, times, n)
    BY <1>2 DEF Bad
  <1>4. n # 0
    <2>1. RepeatedUpTo([k \in 0 .. 0 |-> <<>>], list, times, 0)
      BY DEF RepeatedUpTo
    <2> QED BY <2>1, <1>3
  <1>5. n - 1 \in 0 .. Len(list) /\ n - 1 \notin Bad
    BY <1>2, <1>3, <1>4
  <1>6. PICK f : RepeatedUpTo(f, list, times, n - 1)
    BY <1>5 DEF Bad
  <1>l. PICK last : last = f[n - 1] \o Copies(times[list[n]], list[n])
    OBVIOUS
  <1> DEFINE g == [k \in 0 .. n |-> IF k < n THEN f[k] ELSE last]
  <1>7. ASSUME NEW k \in 0 .. n
        PROVE  g[k] = IF k = 0 THEN <<>> ELSE g[k - 1] \o Copies(times[list[k]], list[k])
    <2>1. CASE k = 0
      <3>1. 0 \in 0 .. n - 1
        BY <1>3, <1>4
      <3>2. f[0] = <<>>
        BY <1>6, <3>1 DEF RepeatedUpTo
      <3> QED BY <2>1, <3>2, <1>3, <1>4
    <2>2. CASE k # 0 /\ k < n
      <3>1. k - 1 \in 0 .. n /\ k - 1 < n /\ k \in 0 .. n - 1
        BY <2>2, <1>3
      <3>2. g[k] = f[k] /\ g[k - 1] = f[k - 1]
        BY <2>2, <3>1
      <3>3. f[k] = f[k - 1] \o Copies(times[list[k]], list[k])
        BY <1>6, <2>2, <3>1 DEF RepeatedUpTo
      <3> QED BY <2>2, <3>2, <3>3
    <2>3. CASE k = n
      <3>1. n - 1 \in 0 .. n /\ n - 1 < n
        BY <1>3, <1>4
      <3>2. g[n - 1] = f[n - 1] /\ g[n] = last
        BY <3>1, <1>3
      <3> QED BY <2>3, <3>2, <1>4, <1>l
    <2> QED BY <2>1, <2>2, <2>3, <1>3
  <1>8. RepeatedUpTo(g, list, times, n)
    BY <1>7 DEF RepeatedUpTo
  <1> QED BY <1>8, <1>3

\* The members of a list of copies.
LEMMA CopiesMembers ==
  ASSUME NEW S, NEW x \in S, NEW n \in Nat
  PROVE  Copies(n, x) \in Seq(S) /\ Range(Copies(n, x)) = IF n = 0 THEN {} ELSE {x}
  <1>1. Copies(n, x) \in [1 .. n -> S]
    BY DEF Copies
  <1>2. Copies(n, x) \in Seq(S)
    BY <1>1
  <1>3. CASE n = 0
    <2>1. 1 .. n = {}
      BY <1>3
    <2> QED BY <1>2, <1>3, <2>1 DEF Copies, Range
  <1>4. CASE n # 0
    <2>1. 1 \in 1 .. n
      BY <1>4
    <2> QED BY <1>2, <1>4, <2>1 DEF Copies, Range
  <1> QED BY <1>3, <1>4

\* The members of one list put behind another.
LEMMA ConcatMembers ==
  ASSUME NEW S, NEW s \in Seq(S), NEW t \in Seq(S)
  PROVE  s \o t \in Seq(S) /\ Range(s \o t) = Range(s) \cup Range(t)
  <1>1. /\ s \o t \in Seq(S)
        /\ Len(s \o t) = Len(s) + Len(t)
        /\ \A k \in 1 .. Len(s) + Len(t) :
             (s \o t)[k] = IF k <= Len(s) THEN s[k] ELSE t[k - Len(s)]
        /\ Len(s) \in Nat /\ Len(t) \in Nat
        /\ DOMAIN s = 1 .. Len(s) /\ DOMAIN t = 1 .. Len(t)
    BY ConcatProperties
  <1>2. DOMAIN (s \o t) = 1 .. Len(s) + Len(t)
    BY <1>1
  <1>3. PICK u : u = s \o t
    OBVIOUS
  <1>4. PICK m \in Nat, n \in Nat : m = Len(s) /\ n = Len(t)
    BY <1>1
  <1>5. /\ \A k \in 1 .. m + n : u[k] = IF k <= m THEN s[k] ELSE t[k - m]
        /\ DOMAIN u = 1 .. m + n /\ DOMAIN s = 1 .. m /\ DOMAIN t = 1 .. n
    BY <1>1, <1>2, <1>3, <1>4
  <1>6. Range(u) \subseteq Range(s) \cup Range(t)
    <2> SUFFICES ASSUME NEW k \in 1 .. m + n
                 PROVE  u[k] \in Range(s) \cup Range(t)
      BY <1>5 DEF Range
    <2>1. CASE k <= m
      <3>1. k \in 1 .. m
        BY <2>1
      <3> QED BY <1>5, <2>1, <3>1 DEF Range
    <2>2. CASE ~(k <= m)
      <3>1. k - m \in 1 .. n
        BY <2>2
      <3> QED BY <1>5, <2>2, <3>1 DEF Range
    <2> QED BY <2>1, <2>2
  <1>7. Range(s) \subseteq Range(u)
    <2>1. \A k \in 1 .. m : k \in 1 .. m + n /\ k <= m
      OBVIOUS
    <2> QED BY <1>5, <2>1 DEF Range
  <1>8. Range(t) \subseteq Range(u)
    <2>1. \A k \in 1 .. n : k + m \in 1 .. m + n /\ ~(k + m <= m) /\ k + m - m = k
      OBVIOUS
    <2>2. \A k \in 1 .. n : u[k + m] = t[k]
      BY <1>5, <2>1
    <2> QED BY <1>5, <2>1, <2>2 DEF Range
  <1> QED BY <1>1, <1>3, <1>6, <1>7, <1>8

\* The members of a list whose elements are repeated: those that are repeated at
\* least once.
LEMMA RepeatedMembers ==
  ASSUME NEW list \in Seq(Docs), NEW times \in [Docs -> Nat]
  PROVE  /\ Repeated(list, times) \in Seq(Docs)
         /\ \A x : x \in Range(Repeated(list, times)) <=> x \in Range(list) /\ times[x] # 0
  <1>1. Len(list) \in Nat /\ DOMAIN list = 1 .. Len(list) /\ \A k \in DOMAIN list : list[k] \in Docs
    OBVIOUS
  <1> DEFINE f == CHOOSE f : RepeatedUpTo(f, list, times, Len(list))
  <1>2. RepeatedUpTo(f, list, times, Len(list))
    BY <1>1, RepeatedDefined
  <1>3. Repeated(list, times) = f[Len(list)]
    BY DEF Repeated, RepeatedUpTo, Copies
  <1> HIDE DEF f
  <1> DEFINE Kept(n) == {x \in Docs : times[x] # 0 /\ \E k \in 1 .. n : list[k] = x}
             Good(n) == f[n] \in Seq(Docs) /\ Range(f[n]) = Kept(n)
             Bad == {n \in 0 .. Len(list) : ~Good(n)}
  <1>4. Bad = {}
    <2> SUFFICES ASSUME Bad # {} PROVE FALSE
      OBVIOUS
    <2>1. Bad \subseteq Nat
      BY <1>1
    <2> HIDE DEF Bad
    <2>2. PICK n \in Bad : \A m \in Bad : n <= m
      BY <2>1, LeastNat
    <2>3. n \in 0 .. Len(list) /\ ~Good(n)
      BY <2>2 DEF Bad
    <2>4. n # 0
      <3>1. f[0] = <<>>
        BY <1>1, <1>2 DEF RepeatedUpTo
      <3>2. 1 .. 0 = {} /\ Range(<<>>) = {} /\ <<>> \in Seq(Docs)
        BY EmptySeq DEF Range
      <3>3. Good(0)
        BY <3>1, <3>2
      <3> QED BY <3>3, <2>3
    <2>5. n - 1 \in 0 .. Len(list) /\ n \in DOMAIN list /\ n \in Nat
      BY <2>3, <2>4, <1>1
    <2>6. Good(n - 1)
      <3> HIDE DEF Good
      <3>1. n - 1 \notin Bad
        BY <2>2, <2>5
      <3> QED BY <2>5, <3>1 DEF Bad
    <2>7. PICK x \in Docs : x = list[n]
      BY <1>1, <2>5
    <2>8. f[n] = f[n - 1] \o Copies(times[x], x)
      BY <1>2, <2>3, <2>4, <2>7 DEF RepeatedUpTo
    <2>9. /\ Copies(times[x], x) \in Seq(Docs)
          /\ Range(Copies(times[x], x)) = IF times[x] = 0 THEN {} ELSE {x}
      BY CopiesMembers
    <2>10. f[n] \in Seq(Docs) /\ Range(f[n]) = Range(f[n - 1]) \cup Range(Copies(times[x], x))
      BY <2>6, <2>8, <2>9, ConcatMembers
    <2>11. \A k : k \in 1 .. n <=> k \in 1 .. n - 1 \/ k = n
      BY <2>5, <2>4
    <2>12. Kept(n) = Kept(n - 1) \cup (IF times[x] = 0 THEN {} ELSE {x})
      BY <2>7, <2>11
    <2> QED BY <2>3, <2>6, <2>9, <2>10, <2>12
  <1>5. Good(Len(list))
    <2>1. Len(list) \in 0 .. Len(list)
      BY <1>1
    <2> QED BY <1>4, <2>1
  <1>6. \A x : x \in Kept(Len(list)) <=> x \in Range(list) /\ times[x] # 0
    BY <1>1 DEF Range
  <1> QED BY <1>3, <1>5, <1>6

\* What is counted along a list.
LEMMA CountMembers ==
  ASSUME NEW list \in Seq(Docs), NEW S
  PROVE  Count(list, S) \in Nat /\ (Count(list, S) # 0 <=> \E x \in Range(list) : x \in S)
  <1> DEFINE T == {k \in DOMAIN list : list[k] \in S}
  <1>1. IsFiniteSet(T)
    BY Positions, FS_Subset
  <1>2. Cardinality(T) \in Nat /\ (Cardinality(T) = 0 <=> T = {})
    BY <1>1, FS_CardinalityType, FS_EmptySet
  <1>3. T = {} <=> ~ \E x \in Range(list) : x \in S
    BY DEF Range
  <1> QED BY <1>2, <1>3 DEF Count

\* The references that are kept: the students who lack a team of the table.
LEMMA SelectableMembers ==
  ASSUME NEW g \in Groups, NEW shown \in Seq(Docs)
  PROVE  /\ Selectable(g, shown) \in Seq(Docs)
         /\ \A s : s \in Range(Selectable(g, shown)) <=>
                     s \in Range(g.estudiantes) /\ \E t \in Range(shown) : t \notin TeamsWith(s)
  <1>1. g.estudiantes \in Seq(Docs)
    BY GroupShape
  <1>2. PICK times \in [Docs -> Nat] : times = [s \in Docs |-> Count(shown, Docs \ TeamsWith(s))]
    BY CountMembers
  <1>3. Selectable(g, shown) = Repeated(g.estudiantes, times)
    BY <1>2 DEF Selectable
  <1>4. Range(shown) \subseteq Docs /\ Range(g.estudiantes) \subseteq Docs
    BY <1>1 DEF Range
  <1>5. \A s \in Docs : times[s] # 0 <=> \E t \in Range(shown) : t \notin TeamsWith(s)
    BY <1>2, <1>4, CountMembers
  <1> QED BY <1>1, <1>3, <1>4, <1>5, RepeatedMembers

\* The rows: the students who have arrived and whose references are kept.
LEMMA RowsMembers ==
  ASSUME NEW arrived \in Seq(Docs), NEW refs \in Seq(Docs)
  PROVE  /\ RowsOf(arrived, refs) \in Seq(Docs)
         /\ \A s : s \in Range(RowsOf(arrived, refs)) <=> s \in Range(arrived) /\ s \in Range(refs)
  <1>1. PICK times \in [Docs -> Nat] : times = [s \in Docs |-> Count(refs, {s})]
    BY CountMembers
  <1>2. RowsOf(arrived, refs) = Repeated(arrived, times)
    BY <1>1 DEF RowsOf
  <1>3. Range(arrived) \subseteq Docs
    BY DEF Range
  <1>4. \A s \in Docs : times[s] # 0 <=> s \in Range(refs)
    <2> SUFFICES ASSUME NEW s \in Docs PROVE times[s] # 0 <=> s \in Range(refs)
      OBVIOUS
    <2>1. Count(refs, {s}) # 0 <=> \E x \in Range(refs) : x \in {s}
      BY CountMembers
    <2>2. times[s] = Count(refs, {s})
      BY <1>1
    <2> QED BY <2>1, <2>2
  <1> QED BY <1>2, <1>3, <1>4, RepeatedMembers

\* The lists of the screen are lists of documents.
LEMMA ListsTyped ==
  ASSUME group \in Groups, ListsInv
  PROVE  teams \in Seq(Docs) /\ students \in Seq(Docs)
  BY GroupShape, PermutesSame, EmptySeq DEF ListsInv

\* The creator is opened with the students who lack a team.
LEMMA OfferStep ==
  ASSUME group \in Groups, ListsInv, AddTeam
  PROVE  /\ offer' \in [rows : Seq(Docs), refs : Seq(Docs)]
         /\ \A s \in Range(group.estudiantes) :
              s \in Range(offer'.rows) <=>
                students # <<>> /\ \E t \in Range(group.equipos) : s \notin Integrantes[t]
  <1>1. teams \in Seq(Docs) /\ students \in Seq(Docs)
    BY ListsTyped
  <1>2. PICK refs : refs = Selectable(group, teams)
    OBVIOUS
  <1>3. PICK rows : rows = RowsOf(students, refs)
    OBVIOUS
  <1>4. offer' = [rows |-> rows, refs |-> refs]
    BY <1>2, <1>3 DEF AddTeam
  <1>5. /\ refs \in Seq(Docs)
        /\ \A s : s \in Range(refs) <=> s \in Range(group.estudiantes)
                                        /\ \E t \in Range(teams) : t \notin TeamsWith(s)
    BY <1>1, <1>2, SelectableMembers
  <1>6. /\ rows \in Seq(Docs)
        /\ \A s : s \in Range(rows) <=> s \in Range(students) /\ s \in Range(refs)
    BY <1>1, <1>3, <1>5, RowsMembers
  <1>7. ASSUME NEW s \in Range(group.estudiantes)
        PROVE  s \in Range(rows) <=>
                 students # <<>> /\ \E t \in Range(group.equipos) : s \notin Integrantes[t]
    <2>1. CASE students = <<>>
      <3>1. Range(students) = {}
        BY <2>1 DEF Range
      <3> QED BY <1>6, <2>1, <3>1
    <2>2. CASE students # <<>>
      <3>1. Range(students) = Range(group.estudiantes) /\ Range(teams) = Range(group.equipos)
        BY <2>2, GroupShape, PermutesSame DEF ListsInv
      <3>2. \A u \in Range(group.equipos) : u \notin TeamsWith(s) <=> s \notin Integrantes[u]
        BY IntegrantesAssumption DEF TeamsWith
      <3> QED BY <1>5, <1>6, <1>7, <2>2, <3>1, <3>2
    <2> QED BY <2>1, <2>2
  <1> QED BY <1>4, <1>5, <1>6, <1>7

\* The navigation stack keeps the group at its bottom.
LEMMA StackStep ==
  ASSUME RestInv, \/ stack' = stack
                  \/ stack' = Append(stack, "creator") \/ stack' = Append(stack, "classroom")
                  \/ stack' = Front(stack) /\ Len(stack) > 1
  PROVE  /\ stack' \in Seq({"group", "creator", "classroom"}) /\ stack' # <<>>
         /\ stack'[1] = "group"
  <1> DEFINE S == {"group", "creator", "classroom"}
  <1>1. stack \in Seq(S) /\ Len(stack) \in Nat /\ Len(stack) # 0 /\ stack[1] = "group"
    BY EmptySeq DEF RestInv
  <1> HIDE DEF S
  <1>2. ASSUME NEW x \in S, stack' = Append(stack, x)
        PROVE  stack' \in Seq(S) /\ stack' # <<>> /\ stack'[1] = "group"
    <2>1. stack' \in Seq(S) /\ Len(stack') = Len(stack) + 1
          /\ \A k \in 1 .. Len(stack) : stack'[k] = stack[k]
      BY <1>1, <1>2, AppendProperties
    <2>2. 1 \in 1 .. Len(stack) /\ Len(stack) + 1 # 0
      BY <1>1
    <2> QED BY <1>1, <2>1, <2>2, EmptySeq
  <1>3. ASSUME stack' = Front(stack), Len(stack) > 1
        PROVE  stack' \in Seq(S) /\ stack' # <<>> /\ stack'[1] = "group"
    <2>1. PICK m \in Nat : m = Len(stack) - 1 /\ 1 <= m /\ m <= Len(stack)
      <3>1. /\ Len(stack) - 1 \in Nat /\ 1 <= Len(stack) - 1
            /\ Len(stack) - 1 <= Len(stack)
        BY <1>1, <1>3
      <3> QED BY <3>1
    <2>2. stack' = SubSeq(stack, 1, m)
      BY <1>3, <2>1 DEF Front
    <2>3. \A k \in 1 .. m : stack[k] \in S
      BY <1>1, <2>1, ElementOfSeq
    <2>4. /\ SubSeq(stack, 1, m) \in Seq(S)
          /\ Len(SubSeq(stack, 1, m)) = IF 1 <= m THEN m - 1 + 1 ELSE 0
          /\ \A k \in 1 .. m - 1 + 1 : SubSeq(stack, 1, m)[k] = stack[1 + k - 1]
      BY <1>1, <2>1, <2>3, SubSeqProperties
    <2>5. m - 1 + 1 = m /\ 1 \in 1 .. m /\ 1 + 1 - 1 = 1 /\ m # 0
      BY <2>1
    <2>6. SubSeq(stack, 1, m)[1] = stack[1]
      <3>1. \A k \in 1 .. m : SubSeq(stack, 1, m)[k] = stack[1 + k - 1]
        BY <2>4, <2>5
      <3> QED BY <2>5, <3>1
    <2>7. Len(SubSeq(stack, 1, m)) = m
      BY <2>1, <2>4, <2>5
    <2> QED BY <1>1, <2>2, <2>4, <2>5, <2>6, <2>7, EmptySeq
  <1> QED BY <1>1, <1>2, <1>3 DEF S

\* Every step keeps the other variables in their ranges.
LEMMA RestStep ==
  ASSUME group \in Groups, ListsInv, RestInv, [Next]_vars
  PROVE  RestInv'
  <1>1. CASE AddTeam
    <2>1. UNCHANGED <<salones, hud, trapped>> /\ stack' = Append(stack, "creator")
      BY <1>1 DEF AddTeam
    <2> QED BY <1>1, <2>1, OfferStep, StackStep DEF RestInv
  <1>2. ASSUME UNCHANGED <<group, offer>>, trapped' \in BOOLEAN,
               hud' \in {"hidden", "equipos", "estudiantes", "salon"},
               \/ stack' = stack
               \/ stack' = Append(stack, "classroom")
               \/ stack' = Front(stack) /\ Len(stack) > 1,
               /\ salones' \in [sent : 0 .. MaxClassrooms, waiting : 0 .. MaxClassrooms]
               /\ salones'.waiting <= salones'.sent
        PROVE  RestInv'
    BY <1>2, StackStep DEF RestInv
  <1>3. CASE SeeClassroom
    <2>1. salones' \in [sent : 0 .. MaxClassrooms, waiting : 0 .. MaxClassrooms]
          /\ salones'.waiting <= salones'.sent
      <3>1. PICK a \in 0 .. MaxClassrooms, b \in 0 .. MaxClassrooms :
              a = salones.sent /\ b = salones.waiting /\ b <= a /\ a < MaxClassrooms
        BY <1>3 DEF SeeClassroom, RestInv
      <3>2. salones' = [sent |-> a + 1, waiting |-> b + 1]
        BY <1>3, <3>1 DEF SeeClassroom
      <3>3. a + 1 \in 0 .. MaxClassrooms /\ b + 1 \in 0 .. MaxClassrooms /\ b + 1 <= a + 1
        BY <3>1, ClassroomsAssumption
      <3> QED BY <3>2, <3>3
    <2> QED BY <1>2, <1>3, <2>1 DEF SeeClassroom, screens, RestInv
  <1>4. CASE ClassroomArrives
    <2>1. salones' \in [sent : 0 .. MaxClassrooms, waiting : 0 .. MaxClassrooms]
          /\ salones'.waiting <= salones'.sent
      <3>1. PICK a \in 0 .. MaxClassrooms, b \in 0 .. MaxClassrooms :
              a = salones.sent /\ b = salones.waiting /\ b <= a /\ b > 0
        BY <1>4 DEF ClassroomArrives, RestInv
      <3>2. salones' = [sent |-> a, waiting |-> b - 1]
        BY <1>4, <3>1 DEF ClassroomArrives, RestInv
      <3>3. b - 1 \in 0 .. MaxClassrooms /\ b - 1 <= a
        BY <3>1, ClassroomsAssumption
      <3> QED BY <3>2, <3>3
    <2> QED BY <1>2, <1>4, <2>1 DEF ClassroomArrives, RestInv
  <1>5. CASE ClassroomFails \/ Pop \/ UNCHANGED vars
    BY <1>2, <1>5 DEF ClassroomFails, Pop, vars, screens, RestInv
  <1>6. ASSUME NEW d, NEW i, Answer(d, i)
        PROVE  RestInv'
    BY <1>2, <1>6 DEF Answer, TeamsShown, TeamArrives, StudentsShown, StudentArrives, DownloadFails,
                      screens, RestInv
  <1> QED BY <1>1, <1>3, <1>4, <1>5, <1>6 DEF Next

\* The invariant holds when the screen has appeared.
LEMMA ShowInit == Init => ShowInv
  <1> SUFFICES ASSUME Init PROVE ShowInv
    OBVIOUS
  <1>1. group \in Groups /\ downloads = <<Download(group)>>
    BY DEF Init
  <1>2. EntryInv(Download(group))
    BY <1>1, StartedDownload
  <1>3. Download(group) \in Entries
    BY <1>2 DEF EntryInv
  <1>4. DownloadsInv
    <2>1. downloads \in Seq(Entries) /\ DOMAIN downloads = {1} /\ downloads[1] = Download(group)
      BY <1>1, <1>3
    <2> QED BY <1>1, <1>2, <2>1 DEF DownloadsInv
  <1>5. <<>> \in Seq(Docs)
    BY EmptySeq
  <1>6. stack \in Seq({"group", "creator", "classroom"}) /\ stack # <<>> /\ stack[1] = "group"
    BY DEF Init
  <1>7. /\ salones \in [sent : 0 .. MaxClassrooms, waiting : 0 .. MaxClassrooms]
        /\ salones.waiting <= salones.sent
    BY ClassroomsAssumption DEF Init
  <1> QED BY <1>4, <1>5, <1>6, <1>7 DEF Init, ShowInv, ListsInv, RestInv

\* Every step keeps the invariant.
LEMMA ShowStep == ShowInv /\ [Next]_vars => ShowInv'
  BY ListsStep, RestStep DEF ShowInv, DownloadsInv

\* The invariant gives the shape of the state.
LEMMA ShowShape == ShowInv => TypeOK
  <1> SUFFICES ASSUME ShowInv PROVE TypeOK
    OBVIOUS
  <1>1. teams \in Seq(Docs) /\ students \in Seq(Docs)
    BY ListsTyped DEF ShowInv, DownloadsInv
  <1>2. Head(stack) = "group"
    BY DEF ShowInv, RestInv
  <1> QED BY <1>1, <1>2 DEF ShowInv, DownloadsInv, RestInv, TypeOK, Entries

\* However the answers of several appearances mix, the screen shows all the
\* group's teams or none and all its students or none, and students only with
\* teams to compare them with (setupDynamicData of GroupViewController).
THEOREM ShowsAlwaysWhole == Spec => []ShowsWhole
  <1>1. ShowInv => ShowsWhole
    BY ShowShape DEF ShowInv, ListsInv, ShowsWhole
  <1> QED BY <1>1, ShowInit, ShowStep, PTL DEF Spec

\* A step that opens the creator is the user's addTeam.
LEMMA OpensByAdding ==
  ASSUME RestInv, [Next]_vars, Opens
  PROVE  AddTeam
  <1>1. /\ stack \in Seq({"group", "creator", "classroom"}) /\ stack # <<>>
        /\ stack' = Append(stack, "creator")
    BY DEF RestInv, Opens
  <1>2. PICK n \in Nat : n = Len(stack) /\ n # 0
    BY <1>1, LenProperties, EmptySeq
  <1>3. Len(stack') = n + 1 /\ stack'[n + 1] = "creator"
    BY <1>1, <1>2, AppendProperties
  <1>4. CASE stack' = stack
    BY <1>2, <1>3, <1>4
  <1>5. CASE ClassroomArrives
    <2>1. stack' = Append(stack, "classroom")
      BY <1>5 DEF ClassroomArrives
    <2>2. stack'[n + 1] = "classroom"
      BY <1>1, <1>2, <2>1, AppendProperties
    <2> QED BY <1>3, <2>2
  <1>6. CASE Pop
    <2>1. stack' = SubSeq(stack, 1, Len(stack) - 1)
      BY <1>6 DEF Pop, Front
    <2>2. PICK m \in Nat : m = n - 1 /\ m + 1 = n
      <3>1. n - 1 \in Nat /\ n - 1 + 1 = n
        BY <1>2
      <3> QED BY <3>1
    <2>3. \A k \in 1 .. m : stack[k] \in {"group", "creator", "classroom"}
      BY <1>1, <1>2, <2>2, ElementOfSeq
    <2>4. Len(SubSeq(stack, 1, m)) = IF 1 <= m THEN m - 1 + 1 ELSE 0
      BY <2>2, <2>3, SubSeqProperties
    <2>5. Len(SubSeq(stack, 1, m)) = m
      BY <2>2, <2>4
    <2>6. stack' = SubSeq(stack, 1, m)
      BY <1>2, <2>1, <2>2
    <2>7. m = n + 1
      BY <1>3, <2>5, <2>6
    <2> QED BY <2>2, <2>7
  <1>7. ASSUME NEW d, NEW i, Answer(d, i)
        PROVE  stack' = stack
    BY <1>7 DEF Answer, TeamsShown, TeamArrives, StudentsShown, StudentArrives, DownloadFails, screens
  <1>8. CASE SeeClassroom \/ ClassroomFails \/ UNCHANGED vars
    BY <1>4, <1>8 DEF SeeClassroom, ClassroomFails, vars, screens
  <1> QED BY <1>4, <1>5, <1>6, <1>7, <1>8 DEF Next

\* Whenever the creator is opened, it offers exactly the students whom some team
\* of the group lacks, and nobody before the students are on the screen: nobody
\* at all for a group without teams (selectableStudents of GroupViewController).
THEOREM AlwaysOffersWhoLacksATeam == Spec => OffersWhoLacksATeam
  <1>1. ShowInv /\ [Next]_vars =>
          [Opens => \A s \in Range(group.estudiantes) :
             s \in Range(offer'.rows) <=>
               students # <<>> /\ \E t \in Range(group.equipos) : s \notin Integrantes[t]]_vars
    BY OpensByAdding, OfferStep DEF ShowInv, DownloadsInv
  <1> QED BY <1>1, ShowInit, ShowStep, PTL DEF Spec, OffersWhoLacksATeam
-----------------------------------------------------------------------------
(* What the HUD says.                                                       *)

\* A call that has just been made is not over, unless it was made for nobody.
LEMMA StartedAwaits ==
  ASSUME NEW name, NEW refs \in Seq(Docs)
  PROVE  refs = <<>> \/ ~Ended(StartLoad(name, refs))
  <1>1. refs # <<>> => 1 \in DOMAIN refs
    BY DEF Range
  <1> QED BY <1>1 DEF Ended, StartLoad

\* Only the last answer of a call ends it, and that changes the message.
LEMMA SaidStep ==
  ASSUME DownloadsInv, RestInv, DownloadingWhenSaid, [Next]_vars
  PROVE  DownloadingWhenSaid'
  <1>1. ASSUME UNCHANGED <<hud, group>>, trapped' = trapped \/ trapped',
               hud = "salon" => salones'.waiting > 0 \/ salones' = salones,
               DOMAIN downloads \subseteq DOMAIN downloads',
               \A d \in DOMAIN downloads :
                 /\ ~Ended(downloads[d].equipos) => ~Ended(downloads'[d].equipos)
                 /\ ~Ended(downloads[d].estudiantes) => ~Ended(downloads'[d].estudiantes)
        PROVE  DownloadingWhenSaid'
    BY <1>1 DEF DownloadingWhenSaid, Ended
  <1>2. CASE hud' = "hidden"
    BY <1>2 DEF DownloadingWhenSaid
  <1>3. CASE UNCHANGED <<hud, group, downloads, salones>> /\ (trapped' = trapped \/ trapped')
    BY <1>1, <1>3
  <1>4. ASSUME NEW d \in DOMAIN downloads, NEW i, TeamArrives(d, i)
        PROVE  DownloadingWhenSaid'
    <2>1. /\ i \in downloads[d].equipos.waiting
          /\ Heard(downloads[d].equipos, i, TRUE) = <<>>
          /\ downloads' = [downloads EXCEPT ![d].equipos = Retrieved(downloads[d].equipos, i)]
          /\ UNCHANGED <<hud, group, salones, trapped>>
      BY <1>4 DEF TeamArrives, Waits
    <2>2. ~Ended(Retrieved(downloads[d].equipos, i))
      BY <2>1, EntryShape, RetrievedCall DEF Ended
    <2>3. downloads[d] \in Entries
      BY EntryShape
    <2>4. /\ downloads'[d].equipos = Retrieved(downloads[d].equipos, i)
          /\ downloads'[d].estudiantes = downloads[d].estudiantes
      BY <2>1, <2>3 DEF Entries
    <2>5. \A k \in DOMAIN downloads : k # d => downloads'[k] = downloads[k]
      BY <2>1
    <2>6. DOMAIN downloads' = DOMAIN downloads
      BY <2>1
    <2> QED BY <1>1, <2>1, <2>2, <2>4, <2>5, <2>6
  <1>5. ASSUME NEW d \in DOMAIN downloads, NEW i, StudentArrives(d, i)
        PROVE  DownloadingWhenSaid'
    <2>1. /\ i \in downloads[d].estudiantes.waiting
          /\ Heard(downloads[d].estudiantes, i, TRUE) = <<>>
          /\ downloads' = [downloads EXCEPT ![d].estudiantes =
                             Retrieved(downloads[d].estudiantes, i)]
          /\ UNCHANGED <<hud, group, salones, trapped>>
      BY <1>5 DEF StudentArrives, Waits
    <2>2. CallInv(downloads[d].estudiantes, group.estudiantes)
      BY <2>1, StudentAwaited
    <2>3. ~Ended(Retrieved(downloads[d].estudiantes, i))
      BY <2>1, <2>2, EntryShape, RetrievedCall DEF Ended
    <2>4. downloads[d] \in Entries
      BY EntryShape
    <2>5. /\ downloads'[d].equipos = downloads[d].equipos
          /\ downloads'[d].estudiantes = Retrieved(downloads[d].estudiantes, i)
      BY <2>1, <2>4 DEF Entries
    <2>6. \A k \in DOMAIN downloads : k # d => downloads'[k] = downloads[k]
      BY <2>1
    <2>7. DOMAIN downloads' = DOMAIN downloads
      BY <2>1
    <2> QED BY <1>1, <2>1, <2>3, <2>5, <2>6, <2>7
  <1>6. CASE Pop
    <2>1. CASE UNCHANGED <<downloads, hud>>
      BY <1>3, <1>6, <2>1 DEF Pop
    <2>2. CASE downloads' = Append(downloads, Download(group)) /\ hud' = "equipos"
      <3>1. PICK e : e = Download(group)
        OBVIOUS
      <3>2. e \in Entries
        BY <3>1, StartedDownload DEF DownloadsInv, EntryInv
      <3>3. group.equipos = <<>> \/ ~Ended(e.equipos)
        BY <3>1, StartedAwaits, GroupShape DEF Download, DownloadsInv
      <3>4. PICK n \in Nat : n = Len(downloads) + 1
        BY DEF DownloadsInv
      <3>5. downloads'[n] = e /\ DOMAIN downloads' = 1 .. n /\ n \in 1 .. n
        BY <2>2, <3>1, <3>2, <3>4, AppendProperties, LenProperties DEF DownloadsInv
      <3>6. group' = group
        BY <1>6 DEF Pop
      <3> QED BY <2>2, <3>3, <3>5, <3>6 DEF DownloadingWhenSaid, Ended
    <2> QED BY <1>6, <2>1, <2>2 DEF Pop
  <1>7. ASSUME NEW d \in DOMAIN downloads, NEW i, TeamsShown(d, i)
        PROVE  DownloadingWhenSaid'
    <2>1. PICK e : e = [equipos     |-> Retrieved(downloads[d].equipos, i),
                        estudiantes |-> StartLoad("getStudentsInCourse", group.estudiantes)]
      OBVIOUS
    <2>2. /\ downloads' = [downloads EXCEPT ![d] = e] /\ hud' = "estudiantes" /\ group' = group
      BY <1>7, <2>1 DEF TeamsShown
    <2>3. group.estudiantes = <<>> \/ ~Ended(e.estudiantes)
      BY <2>1, StartedAwaits, GroupShape DEF DownloadsInv
    <2>4. DOMAIN downloads' = DOMAIN downloads /\ downloads'[d] = e
      BY <2>2
    <2> QED BY <2>2, <2>3, <2>4 DEF DownloadingWhenSaid, Ended
  <1>8. ASSUME NEW d, NEW i, StudentsShown(d, i) \/ DownloadFails(d, i)
        PROVE  DownloadingWhenSaid'
    BY <1>2, <1>3, <1>8 DEF StudentsShown, DownloadFails
  <1>9. CASE SeeClassroom
    <2>1. PICK b \in Nat : b = salones.waiting
      BY DEF RestInv
    <2>2. hud' = "salon" /\ salones'.waiting = b + 1 /\ b + 1 > 0
      BY <1>9, <2>1 DEF SeeClassroom
    <2> QED BY <2>2 DEF DownloadingWhenSaid
  <1>10. CASE AddTeam \/ ClassroomArrives \/ ClassroomFails \/ UNCHANGED vars
    BY <1>2, <1>3, <1>10 DEF AddTeam, ClassroomArrives, ClassroomFails, vars
  <1> QED BY <1>4, <1>5, <1>6, <1>7, <1>8, <1>9, <1>10 DEF Next, Answer

\* What the HUD says is being downloaded, teams, students or the classroom, has
\* no answer yet, unless the list that it names is empty (setupDynamicData and
\* seeClassroom of GroupViewController).
THEOREM SaidOnlyWhileDownloading == Spec => []DownloadingWhenSaid
  <1>1. Init => DownloadingWhenSaid
    <2> SUFFICES ASSUME Init PROVE DownloadingWhenSaid
      OBVIOUS
    <2>1. group \in Groups /\ downloads = <<Download(group)>> /\ hud = "equipos"
      BY DEF Init
    <2>2. DOMAIN downloads = {1} /\ downloads[1] = Download(group)
      BY <2>1
    <2>3. group.equipos = <<>> \/ ~Ended(Download(group).equipos)
      BY <2>1, StartedAwaits, GroupShape DEF Download
    <2> QED BY <2>1, <2>2, <2>3 DEF DownloadingWhenSaid
  <1>2. ShowInv /\ DownloadingWhenSaid /\ [Next]_vars => DownloadingWhenSaid'
    BY SaidStep DEF ShowInv
  <1> QED BY <1>1, <1>2, ShowInit, ShowStep, PTL DEF Spec
=============================================================================
