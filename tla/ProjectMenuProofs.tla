-------------------------- MODULE ProjectMenuProofs --------------------------
(***************************************************************************)
(* Proofs about ProjectMenu: what lies under a screen that was pushed,     *)
(* that the HUD speaks the truth and that the tables are whole, for every  *)
(* set of courses, groups and students, and every number of requests and   *)
(* appearances.                                                            *)
(***************************************************************************)
EXTENDS ProjectMenu, SequenceTheorems, TLAPS

TableRows == {<<Ninguno>>} \cup UNION {Range(e) : e \in Estudiantes}

MenuScreens   == [kind : {"menu"}, doc : {Ninguno}, rows : [Tables -> TableRows]]
CourseScreens == [kind : {"course"}, doc : Courses, rows : [{"grupos"} -> Seq(Docs)]]
GroupScreens == [kind : {"group"}, doc : Docs, rows : {<<>>}]
Screen  == MenuScreens \cup CourseScreens \cup GroupScreens

Calls == [name : {CountOnSuccess}, refs : Seq(Docs), waiting : SUBSET Nat, list : Seq(Nat)]

Made == 1 .. Len(screens)

\* A course shows groups that it has.
ScreensInv ==
  /\ screens \in Seq(Screen)
  /\ \A k \in Made : screens[k].kind = "course" =>
       \A n \in DOMAIN screens[k].rows.grupos :
         screens[k].rows.grupos[n] \in Range(Grupos[screens[k].doc])

\* A request comes from the screen where it can be tapped.
RequestsInv ==
  \A r \in requests :
    /\ r.from \in Made
    /\ r.kind \in {"estudiante", "curso"} => screens[r.from].kind = "menu"
    /\ r.kind = "grupo" => /\ screens[r.from].kind = "course"
                           /\ r.doc \in Range(Grupos[screens[r.from].doc])
                           /\ r.doc \in Docs

\* A call downloads the groups of the course that made it.
LoadsInv ==
  /\ loads \in Seq([from : Nat, call : Calls])
  /\ \A l \in DOMAIN loads :
       /\ loads[l].from \in Made
       /\ screens[loads[l].from].kind = "course"
       /\ loads[l].call.refs = Grupos[screens[loads[l].from].doc]
       /\ loads[l].call.waiting \subseteq DOMAIN loads[l].call.refs
       /\ \A n \in DOMAIN loads[l].call.list : loads[l].call.list[n] \in DOMAIN loads[l].call.refs

\* Inductive strengthening of UnderItsParent.
ParentInv ==
  /\ ScreensInv
  /\ stack \in Seq(Made)
  /\ RequestsInv
  /\ LoadsInv
  /\ UnderItsParent

\* No screen is lost, and none becomes another.
Extends == /\ Made \subseteq Made'
           /\ \A k \in Made : /\ screens'[k].kind = screens[k].kind
                              /\ screens'[k].doc = screens[k].doc

\* The kinds of screen are what they are called.
LEMMA ScreenKinds ==
  ASSUME NEW s \in Screen
  PROVE  /\ s.kind = "menu" => s \in MenuScreens
         /\ s.kind = "course" => s \in CourseScreens /\ s.doc \in Courses
         /\ s.kind \in {"menu", "course", "group"}
  BY DEF Screen, MenuScreens, CourseScreens, GroupScreens

\* The screens that are made are of their kinds.
LEMMA NewScreens ==
  /\ Menu \in Screen /\ Menu.kind = "menu"
  /\ \A c \in Courses : /\ Course(c) \in Screen /\ Course(c).kind = "course"
                        /\ Course(c).doc = c /\ Course(c).rows.grupos = <<>>
  /\ \A g \in Docs : Group(g) \in Screen /\ Group(g).kind = "group" /\ Group(g).doc = g
  <1>1. Menu \in MenuScreens /\ Menu.kind = "menu"
    BY DEF Menu, MenuScreens, TableRows
  <1>2. ASSUME NEW c \in Courses
        PROVE  /\ Course(c) \in CourseScreens /\ Course(c).kind = "course"
               /\ Course(c).doc = c /\ Course(c).rows.grupos = <<>>
    <2>1. <<>> \in Seq(Docs)
      BY EmptySeq
    <2>2. [t \in {"grupos"} |-> <<>>] \in [{"grupos"} -> Seq(Docs)]
      BY <2>1
    <2>3. Course(c) = [kind |-> "course", doc |-> c, rows |-> [t \in {"grupos"} |-> <<>>]]
      BY DEF Course
    <2> QED BY <2>2, <2>3 DEF CourseScreens
  <1>3. ASSUME NEW g \in Docs
        PROVE  Group(g) \in GroupScreens /\ Group(g).kind = "group" /\ Group(g).doc = g
    BY DEF Group, GroupScreens
  <1> QED BY <1>1, <1>2, <1>3 DEF Screen

\* One more screen.
LEMMA ScreenMade ==
  ASSUME ScreensInv, NEW s \in Screen, screens' = Append(screens, s),
         s.kind = "course" => s.rows.grupos = <<>>
  PROVE  /\ ScreensInv' /\ Extends
         /\ Len(screens) + 1 \in Made'
         /\ screens'[Len(screens) + 1] = s
         /\ Len(screens) \in Nat
  <1> DEFINE n == Len(screens) + 1
  <1>1. /\ screens' \in Seq(Screen) /\ Len(screens') = n /\ screens'[n] = s
        /\ \A k \in Made : screens'[k] = screens[k]
        /\ Len(screens) \in Nat
    BY AppendProperties DEF ScreensInv, Made
  <1>2. Made' = 1 .. n
    BY <1>1 DEF Made
  <1>3. Made = 1 .. Len(screens)
    BY DEF Made
  <1>4. Made' = Made \cup {n} /\ n \in Made'
    <2> HIDE DEF Made
    <2> QED BY <1>1, <1>2, <1>3
  <1>5. Extends
    BY <1>1, <1>4 DEF Extends
  <1>6. ScreensInv'
    <2> SUFFICES ASSUME NEW k \in Made', (screens[k].kind = "course")',
                        NEW m \in DOMAIN screens'[k].rows.grupos
                 PROVE  (screens[k].rows.grupos[m] \in Range(Grupos[screens[k].doc]))'
      BY <1>1 DEF ScreensInv
    <2>1. CASE k \in Made
      BY <1>1, <2>1 DEF ScreensInv
    <2>2. CASE k = n
      <3>1. DOMAIN screens'[k].rows.grupos = {}
        BY <1>1, <2>2
      <3> QED BY <3>1
    <2> QED BY <1>4, <2>1, <2>2
  <1> QED BY <1>1, <1>4, <1>5, <1>6

\* A screen gets new rows.
LEMMA ScreenFilled ==
  ASSUME ScreensInv, NEW k \in Made, NEW s \in Screen, screens' = [screens EXCEPT ![k] = s],
         s.kind = screens[k].kind, s.doc = screens[k].doc,
         s.kind = "course" =>
           \A n \in DOMAIN s.rows.grupos : s.rows.grupos[n] \in Range(Grupos[s.doc])
  PROVE  ScreensInv' /\ Extends
  <1>1. /\ screens' \in Seq(Screen) /\ Len(screens') = Len(screens)
        /\ \A j \in Made : screens'[j] = IF j = k THEN s ELSE screens[j]
    BY ExceptSeq DEF ScreensInv, Made
  <1>2. Made' = Made
    BY <1>1 DEF Made
  <1> QED BY <1>1, <1>2 DEF ScreensInv, Extends

\* What is asked for and what is downloaded outlive the making of screens.
LEMMA AskedStays ==
  ASSUME RequestsInv, LoadsInv, Extends
  PROVE  /\ requests' \subseteq requests => RequestsInv'
         /\ loads' = loads => LoadsInv'
  <1>1. ASSUME requests' \subseteq requests
        PROVE  RequestsInv'
    BY <1>1 DEF RequestsInv, Extends
  <1>2. ASSUME loads' = loads
        PROVE  LoadsInv'
    <2>1. loads' \in Seq([from : Nat, call : Calls])
      BY <1>2 DEF LoadsInv
    <2>2. ASSUME NEW l \in DOMAIN loads
          PROVE  /\ loads[l].from \in Made /\ loads[l].from \in Made'
                 /\ screens'[loads[l].from].kind = "course"
                 /\ screens'[loads[l].from].doc = screens[loads[l].from].doc
      BY DEF LoadsInv, Extends
    <2> QED BY <1>2, <2>1, <2>2 DEF LoadsInv
  <1> QED BY <1>1, <1>2

\* The stack, or what is left of it.
LEMMA StackStays ==
  ASSUME stack \in Seq(Made), UnderItsParent, Extends,
         stack' = stack \/ (stack' = Front(stack) /\ stack # <<>>)
  PROVE  stack' \in Seq(Made)' /\ UnderItsParent'
  <1>1. /\ Len(stack') \in Nat /\ Len(stack) \in Nat
        /\ stack' \in Seq(Made)
        /\ DOMAIN stack' = 1 .. Len(stack')
        /\ DOMAIN stack = 1 .. Len(stack)
        /\ \A k \in DOMAIN stack' : k \in DOMAIN stack /\ stack'[k] = stack[k]
    <2>1. CASE stack' = stack
      BY <2>1
    <2>2. CASE stack' = Front(stack) /\ stack # <<>>
      <3>1. /\ Front(stack) \in Seq(Made) /\ Len(Front(stack)) = Len(stack) - 1
            /\ \A k \in 1 .. Len(stack) - 1 : Front(stack)[k] = stack[k]
            /\ Len(stack) \in Nat /\ Len(stack) # 0
        <4>1. Len(stack) \in Nat /\ Len(stack) # 0
          BY <2>2, EmptySeq
        <4> DEFINE m == Len(stack) - 1
        <4>2. m \in Nat /\ m <= Len(stack) /\ (1 > m \/ m \in 1 .. Len(stack))
          BY <4>1
        <4>3. Front(stack) = SubSeq(stack, 1, m)
          BY DEF Front
        <4>4. \A k \in 1 .. m : stack[k] \in Made
          BY <4>1, ElementOfSeq
        <4> HIDE DEF m
        <4>5. /\ SubSeq(stack, 1, m) \in Seq(Made)
              /\ Len(SubSeq(stack, 1, m)) = IF 1 <= m THEN m - 1 + 1 ELSE 0
              /\ \A k \in 1 .. m - 1 + 1 : SubSeq(stack, 1, m)[k] = stack[1 + k - 1]
          BY <4>2, <4>4, SubSeqProperties
        <4>6. /\ Len(SubSeq(stack, 1, m)) = m
              /\ \A k \in 1 .. m : SubSeq(stack, 1, m)[k] = stack[k]
          <5>1. m - 1 + 1 = m /\ (IF 1 <= m THEN m - 1 + 1 ELSE 0) = m
            BY <4>2
          <5>2. \A k \in 1 .. m : 1 + k - 1 = k
            BY <4>2
          <5> QED BY <4>5, <5>1, <5>2
        <4>7. m = Len(stack) - 1
          BY DEF m
        <4> QED BY <4>1, <4>3, <4>5, <4>6, <4>7
      <3>2. /\ stack' \in Seq(Made) /\ Len(stack') = Len(stack) - 1
            /\ \A k \in 1 .. Len(stack) - 1 : stack'[k] = stack[k]
        BY <2>2, <3>1
      <3>3. DOMAIN stack' = 1 .. Len(stack') /\ DOMAIN stack = 1 .. Len(stack)
        BY <3>2
      <3>4. Len(stack') \in Nat /\ \A k \in 1 .. Len(stack') : k \in 1 .. Len(stack)
        <4>1. Len(stack) - 1 \in Nat
          BY <3>1
        <4> QED BY <3>1, <3>2, <4>1
      <3> QED BY <3>1, <3>2, <3>3, <3>4
    <2> QED BY <2>1, <2>2
  <1>2. stack' \in Seq(Made')
    BY <1>1, SeqMonotonic DEF Extends
  <1>3. \A k \in DOMAIN stack' : /\ (OnStack(k).kind)' = OnStack(k).kind
                                 /\ (OnStack(k).doc)' = OnStack(k).doc
    <2>1. \A k \in DOMAIN stack : stack[k] \in Made
      BY ElementOfSeq, <1>1
    <2> QED BY <1>1, <2>1 DEF Extends, OnStack
  <1>4. \A k \in DOMAIN stack' : \A j \in 1 .. k - 1 : j \in DOMAIN stack'
    <2> SUFFICES ASSUME NEW k \in 1 .. Len(stack'), NEW j \in 1 .. k - 1
                 PROVE  j \in 1 .. Len(stack')
      BY <1>1
    <2>1. Len(stack') \in Nat
      BY <1>1
    <2> QED BY <2>1
  <1>5. UnderItsParent'
    BY <1>1, <1>3, <1>4 DEF UnderItsParent
  <1> QED BY <1>2, <1>5

\* A screen made by an answer goes on top of the one that asked, whatever has
\* been pushed in between.
LEMMA ScreenPushed ==
  ASSUME ScreensInv, stack \in Seq(Made), UnderItsParent, NEW s \in Screen,
         screens' = Append(screens, s), s.kind \in {"course", "group"},
         s.kind = "course" => s.rows.grupos = <<>>,
         stack' = Append(stack, Len(screens) + 1),
         NEW from \in Range(stack),
         s.kind = "group" => screens[from].kind = "course"
                             /\ s.doc \in Range(Grupos[screens[from].doc])
  PROVE  ScreensInv' /\ Extends /\ stack' \in Seq(Made)' /\ UnderItsParent'
  <1>0. Len(screens) \in Nat /\ Len(stack) \in Nat
    BY DEF ScreensInv
  <1>n. PICK n \in Nat : n = Len(screens) + 1
    BY <1>0
  <1>t. PICK top \in Nat : top = Len(stack) + 1
    BY <1>0
  <1>1. ScreensInv' /\ Extends /\ n \in Made' /\ screens'[n] = s
    BY <1>n, ScreenMade
  <1>2. stack \in Seq(Made')
    BY <1>1, SeqMonotonic DEF Extends
  <1>3. /\ stack' \in Seq(Made') /\ Len(stack') = top /\ stack'[top] = n
        /\ \A k \in 1 .. Len(stack) : stack'[k] = stack[k]
        /\ DOMAIN stack = 1 .. Len(stack) /\ DOMAIN stack' = 1 .. Len(stack')
        /\ Len(stack) \in Nat
    BY <1>1, <1>2, <1>n, <1>t, AppendProperties
  <1>4. \A k \in DOMAIN stack : stack[k] \in Made
    BY ElementOfSeq
  <1>5. \A k \in DOMAIN stack : /\ (OnStack(k).kind)' = OnStack(k).kind
                                /\ (OnStack(k).doc)' = OnStack(k).doc
    BY <1>1, <1>3, <1>4 DEF Extends, OnStack
  <1>6. PICK p \in DOMAIN stack : stack[p] = from
    BY DEF Range
  <1>7. OnStack(top)' = s
    BY <1>1, <1>3 DEF OnStack
  <1>8. /\ \A k \in DOMAIN stack' : k \in DOMAIN stack \/ k = top
        /\ p \in 1 .. top - 1 /\ top # 1
        /\ \A k \in DOMAIN stack : \A j \in 1 .. k - 1 : j \in DOMAIN stack
    <2>1. DOMAIN stack = 1 .. top - 1 /\ DOMAIN stack' = 1 .. top /\ top - 1 \in Nat
      BY <1>3, <1>t
    <2> QED BY <1>6, <2>1
  <1>9. ASSUME NEW k \in DOMAIN stack
        PROVE  (/\ OnStack(k).kind = "menu" <=> k = 1
                /\ OnStack(k).kind = "group" =>
                     \E j \in 1 .. k - 1 : OnStack(j).kind = "course"
                                           /\ OnStack(k).doc \in Range(Grupos[OnStack(j).doc]))'
    <2>1. (OnStack(k).kind)' = OnStack(k).kind /\ (OnStack(k).doc)' = OnStack(k).doc
      BY <1>5
    <2>2. (OnStack(k).kind = "menu" <=> k = 1)'
      BY <2>1 DEF UnderItsParent
    <2>3. ASSUME OnStack(k).kind = "group"
          PROVE  (\E j \in 1 .. k - 1 : OnStack(j).kind = "course"
                                        /\ OnStack(k).doc \in Range(Grupos[OnStack(j).doc]))'
      <3>1. PICK j \in 1 .. k - 1 : OnStack(j).kind = "course"
                                    /\ OnStack(k).doc \in Range(Grupos[OnStack(j).doc])
        BY <2>3 DEF UnderItsParent
      <3>2. j \in DOMAIN stack
        BY <1>8
      <3>3. (OnStack(j).kind)' = OnStack(j).kind /\ (OnStack(j).doc)' = OnStack(j).doc
        BY <1>5, <3>2
      <3>4. (OnStack(j).kind = "course" /\ OnStack(k).doc \in Range(Grupos[OnStack(j).doc]))'
        BY <2>1, <3>1, <3>3
      <3> QED BY <3>4
    <2> QED BY <2>1, <2>2, <2>3
  <1>10. (/\ OnStack(top).kind = "menu" <=> top = 1
          /\ OnStack(top).kind = "group" =>
               \E j \in 1 .. top - 1 : OnStack(j).kind = "course"
                                       /\ OnStack(top).doc \in Range(Grupos[OnStack(j).doc]))'
    <2>1. /\ (OnStack(p).kind)' = screens[from].kind
          /\ (OnStack(p).doc)' = screens[from].doc
      BY <1>5, <1>6 DEF OnStack
    <2>2. (OnStack(top).kind)' = s.kind /\ (OnStack(top).doc)' = s.doc
      BY <1>7
    <2> QED BY <1>8, <2>1, <2>2
  <1>11. UnderItsParent'
    <2> SUFFICES ASSUME NEW k \in DOMAIN stack'
                 PROVE  (/\ OnStack(k).kind = "menu" <=> k = 1
                         /\ OnStack(k).kind = "group" =>
                              \E j \in 1 .. k - 1 :
                                 OnStack(j).kind = "course"
                                 /\ OnStack(k).doc \in Range(Grupos[OnStack(j).doc]))'
      BY DEF UnderItsParent
    <2>1. CASE k \in DOMAIN stack
      BY <1>9, <2>1
    <2>2. CASE k = top
      BY <1>10, <2>2
    <2> QED BY <1>8, <2>1, <2>2
  <1> QED BY <1>1, <1>3, <1>11

\* A course that appears starts a call.
LEMMA GroupsAsked ==
  ASSUME LoadsInv, Extends, NEW from \in Made', screens'[from].kind = "course",
         screens'[from].doc \in Courses, loads' = LoadGroups(from, screens'[from].doc)
  PROVE  LoadsInv'
  <1> DEFINE c == screens'[from].doc
             new == [from |-> from, call |-> StartLoad(CountOnSuccess, Grupos[c])]
  <1>1. Grupos[c] \in Seq(Docs)
    BY GruposAssumption
  <1>2. /\ new.from = from /\ new.call.refs = Grupos[c]
        /\ new.call.waiting = DOMAIN Grupos[c] /\ new.call.list = <<>>
    BY DEF StartLoad
  <1>3. new \in [from : Nat, call : Calls]
    <2>1. StartLoad(CountOnSuccess, Grupos[c]) \in Calls
      <3>1. DOMAIN Grupos[c] \in SUBSET Nat /\ <<>> \in Seq(Nat)
        BY <1>1, EmptySeq
      <3> QED BY <1>1, <3>1 DEF StartLoad, Calls
    <2>2. from \in Nat
      BY DEF Made
    <2> QED BY <2>1, <2>2
  <1>4. loads' = Append(loads, new)
    BY DEF LoadGroups
  <1> HIDE DEF new
  <1>5. /\ loads' \in Seq([from : Nat, call : Calls])
        /\ DOMAIN loads = 1 .. Len(loads)
        /\ DOMAIN loads' = 1 .. Len(loads) + 1
        /\ \A l \in 1 .. Len(loads) : loads'[l] = loads[l]
        /\ loads'[Len(loads) + 1] = new
        /\ Len(loads) \in Nat
    BY <1>3, <1>4, AppendProperties DEF LoadsInv
  <1>6. ASSUME NEW l \in DOMAIN loads'
        PROVE  (/\ loads[l].from \in Made
                /\ screens[loads[l].from].kind = "course"
                /\ loads[l].call.refs = Grupos[screens[loads[l].from].doc]
                /\ loads[l].call.waiting \subseteq DOMAIN loads[l].call.refs
                /\ \A n \in DOMAIN loads[l].call.list :
                     loads[l].call.list[n] \in DOMAIN loads[l].call.refs)'
    <2>1. l \in 1 .. Len(loads) \/ l = Len(loads) + 1
      BY <1>5
    <2>2. CASE l \in 1 .. Len(loads)
      <3>1. /\ loads'[l] = loads[l] /\ l \in DOMAIN loads
        BY <1>5, <2>2
      <3>2. /\ loads[l].from \in Made
            /\ screens[loads[l].from].kind = "course"
            /\ loads[l].call.refs = Grupos[screens[loads[l].from].doc]
            /\ loads[l].call.waiting \subseteq DOMAIN loads[l].call.refs
            /\ \A n \in DOMAIN loads[l].call.list :
                 loads[l].call.list[n] \in DOMAIN loads[l].call.refs
        BY <3>1 DEF LoadsInv
      <3>3. /\ loads[l].from \in Made'
            /\ screens'[loads[l].from].kind = screens[loads[l].from].kind
            /\ screens'[loads[l].from].doc = screens[loads[l].from].doc
        BY <3>2 DEF Extends
      <3> QED BY <3>1, <3>2, <3>3
    <2>3. CASE l = Len(loads) + 1
      <3>1. loads'[l] = new
        BY <1>5, <2>3
      <3>2. DOMAIN new.call.list = {}
        BY <1>2
      <3> QED BY <1>2, <3>1, <3>2
    <2> QED BY <2>1, <2>2, <2>3
  <1> QED BY <1>5, <1>6 DEF LoadsInv

\* An answer to a call appends a group of the course that made it.
LEMMA GroupsAnswered ==
  ASSUME ScreensInv, LoadsInv, NEW l \in DOMAIN loads, NEW i \in loads[l].call.waiting,
         NEW found \in BOOLEAN, LoadAnswered(l, i, found)
  PROVE  ScreensInv' /\ Extends /\ LoadsInv'
  <1> DEFINE call == loads[l].call
             from == loads[l].from
             folded == Folded(call, i, found)
  <1>1. /\ DOMAIN loads = 1 .. Len(loads)
        /\ loads[l] \in [from : Nat, call : Calls]
        /\ call \in Calls
    <2>1. loads \in Seq([from : Nat, call : Calls])
      BY DEF LoadsInv
    <2>2. l \in 1 .. Len(loads)
      BY <2>1
    <2>3. DOMAIN loads = 1 .. Len(loads)
      BY <2>1
    <2>4. loads[l] \in [from : Nat, call : Calls]
      BY <2>1, <2>2, ElementOfSeq
    <2> QED BY <2>3, <2>4
  <1>2. /\ from \in Made /\ screens[from].kind = "course"
        /\ call.refs = Grupos[screens[from].doc]
        /\ call.waiting \subseteq DOMAIN call.refs
        /\ \A n \in DOMAIN call.list : call.list[n] \in DOMAIN call.refs
    BY DEF LoadsInv
  <1>3. i \in Nat /\ i \in DOMAIN call.refs
    BY <1>1, <1>2 DEF Calls
  <1>4. call.list \in Seq(Nat)
    BY <1>1 DEF Calls
  <1>5. /\ Append(call.list, i) \in Seq(Nat)
        /\ \A n \in DOMAIN Append(call.list, i) : Append(call.list, i)[n] \in DOMAIN call.refs
    <2>1. /\ Append(call.list, i) \in Seq(Nat)
          /\ DOMAIN call.list = 1 .. Len(call.list)
          /\ DOMAIN Append(call.list, i) = 1 .. Len(call.list) + 1
          /\ \A n \in 1 .. Len(call.list) : Append(call.list, i)[n] = call.list[n]
          /\ Append(call.list, i)[Len(call.list) + 1] = i
          /\ Len(call.list) \in Nat
      BY <1>3, <1>4, AppendProperties
    <2>2. \A n \in 1 .. Len(call.list) + 1 : n \in 1 .. Len(call.list) \/ n = Len(call.list) + 1
      BY <2>1
    <2> QED BY <1>2, <1>3, <2>1, <2>2
  <1>6. /\ folded \in Calls /\ folded.refs = call.refs
        /\ folded.waiting \subseteq call.waiting
        /\ folded.list \in {call.list, Append(call.list, i)}
    <2>1. /\ Retrieved(call, i) \in Calls /\ Retrieved(call, i).refs = call.refs
          /\ Retrieved(call, i).waiting \subseteq call.waiting
          /\ Retrieved(call, i).list = Append(call.list, i)
      BY <1>1, <1>5 DEF Retrieved, Calls
    <2>2. /\ NotRetrieved(call, i) \in Calls /\ NotRetrieved(call, i).refs = call.refs
          /\ NotRetrieved(call, i).waiting \subseteq call.waiting
          /\ NotRetrieved(call, i).list = call.list
      BY <1>1 DEF NotRetrieved, Calls
    <2> QED BY <2>1, <2>2 DEF Folded
  <1>7. ScreensInv' /\ Extends
    <2>1. CASE screens' = screens
      BY <2>1 DEF ScreensInv, Extends, Made
    <2>2. CASE screens' = [screens EXCEPT ![from].rows.grupos = Documents(call, i)]
      <3> DEFINE new == [screens[from] EXCEPT !.rows =
                           [screens[from].rows EXCEPT !.grupos = Documents(call, i)]]
      <3>1. Documents(call, i) \in Seq(Docs)
            /\ \A n \in DOMAIN Documents(call, i) :
                 Documents(call, i)[n] \in Range(Grupos[screens[from].doc])
        <4>1. Retrieved(call, i).list = Append(call.list, i)
          BY <1>1, <1>5 DEF Retrieved, Calls
        <4>2. Documents(call, i) = [k \in DOMAIN Append(call.list, i) |->
                                      call.refs[Append(call.list, i)[k]]]
          BY <4>1 DEF Documents
        <4>3. \A k \in DOMAIN Append(call.list, i) :
                call.refs[Append(call.list, i)[k]] \in Range(call.refs)
          BY <1>5 DEF Range
        <4>4. Range(call.refs) \subseteq Docs
          <5>1. call.refs \in Seq(Docs)
            BY <1>1 DEF Calls
          <5> QED BY <5>1 DEF Range
        <4>5. DOMAIN Append(call.list, i) = 1 .. Len(Append(call.list, i))
              /\ Len(Append(call.list, i)) \in Nat
          BY <1>5
        <4>6. Documents(call, i) \in [1 .. Len(Append(call.list, i)) -> Docs]
          BY <4>2, <4>3, <4>4, <4>5
        <4>7. Documents(call, i) \in Seq(Docs)
          BY <4>5, <4>6
        <4> QED BY <1>2, <4>2, <4>3, <4>7
      <3>2. screens[from] \in CourseScreens
        BY <1>2, ScreenKinds, ElementOfSeq DEF ScreensInv, Made
      <3>3. new \in CourseScreens /\ new.kind = "course" /\ new.doc = screens[from].doc
            /\ new.rows.grupos = Documents(call, i)
        <4> DEFINE rows == [screens[from].rows EXCEPT !.grupos = Documents(call, i)]
        <4>1. rows \in [{"grupos"} -> Seq(Docs)] /\ rows.grupos = Documents(call, i)
          BY <3>1, <3>2 DEF CourseScreens
        <4> HIDE DEF rows
        <4>2. [screens[from] EXCEPT !.rows = rows] \in CourseScreens
          BY <3>2, <4>1 DEF CourseScreens
        <4>3. /\ [screens[from] EXCEPT !.rows = rows].kind = "course"
              /\ [screens[from] EXCEPT !.rows = rows].doc = screens[from].doc
              /\ [screens[from] EXCEPT !.rows = rows].rows = rows
          BY <3>2 DEF CourseScreens
        <4> QED BY <4>1, <4>2, <4>3 DEF rows
      <3>4. screens' = [screens EXCEPT ![from] = new]
        BY <2>2
      <3>5. new \in Screen
        BY <3>3 DEF Screen
      <3> HIDE DEF new
      <3> QED BY <1>2, <3>1, <3>3, <3>4, <3>5, ScreenFilled
    <2> QED BY <2>1, <2>2 DEF LoadAnswered
  <1>8. LoadsInv'
    <2> DEFINE new == [loads[l] EXCEPT !.call = folded]
    <2>1. loads' = [loads EXCEPT ![l] = new]
      BY DEF LoadAnswered
    <2>2. new \in [from : Nat, call : Calls] /\ new.from = from /\ new.call = folded
      BY <1>1, <1>6
    <2> HIDE DEF new
    <2>3. /\ loads' \in Seq([from : Nat, call : Calls])
          /\ DOMAIN loads' = DOMAIN loads
          /\ \A m \in DOMAIN loads : loads'[m] = IF m = l THEN new ELSE loads[m]
      BY <1>1, <2>1, <2>2, ExceptSeq DEF LoadsInv
    <2> HIDE DEF folded
    <2>4. \A n \in DOMAIN folded.list : folded.list[n] \in DOMAIN folded.refs
      BY <1>2, <1>5, <1>6
    <2>5. folded.refs = call.refs /\ folded.waiting \subseteq DOMAIN folded.refs
      BY <1>2, <1>6
    <2>6. /\ from \in Made' /\ screens'[from].kind = "course"
          /\ screens'[from].doc = screens[from].doc
      BY <1>2, <1>7 DEF Extends
    <2>7. ASSUME NEW m \in DOMAIN loads'
          PROVE  (/\ loads[m].from \in Made
                  /\ screens[loads[m].from].kind = "course"
                  /\ loads[m].call.refs = Grupos[screens[loads[m].from].doc]
                  /\ loads[m].call.waiting \subseteq DOMAIN loads[m].call.refs
                  /\ \A n \in DOMAIN loads[m].call.list :
                       loads[m].call.list[n] \in DOMAIN loads[m].call.refs)'
      <3>1. CASE m = l
        <4>1. loads'[m].from = from /\ loads'[m].call = folded
          BY <2>2, <2>3, <3>1
        <4> QED BY <1>2, <2>4, <2>5, <2>6, <4>1
      <3>2. CASE m # l
        <4>1. loads'[m] = loads[m] /\ m \in DOMAIN loads
          BY <2>3, <3>2
        <4> QED BY <1>7, <4>1 DEF LoadsInv, Extends
      <3> QED BY <3>1, <3>2
    <2> QED BY <2>3, <2>7 DEF LoadsInv
  <1> QED BY <1>7, <1>8

\* The invariant holds on the home screen.
LEMMA ParentInit == Init => ParentInv
  <1> SUFFICES ASSUME Init PROVE ParentInv
    OBVIOUS
  <1>1. /\ screens = <<>> /\ stack = <<>> /\ loads = <<>> /\ requests = {}
        /\ Len(screens) = 0 /\ DOMAIN loads = {} /\ DOMAIN stack = {}
    BY DEF Init
  <1>2. Made = {}
    BY <1>1 DEF Made
  <1>3. /\ screens \in Seq(Screen) /\ stack \in Seq(Made)
        /\ loads \in Seq([from : Nat, call : Calls])
    BY <1>1, EmptySeq
  <1> QED BY <1>1, <1>2, <1>3 DEF ParentInv, ScreensInv, RequestsInv, LoadsInv, UnderItsParent

\* Nothing on the screens changes.
LEMMA SameScreens ==
  ASSUME ParentInv, screens' = screens
  PROVE  ScreensInv' /\ Extends
  BY DEF ParentInv, ScreensInv, Extends, Made

\* A tap asks for a document from the screen on top.
LEMMA TapStep ==
  ASSUME ParentInv, UNCHANGED <<screens, stack, loads>>, NEW kind, NEW doc,
         stack # <<>>, Ask(kind, Last(stack), doc),
         kind \in {"estudiante", "curso"} => screens[Last(stack)].kind = "menu",
         kind = "grupo" => /\ screens[Last(stack)].kind = "course"
                           /\ doc \in Range(Grupos[screens[Last(stack)].doc])
                           /\ doc \in Docs
  PROVE  ParentInv'
  <1>1. Last(stack) \in Made
    <2>1. stack \in Seq(Made)
      BY DEF ParentInv
    <2>2. Len(stack) \in 1 .. Len(stack)
      BY <2>1, EmptySeq
    <2> QED BY <2>1, <2>2, ElementOfSeq DEF Last
  <1>2. ScreensInv' /\ Extends
    BY SameScreens
  <1>3. LoadsInv' /\ stack' \in Seq(Made)' /\ UnderItsParent'
    BY <1>2, AskedStays, StackStays DEF ParentInv
  <1>4. PICK from \in Made : from = Last(stack)
    BY <1>1
  <1>5. requests' = requests \cup {[n |-> sent + 1, kind |-> kind, from |-> from, doc |-> doc]}
    BY <1>4 DEF Ask
  <1>6. RequestsInv'
    <2>1. Made' = Made
      BY DEF Made
    <2> QED BY <1>4, <1>5, <2>1 DEF ParentInv, RequestsInv
  <1> QED BY <1>2, <1>3, <1>6 DEF ParentInv

\* The menu is opened, and asks for the student.
LEMMA OpenStep ==
  ASSUME ParentInv, OpenMenu
  PROVE  ParentInv'
  <1>1. /\ stack = <<>> /\ screens' = Append(screens, Menu) /\ stack' = <<Len(screens) + 1>>
        /\ Ask("estudiante", Len(screens) + 1, Ninguno) /\ loads' = loads
    BY DEF OpenMenu
  <1>2. /\ ScreensInv' /\ Extends /\ Len(screens) + 1 \in Made'
        /\ screens'[Len(screens) + 1] = Menu /\ Len(screens) \in Nat
    BY <1>1, ScreenMade, NewScreens DEF ParentInv
  <1>3. PICK n \in Nat : n = Len(screens) + 1
    BY <1>2
  <1>4. LoadsInv'
    BY <1>1, <1>2, AskedStays DEF ParentInv
  <1>5. RequestsInv'
    <2>1. requests' = requests \cup {[n |-> sent + 1, kind |-> "estudiante", from |-> n,
                                     doc |-> Ninguno]}
      BY <1>1, <1>3 DEF Ask
    <2>2. n \in Made' /\ screens'[n].kind = "menu"
      BY <1>2, <1>3, NewScreens
    <2>3. ASSUME NEW r \in requests'
          PROVE  (/\ r.from \in Made
                  /\ r.kind \in {"estudiante", "curso"} => screens[r.from].kind = "menu"
                  /\ r.kind = "grupo" => /\ screens[r.from].kind = "course"
                                         /\ r.doc \in Range(Grupos[screens[r.from].doc])
                                         /\ r.doc \in Docs)'
      <3>1. CASE r \in requests
        BY <1>2, <3>1 DEF ParentInv, RequestsInv, Extends
      <3>2. CASE r = [n |-> sent + 1, kind |-> "estudiante", from |-> n, doc |-> Ninguno]
        BY <2>2, <3>2
      <3> QED BY <2>1, <3>1, <3>2
    <2> QED BY <2>3 DEF RequestsInv
  <1>6. stack' \in Seq(Made)' /\ UnderItsParent'
    <2>1. stack' = <<n>> /\ n \in Made' /\ screens'[n].kind = "menu"
      BY <1>1, <1>2, <1>3, NewScreens
    <2>2. DOMAIN stack' = {1} /\ stack'[1] = n
      BY <2>1
    <2>3. (OnStack(1).kind)' = "menu"
      BY <2>1, <2>2 DEF OnStack
    <2> QED BY <2>1, <2>2, <2>3 DEF UnderItsParent
  <1> QED BY <1>2, <1>4, <1>5, <1>6 DEF ParentInv

\* The screen beneath appears and asks again.
LEMMA BackStep ==
  ASSUME ParentInv, Back
  PROVE  ParentInv'
  <1>1. /\ stack # <<>> /\ stack' = Front(stack) /\ screens' = screens
    BY DEF Back
  <1>2. ScreensInv' /\ Extends
    BY <1>1, SameScreens
  <1>3. stack' \in Seq(Made)' /\ UnderItsParent'
    BY <1>1, <1>2, StackStays DEF ParentInv
  <1>4. Made' = Made
    BY <1>1 DEF Made
  <1>5. stack' # <<>> => Last(stack') \in Made
    <2> SUFFICES ASSUME stack' # <<>> PROVE Last(stack') \in Made
      OBVIOUS
    <2>1. stack' \in Seq(Made)
      BY <1>3, <1>4
    <2>2. Len(stack') \in 1 .. Len(stack')
      BY <2>1, EmptySeq
    <2> QED BY <2>1, <2>2, ElementOfSeq DEF Last
  <1>6. CASE requests' = requests /\ loads' = loads
    BY <1>2, <1>3, <1>6, AskedStays DEF ParentInv
  <1>7. CASE /\ stack' # <<>> /\ screens[Last(stack')].kind = "menu"
             /\ Ask("estudiante", Last(stack'), Ninguno) /\ loads' = loads
    <2>1. PICK from \in Made : from = Last(stack')
      BY <1>5, <1>7
    <2>2. requests' = requests \cup {[n |-> sent + 1, kind |-> "estudiante", from |-> from,
                                     doc |-> Ninguno]}
      BY <1>7, <2>1 DEF Ask
    <2>3. RequestsInv'
      BY <1>1, <1>4, <1>7, <2>1, <2>2 DEF ParentInv, RequestsInv
    <2> QED BY <1>2, <1>3, <1>7, <2>3, AskedStays DEF ParentInv
  <1>8. CASE /\ stack' # <<>> /\ screens[Last(stack')].kind = "course"
             /\ loads' = LoadGroups(Last(stack'), screens[Last(stack')].doc)
             /\ requests' = requests
    <2>1. PICK from \in Made : from = Last(stack')
      BY <1>5, <1>8
    <2>2. screens[from].doc \in Courses
      BY <1>8, <2>1, ScreenKinds, ElementOfSeq DEF ParentInv, ScreensInv, Made
    <2>3. LoadsInv'
      BY <1>1, <1>2, <1>4, <1>8, <2>1, <2>2, GroupsAsked DEF ParentInv
    <2> QED BY <1>2, <1>3, <1>8, <2>3, AskedStays DEF ParentInv
  <1> QED
    BY <1>6, <1>7, <1>8 DEF Back

\* The student fills the tables of the menu that asked.
LEMMA StudentStep ==
  ASSUME ParentInv, NEW r \in requests, NEW e \in Estudiantes, StudentArrives(r, e)
  PROVE  ParentInv'
  <1> DEFINE s == screens[r.from]
             filled == [s EXCEPT !.rows = Filled(s.rows, e)]
  <1>1. /\ r.kind = "estudiante" /\ requests' \subseteq requests
        /\ screens' = [screens EXCEPT ![r.from] = filled]
        /\ UNCHANGED <<stack, loads>>
    BY DEF StudentArrives, Answers
  <1>2. r.from \in Made /\ s \in MenuScreens
    BY <1>1, ScreenKinds, ElementOfSeq DEF ParentInv, RequestsInv, ScreensInv, Made
  <1>3. Filled(s.rows, e) \in [Tables -> TableRows]
    <2>1. \A t \in Tables : e[t] \in TableRows
      BY EstudiantesAssumption DEF TableRows, Range
    <2>2. \A t \in Tables : s.rows[t] \in TableRows
      BY <1>2 DEF MenuScreens
    <2> QED BY <2>1, <2>2 DEF Filled
  <1>4. filled \in MenuScreens /\ filled.kind = "menu" /\ filled.kind = s.kind
        /\ filled.doc = s.doc
    BY <1>2, <1>3 DEF MenuScreens
  <1> HIDE DEF filled
  <1>5. ScreensInv' /\ Extends
    BY <1>1, <1>2, <1>4, ScreenFilled DEF ParentInv, Screen
  <1> QED BY <1>1, <1>5, AskedStays, StackStays DEF ParentInv

\* A course is pushed onto the stack that its menu is part of.
LEMMA CourseStep ==
  ASSUME ParentInv, NEW r \in requests, CourseArrives(r)
  PROVE  ParentInv'
  <1>1. requests' \subseteq requests /\ r.doc \in Courses
    BY DEF CourseArrives, Answers
  <1>2. CASE ~Presents(r.from)
    <2>1. UNCHANGED <<screens, stack, loads>>
      BY <1>2 DEF CourseArrives
    <2> QED BY <1>1, <2>1, SameScreens, AskedStays, StackStays DEF ParentInv
  <1>3. CASE Presents(r.from)
    <2>1. /\ screens' = Append(screens, Course(r.doc)) /\ stack' = Append(stack, Len(screens) + 1)
          /\ loads' = LoadGroups(Len(screens) + 1, r.doc)
      BY <1>3 DEF CourseArrives
    <2>2. r.from \in Range(stack)
      BY <1>3 DEF Presents
    <2>3. /\ Course(r.doc) \in Screen /\ Course(r.doc).kind = "course"
          /\ Course(r.doc).doc = r.doc /\ Course(r.doc).rows.grupos = <<>>
      BY <1>1, NewScreens
    <2>4. ScreensInv' /\ Extends /\ stack' \in Seq(Made)' /\ UnderItsParent'
      BY <2>1, <2>2, <2>3, ScreenPushed DEF ParentInv
    <2>5. Len(screens) + 1 \in Made' /\ screens'[Len(screens) + 1] = Course(r.doc)
      BY <2>1, <2>3, ScreenMade DEF ParentInv
    <2>6. LoadsInv'
      BY <1>1, <2>1, <2>3, <2>4, <2>5, GroupsAsked DEF ParentInv
    <2> QED BY <1>1, <2>4, <2>6, AskedStays DEF ParentInv
  <1> QED BY <1>2, <1>3

\* A group is pushed onto the stack that its course is part of.
LEMMA GroupStep ==
  ASSUME ParentInv, NEW r \in requests, GroupArrives(r)
  PROVE  ParentInv'
  <1>1. requests' \subseteq requests /\ r.kind = "grupo" /\ loads' = loads
    BY DEF GroupArrives, Answers
  <1>2. CASE ~Presents(r.from)
    <2>1. UNCHANGED <<screens, stack>>
      BY <1>2 DEF GroupArrives
    <2> QED BY <1>1, <2>1, SameScreens, AskedStays, StackStays DEF ParentInv
  <1>3. CASE Presents(r.from)
    <2>1. /\ screens' = Append(screens, Group(r.doc)) /\ stack' = Append(stack, Len(screens) + 1)
      BY <1>3 DEF GroupArrives
    <2>2. r.from \in Range(stack)
      BY <1>3 DEF Presents
    <2>3. /\ screens[r.from].kind = "course" /\ r.doc \in Docs
          /\ r.doc \in Range(Grupos[screens[r.from].doc])
      BY <1>1 DEF ParentInv, RequestsInv
    <2>4. Group(r.doc) \in Screen /\ Group(r.doc).kind = "group" /\ Group(r.doc).doc = r.doc
      BY <2>3, NewScreens
    <2>5. ScreensInv' /\ Extends /\ stack' \in Seq(Made)' /\ UnderItsParent'
      BY <2>1, <2>2, <2>3, <2>4, ScreenPushed DEF ParentInv
    <2> QED BY <1>1, <2>5, AskedStays DEF ParentInv
  <1> QED BY <1>2, <1>3

\* Every step keeps the invariant.
LEMMA ParentStep == ParentInv /\ [Next]_vars => ParentInv'
  <1> SUFFICES ASSUME ParentInv, [Next]_vars PROVE ParentInv'
    OBVIOUS
  <1>1. CASE OpenMenu
    BY <1>1, OpenStep
  <1>2. CASE Back
    BY <1>2, BackStep
  <1>3. ASSUME NEW row \in Courses \cup {Ninguno}, TapCourse(row)
        PROVE  ParentInv'
    <2>1. /\ stack # <<>> /\ screens[Last(stack)].kind = "menu"
          /\ Ask("curso", Last(stack), row) /\ UNCHANGED <<screens, stack, loads>>
      BY <1>3 DEF TapCourse, Shows
    <2> QED BY <2>1, TapStep
  <1>4. ASSUME NEW row \in Docs, TapGroup(row)
        PROVE  ParentInv'
    <2>1. /\ stack # <<>> /\ screens[Last(stack)].kind = "course"
          /\ row \in Range(screens[Last(stack)].rows.grupos)
          /\ Ask("grupo", Last(stack), row) /\ UNCHANGED <<screens, stack, loads>>
      BY <1>4 DEF TapGroup, Shows
    <2>2. Last(stack) \in Made
      <3>1. stack \in Seq(Made)
        BY DEF ParentInv
      <3>2. Len(stack) \in 1 .. Len(stack)
        BY <2>1, <3>1, EmptySeq
      <3> QED BY <3>1, <3>2, ElementOfSeq DEF Last
    <2>3. row \in Range(Grupos[screens[Last(stack)].doc])
      <3>1. PICK n \in DOMAIN screens[Last(stack)].rows.grupos :
              row = screens[Last(stack)].rows.grupos[n]
        BY <2>1 DEF Range
      <3> QED BY <2>1, <2>2, <3>1 DEF ParentInv, ScreensInv
    <2> QED BY <2>1, <2>3, TapStep
  <1>5. ASSUME NEW r \in requests, Answered(r)
        PROVE  ParentInv'
    <2>1. CASE \E e \in Estudiantes : StudentArrives(r, e)
      BY <2>1, StudentStep
    <2>2. CASE CourseArrives(r)
      BY <2>2, CourseStep
    <2>3. CASE GroupArrives(r)
      BY <2>3, GroupStep
    <2>4. CASE FailureTraps(r) \/ FailureUnseen(r)
      <3>1. UNCHANGED <<screens, stack, loads>> /\ requests' \subseteq requests
        BY <2>4 DEF FailureTraps, FailureUnseen, Answers
      <3> QED BY <3>1, SameScreens, AskedStays, StackStays DEF ParentInv
    <2> QED BY <1>5, <2>1, <2>2, <2>3, <2>4 DEF Answered
  <1>6. ASSUME NEW l \in DOMAIN loads, NEW i \in loads[l].call.waiting, NEW found \in BOOLEAN,
               LoadAnswered(l, i, found)
        PROVE  ParentInv'
    <2>1. UNCHANGED <<stack, requests>>
      BY <1>6 DEF LoadAnswered
    <2>2. ScreensInv' /\ Extends /\ LoadsInv'
      BY <1>6, GroupsAnswered DEF ParentInv
    <2> QED BY <2>1, <2>2, AskedStays, StackStays DEF ParentInv
  <1>7. CASE UNCHANGED vars
    BY <1>7, SameScreens, AskedStays, StackStays DEF ParentInv, vars
  <1> QED BY <1>1, <1>2, <1>3, <1>4, <1>5, <1>6, <1>7 DEF Next

\* However many answers push their screens late or twice, the way back from a
\* group leads through a course that has it and ends at the menu
\* (performSegue in ProjectMenuViewController and CoursesViewController).
THEOREM UnderItsParentHolds == Spec => []UnderItsParent
  <1>1. ParentInv => UnderItsParent
    BY DEF ParentInv
  <1> QED BY <1>1, ParentInit, ParentStep, PTL DEF Spec

\* What puts the HUD up is asked for, and an answer of any kind takes it down.
LEMMA HudStep == HudSpeaksTruth /\ [Next]_vars => HudSpeaksTruth'
  <1> SUFFICES ASSUME HudSpeaksTruth, [Next]_vars PROVE HudSpeaksTruth'
    OBVIOUS
  <1>1. ASSUME NEW kind, NEW from, NEW doc, Ask(kind, from, doc)
        PROVE  HudSpeaksTruth'
    <2>1. [n |-> sent + 1, kind |-> kind, from |-> from, doc |-> doc] \in requests' /\ hud' = kind
      BY <1>1 DEF Ask
    <2> QED BY <2>1 DEF HudSpeaksTruth
  <1>2. CASE OpenMenu
    <2>1. PICK n : n = Len(screens) + 1
      OBVIOUS
    <2> QED BY <1>1, <1>2, <2>1 DEF OpenMenu
  <1>3. CASE Back
    <2>1. PICK n : n = Last(stack')
      OBVIOUS
    <2>2. CASE Ask("estudiante", n, Ninguno)
      BY <1>1, <2>2
    <2>3. CASE UNCHANGED <<hud, requests, trapped>>
      BY <2>3 DEF HudSpeaksTruth
    <2> QED BY <1>3, <2>1, <2>2, <2>3 DEF Back
  <1>4. CASE \/ \E row \in Courses \cup {Ninguno} : TapCourse(row)
             \/ \E row \in Docs : TapGroup(row)
    <2>1. PICK n : n = Last(stack)
      OBVIOUS
    <2> QED BY <1>1, <1>4, <2>1 DEF TapCourse, TapGroup
  <1>5. ASSUME NEW r \in requests, Answered(r)
        PROVE  HudSpeaksTruth'
    BY <1>5 DEF Answered, StudentArrives, CourseArrives, GroupArrives, FailureTraps, FailureUnseen,
                HudSpeaksTruth
  <1>6. ASSUME NEW l \in DOMAIN loads, NEW i \in loads[l].call.waiting, NEW found \in BOOLEAN,
               LoadAnswered(l, i, found)
        PROVE  HudSpeaksTruth'
    <2>1. UNCHANGED <<hud, requests>> /\ ~trapped
      BY <1>6 DEF LoadAnswered
    <2> QED BY <2>1 DEF HudSpeaksTruth
  <1>7. CASE UNCHANGED vars
    BY <1>7 DEF vars, HudSpeaksTruth
  <1> QED BY <1>2, <1>3, <1>4, <1>5, <1>6, <1>7 DEF Next

\* The HUD never says that something is downloaded for which no answer is on
\* its way, however the answers and the taps alternate.
THEOREM HudSpeaksTruthHolds == Spec => []HudSpeaksTruth
  <1>1. Init => HudSpeaksTruth
    BY DEF Init, HudSpeaksTruth
  <1> QED BY <1>1, HudStep, PTL DEF Spec
-----------------------------------------------------------------------------
(* The tables.                                                              *)

\* What TablesWhole says of one screen.
Whole(s) ==
  /\ s.kind = "menu" =>
       \A t \in Tables : /\ s.rows[t] # <<>>
                         /\ \/ s.rows[t] = <<Ninguno>>
                            \/ \E e \in Estudiantes : s.rows[t] = e[t]
  /\ s.kind = "course" =>
       s.rows.grupos = <<>> \/ Permutes(s.rows.grupos, Grupos[s.doc])

RowsInv == \A k \in Made : Whole(screens[k])

\* A document is appended once, when its request is answered.
AppendedOnce(call) ==
  /\ \A j, k \in DOMAIN call.list : call.list[j] = call.list[k] => j = k
  /\ \A k \in DOMAIN call.list : call.list[k] \notin call.waiting

OnceInv == \A l \in DOMAIN loads : AppendedOnce(loads[l].call)

AskedInv ==
  /\ sent \in 0 .. MaxRequests
  /\ requests \subseteq [n : 1 .. sent, kind : {"estudiante", "curso", "grupo"},
                         from : Made, doc : Courses \cup Docs \cup {Ninguno}]
  /\ hud \in {"hidden", "estudiante", "curso", "grupo"}
  /\ trapped \in BOOLEAN

\* Inductive strengthening of TablesWhole.
WholeInv == ParentInv /\ AskedInv /\ OnceInv /\ RowsInv

\* The operators of Loaders: an answer appends its document once, and a list
\* that is as long as the references is a permutation of them.
LEMMA RetrievedOnce ==
  ASSUME NEW call \in Calls, NEW i \in call.waiting, AppendedOnce(call),
         call.waiting \subseteq DOMAIN call.refs,
         \A k \in DOMAIN call.list : call.list[k] \in DOMAIN call.refs
  PROVE  /\ AppendedOnce(Retrieved(call, i)) /\ AppendedOnce(NotRetrieved(call, i))
         /\ IsFull(Retrieved(call, i)) => Permutes(Documents(call, i), call.refs)
  <1> DEFINE list == Append(call.list, i)
  <1>1. call.refs \in Seq(Docs) /\ call.list \in Seq(Nat) /\ i \in Nat
    BY DEF Calls
  <1>2. /\ Retrieved(call, i).list = list /\ Retrieved(call, i).refs = call.refs
        /\ Retrieved(call, i).waiting = call.waiting \ {i}
        /\ NotRetrieved(call, i).list = call.list
        /\ NotRetrieved(call, i).waiting = call.waiting \ {i}
    BY DEF Retrieved, NotRetrieved, Calls
  <1>3. /\ list \in Seq(Nat) /\ Len(list) = Len(call.list) + 1 /\ Len(call.list) \in Nat
        /\ DOMAIN call.list = 1 .. Len(call.list) /\ DOMAIN list = 1 .. Len(list)
        /\ \A k \in 1 .. Len(call.list) : list[k] = call.list[k]
        /\ list[Len(call.list) + 1] = i
    BY <1>1, AppendProperties
  <1>4. PICK top \in Nat : top = Len(call.list) + 1
    BY <1>3
  <1>5. /\ list[top] = i /\ top \notin DOMAIN call.list
        /\ \A k \in DOMAIN list : k = top \/ k \in DOMAIN call.list
    BY <1>3, <1>4
  <1> HIDE DEF list
  <1>6. \A k \in DOMAIN list : list[k] \in DOMAIN call.refs /\ list[k] \notin call.waiting \ {i}
    BY <1>3, <1>5 DEF AppendedOnce
  <1>7. \A j, k \in DOMAIN list : list[j] = list[k] => j = k
    <2> SUFFICES ASSUME NEW j \in DOMAIN list, NEW k \in DOMAIN list, list[j] = list[k]
                 PROVE  j = k
      OBVIOUS
    <2>1. CASE j \in DOMAIN call.list /\ k \in DOMAIN call.list
      BY <1>3, <2>1 DEF AppendedOnce
    <2>2. \A m \in DOMAIN call.list : list[m] # i
      BY <1>3 DEF AppendedOnce
    <2> QED BY <1>5, <2>1, <2>2
  <1>8. AppendedOnce(Retrieved(call, i)) /\ AppendedOnce(NotRetrieved(call, i))
    BY <1>2, <1>6, <1>7 DEF AppendedOnce
  <1>9. ASSUME IsFull(Retrieved(call, i))
        PROVE  Permutes(Documents(call, i), call.refs)
    <2>1. DOMAIN list = DOMAIN call.refs
      BY <1>1, <1>2, <1>3, <1>9 DEF IsFull
    <2>2. list \in [DOMAIN call.refs -> DOMAIN call.refs]
      <3>1. list \in [DOMAIN list -> Nat]
        BY <1>3
      <3> QED BY <1>6, <2>1, <3>1
    <2>3. list \in Injection(DOMAIN call.refs, DOMAIN call.refs)
      BY <1>7, <2>1, <2>2 DEF Injection, IsInjective
    <2>4. Documents(call, i) = [k \in DOMAIN call.refs |-> call.refs[list[k]]]
      BY <1>2, <2>1 DEF Documents
    <2> QED BY <2>3, <2>4 DEF Permutes
  <1> QED BY <1>8, <1>9

\* What is known of a call.
LEMMA CallShape ==
  ASSUME LoadsInv, NEW l \in DOMAIN loads
  PROVE  /\ DOMAIN loads = 1 .. Len(loads) /\ Len(loads) \in Nat
         /\ loads[l] \in [from : Nat, call : Calls] /\ loads[l].call \in Calls
         /\ loads[l].from \in Made /\ screens[loads[l].from].kind = "course"
         /\ loads[l].call.refs = Grupos[screens[loads[l].from].doc]
         /\ loads[l].call.waiting \subseteq DOMAIN loads[l].call.refs
         /\ \A k \in DOMAIN loads[l].call.list : loads[l].call.list[k] \in DOMAIN loads[l].call.refs
  <1>1. loads \in Seq([from : Nat, call : Calls])
    BY DEF LoadsInv
  <1>2. DOMAIN loads = 1 .. Len(loads) /\ Len(loads) \in Nat
    BY <1>1
  <1>3. loads[l] \in [from : Nat, call : Calls]
    BY <1>1, <1>2, ElementOfSeq
  <1> QED BY <1>2, <1>3 DEF LoadsInv

\* A started call has appended nothing.
LEMMA OnceAsked ==
  ASSUME LoadsInv, OnceInv, NEW from, NEW c, loads' = LoadGroups(from, c)
  PROVE  OnceInv'
  <1> DEFINE new == [from |-> from, call |-> StartLoad(CountOnSuccess, Grupos[c])]
  <1>1. loads' = Append(loads, new)
    BY DEF LoadGroups
  <1>2. AppendedOnce(new.call)
    <2>1. new.call.list = <<>>
      BY DEF StartLoad
    <2>2. DOMAIN new.call.list = {}
      BY <2>1
    <2> QED BY <2>2 DEF AppendedOnce
  <1> HIDE DEF new
  <1>3. PICK n \in Nat : n = Len(loads) + 1 /\ DOMAIN loads = 1 .. Len(loads)
    BY DEF LoadsInv
  <1>4. DOMAIN loads' = 1 .. n /\ loads'[n] = new /\ \A l \in DOMAIN loads : loads'[l] = loads[l]
    <2>1. loads \in Seq([from : Nat, call : Calls] \cup {new})
      BY SeqMonotonic DEF LoadsInv
    <2> QED BY <1>1, <1>3, <2>1, AppendProperties
  <1>5. \A l \in DOMAIN loads' : l \in DOMAIN loads \/ l = n
    <2>1. Len(loads) \in Nat
      BY DEF LoadsInv
    <2> QED BY <1>3, <1>4, <2>1
  <1> QED BY <1>2, <1>4, <1>5 DEF OnceInv

\* Every step appends a document at most once to a call.
LEMMA OnceStep ==
  ASSUME ParentInv, OnceInv, [Next]_vars
  PROVE  OnceInv'
  <1>0. LoadsInv
    BY DEF ParentInv
  <1>1. CASE loads' = loads
    BY <1>1 DEF OnceInv
  <1>2. CASE \E from, c : loads' = LoadGroups(from, c)
    BY <1>0, <1>2, OnceAsked
  <1>3. ASSUME NEW l \in DOMAIN loads, NEW i \in loads[l].call.waiting, NEW found \in BOOLEAN,
               LoadAnswered(l, i, found)
        PROVE  OnceInv'
    <2>1. AppendedOnce(Folded(loads[l].call, i, found))
      BY <1>0, CallShape, RetrievedOnce DEF OnceInv, Folded
    <2>2. loads' = [loads EXCEPT ![l].call = Folded(loads[l].call, i, found)]
      BY <1>3 DEF LoadAnswered
    <2>3. DOMAIN loads' = DOMAIN loads
      BY <2>2
    <2>4. loads'[l].call = Folded(loads[l].call, i, found)
      BY <1>0, <2>2, CallShape
    <2>5. \A m \in DOMAIN loads : m # l => loads'[m] = loads[m]
      BY <2>2
    <2> QED BY <2>1, <2>3, <2>4, <2>5 DEF OnceInv
  <1>4. CASE Back
    <2>1. PICK from, c : from = Last(stack') /\ c = screens[Last(stack')].doc
      OBVIOUS
    <2>2. loads' = loads \/ loads' = LoadGroups(from, c)
      BY <1>4, <2>1 DEF Back
    <2> QED BY <1>1, <1>2, <2>2
  <1>5. ASSUME NEW r \in requests, CourseArrives(r)
        PROVE  OnceInv'
    <2>1. PICK from, c : from = Len(screens) + 1 /\ c = r.doc
      OBVIOUS
    <2>2. loads' = loads \/ loads' = LoadGroups(from, c)
      BY <1>5, <2>1 DEF CourseArrives
    <2> QED BY <1>1, <1>2, <2>2
  <1>6. ASSUME NEW r \in requests, Answered(r), ~CourseArrives(r)
        PROVE  loads' = loads
    BY <1>6 DEF Answered, StudentArrives, GroupArrives, FailureTraps, FailureUnseen
  <1> QED
    BY <1>1, <1>3, <1>4, <1>5, <1>6 DEF Next, vars, OpenMenu, TapCourse, TapGroup

\* One more screen that is whole.
LEMMA WholeMade ==
  ASSUME ScreensInv, RowsInv, NEW s \in Screen, Whole(s), screens' = Append(screens, s)
  PROVE  RowsInv'
  <1>1. PICK n \in Nat : n = Len(screens) + 1
    BY DEF ScreensInv
  <1>2. /\ Len(screens') = n /\ screens'[n] = s /\ \A k \in Made : screens'[k] = screens[k]
    BY <1>1, AppendProperties DEF ScreensInv, Made
  <1>3. Made' = 1 .. n /\ Made = 1 .. n - 1
    BY <1>1, <1>2 DEF Made, ScreensInv
  <1>4. \A k \in Made' : k \in Made \/ k = n
    <2> HIDE DEF Made
    <2> QED BY <1>3
  <1> QED BY <1>2, <1>4 DEF RowsInv

\* A screen is filled again, and is whole.
LEMMA WholeFilled ==
  ASSUME ScreensInv, RowsInv, NEW from \in Made, NEW s, Whole(s),
         screens' = [screens EXCEPT ![from] = s]
  PROVE  RowsInv'
  <1>1. DOMAIN screens = Made /\ DOMAIN screens' = Made /\ Made' = Made
    <2>1. DOMAIN screens = 1 .. Len(screens) /\ Len(screens) \in Nat
      BY DEF ScreensInv
    <2>2. DOMAIN screens' = 1 .. Len(screens)
      BY <2>1
    <2>3. Len(screens') = Len(screens)
      BY <2>1, <2>2
    <2> QED BY <2>1, <2>2, <2>3 DEF Made
  <1>2. \A k \in Made : screens'[k] = IF k = from THEN s ELSE screens[k]
    BY <1>1
  <1> QED BY <1>1, <1>2 DEF RowsInv

\* The student's tables hold what was read, or what they held.
LEMMA StudentWhole ==
  ASSUME ParentInv, RowsInv, NEW r \in requests, NEW e \in Estudiantes, StudentArrives(r, e)
  PROVE  RowsInv'
  <1> DEFINE s == screens[r.from]
             filled == [s EXCEPT !.rows = Filled(s.rows, e)]
  <1>1. r.kind = "estudiante" /\ screens' = [screens EXCEPT ![r.from] = filled]
    BY DEF StudentArrives, Answers
  <1>2. r.from \in Made /\ s \in MenuScreens
    BY <1>1, ScreenKinds, ElementOfSeq DEF ParentInv, RequestsInv, ScreensInv, Made
  <1>3. filled.kind = "menu" /\ filled.rows = Filled(s.rows, e) /\ s.kind = "menu"
    BY <1>2 DEF MenuScreens
  <1>4. Whole(s)
    BY <1>2 DEF RowsInv
  <1>5. \A t \in Tables : Filled(s.rows, e)[t] = IF e[t] # <<>> THEN e[t] ELSE s.rows[t]
    BY DEF Filled
  <1> HIDE DEF s, filled
  <1>6. Whole(filled)
    BY <1>3, <1>4, <1>5 DEF Whole
  <1> QED BY <1>1, <1>2, <1>6, WholeFilled DEF ParentInv

\* A course shows its groups when all of them have come.
LEMMA CourseWhole ==
  ASSUME ParentInv, OnceInv, RowsInv, NEW l \in DOMAIN loads, NEW i \in loads[l].call.waiting,
         NEW found \in BOOLEAN, LoadAnswered(l, i, found)
  PROVE  RowsInv'
  <1> DEFINE call == loads[l].call
             from == loads[l].from
  <1>0. ScreensInv /\ LoadsInv
    BY DEF ParentInv
  <1>1. CASE screens' = screens
    BY <1>1 DEF RowsInv, Made
  <1>2. CASE /\ Heard(call, i, found) # <<>> /\ found
             /\ screens' = [screens EXCEPT ![from].rows.grupos = Documents(call, i)]
    <2>1. /\ call \in Calls /\ from \in Made /\ screens[from].kind = "course"
          /\ call.refs = Grupos[screens[from].doc] /\ AppendedOnce(call)
      BY <1>0, CallShape DEF OnceInv
    <2>2. IsFull(Retrieved(call, i))
      <3>1. Heard(call, i, found) = Callbacks(Retrieved(call, i), i, found)
        BY <1>2 DEF Heard, Folded
      <3>2. Retrieved(call, i).name = CountOnSuccess
        BY <2>1 DEF Retrieved, Calls
      <3>3. Callbacks(Retrieved(call, i), i, found) = IfFull(Retrieved(call, i))
        BY <1>2, <3>2 DEF Callbacks, GroupCallbacks, CountOnSuccess, CountAlways, EachArrival
      <3> QED BY <1>2, <3>1, <3>3 DEF IfFull
    <2>3. Permutes(Documents(call, i), Grupos[screens[from].doc])
      BY <1>0, <2>1, <2>2, CallShape, RetrievedOnce
    <2>4. screens[from] \in CourseScreens
      BY <1>0, <2>1, ScreenKinds, ElementOfSeq DEF ScreensInv, Made
    <2> DEFINE new == [screens[from] EXCEPT !.rows =
                         [screens[from].rows EXCEPT !.grupos = Documents(call, i)]]
    <2>5. /\ new.kind = "course" /\ new.doc = screens[from].doc
          /\ new.rows.grupos = Documents(call, i)
      <3>1. [screens[from].rows EXCEPT !.grupos = Documents(call, i)].grupos = Documents(call, i)
        BY <2>4 DEF CourseScreens
      <3> QED BY <2>4, <3>1 DEF CourseScreens
    <2>6. screens' = [screens EXCEPT ![from] = new]
      BY <1>2
    <2> HIDE DEF new, call, from
    <2>7. Whole(new)
      BY <2>3, <2>5 DEF Whole
    <2> QED BY <1>0, <2>1, <2>6, <2>7, WholeFilled
  <1> QED BY <1>1, <1>2 DEF LoadAnswered

\* The screens that are made are whole: a menu has the rows that say that there
\* is nothing, a course and a group have none.
LEMMA NewWhole ==
  /\ Whole(Menu)
  /\ \A c \in Courses : Whole(Course(c))
  /\ \A g \in Docs : Whole(Group(g))
  <1>1. Whole(Menu)
    <2>1. Menu.kind = "menu" /\ \A t \in Tables : Menu.rows[t] = <<Ninguno>>
      BY DEF Menu
    <2>2. <<Ninguno>> # <<>>
      OBVIOUS
    <2> QED BY <2>1, <2>2 DEF Whole
  <1> QED BY <1>1, NewScreens DEF Whole

\* Every step leaves the tables whole.
LEMMA RowsStep ==
  ASSUME ParentInv, OnceInv, RowsInv, [Next]_vars
  PROVE  RowsInv'
  <1>1. CASE screens' = screens
    BY <1>1 DEF RowsInv, Made
  <1>2. CASE OpenMenu
    BY <1>2, NewScreens, NewWhole, WholeMade DEF OpenMenu, ParentInv
  <1>3. ASSUME NEW r \in requests, CourseArrives(r)
        PROVE  RowsInv'
    <2>1. screens' = screens \/ screens' = Append(screens, Course(r.doc))
      BY <1>3 DEF CourseArrives
    <2>2. r.doc \in Courses
      BY <1>3 DEF CourseArrives
    <2> QED BY <1>1, <2>1, <2>2, NewScreens, NewWhole, WholeMade DEF ParentInv
  <1>4. ASSUME NEW r \in requests, GroupArrives(r)
        PROVE  RowsInv'
    <2>1. screens' = screens \/ screens' = Append(screens, Group(r.doc))
      BY <1>4 DEF GroupArrives
    <2>2. r.doc \in Docs
      BY <1>4 DEF GroupArrives, Answers, ParentInv, RequestsInv
    <2> QED BY <1>1, <2>1, <2>2, NewScreens, NewWhole, WholeMade DEF ParentInv
  <1>5. ASSUME NEW r \in requests, Answered(r)
        PROVE  RowsInv'
    <2>1. CASE FailureTraps(r) \/ FailureUnseen(r)
      BY <1>1, <2>1 DEF FailureTraps, FailureUnseen
    <2> QED BY <1>3, <1>4, <1>5, <2>1, StudentWhole DEF Answered
  <1>6. ASSUME NEW l \in DOMAIN loads, NEW i \in loads[l].call.waiting, NEW found \in BOOLEAN,
               LoadAnswered(l, i, found)
        PROVE  RowsInv'
    BY <1>6, CourseWhole
  <1> QED
    BY <1>1, <1>2, <1>5, <1>6 DEF Next, vars, Back, TapCourse, TapGroup

\* A request is numbered, and names a screen and a document.
LEMMA Numbered ==
  ASSUME AskedInv, NEW kind \in {"estudiante", "curso", "grupo"}, NEW from \in Made',
         NEW doc \in Courses \cup Docs \cup {Ninguno}, Ask(kind, from, doc),
         Made \subseteq Made', trapped' = trapped
  PROVE  AskedInv'
  <1>1. /\ sent \in Nat /\ sent < MaxRequests /\ sent' = sent + 1 /\ hud' = kind
        /\ requests' = requests \cup {[n |-> sent + 1, kind |-> kind, from |-> from, doc |-> doc]}
    BY RequestsAssumption DEF Ask, AskedInv
  <1>2. sent' \in 0 .. MaxRequests /\ sent + 1 \in 1 .. sent' /\ 1 .. sent \subseteq 1 .. sent'
    BY <1>1, RequestsAssumption
  <1>3. ASSUME NEW r \in requests'
        PROVE  r \in [n : 1 .. sent', kind : {"estudiante", "curso", "grupo"},
                      from : Made', doc : Courses \cup Docs \cup {Ninguno}]
    <2>1. CASE r \in requests
      BY <1>2, <2>1 DEF AskedInv
    <2>2. CASE r = [n |-> sent + 1, kind |-> kind, from |-> from, doc |-> doc]
      BY <1>2, <2>2
    <2> QED BY <1>1, <2>1, <2>2
  <1> QED BY <1>1, <1>2, <1>3 DEF AskedInv

\* The screen on top has been made.
LEMMA TopMade ==
  ASSUME NEW S, NEW s \in Seq(S), s # <<>>
  PROVE  Last(s) \in S
  <1>1. Len(s) \in 1 .. Len(s)
    BY EmptySeq
  <1> QED BY <1>1, ElementOfSeq DEF Last

\* Every step keeps the shape of the requests.
LEMMA AskedStep ==
  ASSUME ParentInv, ParentInv', AskedInv, [Next]_vars
  PROVE  AskedInv'
  <1>1. ASSUME UNCHANGED sent, requests' \subseteq requests, Made \subseteq Made',
               hud' \in {"hidden", hud}, trapped' \in BOOLEAN
        PROVE  AskedInv'
    BY <1>1 DEF AskedInv
  <1>2. screens' = screens => Made' = Made
    BY DEF Made
  <1>3. \A s \in Screen : screens' = Append(screens, s) => /\ Made \subseteq Made'
                                                           /\ Len(screens) + 1 \in Made'
    <2> SUFFICES ASSUME NEW s \in Screen, screens' = Append(screens, s)
                 PROVE  Made \subseteq Made' /\ Len(screens) + 1 \in Made'
      OBVIOUS
    <2>1. PICK n \in Nat : n = Len(screens) /\ Len(screens') = n + 1
      BY AppendProperties DEF ParentInv, ScreensInv
    <2> QED BY <2>1 DEF Made
  <1>4. CASE OpenMenu
    <2>1. PICK from \in Made' : from = Len(screens) + 1 /\ Made \subseteq Made'
      BY <1>3, <1>4, NewScreens DEF OpenMenu
    <2> QED BY <1>4, <2>1, Numbered DEF OpenMenu
  <1>5. ASSUME Back
        PROVE  AskedInv'
    <2>1. CASE UNCHANGED <<sent, requests, hud>>
      BY <1>1, <1>2, <1>5, <2>1 DEF Back, AskedInv
    <2>2. CASE stack' # <<>> /\ Ask("estudiante", Last(stack'), Ninguno)
      <3>1. PICK from \in Made' : from = Last(stack')
        BY <2>2, TopMade DEF ParentInv
      <3> QED BY <1>2, <1>5, <2>2, <3>1, Numbered DEF Back
    <2> QED BY <1>5, <2>1, <2>2 DEF Back
  <1>6. ASSUME NEW row, \/ row \in Courses \cup {Ninguno} /\ TapCourse(row)
                        \/ row \in Docs /\ TapGroup(row)
        PROVE  AskedInv'
    <2>1. screens' = screens /\ trapped' = trapped /\ stack # <<>>
      BY <1>6 DEF TapCourse, TapGroup, Shows
    <2>2. PICK from \in Made : from = Last(stack)
      BY <2>1, TopMade DEF ParentInv
    <2>3. Ask("curso", from, row) \/ Ask("grupo", from, row)
      BY <1>6, <2>2 DEF TapCourse, TapGroup
    <2> QED BY <1>2, <1>6, <2>1, <2>2, <2>3, Numbered
  <1>7. ASSUME NEW r \in requests, Answered(r)
        PROVE  AskedInv'
    <2>1. Made \subseteq Made'
      <3>1. CASE screens' = screens
        BY <1>2, <3>1
      <3>2. CASE \E e \in Estudiantes : StudentArrives(r, e)
        <4>1. DOMAIN screens' = DOMAIN screens
          BY <3>2 DEF StudentArrives
        <4>2. screens \in Seq(Screen) /\ screens' \in Seq(Screen)
          BY DEF ParentInv, ScreensInv
        <4>3. DOMAIN screens = 1 .. Len(screens) /\ DOMAIN screens' = 1 .. Len(screens')
          BY <4>2
        <4> QED BY <4>1, <4>3 DEF Made
      <3>3. CASE CourseArrives(r)
        BY <1>2, <1>3, <3>3, NewScreens DEF CourseArrives
      <3>4. CASE GroupArrives(r)
        BY <1>2, <1>3, <3>4, NewScreens DEF GroupArrives, Answers, ParentInv, RequestsInv
      <3> QED
        BY <1>7, <3>1, <3>2, <3>3, <3>4 DEF Answered, FailureTraps, FailureUnseen
    <2>2. UNCHANGED sent /\ requests' \subseteq requests /\ hud' \in {"hidden", hud}
          /\ trapped' \in BOOLEAN
      BY <1>7 DEF Answered, StudentArrives, CourseArrives, GroupArrives, FailureTraps,
                  FailureUnseen, Answers, AskedInv
    <2> QED BY <1>1, <2>1, <2>2
  <1>8. ASSUME NEW l \in DOMAIN loads, NEW i \in loads[l].call.waiting, NEW found \in BOOLEAN,
               LoadAnswered(l, i, found)
        PROVE  AskedInv'
    <2>1. Made \subseteq Made'
      BY <1>8, GroupsAnswered DEF ParentInv, Extends
    <2>2. UNCHANGED <<sent, requests, hud>> /\ trapped' \in BOOLEAN
      BY <1>8 DEF LoadAnswered
    <2> QED BY <1>1, <2>1, <2>2
  <1>9. CASE UNCHANGED vars
    BY <1>1, <1>2, <1>9 DEF vars, AskedInv
  <1> QED BY <1>4, <1>5, <1>6, <1>7, <1>8, <1>9 DEF Next

\* The invariant holds on the home screen.
LEMMA WholeInit == Init => WholeInv
  <1> SUFFICES ASSUME Init PROVE WholeInv
    OBVIOUS
  <1>1. ParentInv
    BY ParentInit
  <1>2. Len(screens) = 0 /\ DOMAIN loads = {} /\ sent = 0 /\ requests = {}
        /\ hud = "hidden" /\ trapped = FALSE
    BY DEF Init
  <1>3. Made = {}
    BY <1>2 DEF Made
  <1>4. 0 \in 0 .. MaxRequests
    BY RequestsAssumption
  <1> QED BY <1>1, <1>2, <1>3, <1>4 DEF WholeInv, AskedInv, OnceInv, RowsInv

\* Every step keeps the invariant.
LEMMA WholeStep == WholeInv /\ [Next]_vars => WholeInv'
  BY ParentStep, AskedStep, OnceStep, RowsStep DEF WholeInv

\* The invariant says of the positions of "screens" what the properties say of
\* its members.
LEMMA WholeShape == WholeInv => TypeOK /\ TablesWhole
  <1> SUFFICES ASSUME WholeInv PROVE TypeOK /\ TablesWhole
    OBVIOUS
  <1>1. screens \in Seq(Screen) /\ DOMAIN screens = Made
    BY DEF WholeInv, ParentInv, ScreensInv, Made
  <1>2. \A s \in Range(screens) : s \in Screen /\ Whole(s)
    <2> SUFFICES ASSUME NEW k \in DOMAIN screens PROVE screens[k] \in Screen /\ Whole(screens[k])
      BY DEF Range
    <2>1. screens[k] \in Screen
      BY <1>1, ElementOfSeq DEF Made
    <2>2. Whole(screens[k])
      BY <1>1 DEF WholeInv, RowsInv
    <2> QED BY <2>1, <2>2
  <1>3. TypeOK
    <2>1. \A s \in Range(screens) : s.kind \in {"menu", "course", "group"}
      BY <1>2, ScreenKinds
    <2>2. \A l \in DOMAIN loads : /\ screens[loads[l].from].kind = "course"
                                  /\ loads[l].call.waiting \subseteq DOMAIN loads[l].call.refs
      BY DEF WholeInv, ParentInv, LoadsInv
    <2>3. stack \in Seq(DOMAIN screens)
      BY <1>1 DEF WholeInv, ParentInv
    <2> QED BY <1>1, <2>1, <2>2, <2>3 DEF WholeInv, AskedInv, TypeOK
  <1> QED BY <1>2, <1>3 DEF TablesWhole, Whole

\* Whatever appearances and answers overlap, a table of the menu holds what one
\* reading of the student said and is never empty, and a course shows all of
\* its groups or none (ProjectMenuViewController and CoursesViewController,
\* setupDynamicData).
THEOREM TablesAlwaysWhole == Spec => []TablesWhole
  <1>1. WholeInv => TablesWhole
    BY WholeShape
  <1> QED BY <1>1, WholeInit, WholeStep, PTL DEF Spec
=============================================================================
