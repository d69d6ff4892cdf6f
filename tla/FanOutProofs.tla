---------------------------- MODULE FanOutProofs ----------------------------
(***************************************************************************)
(* Proofs about one call of a list loader, for every set of documents and  *)
(* every bound on the list.                                                *)
(***************************************************************************)
EXTENDS FanOut, FiniteSetTheorems, SequenceTheorems, TLAPS

USE DEF Positions

-----------------------------------------------------------------------------
(* Operators of Loaders. *)

\* A reference list is a sequence of documents, whose indices are positions.
LEMMA RefListsType ==
  ASSUME NEW refs \in RefLists
  PROVE  /\ refs \in Seq(Docs)
         /\ DOMAIN refs = 1 .. Len(refs)
         /\ Len(refs) \in 0 .. MaxRefs
         /\ DOMAIN refs \subseteq Positions
<1>1. PICK n \in 0 .. MaxRefs : refs \in [1 .. n -> Docs]
  BY DEF RefLists
<1>2. refs \in Seq(Docs) /\ Len(refs) = n
  BY <1>1, MaxRefsAssumption
<1> QED
  BY <1>1, <1>2, MaxRefsAssumption

\* A call that starts has the shape of a call.
LEMMA StartLoadType ==
  ASSUME NEW name \in Names, NEW refs \in RefLists
  PROVE  StartLoad(name, refs) \in Load
  BY RefListsType, EmptySeq DEF StartLoad, Load

\* An arrival takes a position off the waiting ones and appends it.
LEMMA RetrievedType ==
  ASSUME NEW l \in Load, NEW i \in Positions
  PROVE  /\ Retrieved(l, i) \in Load
         /\ Retrieved(l, i).name = l.name
         /\ Retrieved(l, i).refs = l.refs
         /\ Retrieved(l, i).waiting = l.waiting \ {i}
         /\ Retrieved(l, i).list = Append(l.list, i)
<1>1. Append(l.list, i) \in Seq(Positions) /\ l.waiting \ {i} \in SUBSET Positions
  BY AppendProperties DEF Load
<1>2. /\ Retrieved(l, i) = [[l EXCEPT !.waiting = l.waiting \ {i}]
                              EXCEPT !.list = Append(l.list, i)]
      /\ [l EXCEPT !.waiting = l.waiting \ {i}] \in Load
  BY <1>1 DEF Retrieved, Load
<1> QED
  BY <1>1, <1>2 DEF Load

\* A failure takes a position off the waiting ones and appends nothing.
LEMMA NotRetrievedType ==
  ASSUME NEW l \in Load, NEW i \in Positions
  PROVE  /\ NotRetrieved(l, i) \in Load
         /\ NotRetrieved(l, i).name = l.name
         /\ NotRetrieved(l, i).refs = l.refs
         /\ NotRetrieved(l, i).waiting = l.waiting \ {i}
         /\ NotRetrieved(l, i).list = l.list
  BY DEF NotRetrieved, Load

\* A callback hands over nil or an array of positions.
LEMMA CallbacksType ==
  ASSUME NEW l \in Load, NEW i, NEW found \in BOOLEAN
  PROVE  Callbacks(l, i, found) \in Seq(Reply)
<1>1. Nil \in Reply /\ ListOf(l) \in Reply
  BY EmptySeq DEF Nil, ListOf, Load, Reply
<1>2. <<Nil>> \in Seq(Reply) /\ <<ListOf(l)>> \in Seq(Reply) /\ <<>> \in Seq(Reply)
  BY <1>1
<1>3. IfFull(l) \in Seq(Reply)
  BY <1>2 DEF IfFull
<1>4. MemberCallbacks(l, found) \in Seq(Reply)
  BY <1>2, <1>3, ConcatProperties DEF MemberCallbacks
<1> QED
  BY <1>2, <1>3, <1>4 DEF Callbacks, GroupCallbacks, TaskCallbacks, TareaCallbacks

\* What a counted loader says on a document, and on a failure while a
\* position is missing.
LEMMA CountedCallbacks ==
  ASSUME NEW l \in Load, NEW i, l.name \in Counted
  PROVE  /\ Callbacks(l, i, TRUE) = IfFull(l)
         /\ ~IsFull(l) => Callbacks(l, i, FALSE) = <<Nil>>
<1> USE DEF CountOnSuccess, CountAlways, EachArrival
<1>1. IfFull(l) \in Seq(Reply) /\ <<Nil>> \in Seq(Reply)
  <2>1. Nil \in Reply /\ ListOf(l) \in Reply
    BY EmptySeq DEF Nil, ListOf, Load, Reply
  <2> QED
    BY <2>1 DEF IfFull
<1>2. <<>> \o IfFull(l) = IfFull(l) /\ <<Nil>> \o <<>> = <<Nil>>
  BY <1>1, ConcatEmptySeq
<1>3. ~IsFull(l) => IfFull(l) = <<>>
  BY DEF IfFull
<1>4. CASE l.name = CountOnSuccess
  BY <1>4 DEF Callbacks, GroupCallbacks
<1>5. CASE l.name \in CountAlways
  <2>1. l.name # CountOnSuccess
    BY <1>5
  <2>2. Callbacks(l, i, TRUE) = <<>> \o IfFull(l)
    BY <1>5, <2>1 DEF Callbacks, MemberCallbacks
  <2>3. Callbacks(l, i, FALSE) = <<Nil>> \o IfFull(l)
    BY <1>5, <2>1 DEF Callbacks, MemberCallbacks
  <2> QED
    BY <1>2, <1>3, <2>2, <2>3
<1> QED
  BY <1>4, <1>5 DEF Counted

\* Pigeonhole: an array of as many different positions as there are
\* references names every reference.
LEMMA FullListCovers ==
  ASSUME NEW n \in Nat, NEW list \in Seq(1 .. n), Len(list) = n,
         \A j, k \in DOMAIN list : list[j] = list[k] => j = k
  PROVE  \A p \in 1 .. n : \E k \in DOMAIN list : list[k] = p
<1>1. list \in [1 .. n -> 1 .. n] /\ DOMAIN list = 1 .. n
  BY LenProperties
<1>2. list \in Injection(1 .. n, 1 .. n)
  BY <1>1 DEF Injection, IsInjective
<1>3. IsFiniteSet(1 .. n)
  BY FS_Interval
<1>4. list \in Surjection(1 .. n, 1 .. n)
  BY <1>2, <1>3, FS_Injection
<1> QED
  BY <1>1, <1>4 DEF Surjection
-----------------------------------------------------------------------------
\* The calls, their requests and their answers keep their shape.
THEOREM TypeCorrect == Spec => []TypeOK
<1>1. Init => TypeOK
  <2> SUFFICES ASSUME Init PROVE TypeOK
    OBVIOUS
  <2>1. PICK name \in Names, refs \in RefLists : load = StartLoad(name, refs)
    BY DEF Init
  <2>2. load \in Load /\ load.waiting = DOMAIN load.refs
    BY <2>1, StartLoadType DEF StartLoad
  <2> QED
    BY <2>2, EmptySeq DEF Init, TypeOK
<1>2. TypeOK /\ [Next]_vars => TypeOK'
  <2> SUFFICES ASSUME TypeOK, [Next]_vars PROVE TypeOK'
    OBVIOUS
  <2>1. ASSUME NEW i \in Positions, Arrives(i) PROVE TypeOK'
    <3>1. load' \in Load /\ (load.waiting \subseteq DOMAIN load.refs)'
      BY <2>1, RetrievedType DEF Arrives, TypeOK
    <3>2. Callbacks(load', i, TRUE) \in Seq(Reply)
      BY <3>1, CallbacksType
    <3> QED
      BY <2>1, <3>1, <3>2, ConcatProperties DEF Arrives, TypeOK
  <2>2. ASSUME NEW i \in Positions, Fails(i) PROVE TypeOK'
    <3>1. load' \in Load /\ (load.waiting \subseteq DOMAIN load.refs)'
      BY <2>2, NotRetrievedType DEF Fails, TypeOK
    <3>2. Callbacks(load', i, FALSE) \in Seq(Reply)
      BY <3>1, CallbacksType
    <3> QED
      BY <2>2, <3>1, <3>2, ConcatProperties DEF Fails, TypeOK
  <2>3. ASSUME NEW i \in Positions, IsAbsent(i) PROVE TypeOK'
    BY <2>3 DEF IsAbsent, TypeOK
  <2>4. CASE UNCHANGED vars
    BY <2>4 DEF vars, TypeOK
  <2> QED
    BY <2>1, <2>2, <2>3, <2>4 DEF Next, Answer
<1> QED
  BY <1>1, <1>2, PTL DEF Spec
-----------------------------------------------------------------------------
(* A counted loader has one verdict.                                        *)

\* A full array of different positions names every reference: this is what
\* the comparison of two counts in the code stands for.
WholeLoad ==
  /\ \A p \in DOMAIN load.refs : p \in Appended
  /\ load.waiting = {}
  /\ Promise!IsWhole(load.list)

\* A full array names every reference, and nothing is awaited.
LEMMA FullIsWhole == TypeOK /\ AppendedOnce /\ IsFull(load) => WholeLoad
<1> SUFFICES ASSUME TypeOK, AppendedOnce, IsFull(load) PROVE WholeLoad
  OBVIOUS
<1>1. /\ Len(load.refs) \in Nat
      /\ DOMAIN load.refs = 1 .. Len(load.refs)
      /\ Len(load.list) = Len(load.refs)
  BY RefListsType DEF TypeOK, Load, IsFull
<1>2. load.list \in Seq(1 .. Len(load.refs))
  <2>1. load.list \in Seq(Positions) /\ DOMAIN load.list = 1 .. Len(load.list)
    BY LenProperties DEF TypeOK, Load
  <2>2. \A k \in 1 .. Len(load.list) : load.list[k] \in 1 .. Len(load.refs)
    BY <1>1, <2>1 DEF AppendedOnce, Appended
  <2>3. load.list = [k \in 1 .. Len(load.list) |-> load.list[k]]
    BY <2>1, LenProperties
  <2> QED
    BY <1>1, <2>2, <2>3
<1>3. \A p \in DOMAIN load.refs : \E k \in DOMAIN load.list : load.list[k] = p
  BY <1>1, <1>2, FullListCovers DEF AppendedOnce
<1>4. \A p \in DOMAIN load.refs : p \in Appended
  BY <1>3 DEF Appended
<1>5. load.waiting = {}
  BY <1>4 DEF AppendedOnce, TypeOK
<1> QED
  BY <1>1, <1>3, <1>4, <1>5 DEF WholeLoad, Promise!IsWhole

\* While a position is awaited the array is not full, so the caller has not
\* been given a list.
LEMMA AwaitedNotFull ==
  ASSUME TypeOK, AppendedOnce, NEW i, Awaits(i)
  PROVE  ~IsFull(load)
  BY FullIsWhole DEF WholeLoad, Awaits

\* One completion call appended to the replies.
LEMMA OneMoreReply ==
  ASSUME NEW r \in Seq(Reply), NEW a \in Reply
  PROVE  /\ r \o <<a>> \in Seq(Reply)
         /\ Len(r \o <<a>>) = Len(r) + 1
         /\ DOMAIN (r \o <<a>>) = 1 .. Len(r) + 1
         /\ DOMAIN r = 1 .. Len(r)
         /\ \A k \in 1 .. Len(r) : (r \o <<a>>)[k] = r[k]
         /\ (r \o <<a>>)[Len(r) + 1] = a
<1>1. <<a>> \in Seq(Reply) /\ Len(<<a>>) = 1 /\ <<a>>[1] = a
  OBVIOUS
<1> QED
  BY <1>1, ConcatProperties, LenProperties

\* A document appends its position, which was awaited, so it is new.
LEMMA ArrivesOnce ==
  ASSUME TypeOK, AppendedOnce, NEW i \in Positions, Arrives(i)
  PROVE  /\ AppendedOnce'
         /\ Appended' = Appended \cup {i}
         /\ load'.refs = load.refs
         /\ load'.name = load.name
         /\ load'.waiting = load.waiting \ {i}
<1>1. /\ load' \in Load
      /\ load'.refs = load.refs
      /\ load'.name = load.name
      /\ load'.waiting = load.waiting \ {i}
      /\ load'.list = Append(load.list, i)
  BY RetrievedType DEF Arrives, TypeOK
<1>2. /\ load.list \in Seq(Positions)
      /\ DOMAIN load.list = 1 .. Len(load.list)
      /\ DOMAIN load'.list = 1 .. Len(load.list) + 1
      /\ \A k \in 1 .. Len(load.list) : load'.list[k] = load.list[k]
      /\ load'.list[Len(load.list) + 1] = i
      /\ Len(load.list) \in Nat
  BY <1>1, AppendProperties, LenProperties DEF TypeOK, Load
<1>3. Appended' = Appended \cup {i}
  <2>1. Appended' = {load'.list[k] : k \in 1 .. Len(load.list) + 1}
    BY <1>2 DEF Appended
  <2>2. Appended = {load.list[k] : k \in 1 .. Len(load.list)}
    BY <1>2 DEF Appended
  <2>3. 1 .. Len(load.list) + 1 = (1 .. Len(load.list)) \cup {Len(load.list) + 1}
    BY <1>2
  <2> QED
    BY <1>2, <2>1, <2>2, <2>3
<1>4. i \notin Appended /\ i \in DOMAIN load.refs
  BY DEF Arrives, Awaits, AppendedOnce, TypeOK
<1>5. Appended' \subseteq DOMAIN load'.refs \ load'.waiting
  BY <1>1, <1>3, <1>4 DEF AppendedOnce
<1>6. \A j, k \in DOMAIN load'.list : load'.list[j] = load'.list[k] => j = k
  <2>1. \A k \in 1 .. Len(load.list) : load.list[k] # i
    BY <1>2, <1>4 DEF Appended
  <2>2. \A k \in DOMAIN load'.list : k \in 1 .. Len(load.list) \/ k = Len(load.list) + 1
    BY <1>2
  <2> QED
    BY <1>2, <2>1, <2>2 DEF AppendedOnce
<1> QED
  BY <1>1, <1>3, <1>5, <1>6 DEF AppendedOnce

\* What the caller of a counted loader hears when a document arrives: nothing
\* yet, or, for the first time, the full array.
LEMMA ArrivesSays ==
  ASSUME VerdictInv, TypeOK', NEW i \in Positions, Arrives(i),
         load.name \in Counted
  PROVE  /\ Lists = {}
         /\ \/ ~IsFull(load') /\ replies' = replies
            \/ IsFull(load') /\ replies = <<>> /\ replies' = <<ListOf(load')>>
<1>0. TypeOK /\ AppendedOnce /\ NilIsForGood /\ ListIsFull
  BY DEF VerdictInv
<1>1. /\ AppendedOnce'
      /\ Appended' = Appended \cup {i}
      /\ load'.refs = load.refs
      /\ load'.name = load.name
      /\ load'.waiting = load.waiting \ {i}
  BY <1>0, ArrivesOnce
<1>2. Lists = {}
  BY <1>0, AwaitedNotFull DEF Arrives, ListIsFull
<1>3. replies' = replies \o IfFull(load')
  BY <1>1, CountedCallbacks DEF Arrives, TypeOK
<1>4. CASE ~IsFull(load')
  BY <1>0, <1>2, <1>3, <1>4, ConcatEmptySeq DEF IfFull, TypeOK
<1>5. CASE IsFull(load')
  <2>1. \A p \in DOMAIN load.refs : p \in Appended \cup {i}
    <3>1. (TypeOK /\ AppendedOnce /\ IsFull(load) => WholeLoad)'
      BY FullIsWhole, PTL
    <3>2. AppendedOnce' /\ IsFull(load)'
      BY <1>1, <1>5
    <3> QED
      BY <1>1, <3>1, <3>2 DEF WholeLoad
  <2>2. Nils = {}
    BY <1>0, <2>1 DEF NilIsForGood, Arrives, Awaits
  <2>3. DOMAIN replies = 1 .. Len(replies) /\ Len(replies) \in Nat
    BY <1>0, LenProperties DEF TypeOK
  <2>4. \A k \in DOMAIN replies : replies[k] \in Reply
    BY <1>0, <2>3, ElementOfSeq DEF TypeOK
  <2>5. DOMAIN replies = {}
    BY <1>2, <2>2, <2>4 DEF Lists, Nils, Reply
  <2>6. replies = <<>>
    BY <1>0, <2>3, <2>5, EmptySeq DEF TypeOK
  <2> QED
    BY <1>2, <1>3, <1>5, <2>6 DEF IfFull
<1> QED
  BY <1>2, <1>4, <1>5

\* A failure is reported with one nil, and no list was handed over before.
LEMMA FailsSays ==
  ASSUME VerdictInv, NEW i \in Positions, Fails(i), load.name \in Counted
  PROVE  /\ Lists = {}
         /\ replies' = replies \o <<Nil>>
         /\ Nil \in Reply
         /\ load'.refs = load.refs
         /\ load'.name = load.name
         /\ load'.waiting = load.waiting \ {i}
         /\ load'.list = load.list
<1>1. /\ load' \in Load
      /\ load'.refs = load.refs
      /\ load'.name = load.name
      /\ load'.waiting = load.waiting \ {i}
      /\ load'.list = load.list
  BY NotRetrievedType DEF Fails, VerdictInv, TypeOK
<1>2. Lists = {} /\ ~IsFull(load)
  BY AwaitedNotFull DEF Fails, ListIsFull, VerdictInv
<1>3. replies' = replies \o <<Nil>>
  BY <1>1, <1>2, CountedCallbacks DEF Fails, IsFull
<1>4. Nil \in Reply
  BY EmptySeq DEF Nil, Reply
<1> QED
  BY <1>1, <1>2, <1>3, <1>4

\* Each answer of Firestore keeps the invariant.
LEMMA VerdictInvStep == TypeOK' /\ VerdictInv /\ [Next]_vars => VerdictInv'
<1> SUFFICES ASSUME TypeOK', VerdictInv, [Next]_vars PROVE VerdictInv'
  OBVIOUS
<1> DEFINE C == load.name \in Counted
<1>0. TypeOK /\ AppendedOnce /\ (C => NilIsForGood /\ ListIsFull)
  BY DEF VerdictInv
<1>1. ASSUME NEW i \in Positions, Arrives(i) PROVE VerdictInv'
  <2>1. /\ AppendedOnce'
        /\ Appended' = Appended \cup {i}
        /\ load'.refs = load.refs
        /\ load'.name = load.name
        /\ load'.waiting = load.waiting \ {i}
    BY <1>0, <1>1, ArrivesOnce
  <2>2. ASSUME C PROVE NilIsForGood' /\ ListIsFull'
    <3>1. /\ Lists = {}
          /\ \/ ~IsFull(load') /\ replies' = replies
             \/ IsFull(load') /\ replies = <<>> /\ replies' = <<ListOf(load')>>
      BY <1>1, <2>2, ArrivesSays
    <3>2. CASE ~IsFull(load') /\ replies' = replies
      BY <1>0, <1>1, <2>1, <2>2, <3>1, <3>2
      DEF NilIsForGood, ListIsFull, Lists, Nils, Arrives, Awaits
    <3>3. CASE IsFull(load') /\ replies = <<>> /\ replies' = <<ListOf(load')>>
      BY <3>3 DEF NilIsForGood, ListIsFull, Nils, ListOf
    <3> QED
      BY <3>1, <3>2, <3>3
  <2> QED
    BY <2>1, <2>2 DEF VerdictInv
<1>2. ASSUME NEW i \in Positions, Fails(i) PROVE VerdictInv'
  <2>1. /\ load' \in Load
        /\ load'.refs = load.refs
        /\ load'.name = load.name
        /\ load'.waiting = load.waiting \ {i}
        /\ load'.list = load.list
    BY <1>0, <1>2, NotRetrievedType DEF Fails, TypeOK
  <2>2. Appended' = Appended /\ AppendedOnce'
    BY <1>0, <2>1 DEF AppendedOnce, Appended
  <2>3. i \in DOMAIN load.refs \ load'.waiting /\ i \notin Appended
    BY <1>0, <1>2, <2>1 DEF Fails, Awaits, AppendedOnce, TypeOK
  <2>4. ASSUME C PROVE NilIsForGood' /\ ListIsFull'
    <3>1. Lists = {} /\ replies' = replies \o <<Nil>> /\ Nil \in Reply
      BY <1>2, <2>4, FailsSays
    <3>2. /\ DOMAIN replies' = 1 .. Len(replies) + 1
          /\ DOMAIN replies = 1 .. Len(replies)
          /\ \A k \in 1 .. Len(replies) : replies'[k] = replies[k]
          /\ replies'[Len(replies) + 1] = Nil
          /\ Len(replies) \in Nat
      BY <1>0, <3>1, OneMoreReply, LenProperties DEF TypeOK
    <3>3. Lists' = {}
      BY <3>1, <3>2 DEF Lists, Nil
    <3>4. NilIsForGood'
      BY <2>1, <2>2, <2>3 DEF NilIsForGood
    <3> QED
      BY <3>3, <3>4 DEF ListIsFull
  <2> QED
    BY <2>1, <2>2, <2>4 DEF VerdictInv
<1>3. ASSUME NEW i \in Positions, IsAbsent(i) PROVE VerdictInv'
  BY <1>0, <1>3 DEF IsAbsent, VerdictInv, AppendedOnce, Appended, NilIsForGood,
                    ListIsFull, Nils, Lists, IsFull, ListOf
<1>4. CASE UNCHANGED vars
  BY <1>0, <1>4 DEF vars, VerdictInv, AppendedOnce, Appended, NilIsForGood,
                    ListIsFull, Nils, Lists, IsFull, ListOf
<1> QED
  BY <1>1, <1>2, <1>3, <1>4 DEF Next, Answer

\* A call that was just made satisfies the invariant.
LEMMA VerdictInvInit == TypeOK /\ Init => VerdictInv
<1> SUFFICES ASSUME TypeOK, Init PROVE VerdictInv
  OBVIOUS
<1>1. load.list = <<>> /\ replies = <<>>
  BY DEF Init, StartLoad
<1>2. DOMAIN load.list = {} /\ DOMAIN replies = {}
  BY <1>1
<1> QED
  BY <1>2 DEF VerdictInv, AppendedOnce, Appended, NilIsForGood, ListIsFull,
              Nils, Lists

\* The inductive invariant that the run checks, for every call of a loader of
\* FirebaseController and every order of the answers.
THEOREM VerdictInvariant == Spec => []VerdictInv
BY TypeCorrect, VerdictInvInit, VerdictInvStep, PTL DEF Spec

\* The invariant says in particular that a list is the only thing said.
LEMMA VerdictInvImplies == VerdictInv => OneVerdict
<1> SUFFICES ASSUME VerdictInv, load.name \in Counted, NEW k \in Lists
             PROVE  replies = <<replies[k]>> /\ Promise!IsWhole(replies[k].list)
  BY DEF OneVerdict
<1>1. IsFull(load) /\ replies = <<ListOf(load)>>
  BY DEF VerdictInv, ListIsFull
<1>2. DOMAIN replies = {1}
  BY <1>1
<1>3. k = 1
  BY <1>2 DEF Lists
<1>4. replies[k] = ListOf(load) /\ replies[k].list = load.list
  BY <1>1, <1>3 DEF ListOf
<1>5. Promise!IsWhole(load.list)
  BY <1>1, FullIsWhole DEF VerdictInv, WholeLoad
<1> QED
  BY <1>1, <1>4, <1>5

\* Whatever the order of answers and failures, a list from the group, student
\* or team loader names every reference once and is the only thing said.
THEOREM OneVerdictHolds == Spec => []OneVerdict
BY VerdictInvariant, VerdictInvImplies, PTL
-----------------------------------------------------------------------------
(* The counted loaders implement what the screens rely on.                  *)

\* A call that was just made has said nothing.
LEMMA PromiseInit == Init => Promise!Init
<1> SUFFICES ASSUME Init PROVE Promise!Init
  OBVIOUS
<1>1. load.refs \in RefLists /\ replies = <<>>
  BY DEF Init, StartLoad
<1> QED
  BY <1>1 DEF Promise!Init, Promise!Nothing, Told, ToldCounted, RefLists

\* A step changes neither the loader nor the references.
LEMMA SameCall ==
  ASSUME TypeOK, [Next]_vars
  PROVE  load'.name = load.name /\ load'.refs = load.refs
BY DEF TypeOK, Load, Next, Answer, Arrives, Fails, IsAbsent, vars, Retrieved, NotRetrieved

\* Each answer is a step of the promise, or tells the caller nothing.
LEMMA PromiseStep ==
  ASSUME load.name \in Counted, VerdictInv, TypeOK', [Next]_vars
  PROVE  [Promise!Next]_Promise!vars
<1>0. TypeOK /\ load.name \in Counted
  BY DEF VerdictInv
<1>a. ToldCounted = Told /\ ToldCounted' = Told'
  BY <1>0, SameCall DEF ToldCounted
<1>1. ASSUME NEW i \in Positions, Arrives(i) PROVE [Promise!Next]_Promise!vars
  <2>1. /\ AppendedOnce'
        /\ load'.refs = load.refs
    BY <1>0, <1>1, ArrivesOnce DEF VerdictInv
  <2>2. \/ ~IsFull(load') /\ replies' = replies
        \/ IsFull(load') /\ replies = <<>> /\ replies' = <<ListOf(load')>>
    BY <1>0, <1>1, ArrivesSays
  <2>3. CASE replies' = replies
    BY <1>a, <2>1, <2>3 DEF Promise!vars, Told
  <2>4. CASE IsFull(load') /\ replies = <<>> /\ replies' = <<ListOf(load')>>
    <3>1. (TypeOK /\ AppendedOnce /\ IsFull(load) => WholeLoad)'
      BY FullIsWhole, PTL
    <3>2. Promise!IsWhole(load'.list)
      BY <2>1, <2>4, <3>1 DEF WholeLoad, Promise!IsWhole
    <3>3. load'.list \in [DOMAIN load.refs -> DOMAIN load.refs]
      <4>1. load'.list \in Seq(Positions) /\ load'.refs \in RefLists
        BY DEF TypeOK, Load
      <4>2. /\ DOMAIN load'.list = DOMAIN load.refs
            /\ load'.list = [k \in DOMAIN load'.list |-> load'.list[k]]
        BY <2>1, <2>4, <4>1, LenProperties, RefListsType DEF IsFull
      <4>3. \A k \in DOMAIN load'.list : load'.list[k] \in DOMAIN load.refs
        BY <2>1 DEF AppendedOnce, Appended
      <4> QED
        BY <4>2, <4>3
    <3>4. Told = Promise!Nothing
      BY <2>4 DEF Told, Promise!Nothing
    <3>5. Told' = [kind |-> "list", list |-> load'.list]
      BY <2>4 DEF Told, ListOf
    <3> QED
      BY <1>a, <2>1, <3>2, <3>3, <3>4, <3>5 DEF Promise!Next, Promise!Deliver
  <2> QED
    BY <2>2, <2>3, <2>4
<1>2. ASSUME NEW i \in Positions, Fails(i) PROVE [Promise!Next]_Promise!vars
  <2>1. /\ Lists = {}
        /\ replies' = replies \o <<Nil>>
        /\ Nil \in Reply
        /\ load'.refs = load.refs
    BY <1>0, <1>2, FailsSays
  <2>2. /\ Len(replies) \in Nat
        /\ DOMAIN replies = 1 .. Len(replies)
        /\ Len(replies') = Len(replies) + 1
        /\ replies'[Len(replies) + 1] = Nil
        /\ replies' # <<>>
    BY <1>0, <2>1, OneMoreReply, LenProperties, EmptySeq DEF TypeOK
  <2>3. Told' = Promise!Failure
    BY <2>2 DEF Told, Nil, Promise!Failure
  <2>4. Told.kind # "list"
    <3>1. CASE replies = <<>>
      BY <3>1 DEF Told
    <3>2. CASE replies # <<>>
      <4>1. Len(replies) \in DOMAIN replies
        BY <1>0, <2>2, <3>2, EmptySeq DEF TypeOK
      <4> QED
        BY <2>1, <3>2, <4>1 DEF Told, Lists
    <3> QED
      BY <3>1, <3>2
  <2>5. load.refs # <<>>
    BY <1>0, <1>2 DEF Fails, Awaits, TypeOK
  <2> QED
    BY <1>a, <2>1, <2>3, <2>4, <2>5 DEF Promise!Next, Promise!Fail
<1>3. ASSUME NEW i \in Positions, IsAbsent(i) PROVE [Promise!Next]_Promise!vars
  BY <1>3, <1>a DEF IsAbsent, Promise!vars, Told
<1>4. CASE UNCHANGED vars
  BY <1>4, <1>a DEF vars, Promise!vars, Told
<1> QED
  BY <1>1, <1>2, <1>3, <1>4 DEF Next, Answer

\* The task loaders promise nothing, and a call stays with its loader.
LEMMA UnpromisedStep ==
  ASSUME TypeOK, load.name \notin Counted, [Next]_vars
  PROVE  UNCHANGED Promise!vars
BY SameCall DEF Promise!vars, ToldCounted

\* Every call of a counted loader is one that the screens are prepared for: a
\* whole list once, or failures.
THEOREM PromiseKept == Spec => KeepsPromise
<1>1. VerdictInv /\ TypeOK' /\ [Next]_vars => [Promise!Next]_Promise!vars
  <2> SUFFICES ASSUME VerdictInv, TypeOK', [Next]_vars PROVE [Promise!Next]_Promise!vars
    OBVIOUS
  <2>1. CASE load.name \in Counted
    BY <2>1, PromiseStep
  <2>2. CASE load.name \notin Counted
    BY <2>2, UnpromisedStep DEF VerdictInv
  <2> QED
    BY <2>1, <2>2
<1> QED
  BY <1>1, TypeCorrect, VerdictInvariant, PromiseInit, PTL
  DEF Spec, KeepsPromise, Promise!Spec
-----------------------------------------------------------------------------
(* The task loaders.                                                        *)

\* No other reference names the document of the last one.
Unrepeated == \A p \in 1 .. Len(load.refs) - 1 : load.refs[p] # load.refs[Len(load.refs)]

\* Where getTasksInProject has not said nil, every answered position was
\* appended, and the last thing it said is the array as it is.
TasksSaid ==
  load.name = EachArrival /\ Nils = {} =>
    /\ DOMAIN load.refs \ load.waiting \subseteq Appended
    /\ load.list # <<>> => Told = ListOf(load)

\* Where the last reference of getTareasData is not repeated, a list is handed
\* over once, when its task is appended: it is the array up to that task.
TareasSaid ==
  load.name = LastArrival /\ Unrepeated =>
    \A k \in Lists :
      /\ Lists = {k}
      /\ \E m \in DOMAIN load.list :
           /\ load.list[m] = Len(load.refs)
           /\ Len(replies[k].list) = m
           /\ \A j \in 1 .. m : replies[k].list[j] = load.list[j]

SaidInv == TasksSaid /\ TareasSaid

\* The array when a document arrives.
LEMMA ListGrows ==
  ASSUME VerdictInv, NEW i \in Positions, Arrives(i)
  PROVE  /\ Len(load.list) \in Nat /\ DOMAIN load.list = 1 .. Len(load.list)
         /\ DOMAIN load'.list = 1 .. Len(load.list) + 1 /\ load'.list # <<>>
         /\ \A k \in 1 .. Len(load.list) : load'.list[k] = load.list[k]
         /\ load'.list[Len(load.list) + 1] = i
         /\ Len(load'.list) = Len(load.list) + 1
         /\ i \notin Appended /\ i \in DOMAIN load.refs
<1>1. load'.list = Append(load.list, i) /\ load.list \in Seq(Positions)
  BY RetrievedType DEF Arrives, VerdictInv, TypeOK, Load
<1>2. i \notin Appended /\ i \in DOMAIN load.refs
  BY DEF Arrives, Awaits, VerdictInv, AppendedOnce, TypeOK
<1>3. /\ load'.list \in Seq(Positions) /\ Len(load'.list) = Len(load.list) + 1
      /\ \A k \in 1 .. Len(load.list) : load'.list[k] = load.list[k]
      /\ load'.list[Len(load.list) + 1] = i
  BY <1>1, AppendProperties
<1>4. /\ Len(load.list) \in Nat /\ DOMAIN load.list = 1 .. Len(load.list)
      /\ DOMAIN load'.list = 1 .. Len(load'.list)
  BY <1>1, <1>3, LenProperties
<1>5. load'.list # <<>>
  BY <1>3, <1>4, EmptySeq
<1> QED
  BY <1>2, <1>3, <1>4, <1>5

\* One more thing is said: a list, or nil.
LEMMA OneMoreSaid ==
  ASSUME TypeOK, NEW a \in Reply, replies' = replies \o <<a>>
  PROVE  /\ Len(replies) \in Nat
         /\ Len(replies') = Len(replies) + 1 /\ replies' # <<>> /\ replies'[Len(replies')] = a
         /\ \A k \in DOMAIN replies : replies'[k] = replies[k]
         /\ Lists' = Lists \cup (IF a.kind = "list" THEN {Len(replies) + 1} ELSE {})
         /\ Nils' = Nils \cup (IF a.kind = "nil" THEN {Len(replies) + 1} ELSE {})
         /\ Len(replies) + 1 \notin Lists
<1>1. /\ replies' \in Seq(Reply) /\ Len(replies') = Len(replies) + 1
      /\ DOMAIN replies' = 1 .. Len(replies) + 1 /\ DOMAIN replies = 1 .. Len(replies)
      /\ \A k \in 1 .. Len(replies) : replies'[k] = replies[k]
      /\ replies'[Len(replies) + 1] = a /\ Len(replies) \in Nat
  BY OneMoreReply, LenProperties DEF TypeOK
<1>2. \A k : k \in DOMAIN replies' <=> k \in DOMAIN replies \/ k = Len(replies) + 1
  BY <1>1
<1>3. replies' # <<>>
  BY <1>1, EmptySeq
<1>4. Lists' = Lists \cup (IF a.kind = "list" THEN {Len(replies) + 1} ELSE {})
  BY <1>1, <1>2 DEF Lists
<1>5. Nils' = Nils \cup (IF a.kind = "nil" THEN {Len(replies) + 1} ELSE {})
  BY <1>1, <1>2 DEF Nils
<1>6. Len(replies) + 1 \notin Lists
  BY <1>1 DEF Lists
<1> QED
  BY <1>1, <1>3, <1>4, <1>5, <1>6

\* A task arrives.
LEMMA TaskArrives ==
  ASSUME VerdictInv, VerdictInv', TasksSaid, NEW i \in Positions, Arrives(i)
  PROVE  TasksSaid'
<1>0. TypeOK /\ TypeOK'
  BY DEF VerdictInv
<1>1. /\ Appended' = Appended \cup {i} /\ load'.refs = load.refs
      /\ load'.name = load.name /\ load'.waiting = load.waiting \ {i}
  BY <1>0, ArrivesOnce DEF VerdictInv
<1>2. CASE load.name = EachArrival
  <2>1. replies' = replies \o <<ListOf(load')>>
    BY <1>1, <1>2 DEF Arrives, Callbacks, TaskCallbacks, EachArrival, CountOnSuccess, CountAlways
  <2>2. ListOf(load') \in Reply /\ ListOf(load').kind = "list"
    BY <1>0 DEF ListOf, TypeOK, Load, Reply
  <2>3. /\ Nils' = Nils \cup (IF ListOf(load').kind = "nil" THEN {Len(replies) + 1} ELSE {})
        /\ replies' # <<>> /\ replies'[Len(replies')] = ListOf(load')
    BY <1>0, <2>1, <2>2, OneMoreSaid
  <2>4. Nils' = Nils
    BY <2>2, <2>3
  <2>5. Told' = ListOf(load')
    BY <2>3 DEF Told
  <2>6. ListOf(load') = ListOf(load)'
    BY DEF ListOf
  <2> QED
    BY <1>1, <1>2, <2>4, <2>5, <2>6 DEF TasksSaid
<1>3. CASE load.name # EachArrival
  BY <1>1, <1>3 DEF TasksSaid
<1> QED
  BY <1>2, <1>3

\* A task of getTareasData arrives.
LEMMA TareaArrives ==
  ASSUME VerdictInv, VerdictInv', TareasSaid, NEW i \in Positions, Arrives(i)
  PROVE  TareasSaid'
<1>0. TypeOK /\ TypeOK'
  BY DEF VerdictInv
<1>1. /\ Appended' = Appended \cup {i} /\ load'.refs = load.refs
      /\ load'.name = load.name /\ load'.waiting = load.waiting \ {i}
  BY <1>0, ArrivesOnce DEF VerdictInv
<1>2. /\ Len(load.list) \in Nat /\ DOMAIN load.list = 1 .. Len(load.list)
      /\ DOMAIN load'.list = 1 .. Len(load.list) + 1
      /\ \A k \in 1 .. Len(load.list) : load'.list[k] = load.list[k]
      /\ load'.list[Len(load.list) + 1] = i
      /\ Len(load'.list) = Len(load.list) + 1
      /\ i \notin Appended /\ i \in DOMAIN load.refs
  BY ListGrows
<1>3. Unrepeated' = Unrepeated
  BY <1>1 DEF Unrepeated
<1>4. SUFFICES ASSUME load.name = LastArrival, Unrepeated
               PROVE  TareasSaid'
  BY <1>1, <1>3 DEF TareasSaid
<1>5. replies' = replies \o Callbacks(load', i, TRUE)
  BY DEF Arrives
<1>6. Callbacks(load', i, TRUE) = IF load.refs[i] = load.refs[Len(load.refs)]
                                  THEN <<ListOf(load')>> ELSE <<>>
  BY <1>1, <1>4 DEF Callbacks, TareaCallbacks, LastArrival, EachArrival, CountOnSuccess, CountAlways
<1>7. ASSUME NEW k \in Lists
      PROVE  /\ Lists = {k}
             /\ \E m \in DOMAIN load'.list :
                  /\ m \in DOMAIN load.list
                  /\ load'.list[m] = Len(load.refs)
                  /\ Len(replies[k].list) = m
                  /\ \A j \in 1 .. m : replies[k].list[j] = load'.list[j]
  <2>1. PICK m \in DOMAIN load.list :
          /\ Lists = {k}
          /\ load.list[m] = Len(load.refs)
          /\ Len(replies[k].list) = m
          /\ \A j \in 1 .. m : replies[k].list[j] = load.list[j]
    BY <1>4, <1>7 DEF TareasSaid
  <2>2. m \in DOMAIN load'.list /\ \A j \in 1 .. m : load'.list[j] = load.list[j]
    BY <1>2, <2>1
  <2>3. load'.list[m] = load.list[m]
    BY <1>2, <2>1
  <2> QED
    BY <2>1, <2>2, <2>3
<1>8. CASE load.refs[i] = load.refs[Len(load.refs)]
  <2>1. i = Len(load.refs)
    <3>1. DOMAIN load.refs = 1 .. Len(load.refs) /\ Len(load.refs) \in Nat
      BY <1>0, RefListsType, MaxRefsAssumption DEF TypeOK, Load
    <3>2. i \in 1 .. Len(load.refs) - 1 \/ i = Len(load.refs)
      BY <1>2, <3>1
    <3> QED
      BY <1>4, <1>8, <3>2 DEF Unrepeated
  <2>2. Lists = {}
    BY <1>2, <1>4, <2>1 DEF TareasSaid, Appended
  <2>3. ListOf(load') \in Reply /\ ListOf(load').kind = "list" /\ ListOf(load').list = load'.list
    BY <1>0 DEF ListOf, TypeOK, Load, Reply
  <2>4. /\ Lists' = Lists \cup (IF ListOf(load').kind = "list" THEN {Len(replies) + 1} ELSE {})
        /\ Len(replies') = Len(replies) + 1 /\ replies'[Len(replies')] = ListOf(load')
    BY <1>0, <1>5, <1>6, <1>8, <2>3, OneMoreSaid
  <2>5. Lists' = {Len(replies) + 1} /\ replies'[Len(replies) + 1] = ListOf(load')
    BY <2>2, <2>3, <2>4
  <2>6. /\ Len(load.list) + 1 \in DOMAIN load'.list
        /\ load'.list[Len(load.list) + 1] = Len(load'.refs)
        /\ Len(ListOf(load').list) = Len(load.list) + 1
    BY <1>1, <1>2, <2>1, <2>3
  <2> QED
    BY <2>3, <2>5, <2>6 DEF TareasSaid
<1>9. CASE load.refs[i] # load.refs[Len(load.refs)]
  <2>1. replies' = replies
    BY <1>0, <1>5, <1>6, <1>9, ConcatEmptySeq DEF TypeOK
  <2> QED
    BY <1>1, <1>7, <2>1 DEF TareasSaid, Lists
<1> QED
  BY <1>8, <1>9

\* A task does not arrive.
LEMMA TaskFails ==
  ASSUME VerdictInv, SaidInv, NEW i \in Positions, Fails(i)
  PROVE  SaidInv'
<1>0. TypeOK
  BY DEF VerdictInv
<1>1. /\ load'.refs = load.refs /\ load'.name = load.name /\ load'.list = load.list
  BY <1>0, NotRetrievedType DEF Fails, TypeOK
<1>2. Nil \in Reply /\ Nil.kind = "nil"
  BY EmptySeq DEF Nil, Reply
<1>3. load.name \in {EachArrival, LastArrival} => replies' = replies \o <<Nil>>
  BY <1>1 DEF Fails, Callbacks, TaskCallbacks, TareaCallbacks, EachArrival, LastArrival,
              CountOnSuccess, CountAlways
<1>4. load.name \in {EachArrival, LastArrival} =>
        /\ Nils' # {} /\ Lists' = Lists
        /\ \A k \in DOMAIN replies : replies'[k] = replies[k]
  BY <1>0, <1>2, <1>3, OneMoreSaid
<1>5. TasksSaid'
  BY <1>1, <1>4 DEF TasksSaid
<1>6. TareasSaid'
  <2>1. \A k \in Lists : k \in DOMAIN replies
    BY DEF Lists
  <2>2. Unrepeated' = Unrepeated
    BY <1>1 DEF Unrepeated
  <2> QED
    BY <1>1, <1>4, <2>1, <2>2 DEF SaidInv, TareasSaid
<1> QED
  BY <1>5, <1>6 DEF SaidInv

\* Each answer keeps what the task loaders have said true.
LEMMA SaidStep == VerdictInv /\ VerdictInv' /\ SaidInv /\ [Next]_vars => SaidInv'
<1> SUFFICES ASSUME VerdictInv, VerdictInv', SaidInv, [Next]_vars PROVE SaidInv'
  OBVIOUS
<1>1. ASSUME NEW i \in Positions, Arrives(i) PROVE SaidInv'
  BY <1>1, TaskArrives, TareaArrives DEF SaidInv
<1>2. ASSUME NEW i \in Positions, Fails(i) PROVE SaidInv'
  BY <1>2, TaskFails
<1>3. CASE UNCHANGED <<load, replies>>
  BY <1>3 DEF SaidInv, TasksSaid, TareasSaid, Unrepeated, Nils, Lists, Appended, Told, ListOf
<1> QED
  BY <1>1, <1>2, <1>3 DEF Next, Answer, IsAbsent, vars

\* In every reachable state the task loaders have told what they had.
THEOREM SaidInvariant == Spec => []SaidInv
<1>1. Init => SaidInv
  <2> SUFFICES ASSUME Init PROVE SaidInv
    OBVIOUS
  <2>1. load.list = <<>> /\ replies = <<>> /\ load.waiting = DOMAIN load.refs
    BY DEF Init, StartLoad
  <2>2. DOMAIN replies = {}
    BY <2>1
  <2> QED
    BY <2>1, <2>2 DEF SaidInv, TasksSaid, TareasSaid, Lists
<1> QED
  BY <1>1, VerdictInvariant, SaidStep, PTL DEF Spec

\* An array in which every reference was appended is whole: as many positions
\* as references, each of them once.
LEMMA AllAppendedIsFull ==
  ASSUME VerdictInv, load.refs # <<>>, DOMAIN load.refs \subseteq Appended
  PROVE  Promise!IsWhole(load.list)
<1> DEFINE R == DOMAIN load.refs  L == DOMAIN load.list
<1>1. /\ R = 1 .. Len(load.refs) /\ L = 1 .. Len(load.list)
      /\ Len(load.refs) \in Nat /\ Len(load.list) \in Nat
  BY RefListsType, LenProperties, MaxRefsAssumption DEF VerdictInv, TypeOK, Load
<1>2. load.list \in [L -> R]
  <2>1. \A k \in L : load.list[k] \in R
    BY DEF VerdictInv, AppendedOnce, Appended
  <2>2. load.list = [k \in L |-> load.list[k]]
    BY LenProperties DEF VerdictInv, TypeOK, Load
  <2> QED
    BY <2>1, <2>2
<1>3. \A p \in R : \E k \in L : load.list[k] = p
  BY DEF Appended
<1>4. load.list \in Bijection(L, R)
  BY <1>2, <1>3 DEF Bijection, Injection, Surjection, IsInjective, VerdictInv, AppendedOnce
<1>5. ExistsBijection(L, R)
  BY <1>4 DEF ExistsBijection
<1>6. IsFiniteSet(L) /\ Cardinality(L) = Len(load.list) /\ Cardinality(R) = Len(load.refs)
  <2>1. \A n \in Nat : IsFiniteSet(1 .. n) /\ Cardinality(1 .. n) = n
    BY FS_Interval
  <2> QED
    BY <1>1, <2>1
<1>7. Len(load.list) = Len(load.refs)
  BY <1>5, <1>6, FS_Bijection
<1> QED
  BY <1>3, <1>7 DEF Promise!IsWhole

\* getTasksInProject ends with the whole list when no task failed.
THEOREM TasksAlwaysEndWhole == Spec => []TasksEndWhole
<1>1. VerdictInv /\ SaidInv => TasksEndWhole
  <2> SUFFICES ASSUME VerdictInv, SaidInv, load.name = EachArrival, load.waiting = {},
                      load.refs # <<>>, Nils = {}
               PROVE  Told.kind = "list" /\ Promise!IsWhole(Told.list)
    BY DEF TasksEndWhole
  <2>1. DOMAIN load.refs \subseteq Appended /\ (load.list # <<>> => Told = ListOf(load))
    BY DEF SaidInv, TasksSaid
  <2>2. Promise!IsWhole(load.list)
    BY <2>1, AllAppendedIsFull
  <2>3. load.list # <<>>
    <3>1. 1 \in DOMAIN load.refs
      <4>1. load.refs \in Seq(Docs) /\ DOMAIN load.refs = 1 .. Len(load.refs)
        BY RefListsType DEF VerdictInv, TypeOK, Load
      <4> QED
        BY <4>1, EmptySeq, LenProperties
    <3>2. 1 \in Appended
      BY <2>1, <3>1
    <3> QED
      BY <3>2 DEF Appended
  <2> QED
    BY <2>1, <2>2, <2>3 DEF ListOf
<1> QED
  BY <1>1, VerdictInvariant, SaidInvariant, PTL

\* getTareasData hands over a whole list when the last task came last, and one
\* list only when the last reference is not repeated.
THEOREM TareasAlwaysWholeInOrder == Spec => []TareasWholeInOrder
<1>1. VerdictInv /\ SaidInv => TareasWholeInOrder
  <2> SUFFICES ASSUME VerdictInv, SaidInv, load.name = LastArrival, NEW k \in Lists, Unrepeated
               PROVE  /\ Lists = {k}
                      /\ Len(load.list) = Len(load.refs) /\ load.list[Len(load.refs)] = Len(load.refs)
                           => Promise!IsWhole(replies[k].list)
    BY DEF TareasWholeInOrder, Unrepeated
  <2>1. PICK m \in DOMAIN load.list :
          /\ Lists = {k}
          /\ load.list[m] = Len(load.refs)
          /\ Len(replies[k].list) = m
          /\ \A j \in 1 .. m : replies[k].list[j] = load.list[j]
    BY DEF SaidInv, TareasSaid
  <2>2. ASSUME Len(load.list) = Len(load.refs), load.list[Len(load.refs)] = Len(load.refs)
        PROVE  Promise!IsWhole(replies[k].list)
    <3>1. DOMAIN load.list = 1 .. Len(load.list) /\ Len(load.list) \in Nat
      BY LenProperties DEF VerdictInv, TypeOK, Load
    <3>2. m = Len(load.list)
      <4>1. Len(load.list) \in DOMAIN load.list
        BY <2>1, <3>1
      <4> QED
        BY <2>1, <2>2, <4>1 DEF VerdictInv, AppendedOnce
    <3>3. IsFull(load)
      BY <2>1, <2>2 DEF IsFull
    <3>4. Promise!IsWhole(load.list)
      BY <3>3, FullIsWhole DEF VerdictInv, WholeLoad
    <3>5. DOMAIN replies[k].list = 1 .. Len(replies[k].list)
      <4>1. replies[k] \in Reply
        BY ElementOfSeq, LenProperties DEF VerdictInv, TypeOK, Lists
      <4> QED
        BY <4>1, LenProperties DEF Reply
    <3> QED
      BY <2>1, <2>2, <3>1, <3>2, <3>4, <3>5 DEF Promise!IsWhole
  <2> QED
    BY <2>1, <2>2
<1> QED
  BY <1>1, VerdictInvariant, SaidInvariant, PTL
=============================================================================
