------------------------------- MODULE FanOut -------------------------------
(***************************************************************************)
(* One call of a list loader: its requests are all sent before any answer  *)
(* comes (the loop does not wait), Firestore answers each once, in any     *)
(* order, with a document, an error or a snapshot without data.            *)
(***************************************************************************)
EXTENDS Loaders, FiniteSets

CONSTANTS
  Names,       \* the loaders that may be called
  Stored,      \* the documents that the database has
  MaxRefs      \* bound on the length of the reference list

ASSUME NamesAssumption == Names \subseteq LoaderNames
ASSUME StoredAssumption == Stored \subseteq Docs
ASSUME MaxRefsAssumption == MaxRefs \in Nat

VARIABLES
  load,        \* the call (see Loaders)
  replies,     \* the calls of completionBlock so far, oldest first
  trapped      \* a forced unwrap of nil has ended the program

vars == <<load, replies, trapped>>

RefLists == UNION {[1 .. n -> Docs] : n \in 0 .. MaxRefs}

Init ==
  /\ \E name \in Names, refs \in RefLists : load = StartLoad(name, refs)
  /\ replies = <<>>
  /\ trapped = FALSE

\* The request for position i is out and the program still runs.
Awaits(i) == ~trapped /\ i \in load.waiting

\* A document came back: it is appended, and the caller may hear of it.
Arrives(i) ==
  /\ Awaits(i)
  /\ load.refs[i] \in Stored
  /\ load' = Retrieved(load, i)
  /\ replies' = replies \o Callbacks(load', i, TRUE)
  /\ UNCHANGED trapped

\* Firestore reports an error for the request.
Fails(i) ==
  /\ Awaits(i)
  /\ load' = NotRetrieved(load, i)
  /\ replies' = replies \o Callbacks(load', i, FALSE)
  /\ UNCHANGED trapped

\* The snapshot of a document that does not exist has no data: data()! traps.
IsAbsent(i) ==
  /\ Awaits(i)
  /\ load.refs[i] \notin Stored
  /\ trapped' = TRUE
  /\ UNCHANGED <<load, replies>>

Answer(i) == Arrives(i) \/ Fails(i) \/ IsAbsent(i)

Next == \E i \in 1 .. MaxRefs : Answer(i)

\* Firestore answers every document request: from the server, or, without a
\* connection, from its cache or with an error.
Fairness == \A i \in 1 .. MaxRefs : WF_vars(Answer(i))

Spec == Init /\ [][Next]_vars
FairSpec == Spec /\ Fairness
-----------------------------------------------------------------------------
\* What the last completion call told the caller.
Told == IF replies = <<>> THEN [kind |-> "none", list |-> <<>>]
                          ELSE replies[Len(replies)]

\* The promise is made to the callers of the counted loaders only.
ToldCounted == IF load.name \in Counted THEN Told ELSE [kind |-> "none", list |-> <<>>]

Promise == INSTANCE Gather WITH refs <- load.refs, told <- ToldCounted

Lists == {k \in DOMAIN replies : replies[k].kind = "list"}
Nils  == {k \in DOMAIN replies : replies[k].kind = "nil"}

Positions == 1 .. MaxRefs
Load      == [name : Names, refs : RefLists, waiting : SUBSET Positions,
              list : Seq(Positions)]
Reply     == [kind : {"nil", "list"}, list : Seq(Positions)]

\* The state of a call: requests, appended positions and completion calls.
TypeOK ==
  /\ load \in Load
  /\ load.waiting \subseteq DOMAIN load.refs
  /\ replies \in Seq(Reply)
  /\ trapped \in BOOLEAN

\* The group, student and team loaders hand over a list only when it names
\* every reference exactly once, and then it is all that the caller ever
\* hears: no nil came before and nothing comes after, whatever the order of
\* the answers and of the failures among them.
OneVerdict ==
  load.name \in Counted =>
    \A k \in Lists : replies = <<replies[k]>> /\ Promise!IsWhole(replies[k].list)

\* Inductive strengthening of OneVerdict.  Every appended position was
\* answered and is appended once; a nil stands for an answered position that
\* will never be appended, so the array cannot become full after it; a list
\* was handed over only when the array was full, so nothing is awaited then.
Appended == {load.list[k] : k \in DOMAIN load.list}

AppendedOnce ==
  /\ Appended \subseteq DOMAIN load.refs \ load.waiting
  /\ \A j, k \in DOMAIN load.list : load.list[j] = load.list[k] => j = k

NilIsForGood ==
  Nils # {} => \E p \in DOMAIN load.refs \ load.waiting : p \notin Appended

ListIsFull == Lists # {} => IsFull(load) /\ replies = <<ListOf(load)>>

VerdictInv ==
  TypeOK /\ AppendedOnce /\ (load.name \in Counted => NilIsForGood /\ ListIsFull)

\* The group, student and team loaders do what the screens rely on.
KeepsPromise == Promise!Spec

\* getTasksInProject speaks up after every task; once all answers are in and
\* none failed, the last thing it said was the whole list.
TasksEndWhole ==
  (load.name = EachArrival /\ load.waiting = {} /\ load.refs # <<>> /\ Nils = {})
    => Told.kind = "list" /\ Promise!IsWhole(Told.list)

\* getTareasData answers when the task of the last reference comes: if it
\* came after all the others, none of which failed, the list is whole, and
\* when the last reference is not repeated the caller hears it only once.
TareasWholeInOrder ==
  load.name = LastArrival =>
    \A k \in Lists :
      LET list == replies[k].list
          last == Len(load.refs)
          Unrepeated == \A p \in 1 .. last - 1 : load.refs[p] # load.refs[last]
      IN  /\ Unrepeated => Lists = {k}
          /\ (Unrepeated /\ Nils = {} /\ Len(load.list) = last /\ load.list[last] = last)
               => Promise!IsWhole(list)

\* Every call for a nonempty list of existing documents is answered in the
\* end, with a list or with nil: no caller waits for ever behind its HUD.
EventuallyTold ==
  (load.refs # <<>> /\ \A i \in DOMAIN load.refs : load.refs[i] \in Stored)
    ~> (replies # <<>>)
=============================================================================
