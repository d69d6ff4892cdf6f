------------------------- MODULE DocumentReadProofs -------------------------
(***************************************************************************)
(* Proofs about DocumentRead, for every number of reads, versions and      *)
(* faults: what OnlineStateTracker asserts of its timer and its failures,  *)
(* what RemoteStore asserts when the idle stream is stopped (TrackerInv);  *)
(* the types, that snapshots are truthful, and that the client with its    *)
(* server implements ReadPromise (ReadInv, which follows the calls, what   *)
(* they are told, and what is on its way on the connection).               *)
(***************************************************************************)
EXTENDS DocumentRead, FiniteSetTheorems, SequenceTheorems, TLAPS

States == {"Initial", "Starting", "Open", "Backoff", "Error"}

\* What is on a connection goes with the stream.
ConnInv ==
  stream # "Open" => requests = <<>> /\ responses = <<>> /\ serving = NotServed

\* Inductive strengthening of TrackerConsistent and IdleMeansNotListened: the
\* little of TypeOK that they rest on, and an empty connection on a stream that
\* is not open, so that only an open stream turns Online.
TrackerInv ==
  /\ online \in {"Unknown", "Online", "Offline"}
  /\ failures \in Nat
  /\ stream \in States
  /\ ConnInv
  /\ TrackerConsistent
  /\ IdleMeansNotListened

\* The initial states satisfy the invariant.
LEMMA TrackerInit == Init => TrackerInv
  BY DEF Init, TrackerInv, TrackerConsistent, IdleMeansNotListened, ConnInv, States, Listened

\* A step that leaves tracker, stream, connection, idleness and listeners alone
\* keeps it.
LEMMA TrackerFrame ==
  ASSUME TrackerInv, UNCHANGED <<tracker, stream, idle, conn, listeners>>
  PROVE  TrackerInv'
  BY DEF TrackerInv, TrackerConsistent, IdleMeansNotListened, ConnInv, States, Listened, IsStarted,
         tracker, conn

\* The phone's own queues.
LEMMA TrackerCalls ==
  ASSUME TrackerInv, GetDocument \/ OnEvent
  PROVE  TrackerInv'
  <1>1. UNCHANGED <<tracker, stream, idle, conn, listeners>>
    BY DEF GetDocument, OnEvent, engine, watch
  <1> QED BY <1>1, TrackerFrame

\* A new listener, the first one starting the stream or sending its watch.
LEMMA TrackerListens ==
  ASSUME TrackerInv, JoinListeners \/ FirstListener
  PROVE  TrackerInv'
  <1>1. CASE JoinListeners
    <2>1. UNCHANGED <<tracker, stream, idle, conn>> /\ Listened
      BY <1>1 DEF JoinListeners, watch
    <2>2. ~idle
      BY <2>1 DEF TrackerInv, IdleMeansNotListened
    <2> QED
      BY <2>1, <2>2 DEF TrackerInv, TrackerConsistent, IdleMeansNotListened, ConnInv, States,
                        IsStarted, tracker, conn
  <1>2. CASE FirstListener
    <2>1. Listen
      BY <1>2 DEF FirstListener
    <2>2. CASE /\ ~IsStarted
               /\ stream' = Start(stream)
               /\ HandleWatchStreamStart
               /\ UNCHANGED <<idle, conn>>
      <3>1. ~timer /\ failures = 0 /\ ~idle
        BY <2>2 DEF TrackerInv, TrackerConsistent, IdleMeansNotListened, IsStarted
      <3>2. stream' \in {"Backoff", "Starting"}
        BY <2>2 DEF Start
      <3>3. online' = "Unknown" /\ failures' = 0
        BY <2>2, <3>1 DEF HandleWatchStreamStart
      <3>4. requests' = <<>> /\ responses' = <<>> /\ serving' = NotServed
        BY <2>2 DEF TrackerInv, ConnInv, IsStarted, conn
      <3> QED
        BY <2>2, <3>1, <3>2, <3>3, <3>4
           DEF TrackerInv, TrackerConsistent, IdleMeansNotListened, ConnInv, States, IsStarted
    <2>3. CASE stream = "Open" /\ Send("watch") /\ UNCHANGED <<stream, tracker>>
      <3>1. ~idle'
        BY <2>3 DEF Send
      <3> QED
        BY <2>3, <3>1 DEF TrackerInv, TrackerConsistent, IdleMeansNotListened, ConnInv, States,
                          IsStarted, tracker
    <2>4. CASE stream \in {"Starting", "Backoff"} /\ UNCHANGED <<watch, conn, tracker>>
      <3>1. ~idle'
        BY <2>4 DEF TrackerInv, IdleMeansNotListened, watch
      <3> QED
        BY <2>4, <3>1 DEF TrackerInv, TrackerConsistent, IdleMeansNotListened, ConnInv, States,
                          IsStarted, tracker, watch, conn
    <2> QED BY <2>1, <2>2, <2>3, <2>4 DEF Listen
  <1> QED BY <1>1, <1>2

\* A listener goes; the last one stops the listen.
LEMMA TrackerRemoves ==
  ASSUME TrackerInv, RemoveQueryListener
  PROVE  TrackerInv'
  <1>1. CASE Listened /\ listeners' = <<>>
    <2>1. StopListening
      BY <1>1 DEF RemoveQueryListener
    <2>2. CASE stream = "Open" /\ Send("unwatch") /\ UNCHANGED <<stream, tracker>>
      BY <1>1, <2>2 DEF TrackerInv, TrackerConsistent, IdleMeansNotListened, ConnInv, States,
                        IsStarted, Listened, tracker
    <2>3. CASE stream # "Open" /\ UpdateState("Unknown") /\ UNCHANGED <<watch, conn>>
      BY <1>1, <2>3 DEF TrackerInv, TrackerConsistent, IdleMeansNotListened, ConnInv, States,
                        IsStarted, Listened, UpdateState, watch, conn
    <2> QED BY <2>1, <2>2, <2>3 DEF StopListening
  <1>2. CASE ~(Listened /\ listeners' = <<>>)
    <2>1. UNCHANGED <<watch, conn, tracker>>
      BY <1>2 DEF RemoveQueryListener
    <2>2. idle => listeners = <<>>
      BY DEF TrackerInv, IdleMeansNotListened, Listened
    <2>3. listeners = <<>> => listeners' = <<>>
      BY DEF RemoveQueryListener, Listened
    <2> QED
      BY <2>1, <2>2, <2>3 DEF TrackerInv, TrackerConsistent, IdleMeansNotListened, ConnInv, States,
                              IsStarted, Listened, tracker, watch, conn
  <1> QED BY <1>1, <1>2

\* The stream opens, fails, backs off, is stopped; the timers elapse.
LEMMA TrackerStream ==
  ASSUME TrackerInv, Connection \/ Timers
  PROVE  TrackerInv'
  <1>1. CASE ResumeStartWithCredentials
    <2>1. stream = "Starting" /\ stream' = "Open" /\ UNCHANGED <<tracker, listeners>>
      BY <1>1 DEF ResumeStartWithCredentials, engine
    <2>2. ~idle
      BY <2>1 DEF TrackerInv, IdleMeansNotListened
    <2>3. ~idle'
      BY <1>1, <2>2 DEF ResumeStartWithCredentials, Send
    <2> QED
      BY <2>1, <2>3 DEF TrackerInv, TrackerConsistent, IdleMeansNotListened, ConnInv, States,
                        IsStarted, tracker
  <1>2. CASE OnWatchStreamClose
    <2>1. requests' = <<>> /\ responses' = <<>> /\ serving' = NotServed /\ ~idle'
      BY <1>2 DEF OnWatchStreamClose, CleanUpWatchStreamState
    <2>2. CASE HandleWatchStreamFailure /\ stream' = Start("Error")
      <3>1. stream' = "Backoff"
        BY <2>2 DEF Start
      <3>2. CASE online = "Online"
        <4>1. online' = "Unknown" /\ failures' = failures /\ failures = 0
          BY <2>2, <3>2 DEF HandleWatchStreamFailure, TrackerInv, TrackerConsistent
        <4> QED
          BY <2>1, <3>1, <4>1 DEF TrackerInv, TrackerConsistent, IdleMeansNotListened, ConnInv,
                                  States, IsStarted
      <3>3. CASE online # "Online"
        <4>1. online' = "Offline" /\ failures' = failures + 1 /\ ~timer'
          BY <2>2, <3>3 DEF HandleWatchStreamFailure, GoOffline
        <4>2. failures' \in Nat
          BY <4>1 DEF TrackerInv
        <4> QED
          BY <2>1, <3>1, <4>1, <4>2 DEF TrackerInv, TrackerConsistent, IdleMeansNotListened,
                                        ConnInv, States, IsStarted
      <3> QED BY <3>2, <3>3
    <2>3. CASE UpdateState("Unknown") /\ stream' = "Error"
      BY <2>1, <2>3 DEF TrackerInv, TrackerConsistent, IdleMeansNotListened, ConnInv, States,
                        IsStarted, UpdateState
    <2> QED BY <1>2, <2>2, <2>3 DEF OnWatchStreamClose
  <1>3. CASE HandleCredentialChange
    <2>1. requests' = <<>> /\ responses' = <<>> /\ serving' = NotServed /\ ~idle'
      BY <1>3 DEF HandleCredentialChange, CleanUpWatchStreamState
    <2>2. online' = "Unknown" /\ failures' = 0 /\ timer' = Listened
      BY <1>3 DEF HandleCredentialChange
    <2>3. stream' \in States /\ (Listened => stream' \in {"Starting", "Backoff"})
      BY <1>3 DEF HandleCredentialChange, Start, IsStarted, TrackerInv, States
    <2> QED
      BY <2>1, <2>2, <2>3 DEF TrackerInv, TrackerConsistent, IdleMeansNotListened, ConnInv, States,
                              IsStarted
  <1>4. CASE BackoffElapses
    <2>1. stream = "Backoff" /\ stream' = "Starting" /\ UNCHANGED <<tracker, idle, conn, listeners>>
      BY <1>4 DEF BackoffElapses, Start, engine
    <2> QED
      BY <2>1 DEF TrackerInv, TrackerConsistent, IdleMeansNotListened, ConnInv, States, IsStarted,
                  tracker, conn
  <1>5. CASE OnlineStateTimeout
    <2>1. online' = "Offline" /\ ~timer' /\ UNCHANGED <<failures, stream, idle, conn, listeners>>
      BY <1>5 DEF OnlineStateTimeout, GoOffline, watch
    <2>2. IsStarted
      BY <1>5 DEF OnlineStateTimeout, TrackerInv, TrackerConsistent
    <2> QED
      BY <2>1, <2>2 DEF TrackerInv, TrackerConsistent, IdleMeansNotListened, ConnInv, States,
                        IsStarted, Listened, conn
  <1>6. CASE IdleTimeout
    BY <1>6 DEF IdleTimeout, CleanUpWatchStreamState, UpdateState, TrackerInv, TrackerConsistent,
                IdleMeansNotListened, ConnInv, States, IsStarted
  <1> QED BY <1>1, <1>2, <1>3, <1>4, <1>5, <1>6 DEF Connection, Timers

\* A message of the server.
LEMMA TrackerMessages ==
  ASSUME TrackerInv, Messages
  PROVE  TrackerInv'
  <1>1. /\ responses # <<>>
        /\ UpdateState("Online")
        /\ UNCHANGED <<stream, idle, requests, serving>>
        /\ listeners' = listeners \/ listeners' = <<>>
    BY DEF Messages, OnTargetAdded, OnTargetRemoved, OnTargetCurrent, OnDocument, OnSnapshot,
           OnTargetError, OnWatchStreamChange, engine
  <1>2. stream = "Open"
    BY <1>1 DEF TrackerInv, ConnInv
  <1> QED
    BY <1>1, <1>2 DEF TrackerInv, TrackerConsistent, IdleMeansNotListened, ConnInv, States,
                      IsStarted, Listened, UpdateState

\* A step of the server: it says nothing on a connection that is not there.
LEMMA TrackerServer ==
  ASSUME TrackerInv, Server
  PROVE  TrackerInv'
  <1>1. UNCHANGED <<tracker, stream, idle, listeners>>
    BY DEF Server, ServerChanges, ServerReads, ServerNotifies, engine, watch
  <1>2. stream = "Open" \/ UNCHANGED conn
    <2>1. CASE ServerChanges
      BY <2>1 DEF ServerChanges
    <2>2. CASE ServerReads
      BY <2>2 DEF ServerReads, TrackerInv, ConnInv
    <2>3. CASE ServerNotifies
      BY <2>3 DEF ServerNotifies, TrackerInv, ConnInv
    <2> QED BY <2>1, <2>2, <2>3 DEF Server
  <1> QED
    BY <1>1, <1>2 DEF TrackerInv, TrackerConsistent, IdleMeansNotListened, ConnInv, States,
                      IsStarted, Listened, tracker, conn

\* The invariant holds in every reachable state.
THEOREM TrackerCorrect == Spec => []TrackerInv
  <1>1. ASSUME TrackerInv, [Next]_vars
        PROVE  TrackerInv'
    <2>1. CASE UNCHANGED vars
      BY <1>1, <2>1, TrackerFrame DEF vars, watch, engine
    <2>2. CASE Next
      BY <1>1, <2>2, TrackerCalls, TrackerListens, TrackerRemoves, TrackerStream, TrackerMessages,
         TrackerServer DEF Next, WorkerQueue
    <2> QED BY <1>1, <2>1, <2>2
  <1> QED BY TrackerInit, <1>1, PTL DEF Spec

\* The assertions of OnlineStateTracker never fail.
THEOREM TrackerAlwaysConsistent == Spec => []TrackerConsistent
  <1>1. TrackerInv => TrackerConsistent
    BY DEF TrackerInv
  <1> QED BY <1>1, TrackerCorrect, PTL

\* The stream is never stopped gracefully while a listener needs it.
THEOREM NeverStoppedInNeed == Spec => []IdleMeansNotListened
  <1>1. TrackerInv => IdleMeansNotListened
    BY DEF TrackerInv
  <1> QED BY <1>1, TrackerCorrect, PTL
-----------------------------------------------------------------------------
(* Sequences, and what Among selects.                                       *)

\* The first element of a sequence, and what is left without it.
LEMMA TailFacts ==
  ASSUME NEW S, NEW s \in Seq(S), s # <<>>
  PROVE  /\ Len(s) \in Nat /\ Len(s) >= 1 /\ DOMAIN s = 1 .. Len(s)
         /\ Head(s) = s[1] /\ s[1] \in S
         /\ Tail(s) \in Seq(S)
         /\ Len(Tail(s)) = Len(s) - 1 /\ DOMAIN Tail(s) = 1 .. Len(s) - 1
         /\ \A i \in 1 .. Len(s) - 1 : Tail(s)[i] = s[i + 1]
<1>1. /\ Tail(s) \in Seq(S)
      /\ Len(Tail(s)) = Len(s) - 1
      /\ \A k \in 1 .. Len(Tail(s)) : Tail(s)[k] = s[k + 1]
      /\ Head(s) \in S
  BY HeadTailProperties
<1>2. /\ Len(s) \in Nat /\ Len(s) >= 1
      /\ DOMAIN s = 1 .. Len(s)
      /\ DOMAIN Tail(s) = 1 .. Len(s) - 1
  BY <1>1, EmptySeq, LenProperties
<1>3. Head(s) = s[1]
  OBVIOUS
<1> QED
  BY <1>1, <1>2, <1>3

\* z is s with t after it.
IsConcat(z, s, t) ==
  /\ Len(s) \in Nat /\ Len(t) \in Nat
  /\ DOMAIN s = 1 .. Len(s) /\ DOMAIN t = 1 .. Len(t)
  /\ Len(z) = Len(s) + Len(t) /\ DOMAIN z = 1 .. Len(s) + Len(t)
  /\ \A i \in 1 .. Len(s) : z[i] = s[i]
  /\ \A i \in 1 .. Len(t) : z[Len(s) + i] = t[i]

\* The concatenation of two sequences.
LEMMA ConcatFacts ==
  ASSUME NEW S, NEW s \in Seq(S), NEW t \in Seq(S)
  PROVE  s \o t \in Seq(S) /\ IsConcat(s \o t, s, t)
<1>1. /\ s \o t \in Seq(S)
      /\ Len(s \o t) = Len(s) + Len(t)
      /\ \A i \in 1 .. Len(s) + Len(t) :
           (s \o t)[i] = IF i <= Len(s) THEN s[i] ELSE t[i - Len(s)]
  BY ConcatProperties
<1>2. Len(s) \in Nat /\ Len(t) \in Nat /\ DOMAIN s = 1 .. Len(s) /\ DOMAIN t = 1 .. Len(t)
  BY LenProperties
<1>3. DOMAIN (s \o t) = 1 .. Len(s) + Len(t)
  BY <1>1, LenProperties
<1> QED
  BY <1>1, <1>2, <1>3 DEF IsConcat

\* A sequence with an element after it.
LEMMA AppendFacts ==
  ASSUME NEW S, NEW s \in Seq(S), NEW x \in S
  PROVE  /\ Len(s) \in Nat /\ DOMAIN s = 1 .. Len(s)
         /\ Append(s, x) \in Seq(S)
         /\ Len(Append(s, x)) = Len(s) + 1 /\ DOMAIN Append(s, x) = 1 .. Len(s) + 1
         /\ \A i \in 1 .. Len(s) : Append(s, x)[i] = s[i]
         /\ Append(s, x)[Len(s) + 1] = x
  BY AppendProperties, LenProperties

\* A set of naturals that is not empty has a least element.
LEMMA LeastNat ==
  ASSUME NEW T, T \subseteq Nat, T # {}
  PROVE  \E x \in T : \A y \in T : x <= y
  <1>1. IsWellFoundedOn(OpToRel(<, Nat), Nat)
    BY NatLessThanWellFounded
  <1>2. \E x \in T : \A y \in T : ~(<<y, x>> \in OpToRel(<, Nat))
    BY <1>1, WFMin
  <1>3. ASSUME NEW x \in Nat, NEW y \in Nat, y < x
        PROVE  <<y, x>> \in OpToRel(<, Nat)
    BY <1>3 DEF OpToRel
  <1>4. PICK x \in T : \A y \in T : ~(<<y, x>> \in OpToRel(<, Nat))
    BY <1>2
  <1>5. ASSUME NEW y \in T
        PROVE  x <= y
    <2>1. ~(y < x)
      BY <1>3, <1>4
    <2> QED BY <2>1
  <1> QED BY <1>5

\* The recursion that defines Among has a solution.
LEMMA AmongDefined ==
  ASSUME NEW s, Len(s) \in Nat, NEW S
  PROVE  \E f : f = [i \in 0 .. Len(s) |->
           IF i = 0 THEN <<>> ELSE IF s[i] \in S THEN Append(f[i - 1], s[i]) ELSE f[i - 1]]
  <1> DEFINE Solves(f, n) == f = [i \in 0 .. n |->
               IF i = 0 THEN <<>> ELSE IF s[i] \in S THEN Append(f[i - 1], s[i]) ELSE f[i - 1]]
             Bad == {n \in 0 .. Len(s) : ~ \E f : Solves(f, n)}
  <1> SUFFICES ASSUME Bad # {} PROVE FALSE
    <2>1. Len(s) \in 0 .. Len(s)
      OBVIOUS
    <2> QED BY <2>1
  <1>1. Bad \subseteq Nat
    OBVIOUS
  <1> HIDE DEF Bad
  <1>2. PICK n \in Bad : \A m \in Bad : n <= m
    BY <1>1, LeastNat
  <1> USE DEF Bad
  <1>3. n # 0
    <2>1. Solves([i \in 0 .. 0 |-> <<>>], 0)
      OBVIOUS
    <2> QED BY <2>1, <1>2
  <1>4. n - 1 \in 0 .. Len(s) /\ n - 1 \notin Bad
    <2>1. n \in 0 .. Len(s)
      BY <1>2
    <2> HIDE DEF Bad
    <2> QED BY <1>2, <1>3, <2>1
  <1>5. PICK f : Solves(f, n - 1)
    BY <1>4
  <1>6. Solves([i \in 0 .. n |-> IF i < n THEN f[i]
                  ELSE IF s[n] \in S THEN Append(f[n - 1], s[n]) ELSE f[n - 1]], n)
    <2> DEFINE g == [i \in 0 .. n |-> IF i < n THEN f[i]
                       ELSE IF s[n] \in S THEN Append(f[n - 1], s[n]) ELSE f[n - 1]]
    <2>1. n \in Nat
      OBVIOUS
    <2>2. ASSUME NEW i \in 0 .. n
          PROVE  g[i] = IF i = 0 THEN <<>>
                        ELSE IF s[i] \in S THEN Append(g[i - 1], s[i]) ELSE g[i - 1]
      <3>1. CASE i = 0
        BY <1>3, <1>5, <2>1, <3>1
      <3>2. CASE i # 0 /\ i < n
        <4>1. i - 1 \in 0 .. n /\ i - 1 < n /\ i \in 0 .. n - 1
          BY <3>2, <2>1
        <4>2. g[i] = f[i] /\ g[i - 1] = f[i - 1]
          BY <3>2, <4>1
        <4> QED BY <1>5, <3>2, <4>1, <4>2
      <3>3. CASE i = n
        <4>1. n - 1 \in 0 .. n /\ n - 1 < n
          BY <2>1, <1>3
        <4>2. g[n - 1] = f[n - 1]
          BY <4>1
        <4> QED BY <3>3, <4>2, <1>3, <2>1
      <3> QED BY <3>1, <3>2, <3>3, <2>1
    <2> HIDE DEF Bad
    <2> QED BY <2>2
  <1> QED BY <1>6, <1>2

\* What Among selects are elements of s that are in S, none of them twice if s
\* has none twice.
LEMMA AmongSelects ==
  ASSUME NEW T, NEW s \in Seq(T), NEW S
  PROVE  /\ Among(s, S) \in Seq(T)
         /\ \A k \in DOMAIN Among(s, S) :
              Among(s, S)[k] \in S /\ \E i \in DOMAIN s : s[i] = Among(s, S)[k]
         /\ (\A i, j \in DOMAIN s : s[i] = s[j] => i = j) =>
              \A k, l \in DOMAIN Among(s, S) : Among(s, S)[k] = Among(s, S)[l] => k = l
  <1>1. Len(s) \in Nat /\ DOMAIN s = 1 .. Len(s)
    OBVIOUS
  <1> DEFINE f == CHOOSE f : f = [i \in 0 .. Len(s) |->
               IF i = 0 THEN <<>> ELSE IF s[i] \in S THEN Append(f[i - 1], s[i]) ELSE f[i - 1]]
  <1>2. f = [i \in 0 .. Len(s) |->
               IF i = 0 THEN <<>> ELSE IF s[i] \in S THEN Append(f[i - 1], s[i]) ELSE f[i - 1]]
    BY <1>1, AmongDefined
  <1>3. Among(s, S) = f[Len(s)]
    BY DEF Among
  <1> HIDE DEF f
  <1> DEFINE Good(n) ==
        /\ f[n] \in Seq(T)
        /\ \A k \in DOMAIN f[n] : f[n][k] \in S /\ \E i \in 1 .. n : s[i] = f[n][k]
        /\ (\A i, j \in DOMAIN s : s[i] = s[j] => i = j) =>
             \A k, l \in DOMAIN f[n] : f[n][k] = f[n][l] => k = l
             Bad == {n \in 0 .. Len(s) : ~Good(n)}
  <1>4. Bad = {}
    <2> SUFFICES ASSUME Bad # {} PROVE FALSE
      OBVIOUS
    <2>1. Bad \subseteq Nat
      BY <1>1
    <2> HIDE DEF Bad
    <2>2. PICK n \in Bad : \A m \in Bad : n <= m
      BY <2>1, LeastNat
    <2>3. n \in 0 .. Len(s) /\ ~Good(n)
      BY <2>2 DEF Bad
    <2>4. n # 0
      <3>1. f[0] = <<>>
        BY <1>1, <1>2
      <3>2. Good(0)
        BY <3>1
      <3> QED BY <3>2, <2>3
    <2>5. n - 1 \in 0 .. Len(s) /\ n \in DOMAIN s
      BY <2>3, <2>4, <1>1
    <2>6. Good(n - 1)
      BY <2>2, <2>5, <1>1 DEF Bad
    <2>7. CASE s[n] \notin S
      <3>1. f[n] = f[n - 1]
        BY <1>2, <2>3, <2>4, <2>7
      <3>2. 1 .. n - 1 \subseteq 1 .. n
        BY <2>3
      <3> QED BY <2>3, <2>6, <3>1, <3>2
    <2>8. CASE s[n] \in S
      <3>1. f[n] = Append(f[n - 1], s[n])
        BY <1>2, <2>3, <2>4, <2>8
      <3>2. s[n] \in T
        BY <2>5
      <3> DEFINE u == f[n - 1]
      <3>3. u \in Seq(T) /\ f[n] = Append(u, s[n])
        BY <2>6, <3>1
      <3>4. \A k \in DOMAIN u : u[k] \in S /\ \E i \in 1 .. n - 1 : s[i] = u[k]
        BY <2>6
      <3>5. (\A i, j \in DOMAIN s : s[i] = s[j] => i = j) =>
              \A k, l \in DOMAIN u : u[k] = u[l] => k = l
        BY <2>6
      <3> HIDE DEF u
      <3>6. f[n] \in Seq(T) /\ DOMAIN f[n] = 1 .. Len(u) + 1 /\ f[n][Len(u) + 1] = s[n]
            /\ DOMAIN u = 1 .. Len(u) /\ Len(u) \in Nat
            /\ \A k \in DOMAIN u : f[n][k] = u[k]
        BY <3>2, <3>3
      <3>7. \A k \in DOMAIN f[n] : k \in DOMAIN u \/ k = Len(u) + 1
        BY <3>6
      <3>8. ASSUME NEW k \in DOMAIN f[n]
            PROVE  f[n][k] \in S /\ \E i \in 1 .. n : s[i] = f[n][k]
        BY <3>4, <3>6, <3>7, <2>3, <2>4, <2>8
      <3>9. ASSUME \A i, j \in DOMAIN s : s[i] = s[j] => i = j,
                   NEW k \in DOMAIN f[n], NEW l \in DOMAIN f[n], f[n][k] = f[n][l]
            PROVE  k = l
        <4>1. \A m \in DOMAIN u : u[m] # s[n]
          <5>1. ASSUME NEW m \in DOMAIN u, u[m] = s[n]
                PROVE  FALSE
            <6>1. PICK i \in 1 .. n - 1 : s[i] = u[m]
              BY <3>4
            <6>2. i \in DOMAIN s /\ i # n
              BY <2>5, <1>1, <6>1
            <6> QED BY <6>1, <6>2, <5>1, <3>9, <2>5
          <5> QED BY <5>1
        <4> QED BY <4>1, <3>5, <3>6, <3>7, <3>9
      <3> QED BY <3>6, <3>8, <3>9, <2>3
    <2> QED BY <2>7, <2>8
  <1>5. Good(Len(s))
    BY <1>1, <1>4
  <1> QED BY <1>1, <1>3, <1>5
-----------------------------------------------------------------------------
(* The parts of TypeOK.                                                     *)

AnswerType == [kind : {"none", "document", "absent", "unavailable", "refused"}, v : 0 .. MaxVersion]
OpType == [op : {"listen", "remove"}, read : Reads]
EventType == [read : Reads, error : BOOLEAN, doc : Document, synced : BOOLEAN,
              since : 0 .. MaxVersion]
ViewType == [doc : Document, current : BOOLEAN, since : 0 .. MaxVersion]
MessageType == [type : {"added", "removed", "doc", "current", "snapshot", "error"},
                v : 0 .. MaxVersion]

CallsOK ==
  /\ asked \in 0 .. MaxReads
  /\ answer \in [Reads -> AnswerType]
  /\ floor \in [Reads -> 0 .. MaxVersion]
  /\ workerq \in Seq(OpType)
  /\ mainq \in Seq(EventType)
  /\ muted \in SUBSET Reads

EngineOK ==
  /\ listeners \in Seq(Reads)
  /\ raised \in SUBSET Reads
  /\ view \in ViewType
  /\ cached \in Document
  /\ synced \in BOOLEAN

\* Every failure of the stream that is counted is a fault.
WatchOK ==
  /\ online \in {"Unknown", "Online", "Offline"}
  /\ failures \in 0 .. faults
  /\ timer \in BOOLEAN
  /\ stream \in States
  /\ idle \in BOOLEAN
  /\ target \in [pending : Nat, current : BOOLEAN]
  /\ update \in -1 .. MaxVersion

ConnOK ==
  /\ requests \in Seq({"watch", "unwatch"})
  /\ responses \in Seq(MessageType)
  /\ serving \in -1 .. MaxVersion
  /\ version \in 0 .. MaxVersion
  /\ denied \in BOOLEAN
  /\ faults \in 0 .. MaxFaults

Typed == CallsOK /\ EngineOK /\ WatchOK /\ ConnOK

\* The parts are the whole.
LEMMA Parts == Typed => TypeOK
  BY FaultsAssumption DEF Typed, CallsOK, EngineOK, WatchOK, ConnOK, TypeOK, AnswerType, OpType,
     EventType, ViewType, MessageType, States

\* No listener is registered twice.
Distinct(s) == \A i, j \in DOMAIN s : s[i] = s[j] => i = j

\* The events of a step: the view as it is after the step, to some of the
\* listeners there are then.
Told(who) ==
  /\ who \in Seq(Reads)
  /\ Distinct(who)
  /\ \A i \in DOMAIN who : \E j \in DOMAIN listeners' : listeners'[j] = who[i]
  /\ mainq' = mainq \o [i \in DOMAIN who |-> Event(who[i], view')]

Emission == \E who : Told(who)

\* Among the listeners, for an emission.
LEMMA AmongListeners ==
  ASSUME listeners \in Seq(Reads), Distinct(listeners), NEW S, UNCHANGED listeners
  PROVE  /\ Among(listeners, S) \in Seq(Reads)
         /\ Distinct(Among(listeners, S))
         /\ \A i \in DOMAIN Among(listeners, S) :
              \E j \in DOMAIN listeners' : listeners'[j] = Among(listeners, S)[i]
  <1>1. \A i, j \in DOMAIN listeners : listeners[i] = listeners[j] => i = j
    BY DEF Distinct
  <1> DEFINE who == Among(listeners, S)
  <1>2. /\ who \in Seq(Reads)
        /\ \A k \in DOMAIN who : who[k] \in S /\ \E i \in DOMAIN listeners : listeners[i] = who[k]
        /\ (\A i, j \in DOMAIN listeners : listeners[i] = listeners[j] => i = j) =>
              \A k, l \in DOMAIN who : who[k] = who[l] => k = l
    BY AmongSelects
  <1> HIDE DEF who
  <1>3. /\ who \in Seq(Reads)
        /\ Distinct(who)
        /\ \A i \in DOMAIN who : \E j \in DOMAIN listeners' : listeners'[j] = who[i]
    BY <1>1, <1>2 DEF Distinct
  <1> QED BY <1>3 DEF who

\* SetAndBroadcast(Offline).
LEMMA GoOfflineFacts ==
  ASSUME EngineOK, Distinct(listeners), GoOffline, UNCHANGED listeners
  PROVE  /\ mainq' = mainq \/ Emission
         /\ raised' \in SUBSET Reads
         /\ view' = view \/ view' = [view EXCEPT !.current = FALSE]
         /\ online' = "Offline"
  <1>1. CASE online = "Offline"
    BY <1>1 DEF GoOffline, Silent, EngineOK
  <1>2. CASE online # "Offline"
    <2> DEFINE w == [view EXCEPT !.current = FALSE]
               S == {r \in Reads : view.current \/ r \notin raised}
    <2>1. Emit(Among(listeners, S), w) /\ view' = w /\ online' = "Offline"
      BY <1>2 DEF GoOffline
    <2>2. PICK who : who = Among(listeners, S)
      OBVIOUS
    <2> HIDE DEF w, S
    <2>3. /\ who \in Seq(Reads) /\ Distinct(who)
          /\ \A i \in DOMAIN who : \E j \in DOMAIN listeners' : listeners'[j] = who[i]
      BY <2>2, AmongListeners DEF EngineOK
    <2>4. Emit(who, view')
      BY <2>1, <2>2
    <2>5. Told(who)
      BY <2>3, <2>4 DEF Told, Emit
    <2>6. raised' \in SUBSET Reads
      <3>1. raised' = raised \cup {who[i] : i \in DOMAIN who}
        BY <2>4 DEF Emit
      <3>2. \A i \in DOMAIN who : who[i] \in Reads
        BY <2>3, ElementOfSeq, LenProperties
      <3> QED BY <3>1, <3>2 DEF EngineOK
    <2> QED BY <2>1, <2>5, <2>6 DEF Emission, w
  <1> QED BY <1>1, <1>2

\* The listener that AddQueryListener adds, and its event.
LEMMA AddedFacts ==
  ASSUME CallsOK, EngineOK, Distinct(listeners), JoinListeners \/ FirstListener,
         \A j \in DOMAIN listeners : Head(workerq).read # listeners[j]
  PROVE  /\ Head(workerq) \in OpType
         /\ listeners' \in Seq(Reads) /\ Distinct(listeners') /\ Listened'
         /\ \A j \in DOMAIN listeners' : listeners'[j] = Head(workerq).read
                                          \/ \E i \in DOMAIN listeners : listeners'[j] = listeners[i]
         /\ mainq' = mainq \/ Emission
         /\ raised' \in SUBSET Reads
  <1> DEFINE r == Head(workerq).read
  <1>1. workerq # <<>> /\ workerq \in Seq(OpType) /\ Head(workerq) \in OpType
    <2>1. workerq # <<>>
      BY DEF JoinListeners, FirstListener, IsListen
    <2> QED BY <2>1, TailFacts DEF CallsOK
  <1>2. r \in Reads
    BY <1>1 DEF OpType
  <1>3. /\ listeners' \in Seq(Reads) /\ Distinct(listeners') /\ Listened'
        /\ \A j \in DOMAIN listeners' : listeners'[j] = r
                                         \/ \E i \in DOMAIN listeners : listeners'[j] = listeners[i]
        /\ \E j \in DOMAIN listeners' : listeners'[j] = r
    <2>1. CASE JoinListeners
      <3>1. listeners' = Append(listeners, r)
        BY <2>1 DEF JoinListeners
      <3>2. /\ Len(listeners) \in Nat /\ DOMAIN listeners = 1 .. Len(listeners)
            /\ listeners' \in Seq(Reads)
            /\ DOMAIN listeners' = 1 .. Len(listeners) + 1
            /\ \A i \in 1 .. Len(listeners) : listeners'[i] = listeners[i]
            /\ listeners'[Len(listeners) + 1] = r
        BY <1>2, <3>1, AppendFacts DEF EngineOK
      <3>3. \A j \in DOMAIN listeners' : j \in DOMAIN listeners \/ j = Len(listeners) + 1
        BY <3>2
      <3>4. Distinct(listeners')
        BY <3>2, <3>3 DEF Distinct
      <3>5. Len(listeners) + 1 \in DOMAIN listeners'
        BY <3>2
      <3> QED BY <3>2, <3>3, <3>4, <3>5 DEF Listened
    <2>2. CASE FirstListener
      <3>1. listeners' = <<r>>
        BY <2>2 DEF FirstListener
      <3>2. DOMAIN listeners' = {1} /\ listeners'[1] = r /\ listeners' # <<>> /\ listeners' \in Seq(Reads)
        BY <3>1, <1>2
      <3> QED BY <3>2 DEF Distinct, Listened
    <2> QED BY <2>1, <2>2
  <1>4. (Emit(<<r>>, view') \/ Silent)
    BY DEF JoinListeners, FirstListener, engine
  <1>5. CASE Silent
    BY <1>1, <1>3, <1>5 DEF Silent, EngineOK
  <1>6. CASE Emit(<<r>>, view')
    <2>1. PICK who : who = <<r>>
      OBVIOUS
    <2>2. who \in Seq(Reads) /\ DOMAIN who = {1} /\ who[1] = r
      BY <2>1, <1>2
    <2>3. Told(who)
      BY <2>1, <2>2, <1>3, <1>6 DEF Told, Emit, Distinct
    <2>4. raised' \in SUBSET Reads
      BY <2>1, <2>2, <1>2, <1>6 DEF Emit, EngineOK
    <2> QED BY <1>1, <1>3, <2>3, <2>4 DEF Emission
  <1> QED BY <1>4, <1>5, <1>6

-----------------------------------------------------------------------------
(* The invariant.                                                           *)

ListenOps == {i \in DOMAIN workerq : workerq[i].op = "listen"}

\* Only calls that were made are on the queues and among the listeners.
AskedInv ==
  /\ \A i \in DOMAIN workerq : workerq[i].read <= asked
  /\ \A i \in DOMAIN mainq : mainq[i].read <= asked
  /\ \A i \in DOMAIN listeners : listeners[i] <= asked
  /\ \A r \in Reads : r > asked => answer[r] = NoAnswer

\* A call is in one place: its listen waits on the worker queue, and nothing was
\* said to it, or it is a listener, once.
PlacesInv ==
  /\ Distinct(listeners)
  /\ \A i, j \in ListenOps : workerq[i].read = workerq[j].read => i = j
  /\ \A i \in ListenOps :
       /\ \A j \in DOMAIN listeners : listeners[j] # workerq[i].read
       /\ \A j \in DOMAIN mainq : mainq[j].read # workerq[i].read
       /\ answer[workerq[i].read] = NoAnswer

\* An error is the last that a call hears, and one that is not muted has no
\* answer as long as there is something to tell it.
LastWordInv ==
  /\ \A i \in DOMAIN mainq : mainq[i].error =>
       /\ \A j \in DOMAIN listeners : listeners[j] # mainq[i].read
       /\ \A j \in DOMAIN mainq : mainq[j].read = mainq[i].read => j <= i
  /\ \A i \in DOMAIN mainq : mainq[i].read \notin muted => answer[mainq[i].read] = NoAnswer
  /\ \A i \in DOMAIN listeners : listeners[i] \notin muted => answer[listeners[i]] = NoAnswer

\* A reader who is refused sees nothing but errors, another none.
RefusedInv ==
  IF denied
  THEN /\ \A i \in DOMAIN responses : responses[i].type = "error"
       /\ serving = NotServed
       /\ update = NoVersion /\ cached = Unknown /\ view.doc = Unknown
       /\ ~view.current /\ ~target.current /\ ~synced
       /\ \A i \in DOMAIN mainq : mainq[i].doc = Unknown /\ ~mainq[i].synced
  ELSE /\ \A i \in DOMAIN responses : responses[i].type # "error"
       /\ \A i \in DOMAIN mainq : ~mainq[i].error

Truthful(d) == d.v \in 0 .. version /\ d = Doc(d.v)

\* The cache holds what the document was at some version, the view what the cache
\* holds, and what the view calls current is as new as its listen.
DocInv ==
  /\ cached # Unknown => Truthful(cached)
  /\ synced => cached # Unknown
  /\ view.since <= version
  /\ Listened => view.doc = cached
  /\ Listened /\ view.current => view.since <= view.doc.v

\* An event that says something of the document says what was so when its call
\* was made, or later, and nothing newer than the cache.
EventOK(e, c, f) ==
  /\ e.doc.v <= c.v
  /\ e.synced => e.since <= e.doc.v
  /\ e.synced \/ e.doc.exists => e.doc = Doc(e.doc.v) /\ f[e.read] <= e.doc.v

\* Nothing newer than the cache was told.
ToldInv ==
  /\ \A i \in DOMAIN mainq : EventOK(mainq[i], cached, floor)
  /\ \A r \in Reads : answer[r].v = 0 \/ answer[r].v <= cached.v
  /\ \A r \in Reads : floor[r] = 0 \/ floor[r] <= cached.v

\* The aggregator starts afresh with the stream.
QuietInv == stream # "Open" => target = Fresh /\ update = NoVersion

AcksOf(s) == {i \in DOMAIN s : s[i].type \in {"added", "removed"}}

\* What the target awaits is on its way; watches and their ends take turns, and
\* the last one is what the client wants.
AwaitedInv ==
  ~denied =>
    /\ target.pending = Len(requests) + Cardinality(AcksOf(responses))
    /\ \A i \in DOMAIN requests :
         requests[i] = "watch" <=> IF i = 1 THEN serving = NotServed ELSE requests[i - 1] # "watch"
    /\ stream = "Open" =>
         (Listened <=> IF requests = <<>> THEN serving # NotServed
                       ELSE requests[Len(requests)] = "watch")

Versioned(m) == m.type \in {"doc", "snapshot"}

\* No acknowledgement of a watch follows.
Latest(i) == \A j \in DOMAIN responses : j > i => responses[j].type # "added"

\* Versions only grow on the way to the cache, and what answers the watch of the
\* listen is as new as the listen.
VersionsInv ==
  /\ \A i \in DOMAIN responses : Versioned(responses[i]) =>
       cached.v <= responses[i].v /\ responses[i].v <= version
  /\ \A i, j \in DOMAIN responses :
       Versioned(responses[i]) /\ Versioned(responses[j]) /\ i <= j => responses[i].v <= responses[j].v
  /\ Listened /\ requests = <<>> =>
       \A i \in DOMAIN responses :
         Versioned(responses[i]) /\ Latest(i) => view.since <= responses[i].v

\* A current view that awaits an answer awaits the one to the watch of a new stream.
RestoredInv ==
  Listened /\ view.current /\ target.pending > 0 =>
    /\ target.pending = 1
    /\ \/ requests = <<"watch">> /\ responses = <<>>
       \/ requests = <<>> /\ responses # <<>> /\ responses[1].type = "added"

\* Message i of s is the snapshot of version n, or it is "current" and the next one is.
SnapshotAt(s, i, n) ==
  \/ i \in DOMAIN s /\ s[i] = Message("snapshot", n)
  \/ /\ i \in DOMAIN s /\ s[i].type = "current"
     /\ i + 1 \in DOMAIN s /\ s[i + 1] = Message("snapshot", n)

\* A document comes before the snapshot it is part of.
DocumentsInv ==
  /\ \A i \in DOMAIN responses :
       responses[i].type = "doc" => responses[i].v > 0 /\ SnapshotAt(responses, i + 1, responses[i].v)
  /\ \A i \in DOMAIN responses : responses[i].type = "snapshot" /\ responses[i].v > 0 =>
       \/ i > 1 /\ responses[i - 1] = Message("doc", responses[i].v)
       \/ i > 2 /\ responses[i - 1].type = "current" /\ responses[i - 2] = Message("doc", responses[i].v)
       \/ /\ i = 1 \/ (i = 2 /\ responses[1].type = "current")
          /\ IsActive => update = responses[i].v
  /\ update # NoVersion => SnapshotAt(responses, 1, update)

ReadInv ==
  /\ Typed
  /\ AskedInv /\ PlacesInv /\ LastWordInv /\ RefusedInv /\ DocInv /\ ToldInv
  /\ QuietInv /\ AwaitedInv /\ VersionsInv /\ RestoredInv /\ DocumentsInv

\* What is written to the cache is a document.
LEMMA RemoteUpdateTyped ==
  ASSUME EngineOK, WatchOK, NEW s \in 0 .. MaxVersion
  PROVE  RemoteUpdate(s) \in Document
  <1>1. \A n \in -1 .. MaxVersion : Doc(n) \in Document
    BY DEF Doc, Exists, Document
  <1>2. [v |-> s, exists |-> FALSE] \in Document
    BY VersionAssumption DEF Document
  <1> QED BY <1>1, <1>2 DEF RemoteUpdate, EngineOK, WatchOK

\* The message at the head of the connection.
LEMMA HeadMessage ==
  ASSUME ConnOK, NEW type, OnWatchStreamChange(type)
  PROVE  /\ responses # <<>> /\ responses \in Seq(MessageType)
         /\ Len(responses) \in Nat /\ Len(responses) >= 1 /\ DOMAIN responses = 1 .. Len(responses)
         /\ Head(responses) = responses[1] /\ responses[1] \in MessageType
         /\ responses[1].type = type /\ responses[1].v \in 0 .. MaxVersion
         /\ responses' = Tail(responses) /\ responses' \in Seq(MessageType)
         /\ Len(responses') = Len(responses) - 1 /\ DOMAIN responses' = 1 .. Len(responses) - 1
         /\ \A i \in 1 .. Len(responses) - 1 : responses'[i] = responses[i + 1]
  <1>1. responses # <<>> /\ Head(responses).type = type /\ responses' = Tail(responses)
    BY DEF OnWatchStreamChange
  <1>2. responses \in Seq(MessageType)
    BY DEF ConnOK
  <1>3. /\ Len(responses) \in Nat /\ Len(responses) >= 1 /\ DOMAIN responses = 1 .. Len(responses)
        /\ Head(responses) = responses[1] /\ responses[1] \in MessageType
        /\ Tail(responses) \in Seq(MessageType)
        /\ Len(Tail(responses)) = Len(responses) - 1 /\ DOMAIN Tail(responses) = 1 .. Len(responses) - 1
        /\ \A i \in 1 .. Len(responses) - 1 : Tail(responses)[i] = responses[i + 1]
    BY <1>1, <1>2, TailFacts
  <1>4. responses[1].v \in 0 .. MaxVersion
    BY <1>3 DEF MessageType
  <1> QED BY <1>1, <1>2, <1>3, <1>4

\* A snapshot is written to the cache, and shown to those that listen.
LEMMA SnapshotFacts ==
  ASSUME Typed, Distinct(listeners), OnSnapshot
  PROVE  /\ mainq' = mainq \/ Emission
         /\ raised' \in SUBSET Reads
         /\ cached' = RemoteUpdate(responses[1].v) /\ cached' \in Document
         /\ synced' = (IF IsActive THEN cached'.exists ELSE synced) /\ synced' \in BOOLEAN
         /\ IF Listened
            THEN /\ view' = [view EXCEPT !.doc = cached',
                                         !.current = IF IsActive THEN target.current ELSE @]
            ELSE UNCHANGED view
         /\ UNCHANGED <<listeners, target>> /\ update' = NoVersion
         /\ view' \in ViewType
  <1>1. OnWatchStreamChange("snapshot")
    BY DEF OnSnapshot
  <1>2. Head(responses) = responses[1] /\ responses[1].v \in 0 .. MaxVersion
    BY <1>1, HeadMessage DEF Typed
  <1> DEFINE d == RemoteUpdate(responses[1].v)
             w == [view EXCEPT !.doc = d, !.current = IF IsActive THEN target.current ELSE @]
             S == {r \in Reads : ShouldRaise(r, w, "Online")}
  <1>3. d \in Document
    BY <1>2, RemoteUpdateTyped DEF Typed
  <1>4. cached' = d /\ synced' = (IF IsActive THEN d.exists ELSE synced) /\ UNCHANGED <<listeners, target>>
        /\ update' = NoVersion
        /\ IF Listened
           THEN view' = w /\ (Emit(Among(listeners, S), w) \/ Silent)
           ELSE Silent /\ UNCHANGED view
    BY <1>2 DEF OnSnapshot
  <1>5. w \in ViewType
    <2>1. view \in ViewType /\ target.current \in BOOLEAN
      BY DEF Typed, EngineOK, WatchOK
    <2> QED BY <1>3, <2>1 DEF ViewType
  <1> HIDE DEF d, S
  <1>6. d.exists \in BOOLEAN
    BY <1>3 DEF Document
  <1>7. (mainq' = mainq \/ Emission) /\ raised' \in SUBSET Reads
    <2>1. CASE Silent
      BY <2>1 DEF Silent, Typed, EngineOK
    <2>2. CASE Emit(Among(listeners, S), w) /\ view' = w
      <3> HIDE DEF w
      <3>1. PICK who : who = Among(listeners, S)
        OBVIOUS
      <3>2. /\ who \in Seq(Reads) /\ Distinct(who)
            /\ \A i \in DOMAIN who : \E j \in DOMAIN listeners' : listeners'[j] = who[i]
        BY <3>1, <1>4, AmongListeners DEF Typed, EngineOK
      <3>3. Emit(who, view')
        BY <2>2, <3>1
      <3>4. Told(who)
        BY <3>2, <3>3 DEF Told, Emit
      <3>5. raised' = raised \cup {who[i] : i \in DOMAIN who}
        BY <3>3 DEF Emit
      <3>6. \A i \in DOMAIN who : who[i] \in Reads
        BY <3>2, ElementOfSeq, LenProperties
      <3>7. raised' \in SUBSET Reads
        BY <3>5, <3>6 DEF Typed, EngineOK
      <3> QED BY <3>4, <3>7 DEF Emission
    <2> QED BY <1>4, <2>1, <2>2
  <1>8. synced' \in BOOLEAN /\ view' \in ViewType
    BY <1>4, <1>5, <1>6 DEF Typed, EngineOK
  <1> QED BY <1>3, <1>4, <1>7, <1>8 DEF d

\* The events of an emission are events.
LEMMA EmissionTyped ==
  ASSUME CallsOK, Emission, view' \in ViewType
  PROVE  mainq' \in Seq(EventType)
  <1>1. PICK who : Told(who)
    BY DEF Emission
  <1>2. who \in Seq(Reads) /\ mainq' = mainq \o [i \in DOMAIN who |-> Event(who[i], view')]
    BY <1>1 DEF Told
  <1>3. Len(who) \in Nat /\ DOMAIN who = 1 .. Len(who) /\ \A i \in DOMAIN who : who[i] \in Reads
    BY <1>2, LenProperties, ElementOfSeq
  <1>4. \A r \in Reads : Event(r, view') \in EventType
    BY DEF ViewType, Event, EventType
  <1>5. [i \in DOMAIN who |-> Event(who[i], view')] \in Seq(EventType)
    BY <1>3, <1>4, IsASeq
  <1> QED BY <1>2, <1>5, ConcatProperties DEF CallsOK

\* The listen at the head of the worker queue is of a call that is nowhere else.
LEMMA HeadListen ==
  ASSUME ReadInv, IsListen
  PROVE  /\ workerq # <<>> /\ workerq \in Seq(OpType) /\ Head(workerq) = workerq[1]
         /\ 1 \in ListenOps /\ Head(workerq) \in OpType
         /\ \A j \in DOMAIN listeners : Head(workerq).read # listeners[j]
  <1>1. workerq # <<>> /\ Head(workerq).op = "listen"
    BY DEF IsListen
  <1>2. workerq \in Seq(OpType)
    BY DEF ReadInv, Typed, CallsOK
  <1>3. Len(workerq) >= 1 /\ DOMAIN workerq = 1 .. Len(workerq) /\ Head(workerq) = workerq[1]
        /\ workerq[1] \in OpType /\ Len(workerq) \in Nat
    BY <1>1, <1>2, TailFacts
  <1>4. 1 \in ListenOps
    BY <1>1, <1>3 DEF ListenOps
  <1> QED BY <1>1, <1>2, <1>3, <1>4 DEF ReadInv, PlacesInv

\* Which steps touch what the calls have: the main queue grows by an emission or
\* by failures, or ListenOnce takes an event from it.
LEMMA MainqSteps ==
  ASSUME ReadInv, Next
  PROVE  \/ mainq' = mainq
         \/ Emission
         \/ OnEvent
         \/ OnTargetError /\ Listened
  <1> USE DEF ReadInv, PlacesInv
  <1>1. CASE JoinListeners \/ FirstListener
    <2>1. IsListen
      BY <1>1 DEF JoinListeners, FirstListener
    <2> QED BY <1>1, <2>1, AddedFacts, HeadListen DEF Typed
  <1>2. CASE OnWatchStreamClose
    <2>1. HandleWatchStreamFailure \/ mainq' = mainq
      BY <1>2 DEF OnWatchStreamClose, Silent
    <2>2. UNCHANGED listeners
      BY <1>2 DEF OnWatchStreamClose
    <2> QED BY <2>1, <2>2, GoOfflineFacts DEF HandleWatchStreamFailure, Typed
  <1>3. CASE OnlineStateTimeout
    BY <1>3, GoOfflineFacts DEF OnlineStateTimeout, Typed
  <1>4. CASE OnSnapshot
    BY <1>4, SnapshotFacts
  <1>5. CASE OnTargetError
    BY <1>5 DEF OnTargetError
  <1>6. CASE RemoveQueryListener \/ BackoffElapses \/ IdleTimeout \/ ResumeStartWithCredentials
             \/ HandleCredentialChange \/ Server
    BY <1>6 DEF RemoveQueryListener, BackoffElapses, IdleTimeout, ResumeStartWithCredentials,
                HandleCredentialChange, Server, ServerChanges, ServerReads, ServerNotifies, calls
  <1>7. CASE OnTargetAdded \/ OnTargetRemoved \/ OnTargetCurrent \/ OnDocument
    BY <1>7 DEF OnTargetAdded, OnTargetRemoved, OnTargetCurrent, OnDocument
  <1>8. CASE GetDocument
    BY <1>8 DEF GetDocument
  <1> QED
    BY <1>1, <1>2, <1>3, <1>4, <1>5, <1>6, <1>7, <1>8
       DEF Next, WorkerQueue, Timers, Connection, Messages

-----------------------------------------------------------------------------
(* Every step keeps the types.                                              *)

\* What ListenOnce makes of an event that is true.
LEMMA AnswerTyped ==
  ASSUME Typed, NEW e \in EventType, EventOK(e, cached, floor)
  PROVE  AnswerTo(e) \in AnswerType
  <1>1. e.doc.v \in -1 .. MaxVersion /\ e.error \in BOOLEAN /\ e.synced \in BOOLEAN
        /\ e.doc.exists \in BOOLEAN /\ e.read \in Reads
    BY DEF EventType, Document
  <1>2. floor[e.read] \in 0 .. MaxVersion
    BY <1>1 DEF Typed, CallsOK
  <1>3. e.synced \/ e.doc.exists => e.doc.v \in 0 .. MaxVersion
    BY <1>1, <1>2, VersionAssumption DEF EventOK
  <1>4. 0 \in 0 .. MaxVersion
    BY VersionAssumption
  <1> QED BY <1>1, <1>3, <1>4 DEF AnswerTo, AnswerType

\* Those of the engine.
LEMMA EngineTyped ==
  ASSUME ReadInv, [Next]_vars
  PROVE  EngineOK'
  <1> USE DEF ReadInv, Typed, PlacesInv
  <1>1. CASE UNCHANGED engine
    BY <1>1 DEF engine, EngineOK
  <1>2. CASE JoinListeners
    <2>1. listeners' \in Seq(Reads) /\ raised' \in SUBSET Reads
      BY <1>2, AddedFacts, HeadListen DEF JoinListeners
    <2> QED BY <1>2, <2>1 DEF JoinListeners, EngineOK
  <1>3. CASE FirstListener
    <2>1. listeners' \in Seq(Reads) /\ raised' \in SUBSET Reads
      BY <1>3, AddedFacts, HeadListen DEF FirstListener
    <2>2. view' \in ViewType
      BY <1>3 DEF FirstListener, ViewType, EngineOK, ConnOK
    <2> QED BY <1>3, <2>1, <2>2 DEF FirstListener, EngineOK
  <1>4. CASE RemoveQueryListener
    <2>1. Among(listeners, Reads \ {Head(workerq).read}) \in Seq(Reads)
      BY AmongSelects DEF EngineOK
    <2>2. listeners' \in Seq(Reads)
      BY <1>4, <2>1 DEF RemoveQueryListener, EngineOK
    <2> QED BY <1>4, <2>2 DEF RemoveQueryListener, EngineOK
  <1>5. CASE OnWatchStreamClose
    <2>1. UNCHANGED <<listeners, cached, synced>>
      BY <1>5 DEF OnWatchStreamClose
    <2>2. raised' \in SUBSET Reads /\ (view' = view \/ view' = [view EXCEPT !.current = FALSE])
      <3>1. CASE Listened
        BY <1>5, <2>1, <3>1, GoOfflineFacts DEF OnWatchStreamClose, HandleWatchStreamFailure, EngineOK
      <3>2. CASE ~Listened
        BY <1>5, <3>2 DEF OnWatchStreamClose, Silent, EngineOK
      <3> QED BY <3>1, <3>2
    <2>3. view' \in ViewType
      BY <2>2 DEF ViewType, EngineOK
    <2> QED BY <2>1, <2>2, <2>3 DEF EngineOK
  <1>6. CASE OnlineStateTimeout
    <2>1. UNCHANGED <<listeners, cached, synced>> /\ GoOffline
      BY <1>6 DEF OnlineStateTimeout
    <2>2. raised' \in SUBSET Reads /\ (view' = view \/ view' = [view EXCEPT !.current = FALSE])
      BY <2>1, GoOfflineFacts
    <2>3. view' \in ViewType
      BY <2>2 DEF ViewType, EngineOK
    <2> QED BY <2>1, <2>2, <2>3 DEF EngineOK
  <1>7. CASE OnSnapshot
    <2>1. UNCHANGED listeners /\ raised' \in SUBSET Reads /\ cached' \in Document
          /\ synced' \in BOOLEAN /\ view' \in ViewType
      BY <1>7, SnapshotFacts
    <2> QED BY <2>1 DEF EngineOK
  <1>8. CASE OnTargetError
    <2>1. (listeners' = <<>> \/ listeners' = listeners) /\ UNCHANGED <<raised, view, cached, synced>>
      BY <1>8 DEF OnTargetError
    <2>2. listeners \in Seq(Reads) /\ <<>> \in Seq(Reads)
      BY EmptySeq DEF EngineOK
    <2>3. listeners' \in Seq(Reads)
      BY <2>1, <2>2
    <2> QED BY <2>1, <2>3 DEF EngineOK
  <1>9. CASE GetDocument \/ OnEvent \/ BackoffElapses \/ IdleTimeout \/ ResumeStartWithCredentials
             \/ HandleCredentialChange \/ Server
    BY <1>1, <1>9 DEF GetDocument, OnEvent, BackoffElapses, IdleTimeout,
                ResumeStartWithCredentials, HandleCredentialChange, Server, ServerChanges,
                ServerReads, ServerNotifies
  <1>10. CASE OnTargetAdded \/ OnTargetRemoved \/ OnTargetCurrent \/ OnDocument
    BY <1>1, <1>10 DEF OnTargetAdded, OnTargetRemoved, OnTargetCurrent, OnDocument
  <1>11. CASE UNCHANGED vars
    BY <1>1, <1>11 DEF vars
  <1> QED
    BY <1>2, <1>3, <1>4, <1>5, <1>6, <1>7, <1>8, <1>9, <1>10, <1>11
       DEF Next, WorkerQueue, Timers, Connection, Messages

\* Those of the calls.
LEMMA CallsTyped ==
  ASSUME ReadInv, [Next]_vars
  PROVE  CallsOK'
  <1> USE DEF ReadInv, Typed
  <1>1. CASE GetDocument
    <2>1. asked + 1 \in Reads /\ asked' = asked + 1 /\ asked' \in 0 .. MaxReads
      BY <1>1, ReadsAssumption DEF GetDocument, CallsOK, Reads
    <2>2. floor' \in [Reads -> 0 .. MaxVersion]
      BY <1>1, <2>1 DEF GetDocument, CallsOK
    <2>3. [op |-> "listen", read |-> asked'] \in OpType
      BY <2>1 DEF OpType
    <2>4. workerq' \in Seq(OpType)
      BY <1>1, <2>3, AppendProperties DEF GetDocument, CallsOK
    <2> QED BY <1>1, <2>1, <2>2, <2>4 DEF GetDocument, CallsOK
  <1>2. CASE OnEvent
    <2>1. PICK e : e = Head(mainq)
      OBVIOUS
    <2>2. mainq # <<>> /\ mainq' = Tail(mainq) /\ UNCHANGED <<asked, floor>>
      BY <1>2 DEF OnEvent
    <2>3. e \in EventType /\ e = mainq[1] /\ 1 \in DOMAIN mainq /\ mainq' \in Seq(EventType)
      BY <2>1, <2>2, TailFacts DEF CallsOK
    <2>4. AnswerTo(e) \in AnswerType
      BY <2>3, AnswerTyped DEF ToldInv
    <2>5. e.read \in Reads
      BY <2>3 DEF EventType
    <2>6. answer' \in [Reads -> AnswerType]
      BY <1>2, <2>1, <2>4 DEF OnEvent, CallsOK
    <2>7. muted' \in SUBSET Reads
      BY <1>2, <2>1, <2>5 DEF OnEvent, Remove, CallsOK
    <2>8. [op |-> "remove", read |-> e.read] \in OpType
      BY <2>5 DEF OpType
    <2>9. workerq' = workerq \/ workerq' = Append(workerq, [op |-> "remove", read |-> e.read])
      BY <1>2, <2>1 DEF OnEvent, Remove
    <2>10. workerq' \in Seq(OpType)
      <3>1. PICK o \in OpType : o = [op |-> "remove", read |-> e.read]
        BY <2>8
      <3>2. workerq \in Seq(OpType) /\ (workerq' = workerq \/ workerq' = Append(workerq, o))
        BY <2>9, <3>1 DEF CallsOK
      <3> QED BY <3>2
    <2> QED BY <2>2, <2>3, <2>6, <2>7, <2>10 DEF CallsOK
  <1>3. CASE JoinListeners \/ FirstListener \/ RemoveQueryListener
    <2>1. workerq # <<>> /\ workerq' = Tail(workerq) /\ UNCHANGED <<asked, answer, floor, muted>>
      BY <1>3 DEF JoinListeners, FirstListener, RemoveQueryListener, IsListen, IsRemoval
    <2>2. workerq' \in Seq(OpType)
      BY <2>1, TailFacts DEF CallsOK
    <2>3. mainq' = mainq \/ Emission
      BY <1>3, AddedFacts, HeadListen
         DEF JoinListeners, FirstListener, RemoveQueryListener, PlacesInv
    <2>4. view' \in ViewType
      BY EngineTyped, <1>3 DEF Next, WorkerQueue, EngineOK
    <2>5. mainq' \in Seq(EventType)
      BY <2>3, <2>4, EmissionTyped DEF CallsOK
    <2> QED BY <2>1, <2>2, <2>5 DEF CallsOK
  <1>4. CASE OnTargetError /\ Listened
    <2>1. mainq' = mainq \o [i \in DOMAIN listeners |-> Failure(listeners[i])]
          /\ UNCHANGED <<asked, answer, floor, workerq, muted>>
      BY <1>4 DEF OnTargetError, OnWatchStreamChange
    <2>2. Len(listeners) \in Nat /\ DOMAIN listeners = 1 .. Len(listeners)
          /\ \A i \in DOMAIN listeners : listeners[i] \in Reads
      BY LenProperties, ElementOfSeq DEF EngineOK
    <2>3. \A r \in Reads : Failure(r) \in EventType
      BY VersionAssumption DEF Failure, EventType, Unknown, Document, NoVersion
    <2>4. [i \in DOMAIN listeners |-> Failure(listeners[i])] \in Seq(EventType)
      BY <2>2, <2>3, IsASeq
    <2>5. mainq' \in Seq(EventType)
      BY <2>1, <2>4, ConcatProperties DEF CallsOK
    <2> QED BY <2>1, <2>5 DEF CallsOK
  <1>5. CASE /\ Next
             /\ ~(GetDocument \/ OnEvent \/ WorkerQueue \/ (OnTargetError /\ Listened))
    <2>1. mainq' = mainq \/ Emission
      BY <1>5, MainqSteps
    <2>2. UNCHANGED <<asked, answer, floor, workerq, muted>>
      BY <1>5 DEF Next, Timers, Connection, Messages, Server, BackoffElapses, OnlineStateTimeout,
                  IdleTimeout, ResumeStartWithCredentials, OnWatchStreamClose,
                  HandleCredentialChange, OnTargetAdded, OnTargetRemoved, OnTargetCurrent,
                  OnDocument, OnSnapshot, OnTargetError, OnWatchStreamChange, ServerChanges,
                  ServerReads, ServerNotifies, calls
    <2>3. mainq' \in Seq(EventType)
      BY <2>1, EmissionTyped, EngineTyped DEF CallsOK, EngineOK
    <2> QED BY <2>2, <2>3 DEF CallsOK
  <1>6. CASE UNCHANGED vars
    BY <1>6 DEF vars, calls, CallsOK
  <1> QED BY <1>1, <1>2, <1>3, <1>4, <1>5, <1>6 DEF Next, WorkerQueue

\* What a step can do to the connection and the aggregator: nothing, clean up,
\* send a request, read a message, or what the server does.
Untouched == UNCHANGED <<requests, responses, serving, target, update>>

\* The steps that touch neither connection nor aggregator, or only send.
LEMMA WireSteps ==
  ASSUME TrackerInv, QuietInv, [Next]_vars
  PROVE  \/ Untouched
         \/ CleanUpWatchStreamState
         \/ /\ FirstListener \/ RemoveQueryListener \/ ResumeStartWithCredentials
            /\ \E what \in {"watch", "unwatch"} : Send(what)
            /\ UNCHANGED update
         \/ Messages
         \/ ServerReads \/ ServerNotifies
  <1> USE DEF Untouched
  <1>1. CASE GetDocument \/ OnEvent \/ JoinListeners \/ BackoffElapses \/ OnlineStateTimeout
             \/ ServerChanges
    BY <1>1 DEF GetDocument, OnEvent, JoinListeners, BackoffElapses, OnlineStateTimeout,
                ServerChanges, conn, watch
  <1>2. CASE OnWatchStreamClose \/ IdleTimeout \/ HandleCredentialChange
    BY <1>2 DEF OnWatchStreamClose, IdleTimeout, HandleCredentialChange
  <1>3. CASE FirstListener
    <2>1. Listen
      BY <1>3 DEF FirstListener
    <2>2. ~IsStarted => target = Fresh /\ update = NoVersion
      BY DEF QuietInv, IsStarted
    <2> QED BY <1>3, <2>1, <2>2 DEF Listen, conn, watch
  <1>4. CASE RemoveQueryListener
    BY <1>4 DEF RemoveQueryListener, StopListening, conn, watch
  <1>5. CASE ResumeStartWithCredentials
    BY <1>5 DEF ResumeStartWithCredentials, conn
  <1>6. CASE UNCHANGED vars
    BY <1>6 DEF vars, conn, watch
  <1> QED
    BY <1>1, <1>2, <1>3, <1>4, <1>5, <1>6 DEF Next, WorkerQueue, Timers, Connection, Server

\* What a message does to the aggregator.
LEMMA MessageSteps ==
  ASSUME Messages
  PROVE  /\ UNCHANGED <<stream, idle, requests, serving, version, denied, faults>>
         /\ online' = "Online" /\ failures' = 0 /\ timer' = FALSE
         /\ \E type \in {"added", "removed", "current", "doc", "snapshot", "error"} :
              OnWatchStreamChange(type)
         /\ OnTargetAdded => target' = [target EXCEPT !.pending = @ - 1] /\ UNCHANGED update
         /\ OnTargetRemoved => /\ UNCHANGED update
                               /\ target' = IF target.pending = 1 THEN Fresh
                                            ELSE [target EXCEPT !.pending = @ - 1]
         /\ OnTargetCurrent => /\ UNCHANGED update
                               /\ target' = IF IsActive THEN [target EXCEPT !.current = TRUE] ELSE target
         /\ OnDocument => /\ UNCHANGED target
                          /\ update' = IF IsActive THEN Head(responses).v ELSE update
         /\ OnSnapshot => UNCHANGED target /\ update' = NoVersion
         /\ OnTargetError => UNCHANGED update /\ target' = IF Listened THEN Fresh ELSE target
  <1>1. \A type : OnWatchStreamChange(type) =>
          /\ UNCHANGED <<stream, idle, requests, serving, version, denied, faults>>
          /\ online' = "Online" /\ failures' = 0 /\ timer' = FALSE
    BY DEF OnWatchStreamChange, UpdateState, server
  <1>2. \E type \in {"added", "removed", "current", "doc", "snapshot", "error"} :
              OnWatchStreamChange(type)
    BY DEF Messages, OnTargetAdded, OnTargetRemoved, OnTargetCurrent, OnDocument, OnSnapshot,
           OnTargetError
  <1>3. /\ OnTargetAdded => target' = [target EXCEPT !.pending = @ - 1] /\ UNCHANGED update
        /\ OnTargetRemoved => /\ UNCHANGED update
                              /\ target' = IF target.pending = 1 THEN Fresh
                                           ELSE [target EXCEPT !.pending = @ - 1]
        /\ OnTargetCurrent => /\ UNCHANGED update
                              /\ target' = IF IsActive THEN [target EXCEPT !.current = TRUE] ELSE target
    BY DEF OnTargetAdded, OnTargetRemoved, OnTargetCurrent
  <1>4. /\ OnDocument => /\ UNCHANGED target
                         /\ update' = IF IsActive THEN Head(responses).v ELSE update
        /\ OnSnapshot => UNCHANGED target /\ update' = NoVersion
        /\ OnTargetError => UNCHANGED update /\ target' = IF Listened THEN Fresh ELSE target
    BY DEF OnDocument, OnSnapshot, OnTargetError
  <1> QED BY <1>1, <1>2, <1>3, <1>4

\* What the server answers to a watch that it serves.
Answered ==
  <<Message("added", 0)>> \o Documents \o <<Message("current", 0), Message("snapshot", version)>>

\* The answer to a watch: the acknowledgement, the document if there ever was one,
\* and the snapshot.
LEMMA AnsweredFacts ==
  ASSUME ConnOK
  PROVE  /\ Answered \in Seq(MessageType)
         /\ IF version > 0
            THEN /\ Len(Answered) = 4 /\ DOMAIN Answered = 1 .. 4
                 /\ Answered[1] = Message("added", 0) /\ Answered[2] = Message("doc", version)
                 /\ Answered[3] = Message("current", 0) /\ Answered[4] = Message("snapshot", version)
            ELSE /\ Len(Answered) = 3 /\ DOMAIN Answered = 1 .. 3
                 /\ Answered[1] = Message("added", 0) /\ Answered[2] = Message("current", 0)
                 /\ Answered[3] = Message("snapshot", version)
  <1> DEFINE a == Message("added", 0)  c == Message("current", 0)
             d == Message("doc", version)  s == Message("snapshot", version)
  <1>1. a \in MessageType /\ c \in MessageType /\ d \in MessageType /\ s \in MessageType
    BY VersionAssumption DEF Message, MessageType, ConnOK
  <1> HIDE DEF a, c, d, s
  <1>2. <<a>> \in Seq(MessageType) /\ <<d>> \in Seq(MessageType) /\ <<c, s>> \in Seq(MessageType)
        /\ Len(<<a>>) = 1 /\ Len(<<d>>) = 1 /\ Len(<<c, s>>) = 2
        /\ <<a>>[1] = a /\ <<d>>[1] = d /\ <<c, s>>[1] = c /\ <<c, s>>[2] = s
    BY <1>1
  <1>3. CASE version > 0
    <2> DEFINE x == <<a>> \o <<d>>
    <2>1. Answered = x \o <<c, s>>
      BY <1>3 DEF Answered, Documents, a, c, d, s
    <2>2. x \in Seq(MessageType) /\ IsConcat(x, <<a>>, <<d>>)
      BY <1>2, ConcatFacts
    <2> HIDE DEF x
    <2>3. Answered \in Seq(MessageType) /\ IsConcat(Answered, x, <<c, s>>)
      BY <1>2, <2>1, <2>2, ConcatFacts
    <2>4. Len(x) = 2 /\ x[1] = a /\ x[2] = d
      BY <1>2, <2>2 DEF IsConcat
    <2>5. Len(Answered) = 4 /\ DOMAIN Answered = 1 .. 4 /\ Answered[1] = a /\ Answered[2] = d
      BY <1>2, <2>3, <2>4 DEF IsConcat
    <2>6. Answered[3] = c /\ Answered[4] = s
      <3>1. 1 \in 1 .. 2 /\ 2 \in 1 .. 2
        OBVIOUS
      <3>2. Answered[2 + 1] = c /\ Answered[2 + 2] = s
        BY <1>2, <2>3, <2>4, <3>1 DEF IsConcat
      <3> QED BY <3>2
    <2> QED BY <1>3, <2>3, <2>5, <2>6 DEF a, c, d, s
  <1>4. CASE ~(version > 0)
    <2>1. Answered = <<a>> \o <<>> \o <<c, s>>
      BY <1>4 DEF Answered, Documents, a, c, s
    <2>2. Answered = <<a>> \o <<c, s>>
      BY <1>2, <2>1, ConcatEmptySeq
    <2>3. Answered \in Seq(MessageType) /\ IsConcat(Answered, <<a>>, <<c, s>>)
      BY <1>2, <2>2, ConcatFacts
    <2>4. Len(Answered) = 3 /\ DOMAIN Answered = 1 .. 3 /\ Answered[1] = a
      BY <1>2, <2>3 DEF IsConcat
    <2>5. Answered[2] = c /\ Answered[3] = s
      <3>1. 1 \in 1 .. 2 /\ 2 \in 1 .. 2
        OBVIOUS
      <3>2. Answered[1 + 1] = c /\ Answered[1 + 2] = s
        BY <1>2, <2>3, <3>1 DEF IsConcat
      <3> QED BY <3>2
    <2> QED BY <1>4, <2>3, <2>4, <2>5 DEF a, c, s
  <1> QED BY <1>3, <1>4

\* What the server says of a change.
LEMMA NotifiedFacts ==
  ASSUME ConnOK, version > 0
  PROVE  LET news == Documents \o <<Message("snapshot", version)>>
         IN  /\ news \in Seq(MessageType) /\ Len(news) = 2 /\ DOMAIN news = 1 .. 2
             /\ news[1] = Message("doc", version) /\ news[2] = Message("snapshot", version)
  <1> DEFINE d == Message("doc", version)  s == Message("snapshot", version)
             news == Documents \o <<s>>
  <1>1. d \in MessageType /\ s \in MessageType
    BY DEF Message, MessageType, ConnOK
  <1>2. Documents = <<d>>
    BY DEF Documents
  <1> HIDE DEF d, s
  <1>3. <<d>> \in Seq(MessageType) /\ <<s>> \in Seq(MessageType)
        /\ Len(<<d>>) = 1 /\ Len(<<s>>) = 1 /\ <<d>>[1] = d /\ <<s>>[1] = s
    BY <1>1
  <1>4. news \in Seq(MessageType) /\ IsConcat(news, <<d>>, <<s>>)
    BY <1>2, <1>3, ConcatFacts
  <1> HIDE DEF news
  <1>5. Len(news) = 2 /\ DOMAIN news = 1 .. 2 /\ news[1] = d
    <2>1. /\ Len(news) = 1 + 1 /\ DOMAIN news = 1 .. 1 + 1
          /\ \A i \in 1 .. 1 : news[i] = <<d>>[i]
      BY <1>3, <1>4, Zenon DEF IsConcat
    <2> QED BY <1>3, <2>1
  <1>6. news[2] = s
    <2>1. 1 \in 1 .. 1 /\ news[1 + 1] = s
      BY <1>3, <1>4 DEF IsConcat
    <2> QED BY <2>1
  <1> QED BY <1>4, <1>5, <1>6 DEF d, s, news

\* What the server does with a request.
LEMMA ServerReadsFacts ==
  ASSUME ConnOK, ServerReads
  PROVE  /\ requests # <<>> /\ requests' = Tail(requests) /\ Head(requests) = requests[1]
         /\ requests \in Seq({"watch", "unwatch"}) /\ requests' \in Seq({"watch", "unwatch"})
         /\ Len(requests) \in Nat /\ Len(requests) >= 1 /\ DOMAIN requests = 1 .. Len(requests)
         /\ Len(requests') = Len(requests) - 1 /\ DOMAIN requests' = 1 .. Len(requests) - 1
         /\ \A i \in 1 .. Len(requests) - 1 : requests'[i] = requests[i + 1]
         /\ requests[1] \in {"watch", "unwatch"}
         /\ serving' = IF requests[1] = "watch" /\ ~denied THEN version ELSE NotServed
         /\ \/ /\ requests[1] = "watch" /\ denied /\ responses' = responses \o <<Message("error", 0)>>
            \/ requests[1] = "watch" /\ ~denied /\ responses' = responses \o Answered
            \/ /\ requests[1] = "unwatch" /\ serving # NotServed
               /\ responses' = responses \o <<Message("removed", 0)>>
            \/ requests[1] = "unwatch" /\ serving = NotServed /\ responses' = responses
         /\ responses' \in Seq(MessageType)
         /\ UNCHANGED <<target, update, stream, listeners, view, cached, version, denied, faults>>
  <1>1. requests # <<>> /\ requests' = Tail(requests) /\ requests \in Seq({"watch", "unwatch"})
    BY DEF ServerReads, ConnOK
  <1>2. /\ Head(requests) = requests[1] /\ requests' \in Seq({"watch", "unwatch"})
        /\ Len(requests) \in Nat /\ Len(requests) >= 1 /\ DOMAIN requests = 1 .. Len(requests)
        /\ Len(requests') = Len(requests) - 1 /\ DOMAIN requests' = 1 .. Len(requests) - 1
        /\ \A i \in 1 .. Len(requests) - 1 : requests'[i] = requests[i + 1]
        /\ requests[1] \in {"watch", "unwatch"}
    BY <1>1, TailFacts
  <1>3. /\ serving' = IF requests[1] = "watch" /\ ~denied THEN version ELSE NotServed
        /\ UNCHANGED <<target, update, stream, listeners, view, cached, version, denied, faults>>
    BY <1>2 DEF ServerReads, engine, watch, server
  <1>4. responses' = responses \o
              CASE requests[1] = "watch" /\ denied  -> <<Message("error", 0)>>
                [] requests[1] = "watch" /\ ~denied -> Answered
                [] requests[1] # "watch" /\ serving # NotServed -> <<Message("removed", 0)>>
                [] requests[1] # "watch" /\ serving = NotServed -> <<>>
    BY <1>2 DEF ServerReads, Answered
  <1>5. responses \o <<>> = responses
    BY ConcatEmptySeq DEF ConnOK
  <1>6. \/ /\ requests[1] = "watch" /\ denied /\ responses' = responses \o <<Message("error", 0)>>
        \/ requests[1] = "watch" /\ ~denied /\ responses' = responses \o Answered
        \/ /\ requests[1] = "unwatch" /\ serving # NotServed
           /\ responses' = responses \o <<Message("removed", 0)>>
        \/ requests[1] = "unwatch" /\ serving = NotServed /\ responses' = responses
    BY <1>2, <1>4, <1>5
  <1>7. <<Message("error", 0)>> \in Seq(MessageType) /\ <<Message("removed", 0)>> \in Seq(MessageType)
    BY VersionAssumption DEF Message, MessageType
  <1>8. responses' \in Seq(MessageType)
    <2>1. responses \in Seq(MessageType) /\ Answered \in Seq(MessageType)
      BY AnsweredFacts DEF ConnOK
    <2> QED BY <1>6, <1>7, <2>1, ConcatProperties
  <1> QED BY <1>1, <1>2, <1>3, <1>6, <1>8

\* Those of the connection and the server.
LEMMA ConnTyped ==
  ASSUME ReadInv, TrackerInv, [Next]_vars
  PROVE  ConnOK'
  <1>1. ConnOK /\ QuietInv
    BY DEF ReadInv, Typed
  <1>2. version' \in 0 .. MaxVersion /\ denied' \in BOOLEAN /\ faults' \in 0 .. MaxFaults
    <2>1. CASE ServerChanges
      BY <1>1, <2>1, VersionAssumption DEF ServerChanges, ConnOK
    <2>2. CASE OnWatchStreamClose \/ HandleCredentialChange
      <3>1. faults' = faults + 1 /\ faults < MaxFaults /\ UNCHANGED <<version, denied>>
        BY <2>2 DEF OnWatchStreamClose, HandleCredentialChange, server
      <3> QED BY <1>1, <3>1, FaultsAssumption DEF ConnOK
    <2>3. CASE ~(ServerChanges \/ OnWatchStreamClose \/ HandleCredentialChange)
      <3>1. UNCHANGED <<version, denied, faults>>
        BY <2>3 DEF Next, vars, server, WorkerQueue, Timers, Connection, Messages, Server,
             GetDocument, OnEvent, JoinListeners, FirstListener, RemoveQueryListener,
             BackoffElapses, OnlineStateTimeout, IdleTimeout, ResumeStartWithCredentials,
             OnTargetAdded, OnTargetRemoved, OnTargetCurrent, OnDocument, OnSnapshot, OnTargetError,
             OnWatchStreamChange, ServerReads, ServerNotifies
      <3> QED BY <1>1, <3>1 DEF ConnOK
    <2> QED BY <2>1, <2>2, <2>3
  <1>3. /\ requests' \in Seq({"watch", "unwatch"}) /\ responses' \in Seq(MessageType)
        /\ serving' \in -1 .. MaxVersion
    <2>1. CASE Untouched
      BY <1>1, <2>1 DEF Untouched, ConnOK
    <2>2. CASE CleanUpWatchStreamState
      <3>1. requests' = <<>> /\ responses' = <<>> /\ serving' = -1
        BY <2>2 DEF CleanUpWatchStreamState, NotServed
      <3>2. -1 \in -1 .. MaxVersion
        BY VersionAssumption
      <3> QED BY <3>1, <3>2, EmptySeq
    <2>3. ASSUME NEW what \in {"watch", "unwatch"}, Send(what)
          PROVE  /\ requests' \in Seq({"watch", "unwatch"}) /\ responses' \in Seq(MessageType)
                 /\ serving' \in -1 .. MaxVersion
      <3>1. requests' = Append(requests, what) /\ UNCHANGED <<responses, serving>>
        BY <2>3 DEF Send
      <3>2. requests' \in Seq({"watch", "unwatch"})
        BY <1>1, <3>1, AppendProperties DEF ConnOK
      <3> QED BY <1>1, <3>1, <3>2 DEF ConnOK
    <2>4. CASE Messages
      <3>1. UNCHANGED <<requests, serving>>
        BY <2>4, MessageSteps
      <3>2. responses' \in Seq(MessageType)
        BY <1>1, <2>4, MessageSteps, HeadMessage
      <3> QED BY <1>1, <3>1, <3>2 DEF ConnOK
    <2>5. CASE ServerReads
      <3>1. requests' \in Seq({"watch", "unwatch"}) /\ responses' \in Seq(MessageType)
            /\ serving' \in {version, -1}
        BY <1>1, <2>5, ServerReadsFacts DEF NotServed
      <3> QED BY <1>1, <3>1, VersionAssumption DEF ConnOK
    <2>6. CASE ServerNotifies
      <3>1. /\ serving < version /\ serving # NotServed /\ serving' = version /\ UNCHANGED requests
            /\ responses' = responses \o Documents \o <<Message("snapshot", version)>>
        BY <2>6 DEF ServerNotifies
      <3>2. version > 0
        BY <1>1, <3>1 DEF ConnOK, NotServed
      <3>3. Documents = <<Message("doc", version)>>
        BY <3>2 DEF Documents
      <3>4. Message("doc", version) \in MessageType /\ Message("snapshot", version) \in MessageType
        BY <1>1 DEF Message, MessageType, ConnOK
      <3>5. Documents \in Seq(MessageType) /\ <<Message("snapshot", version)>> \in Seq(MessageType)
        BY <3>3, <3>4
      <3>6. responses' \in Seq(MessageType)
        BY <1>1, <3>1, <3>5, ConcatProperties DEF ConnOK
      <3> QED BY <1>1, <3>1, <3>6, VersionAssumption DEF ConnOK
    <2> QED BY <1>1, <2>1, <2>2, <2>3, <2>4, <2>5, <2>6, WireSteps
  <1> QED BY <1>2, <1>3 DEF ConnOK

\* An acknowledgement that comes was awaited.
LEMMA AckAwaited ==
  ASSUME ReadInv, OnTargetAdded \/ OnTargetRemoved
  PROVE  target.pending >= 1 /\ ~denied
  <1>1. PICK type \in {"added", "removed"} : OnWatchStreamChange(type)
    BY DEF OnTargetAdded, OnTargetRemoved
  <1>2. /\ DOMAIN responses = 1 .. Len(responses) /\ 1 \in DOMAIN responses
        /\ responses[1].type = type
    BY <1>1, HeadMessage DEF ReadInv, Typed
  <1>3. ~denied
    BY <1>2 DEF ReadInv, RefusedInv
  <1>4. target.pending = Len(requests) + Cardinality(AcksOf(responses))
    BY <1>3 DEF ReadInv, AwaitedInv
  <1>5. 1 \in AcksOf(responses)
    BY <1>2 DEF AcksOf
  <1>6. IsFiniteSet(AcksOf(responses))
    <2>1. Len(responses) \in Nat
      BY LenProperties DEF ReadInv, Typed, ConnOK
    <2>2. IsFiniteSet(1 .. Len(responses))
      BY <2>1, FS_Interval
    <2> QED BY <1>2, <2>2, FS_Subset DEF AcksOf
  <1>7. Cardinality(AcksOf(responses)) \in Nat /\ Cardinality(AcksOf(responses)) # 0
    BY <1>5, <1>6, FS_CardinalityType, FS_EmptySet
  <1>8. Len(requests) \in Nat
    BY LenProperties DEF ReadInv, Typed, ConnOK
  <1> QED BY <1>3, <1>4, <1>7, <1>8

\* Those of the online state, the stream and the aggregator.
LEMMA WatchTyped ==
  ASSUME ReadInv, TrackerInv, TrackerInv', [Next]_vars, ConnOK'
  PROVE  WatchOK'
  <1>1. WatchOK /\ ConnOK /\ QuietInv
    BY DEF ReadInv, Typed
  <1>2. online' \in {"Unknown", "Online", "Offline"} /\ failures' \in Nat /\ stream' \in States
    BY DEF TrackerInv
  <1>3. failures' \in 0 .. faults'
    <2>1. CASE OnWatchStreamClose
      <3>1. faults' = faults + 1
        BY <2>1 DEF OnWatchStreamClose
      <3>2. failures' = failures \/ failures' = failures + 1 \/ failures' = 0
        BY <2>1 DEF OnWatchStreamClose, HandleWatchStreamFailure, UpdateState
      <3> QED BY <1>1, <1>2, <3>1, <3>2 DEF WatchOK, ConnOK
    <2>2. CASE HandleCredentialChange
      <3>1. faults' = faults + 1 /\ failures' = 0
        BY <2>2 DEF HandleCredentialChange
      <3> QED BY <1>1, <3>1 DEF ConnOK
    <2>3. CASE ~(OnWatchStreamClose \/ HandleCredentialChange)
      <3>1. UNCHANGED faults
        BY <2>3 DEF Next, vars, WorkerQueue, Timers, Connection, Messages, Server,
             GetDocument, OnEvent, JoinListeners, FirstListener, RemoveQueryListener,
             BackoffElapses, OnlineStateTimeout, IdleTimeout, ResumeStartWithCredentials,
             OnTargetAdded, OnTargetRemoved, OnTargetCurrent, OnDocument, OnSnapshot, OnTargetError,
             OnWatchStreamChange, ServerChanges, ServerReads, ServerNotifies
      <3>2. failures' = failures \/ failures' = 0
        <4>1. CASE Messages
          BY <4>1, MessageSteps
        <4>2. CASE ~Messages
          BY <2>3, <4>2 DEF Next, vars, tracker, WorkerQueue, Timers, Connection, Server,
             GetDocument, OnEvent, JoinListeners, FirstListener, RemoveQueryListener,
             BackoffElapses, OnlineStateTimeout, IdleTimeout, ResumeStartWithCredentials,
             ServerChanges, ServerReads, ServerNotifies, Listen, HandleWatchStreamStart,
             StopListening, UpdateState
        <4> QED BY <4>1, <4>2
      <3> QED BY <1>1, <1>2, <3>1, <3>2 DEF WatchOK, ConnOK
    <2> QED BY <2>1, <2>2, <2>3
  <1>4. timer' \in BOOLEAN
    <2>1. CASE Messages
      BY <2>1, MessageSteps
    <2>2. CASE ~Messages
      BY <1>1, <2>2 DEF WatchOK, Next, vars, tracker, WorkerQueue, Timers, Connection, Server,
             GetDocument, OnEvent, JoinListeners, FirstListener, RemoveQueryListener,
             BackoffElapses, OnlineStateTimeout, IdleTimeout, ResumeStartWithCredentials,
             OnWatchStreamClose, HandleWatchStreamFailure, HandleCredentialChange,
             ServerChanges, ServerReads, ServerNotifies, Listen, HandleWatchStreamStart,
             StopListening, UpdateState, Listened
    <2> QED BY <2>1, <2>2
  <1>5. idle' \in BOOLEAN
    <2>1. CASE Messages
      BY <1>1, <2>1, MessageSteps DEF WatchOK
    <2>2. CASE ~Messages
      BY <1>1, <2>2 DEF WatchOK, Next, vars, watch, WorkerQueue, Timers, Connection, Server,
             GetDocument, OnEvent, JoinListeners, FirstListener, RemoveQueryListener,
             BackoffElapses, OnlineStateTimeout, IdleTimeout, ResumeStartWithCredentials,
             OnWatchStreamClose, HandleCredentialChange, CleanUpWatchStreamState, Send,
             ServerChanges, ServerReads, ServerNotifies, Listen, StopListening
    <2> QED BY <2>1, <2>2
  <1>6. target' \in [pending : Nat, current : BOOLEAN] /\ update' \in -1 .. MaxVersion
    <2>1. Fresh \in [pending : Nat, current : BOOLEAN] /\ NoVersion \in -1 .. MaxVersion
      BY VersionAssumption DEF Fresh, NoVersion
    <2>2. CASE Untouched
      BY <1>1, <2>2 DEF Untouched, WatchOK
    <2>3. CASE CleanUpWatchStreamState
      BY <2>1, <2>3 DEF CleanUpWatchStreamState
    <2>4. ASSUME NEW what, Send(what), UNCHANGED update
          PROVE  target' \in [pending : Nat, current : BOOLEAN] /\ update' \in -1 .. MaxVersion
      BY <1>1, <2>4 DEF Send, RecordPendingTargetRequest, WatchOK
    <2>5. CASE Messages
      <3>1. CASE OnTargetAdded
        BY <1>1, <2>5, <3>1, MessageSteps, AckAwaited DEF WatchOK
      <3>2. CASE OnTargetRemoved
        BY <1>1, <2>1, <2>5, <3>2, MessageSteps, AckAwaited DEF WatchOK
      <3>3. CASE OnTargetCurrent
        BY <1>1, <2>5, <3>3, MessageSteps DEF WatchOK
      <3>4. CASE OnDocument
        <4>1. OnWatchStreamChange("doc")
          BY <3>4 DEF OnDocument
        <4>2. Head(responses).v \in 0 .. MaxVersion
          BY <1>1, <4>1, HeadMessage
        <4> QED BY <1>1, <2>5, <3>4, <4>2, MessageSteps, VersionAssumption DEF WatchOK
      <3>5. CASE OnSnapshot
        BY <1>1, <2>1, <2>5, <3>5, MessageSteps DEF WatchOK
      <3>6. CASE OnTargetError
        BY <1>1, <2>1, <2>5, <3>6, MessageSteps DEF WatchOK
      <3> QED BY <2>5, <3>1, <3>2, <3>3, <3>4, <3>5, <3>6 DEF Messages
    <2>6. CASE ServerReads \/ ServerNotifies
      BY <1>1, <2>6 DEF ServerReads, ServerNotifies, watch, WatchOK
    <2> QED BY <1>1, <2>2, <2>3, <2>4, <2>5, <2>6, WireSteps
  <1> QED BY <1>2, <1>3, <1>4, <1>5, <1>6 DEF WatchOK

\* The aggregator of a stream that is not open is fresh.
LEMMA QuietKept ==
  ASSUME ReadInv, TrackerInv, [Next]_vars
  PROVE  QuietInv'
  <1>1. QuietInv
    BY DEF ReadInv
  <1>2. CASE CleanUpWatchStreamState
    BY <1>2 DEF CleanUpWatchStreamState, QuietInv
  <1>3. CASE Messages
    <2>1. responses # <<>> /\ stream' = stream
      BY <1>3, MessageSteps DEF OnWatchStreamChange
    <2> QED BY <2>1 DEF TrackerInv, ConnInv, QuietInv
  <1>4. CASE ServerReads \/ ServerNotifies
    BY <1>1, <1>4 DEF ServerReads, ServerNotifies, watch, QuietInv
  <1>5. ASSUME FirstListener \/ RemoveQueryListener \/ ResumeStartWithCredentials,
               NEW what, Send(what)
        PROVE  stream' = "Open"
    <2>1. requests' = Append(requests, what)
      BY <1>5 DEF Send
    <2>2. requests' # requests
      BY <2>1, AppendProperties DEF ReadInv, Typed, ConnOK
    <2>3. CASE FirstListener
      BY <2>2, <2>3 DEF FirstListener, Listen, conn
    <2>4. CASE RemoveQueryListener
      BY <2>2, <2>4 DEF RemoveQueryListener, StopListening, conn, watch
    <2>5. CASE ResumeStartWithCredentials
      BY <2>5 DEF ResumeStartWithCredentials
    <2> QED BY <1>5, <2>3, <2>4, <2>5
  <1>6. CASE Untouched
    <2>1. CASE stream # "Open"
      BY <1>1, <1>6, <2>1 DEF Untouched, QuietInv
    <2>2. CASE stream = "Open"
      <3>1. stream' = "Open" \/ CleanUpWatchStreamState
        BY <2>2 DEF Next, vars, watch, WorkerQueue, Timers, Connection, Messages, Server, GetDocument,
             OnEvent, JoinListeners, FirstListener, RemoveQueryListener, BackoffElapses,
             OnlineStateTimeout, IdleTimeout, ResumeStartWithCredentials, OnWatchStreamClose,
             HandleCredentialChange, OnTargetAdded, OnTargetRemoved, OnTargetCurrent, OnDocument,
             OnSnapshot, OnTargetError, OnWatchStreamChange, ServerChanges, ServerReads,
             ServerNotifies, Listen, StopListening, IsStarted
      <3> QED BY <1>2, <3>1 DEF QuietInv
    <2> QED BY <2>1, <2>2
  <1> QED BY <1>1, <1>2, <1>3, <1>4, <1>5, <1>6, WireSteps DEF QuietInv

-----------------------------------------------------------------------------
(* Where the calls are.                                                     *)

\* A main queue that grows grows by the view, told to listeners.
LEMMA EmissionFacts ==
  ASSUME CallsOK, mainq' = mainq \/ Emission
  PROVE  /\ DOMAIN mainq = 1 .. Len(mainq) /\ Len(mainq) \in Nat
         /\ DOMAIN mainq' = 1 .. Len(mainq') /\ Len(mainq') \in Nat
         /\ \A i \in DOMAIN mainq : i \in DOMAIN mainq' /\ mainq'[i] = mainq[i]
         /\ \A i \in DOMAIN mainq' : i \notin DOMAIN mainq =>
              \E j \in DOMAIN listeners' : mainq'[i] = Event(listeners'[j], view')
  <1>1. DOMAIN mainq = 1 .. Len(mainq) /\ Len(mainq) \in Nat
    BY LenProperties DEF CallsOK
  <1>2. CASE mainq' = mainq
    BY <1>1, <1>2
  <1>3. CASE Emission
    <2>1. PICK who : Told(who)
      BY <1>3 DEF Emission
    <2>2. Len(who) \in Nat /\ DOMAIN who = 1 .. Len(who)
      BY <2>1, LenProperties DEF Told
    <2> DEFINE t == [i \in DOMAIN who |-> Event(who[i], view')]
    <2> DEFINE S == EventType \cup {Event(who[i], view') : i \in DOMAIN who}
    <2>3. mainq' = mainq \o t /\ Len(t) = Len(who) /\ DOMAIN t = 1 .. Len(who)
          /\ \A i \in DOMAIN who : t[i] = Event(who[i], view')
      BY <2>1, <2>2 DEF Told
    <2>4. mainq \in Seq(S) /\ t \in Seq(S)
      <3>1. mainq \in Seq(S)
        <4>1. mainq \in Seq(EventType) /\ EventType \subseteq S
          BY DEF CallsOK
        <4> HIDE DEF S
        <4> QED BY <4>1, SeqMonotonic
      <3>2. \A i \in 1 .. Len(who) : Event(who[i], view') \in S
        BY <2>2
      <3> HIDE DEF S
      <3>3. t \in [1 .. Len(who) -> S]
        BY <2>2, <3>2
      <3> HIDE DEF t
      <3>4. t \in Seq(S)
        <4>1. \E n \in Nat : t \in [1 .. n -> S]
          BY <2>2, <3>3
        <4> QED BY <4>1, SeqDef, Zenon
      <3> QED BY <3>1, <3>4
    <2> HIDE DEF t, S
    <2>5. mainq' \in Seq(S) /\ IsConcat(mainq', mainq, t)
      BY <2>3, <2>4, ConcatFacts
    <2>6. DOMAIN mainq' = 1 .. Len(mainq') /\ Len(mainq') = Len(mainq) + Len(who)
          /\ \A i \in DOMAIN mainq : i \in DOMAIN mainq' /\ mainq'[i] = mainq[i]
      <3>1. /\ Len(mainq') = Len(mainq) + Len(who) /\ DOMAIN mainq' = 1 .. Len(mainq) + Len(who)
            /\ \A i \in 1 .. Len(mainq) : mainq'[i] = mainq[i]
        BY <2>3, <2>5, Zenon DEF IsConcat
      <3> QED BY <1>1, <2>2, <3>1
    <2>7. ASSUME NEW i \in DOMAIN mainq', i \notin DOMAIN mainq
          PROVE  \E j \in DOMAIN listeners' : mainq'[i] = Event(listeners'[j], view')
      <3>1. i - Len(mainq) \in DOMAIN who
        BY <1>1, <2>2, <2>6, <2>7
      <3>2. mainq'[Len(mainq) + (i - Len(mainq))] = t[i - Len(mainq)]
        BY <2>2, <2>3, <2>5, <3>1 DEF IsConcat
      <3>3. Len(mainq) + (i - Len(mainq)) = i
        BY <1>1, <2>6, <2>2
      <3>4. mainq'[i] = Event(who[i - Len(mainq)], view')
        BY <2>3, <3>1, <3>2, <3>3
      <3> QED BY <2>1, <3>1, <3>4 DEF Told
    <2> QED BY <1>1, <2>2, <2>6, <2>7
  <1> QED BY <1>2, <1>3

\* A step that only tells listeners something.
LEMMA PlacesTold ==
  ASSUME ReadInv, mainq' = mainq \/ Emission,
         UNCHANGED <<asked, answer, workerq, muted, listeners>>
  PROVE  AskedInv' /\ PlacesInv' /\ LastWordInv'
  <1> USE DEF ReadInv, Typed
  <1>1. /\ DOMAIN mainq = 1 .. Len(mainq) /\ Len(mainq) \in Nat
        /\ DOMAIN mainq' = 1 .. Len(mainq') /\ Len(mainq') \in Nat
        /\ \A i \in DOMAIN mainq : i \in DOMAIN mainq' /\ mainq'[i] = mainq[i]
        /\ \A i \in DOMAIN mainq' : i \notin DOMAIN mainq =>
             \E j \in DOMAIN listeners : mainq'[i] = Event(listeners[j], view')
    BY EmissionFacts
  <1>2. \A r, w : Event(r, w).read = r /\ Event(r, w).error = FALSE
    BY DEF Event
  <1>3. AskedInv'
    BY <1>1, <1>2 DEF AskedInv
  <1>4. PlacesInv'
    <2>1. ListenOps' = ListenOps
      BY DEF ListenOps
    <2> QED BY <1>1, <1>2, <2>1 DEF PlacesInv, Distinct
  <1>5. LastWordInv'
    <2>1. ASSUME NEW i \in DOMAIN mainq', mainq'[i].error
          PROVE  /\ \A j \in DOMAIN listeners : listeners[j] # mainq'[i].read
                 /\ \A j \in DOMAIN mainq' : mainq'[j].read = mainq'[i].read => j <= i
      <3>1. i \in DOMAIN mainq /\ mainq'[i] = mainq[i]
        BY <1>1, <1>2, <2>1
      <3> QED BY <1>1, <1>2, <2>1, <3>1 DEF LastWordInv
    <2>2. ASSUME NEW i \in DOMAIN mainq', mainq'[i].read \notin muted
          PROVE  answer[mainq'[i].read] = NoAnswer
      BY <1>1, <1>2, <2>2 DEF LastWordInv
    <2> QED BY <2>1, <2>2 DEF LastWordInv
  <1> QED BY <1>3, <1>4, <1>5

\* An operation leaves the worker queue.
LEMMA WorkerTail ==
  ASSUME CallsOK, workerq # <<>>, workerq' = Tail(workerq)
  PROVE  /\ \A i \in DOMAIN workerq' : i + 1 \in DOMAIN workerq /\ i + 1 # 1
                                       /\ workerq'[i] = workerq[i + 1]
         /\ \A i \in ListenOps' : i + 1 \in ListenOps /\ i + 1 # 1 /\ workerq'[i] = workerq[i + 1]
         /\ \A i, j \in DOMAIN workerq' : i + 1 = j + 1 => i = j
  <1>1. /\ Len(workerq) \in Nat /\ DOMAIN workerq = 1 .. Len(workerq)
        /\ DOMAIN workerq' = 1 .. Len(workerq) - 1
        /\ \A i \in 1 .. Len(workerq) - 1 : workerq'[i] = workerq[i + 1]
    BY TailFacts DEF CallsOK
  <1>2. \A i \in DOMAIN workerq' : i + 1 \in DOMAIN workerq /\ i + 1 # 1
                                   /\ workerq'[i] = workerq[i + 1]
    BY <1>1
  <1> QED BY <1>1, <1>2 DEF ListenOps

\* A listen is taken from the worker queue.
LEMMA PlacesListen ==
  ASSUME ReadInv, JoinListeners \/ FirstListener
  PROVE  AskedInv' /\ PlacesInv' /\ LastWordInv'
  <1> USE DEF ReadInv, Typed
  <1> DEFINE r == workerq[1].read
  <1>1. IsListen /\ workerq' = Tail(workerq) /\ UNCHANGED <<asked, answer, muted>>
    BY DEF JoinListeners, FirstListener
  <1>2. 1 \in ListenOps /\ workerq # <<>> /\ Head(workerq).read = r /\ 1 \in DOMAIN workerq
    BY <1>1, HeadListen DEF ListenOps
  <1>3. /\ Distinct(listeners') /\ (mainq' = mainq \/ Emission)
        /\ \A j \in DOMAIN listeners' : listeners'[j] = r
                                         \/ \E i \in DOMAIN listeners : listeners'[j] = listeners[i]
    BY <1>1, <1>2, HeadListen, AddedFacts DEF PlacesInv
  <1>4. /\ DOMAIN mainq = 1 .. Len(mainq) /\ Len(mainq) \in Nat
        /\ DOMAIN mainq' = 1 .. Len(mainq') /\ Len(mainq') \in Nat
        /\ \A i \in DOMAIN mainq : i \in DOMAIN mainq' /\ mainq'[i] = mainq[i]
        /\ \A i \in DOMAIN mainq' : i \notin DOMAIN mainq =>
             \E j \in DOMAIN listeners' : mainq'[i] = Event(listeners'[j], view')
    BY <1>3, EmissionFacts
  <1>5. \A q, w : Event(q, w).read = q /\ Event(q, w).error = FALSE
    BY DEF Event
  <1>6. /\ \A i \in DOMAIN workerq' : i + 1 \in DOMAIN workerq /\ workerq'[i] = workerq[i + 1]
        /\ \A i \in ListenOps' : i + 1 \in ListenOps /\ i + 1 # 1 /\ workerq'[i] = workerq[i + 1]
                                 /\ i \in DOMAIN workerq'
        /\ \A i, j \in DOMAIN workerq' : i + 1 = j + 1 => i = j
    BY <1>1, <1>2, WorkerTail DEF ListenOps
  <1>7. r <= asked /\ answer[r] = NoAnswer
        /\ (\A j \in DOMAIN mainq : mainq[j].read # r)
        /\ (\A i \in ListenOps : i # 1 => workerq[i].read # r)
    BY <1>2 DEF PlacesInv, AskedInv
  <1> HIDE DEF r
  <1>8. AskedInv'
    <2>1. \A j \in DOMAIN listeners' : listeners'[j] <= asked
      BY <1>3, <1>7 DEF AskedInv
    <2> QED BY <1>1, <1>4, <1>5, <1>6, <2>1 DEF AskedInv
  <1>9. PlacesInv'
    <2>1. ASSUME NEW i \in ListenOps', NEW j \in ListenOps', workerq'[i].read = workerq'[j].read
          PROVE  i = j
      BY <1>6, <2>1 DEF PlacesInv
    <2>2. ASSUME NEW i \in ListenOps'
          PROVE  /\ \A j \in DOMAIN listeners' : listeners'[j] # workerq'[i].read
                 /\ answer'[workerq'[i].read] = NoAnswer
      BY <1>1, <1>3, <1>6, <1>7 DEF PlacesInv
    <2>3. ASSUME NEW i \in ListenOps', NEW j \in DOMAIN mainq'
          PROVE  mainq'[j].read # workerq'[i].read
      BY <1>4, <1>5, <1>6, <2>2 DEF PlacesInv
    <2> QED BY <1>3, <2>1, <2>2, <2>3 DEF PlacesInv
  <1>10. LastWordInv'
    <2>1. ASSUME NEW i \in DOMAIN mainq', mainq'[i].error
          PROVE  i \in DOMAIN mainq /\ mainq'[i] = mainq[i]
      BY <1>4, <1>5, <2>1
    <2>2. ASSUME NEW i \in DOMAIN mainq', mainq'[i].error
          PROVE  /\ \A j \in DOMAIN listeners' : listeners'[j] # mainq'[i].read
                 /\ \A j \in DOMAIN mainq' : mainq'[j].read = mainq'[i].read => j <= i
      <3>1. \A j \in DOMAIN listeners' : listeners'[j] # mainq'[i].read
        BY <1>3, <1>7, <2>1, <2>2 DEF LastWordInv
      <3> QED BY <1>4, <1>5, <2>1, <2>2, <3>1 DEF LastWordInv
    <2>3. ASSUME NEW j \in DOMAIN listeners', listeners'[j] \notin muted
          PROVE  answer[listeners'[j]] = NoAnswer
      BY <1>3, <1>7, <2>3 DEF LastWordInv
    <2>4. ASSUME NEW i \in DOMAIN mainq', mainq'[i].read \notin muted
          PROVE  answer[mainq'[i].read] = NoAnswer
      BY <1>4, <1>5, <2>3, <2>4 DEF LastWordInv
    <2> QED BY <1>1, <2>2, <2>3, <2>4 DEF LastWordInv
  <1> QED BY <1>8, <1>9, <1>10

\* A listener is removed.
LEMMA PlacesRemove ==
  ASSUME ReadInv, RemoveQueryListener
  PROVE  AskedInv' /\ PlacesInv' /\ LastWordInv'
  <1> USE DEF ReadInv, Typed
  <1>1. workerq # <<>> /\ workerq' = Tail(workerq) /\ UNCHANGED <<asked, answer, mainq, muted>>
    BY DEF RemoveQueryListener, IsRemoval
  <1>2. Distinct(listeners') /\ \A j \in DOMAIN listeners' : \E i \in DOMAIN listeners :
                                   listeners'[j] = listeners[i]
    <2>1. CASE UNCHANGED listeners
      BY <2>1 DEF PlacesInv
    <2>2. CASE listeners' = Among(listeners, Reads \ {Head(workerq).read})
      <3> DEFINE S == Reads \ {Head(workerq).read}
                 who == Among(listeners, S)
      <3>1. \A i, j \in DOMAIN listeners : listeners[i] = listeners[j] => i = j
        BY DEF PlacesInv, Distinct
      <3>2. listeners \in Seq(Reads)
        BY DEF EngineOK
      <3>3. (\A k \in DOMAIN who : \E i \in DOMAIN listeners : listeners[i] = who[k])
            /\ \A k, l \in DOMAIN who : who[k] = who[l] => k = l
        <4>1. /\ \A k \in DOMAIN who :
                   who[k] \in S /\ \E i \in DOMAIN listeners : listeners[i] = who[k]
              /\ (\A i, j \in DOMAIN listeners : listeners[i] = listeners[j] => i = j) =>
                   \A k, l \in DOMAIN who : who[k] = who[l] => k = l
          <5> HIDE DEF S
          <5> QED BY <3>2, AmongSelects
        <4> HIDE DEF who, S
        <4> QED BY <3>1, <4>1
      <3>4. listeners' = who
        BY <2>2
      <3> HIDE DEF who
      <3> QED BY <3>3, <3>4 DEF Distinct
    <2> QED BY <2>1, <2>2 DEF RemoveQueryListener
  <1>3. /\ \A i \in DOMAIN workerq' : i + 1 \in DOMAIN workerq /\ workerq'[i] = workerq[i + 1]
        /\ \A i \in ListenOps' : i + 1 \in ListenOps /\ workerq'[i] = workerq[i + 1]
                                 /\ i \in DOMAIN workerq'
        /\ \A i, j \in DOMAIN workerq' : i + 1 = j + 1 => i = j
    BY <1>1, WorkerTail DEF ListenOps
  <1>4. AskedInv'
    BY <1>1, <1>2, <1>3 DEF AskedInv
  <1>5. PlacesInv'
    <2>1. ASSUME NEW i \in ListenOps', NEW j \in ListenOps', workerq'[i].read = workerq'[j].read
          PROVE  i = j
      BY <1>3, <2>1 DEF PlacesInv
    <2>2. ASSUME NEW i \in ListenOps'
          PROVE  /\ \A j \in DOMAIN listeners' : listeners'[j] # workerq'[i].read
                 /\ \A j \in DOMAIN mainq' : mainq'[j].read # workerq'[i].read
                 /\ answer'[workerq'[i].read] = NoAnswer
      BY <1>1, <1>2, <1>3 DEF PlacesInv
    <2> QED BY <1>2, <2>1, <2>2 DEF PlacesInv
  <1>6. LastWordInv'
    BY <1>1, <1>2 DEF LastWordInv
  <1> QED BY <1>4, <1>5, <1>6

\* A call is made.
LEMMA PlacesAsk ==
  ASSUME ReadInv, GetDocument
  PROVE  AskedInv' /\ PlacesInv' /\ LastWordInv'
  <1> USE DEF ReadInv, Typed
  <1> DEFINE o == [op |-> "listen", read |-> asked + 1]
  <1>1. /\ asked < MaxReads /\ asked' = asked + 1 /\ workerq' = Append(workerq, o)
        /\ UNCHANGED <<answer, mainq, muted, listeners>>
    BY DEF GetDocument, engine
  <1>2. asked \in Nat /\ asked + 1 \in Reads
    BY <1>1, ReadsAssumption DEF CallsOK, Reads
  <1>3. o \in OpType
    BY <1>2 DEF OpType
  <1>4. o.op = "listen" /\ o.read = asked + 1
    OBVIOUS
  <1> HIDE DEF o
  <1>5. /\ Len(workerq) \in Nat /\ DOMAIN workerq = 1 .. Len(workerq)
        /\ DOMAIN workerq' = 1 .. Len(workerq) + 1
        /\ \A i \in 1 .. Len(workerq) : workerq'[i] = workerq[i]
        /\ workerq'[Len(workerq) + 1] = o
    BY <1>1, <1>3, AppendFacts DEF CallsOK
  <1>6. /\ \A i \in DOMAIN workerq' : \/ i = Len(workerq) + 1 /\ workerq'[i] = o
                                      \/ i \in DOMAIN workerq /\ workerq'[i] = workerq[i]
        /\ \A i \in ListenOps' : \/ i = Len(workerq) + 1 /\ workerq'[i] = o
                                 \/ i \in ListenOps /\ workerq'[i] = workerq[i]
    BY <1>5 DEF ListenOps
  <1>7. /\ \A i \in DOMAIN workerq : workerq[i].read \in Nat /\ workerq[i].read <= asked
        /\ \A i \in DOMAIN mainq : mainq[i].read \in Nat /\ mainq[i].read <= asked
        /\ \A i \in DOMAIN listeners : listeners[i] \in Nat /\ listeners[i] <= asked
        /\ answer[asked + 1] = NoAnswer
    <2>1. /\ \A i \in DOMAIN workerq : workerq[i] \in OpType
          /\ \A i \in DOMAIN mainq : mainq[i] \in EventType
          /\ \A i \in DOMAIN listeners : listeners[i] \in Reads
      BY ElementOfSeq, LenProperties DEF CallsOK, EngineOK
    <2>2. Reads \subseteq Nat
      BY DEF Reads
    <2>3. asked + 1 > asked
      BY <1>2
    <2> QED BY <1>2, <2>1, <2>2, <2>3 DEF OpType, EventType, AskedInv
  <1>8. AskedInv'
    <2>1. \A i \in DOMAIN workerq' : workerq'[i].read <= asked'
      BY <1>1, <1>2, <1>4, <1>6, <1>7
    <2>2. \A q \in Reads : q > asked + 1 => q > asked
      BY <1>2 DEF Reads
    <2> QED BY <1>1, <1>2, <1>7, <2>1, <2>2 DEF AskedInv
  <1>9. PlacesInv'
    <2>1. \A i \in ListenOps : i \in DOMAIN workerq
      BY DEF ListenOps
    <2>2. ASSUME NEW i \in ListenOps', NEW j \in ListenOps', workerq'[i].read = workerq'[j].read
          PROVE  i = j
      <3>1. \A n \in ListenOps : workerq[n].read # asked + 1
        BY <1>2, <1>7, <2>1
      <3> QED BY <1>4, <1>6, <2>2, <3>1 DEF PlacesInv
    <2>3. ASSUME NEW i \in ListenOps'
          PROVE  /\ \A j \in DOMAIN listeners : listeners[j] # workerq'[i].read
                 /\ \A j \in DOMAIN mainq : mainq[j].read # workerq'[i].read
                 /\ answer[workerq'[i].read] = NoAnswer
      <3>1. CASE i \in ListenOps /\ workerq'[i] = workerq[i]
        BY <3>1 DEF PlacesInv
      <3>2. CASE workerq'[i] = o
        BY <3>2, <1>2, <1>4, <1>7
      <3> QED BY <1>6, <3>1, <3>2
    <2> QED BY <1>1, <2>2, <2>3 DEF PlacesInv, Distinct
  <1>10. LastWordInv'
    BY <1>1 DEF LastWordInv
  <1> QED BY <1>8, <1>9, <1>10

\* An event is taken from the main queue.
LEMMA PlacesEvent ==
  ASSUME ReadInv, OnEvent
  PROVE  AskedInv' /\ PlacesInv' /\ LastWordInv'
  <1> USE DEF ReadInv, Typed
  <1> DEFINE e == mainq[1]
  <1>1. /\ mainq # <<>> /\ mainq \in Seq(EventType)
        /\ mainq' = Tail(mainq) /\ UNCHANGED <<asked, listeners>>
    BY DEF OnEvent, engine, CallsOK
  <1>2. /\ Len(mainq) \in Nat /\ DOMAIN mainq = 1 .. Len(mainq) /\ 1 \in DOMAIN mainq
        /\ Head(mainq) = e /\ e \in EventType
        /\ DOMAIN mainq' = 1 .. Len(mainq) - 1
        /\ \A i \in DOMAIN mainq' : i \in Nat /\ i + 1 \in DOMAIN mainq /\ i + 1 > 1
                                    /\ mainq'[i] = mainq[i + 1]
    BY <1>1, TailFacts
  <1>3. e.read \in Reads
    BY <1>2 DEF EventType
  <1> DEFINE o == [op |-> "remove", read |-> e.read]
  <1>4. IF e.read \in muted
        THEN UNCHANGED <<answer, muted, workerq>>
        ELSE /\ answer' = [answer EXCEPT ![e.read] = AnswerTo(e)]
             /\ IF e.error THEN UNCHANGED <<muted, workerq>>
                ELSE muted' = muted \cup {e.read} /\ workerq' = Append(workerq, o)
    BY <1>2 DEF OnEvent, Remove
  <1>5. o \in OpType /\ o.op = "remove" /\ o.read = e.read
    BY <1>3 DEF OpType
  <1> HIDE DEF e, o
  <1>6. /\ e.read <= asked
        /\ \A q \in Reads : q # e.read => answer'[q] = answer[q]
    BY <1>2, <1>4 DEF AskedInv, CallsOK, e
  <1>7. /\ \A i \in DOMAIN workerq' : workerq'[i] = o \/ (i \in DOMAIN workerq /\ workerq'[i] = workerq[i])
        /\ \A i \in ListenOps' : i \in ListenOps /\ workerq'[i] = workerq[i]
    <2>1. CASE UNCHANGED workerq
      BY <2>1 DEF ListenOps
    <2>2. CASE workerq' = Append(workerq, o)
      <3>1. /\ Len(workerq) \in Nat /\ DOMAIN workerq = 1 .. Len(workerq)
            /\ DOMAIN workerq' = 1 .. Len(workerq) + 1
            /\ \A i \in 1 .. Len(workerq) : workerq'[i] = workerq[i]
            /\ workerq'[Len(workerq) + 1] = o
        BY <2>2, <1>5, AppendFacts DEF CallsOK
      <3>2. \A i \in DOMAIN workerq' : \/ i = Len(workerq) + 1 /\ workerq'[i] = o
                                       \/ i \in DOMAIN workerq /\ workerq'[i] = workerq[i]
        BY <3>1
      <3> QED BY <3>2, <1>5 DEF ListenOps
    <2> QED BY <1>4, <2>1, <2>2
  <1>8. /\ \A i \in DOMAIN workerq : workerq[i].read \in Reads
        /\ \A i \in DOMAIN mainq : mainq[i].read \in Reads
        /\ \A i \in DOMAIN listeners : listeners[i] \in Reads
    <2>1. /\ \A i \in DOMAIN workerq : workerq[i] \in OpType
          /\ \A i \in DOMAIN mainq : mainq[i] \in EventType
          /\ \A i \in DOMAIN listeners : listeners[i] \in Reads
      BY ElementOfSeq, LenProperties DEF CallsOK, EngineOK
    <2> QED BY <2>1 DEF OpType, EventType
  <1>9. AskedInv'
    <2>1. \A i \in DOMAIN workerq' : workerq'[i].read <= asked
      BY <1>5, <1>6, <1>7 DEF AskedInv
    <2>2. \A i \in DOMAIN mainq' : mainq'[i].read <= asked
      BY <1>2 DEF AskedInv
    <2>3. \A q \in Reads : q > asked => answer'[q] = NoAnswer
      <3>1. \A q \in Reads : q > asked => q # e.read
        BY <1>3, <1>6 DEF Reads, CallsOK
      <3> QED BY <1>6, <3>1 DEF AskedInv
    <2> QED BY <1>1, <2>1, <2>2, <2>3 DEF AskedInv
  <1>10. PlacesInv'
    <2>1. ASSUME NEW i \in ListenOps'
          PROVE  /\ \A j \in DOMAIN listeners : listeners[j] # workerq'[i].read
                 /\ \A j \in DOMAIN mainq' : mainq'[j].read # workerq'[i].read
                 /\ answer'[workerq'[i].read] = NoAnswer
      <3>1. i \in ListenOps /\ workerq'[i] = workerq[i] /\ workerq[i].read \in Reads
        BY <1>7, <1>8 DEF ListenOps
      <3>2. workerq[i].read # e.read
        BY <1>2, <3>1 DEF PlacesInv, e
      <3> QED BY <1>2, <1>6, <3>1, <3>2 DEF PlacesInv
    <2> QED BY <1>1, <1>7, <2>1 DEF PlacesInv, Distinct
  <1>11. LastWordInv'
    <2>1. ASSUME NEW i \in DOMAIN mainq', mainq'[i].error
          PROVE  /\ \A j \in DOMAIN listeners : listeners[j] # mainq'[i].read
                 /\ \A j \in DOMAIN mainq' : mainq'[j].read = mainq'[i].read => j <= i
      <3>1. \A j \in DOMAIN mainq' : j + 1 <= i + 1 => j <= i
        BY <1>2
      <3> QED BY <1>2, <2>1, <3>1 DEF LastWordInv
    <2>2. e.read \notin muted /\ e.error =>
            /\ \A i \in DOMAIN mainq' : mainq'[i].read # e.read
            /\ \A i \in DOMAIN listeners : listeners[i] # e.read
      <3>1. \A i \in DOMAIN mainq' : ~(i + 1 <= 1)
        BY <1>2
      <3> QED BY <1>2, <3>1 DEF LastWordInv, e
    <2>3. ASSUME NEW q \in Reads, q \notin muted', answer[q] = NoAnswer,
                 ~(e.read \notin muted /\ e.error /\ q = e.read)
          PROVE  answer'[q] = NoAnswer
      BY <1>4, <1>6, <2>3
    <2>4. muted \subseteq muted'
      BY <1>4
    <2> QED BY <1>1, <1>2, <1>8, <2>1, <2>2, <2>3, <2>4 DEF LastWordInv
  <1> QED BY <1>9, <1>10, <1>11
\* The listeners are told of the refusal, and gone.
LEMMA PlacesError ==
  ASSUME ReadInv, OnTargetError, Listened
  PROVE  AskedInv' /\ PlacesInv' /\ LastWordInv'
  <1> USE DEF ReadInv, Typed
  <1> DEFINE t == [i \in DOMAIN listeners |-> Failure(listeners[i])]
  <1>1. /\ mainq' = mainq \o t /\ listeners' = <<>>
        /\ UNCHANGED <<asked, answer, workerq, muted>>
    BY DEF OnTargetError, OnWatchStreamChange
  <1>2. Len(listeners) \in Nat /\ DOMAIN listeners = 1 .. Len(listeners)
        /\ \A i \in DOMAIN listeners : listeners[i] \in Reads
    BY LenProperties, ElementOfSeq DEF EngineOK
  <1>3. /\ DOMAIN t = 1 .. Len(listeners) /\ Len(t) = Len(listeners)
        /\ \A i \in DOMAIN listeners : t[i].read = listeners[i]
    BY <1>2 DEF Failure
  <1>4. t \in Seq(EventType)
    <2>1. \A r \in Reads : Failure(r) \in EventType
      BY VersionAssumption DEF Failure, EventType, Unknown, Document, NoVersion
    <2> QED BY <1>2, <2>1, IsASeq
  <1> HIDE DEF t
  <1>5. IsConcat(mainq', mainq, t)
    BY <1>1, <1>4, ConcatFacts DEF CallsOK
  <1>6. /\ Len(mainq) \in Nat /\ DOMAIN mainq = 1 .. Len(mainq)
        /\ DOMAIN mainq' = 1 .. Len(mainq) + Len(listeners)
        /\ \A i \in 1 .. Len(mainq) : mainq'[i] = mainq[i]
        /\ \A i \in 1 .. Len(listeners) : mainq'[Len(mainq) + i] = t[i]
    BY <1>3, <1>5, Zenon DEF IsConcat
  <1> DEFINE n == Len(mainq)
  <1>7. /\ \A i \in DOMAIN mainq : i \in DOMAIN mainq' /\ mainq'[i] = mainq[i] /\ i <= n /\ i \in Nat
        /\ \A i \in DOMAIN mainq' : i \notin DOMAIN mainq =>
             /\ i - n \in DOMAIN listeners /\ mainq'[i].read = listeners[i - n]
             /\ i > n /\ i \in Nat
    <2>1. ASSUME NEW i \in DOMAIN mainq', i \notin DOMAIN mainq
          PROVE  /\ i - n \in DOMAIN listeners /\ mainq'[i].read = listeners[i - n]
                 /\ i > n /\ i \in Nat
      <3>1. i - n \in 1 .. Len(listeners) /\ n + (i - n) = i /\ i > n /\ i \in Nat
        BY <1>2, <1>6, <2>1
      <3>2. mainq'[n + (i - n)] = t[i - n]
        BY <1>6, <3>1
      <3> QED BY <1>2, <1>3, <3>1, <3>2
    <2> QED BY <1>2, <1>6, <2>1
  <1> HIDE DEF n
  <1>8. AskedInv'
    BY <1>1, <1>7 DEF AskedInv
  <1>9. PlacesInv'
    <2>1. ListenOps' = ListenOps
      BY <1>1 DEF ListenOps
    <2>2. ASSUME NEW i \in ListenOps, NEW j \in DOMAIN mainq'
          PROVE  mainq'[j].read # workerq[i].read
      BY <1>7 DEF PlacesInv
    <2> QED BY <1>1, <2>1, <2>2 DEF PlacesInv, Distinct
  <1>10. LastWordInv'
    <2>1. ASSUME NEW i \in DOMAIN mainq', mainq'[i].error,
                 NEW j \in DOMAIN mainq', mainq'[j].read = mainq'[i].read
          PROVE  j <= i
      <3>1. CASE i \in DOMAIN mainq /\ j \in DOMAIN mainq
        BY <1>7, <2>1, <3>1 DEF LastWordInv
      <3>2. CASE i \in DOMAIN mainq /\ j \notin DOMAIN mainq
        BY <1>7, <2>1, <3>2 DEF LastWordInv
      <3>3. CASE i \notin DOMAIN mainq /\ j \in DOMAIN mainq
        BY <1>7, <3>3, <1>6 DEF n
      <3>4. CASE i \notin DOMAIN mainq /\ j \notin DOMAIN mainq
        <4>1. listeners[i - n] = listeners[j - n] /\ i - n \in DOMAIN listeners
              /\ j - n \in DOMAIN listeners /\ i \in Nat /\ j \in Nat
          BY <1>7, <2>1, <3>4
        <4>2. i - n = j - n
          BY <4>1 DEF PlacesInv, Distinct
        <4> QED BY <1>6, <4>1, <4>2 DEF n
      <3> QED BY <3>1, <3>2, <3>3, <3>4
    <2>2. ASSUME NEW i \in DOMAIN mainq', mainq'[i].read \notin muted
          PROVE  answer[mainq'[i].read] = NoAnswer
      BY <1>7, <2>2 DEF LastWordInv
    <2> QED BY <1>1, <2>1, <2>2 DEF LastWordInv
  <1> QED BY <1>8, <1>9, <1>10

\* Every step keeps the calls in their places.
LEMMA PlacesKept ==
  ASSUME ReadInv, [Next]_vars
  PROVE  AskedInv' /\ PlacesInv' /\ LastWordInv'
  <1>1. CASE GetDocument \/ OnEvent \/ JoinListeners \/ FirstListener \/ RemoveQueryListener
             \/ (OnTargetError /\ Listened)
    BY <1>1, PlacesAsk, PlacesEvent, PlacesListen, PlacesRemove, PlacesError
  <1>2. CASE /\ Next
             /\ ~(GetDocument \/ OnEvent \/ JoinListeners \/ FirstListener \/ RemoveQueryListener
                   \/ (OnTargetError /\ Listened))
    <2>1. mainq' = mainq \/ Emission
      BY <1>2, MainqSteps
    <2>2. UNCHANGED <<asked, answer, workerq, muted, listeners>>
      <3>1. CASE OnTargetError
        BY <1>2, <3>1 DEF OnTargetError, OnWatchStreamChange
      <3>2. CASE OnSnapshot
        BY <3>2 DEF OnSnapshot, OnWatchStreamChange
      <3>3. CASE OnTargetAdded \/ OnTargetRemoved \/ OnTargetCurrent \/ OnDocument
        BY <3>3 DEF OnTargetAdded, OnTargetRemoved, OnTargetCurrent, OnDocument,
                    OnWatchStreamChange, engine
      <3>4. CASE Timers \/ Connection \/ Server
        BY <3>4 DEF Timers, Connection, Server, BackoffElapses, OnlineStateTimeout,
                    IdleTimeout, ResumeStartWithCredentials, OnWatchStreamClose,
                    HandleCredentialChange, ServerChanges, ServerReads, ServerNotifies, calls, engine
      <3> QED BY <1>2, <3>1, <3>2, <3>3, <3>4 DEF Next, WorkerQueue, Messages
    <2> QED BY <2>1, <2>2, PlacesTold
  <1>3. CASE UNCHANGED vars
    BY <1>3, PlacesTold DEF vars, calls, engine
  <1> QED BY <1>1, <1>2, <1>3

-----------------------------------------------------------------------------
(* What is refused.                                                         *)

\* The engine hears of the document from a snapshot; the first listener makes
\* a view of what is cached; what else changes the view makes it not current.
LEMMA EngineSteps ==
  ASSUME ReadInv, [Next]_vars
  PROVE  \/ OnSnapshot
         \/ /\ FirstListener /\ ~Listened /\ Listened'
            /\ view' = [doc |-> cached, current |-> FALSE, since |-> version]
            /\ UNCHANGED <<cached, synced>>
         \/ /\ view' = view \/ view' = [view EXCEPT !.current = FALSE]
            /\ Listened' => Listened
            /\ UNCHANGED <<cached, synced>>
  <1> USE DEF ReadInv, PlacesInv
  <1>1. CASE FirstListener
    <2>1. IsListen
      BY <1>1 DEF FirstListener
    <2>2. Listened'
      BY <1>1, <2>1, AddedFacts, HeadListen DEF Typed
    <2> QED BY <1>1, <2>2 DEF FirstListener
  <1>2. CASE JoinListeners
    BY <1>2 DEF JoinListeners
  <1>3. CASE RemoveQueryListener
    BY <1>3 DEF RemoveQueryListener, Listened
  <1>4. CASE OnWatchStreamClose
    <2>1. UNCHANGED <<listeners, cached, synced>>
      BY <1>4 DEF OnWatchStreamClose
    <2>2. view' = view \/ view' = [view EXCEPT !.current = FALSE]
      <3>1. CASE HandleWatchStreamFailure
        BY <2>1, <3>1, GoOfflineFacts DEF HandleWatchStreamFailure, Typed
      <3>2. CASE UNCHANGED view
        BY <3>2
      <3> QED BY <1>4, <3>1, <3>2 DEF OnWatchStreamClose
    <2> QED BY <2>1, <2>2 DEF Listened
  <1>5. CASE OnlineStateTimeout
    <2>1. UNCHANGED <<listeners, cached, synced>> /\ GoOffline
      BY <1>5 DEF OnlineStateTimeout
    <2>2. view' = view \/ view' = [view EXCEPT !.current = FALSE]
      BY <2>1, GoOfflineFacts DEF Typed
    <2> QED BY <2>1, <2>2 DEF Listened
  <1>6. CASE OnTargetError
    BY <1>6 DEF OnTargetError, Listened
  <1>7. CASE GetDocument \/ OnEvent \/ BackoffElapses \/ IdleTimeout \/ ResumeStartWithCredentials
             \/ HandleCredentialChange \/ Server
    BY <1>7 DEF GetDocument, OnEvent, BackoffElapses, IdleTimeout, ResumeStartWithCredentials,
                HandleCredentialChange, Server, ServerChanges, ServerReads, ServerNotifies, engine,
                Listened
  <1>8. CASE OnTargetAdded \/ OnTargetRemoved \/ OnTargetCurrent \/ OnDocument
    BY <1>8 DEF OnTargetAdded, OnTargetRemoved, OnTargetCurrent, OnDocument, engine, Listened
  <1>9. CASE UNCHANGED vars
    BY <1>9 DEF vars, engine, Listened
  <1> QED
    BY <1>1, <1>2, <1>3, <1>4, <1>5, <1>6, <1>7, <1>8, <1>9
       DEF Next, WorkerQueue, Timers, Connection, Messages

\* The rules of the server do not change.
LEMMA RulesStand ==
  ASSUME [Next]_vars
  PROVE  /\ denied' = denied
         /\ version' = version \/ (ServerChanges /\ version' = version + 1)
  <1>1. CASE Messages
    BY <1>1, MessageSteps
  <1>2. CASE ~Messages
    BY <1>2 DEF Next, vars, server, WorkerQueue, Timers, Connection, Server,
             GetDocument, OnEvent, JoinListeners, FirstListener, RemoveQueryListener,
             BackoffElapses, OnlineStateTimeout, IdleTimeout, ResumeStartWithCredentials,
             OnWatchStreamClose, HandleCredentialChange,
             ServerChanges, ServerReads, ServerNotifies
  <1> QED BY <1>1, <1>2

\* What has been said and not read: nothing new, or an error where the reader is
\* refused, or something else where it is served.
LEMMA Said ==
  ASSUME ReadInv, TrackerInv, [Next]_vars
  PROVE  /\ \A i \in DOMAIN responses' :
              \/ \E j \in DOMAIN responses : responses'[i] = responses[j]
              \/ denied /\ responses'[i].type = "error"
              \/ (~denied \/ serving # NotServed) /\ responses'[i].type # "error"
         /\ serving' = serving \/ serving' = NotServed \/ ~denied \/ serving # NotServed
  <1>1. ConnOK /\ QuietInv
    BY DEF ReadInv, Typed
  <1>2. CASE Untouched
    BY <1>2 DEF Untouched
  <1>3. CASE CleanUpWatchStreamState
    BY <1>3 DEF CleanUpWatchStreamState
  <1>4. ASSUME NEW what, Send(what)
        PROVE  UNCHANGED <<responses, serving>>
    BY <1>4 DEF Send
  <1>5. CASE Messages
    <2>1. PICK type : OnWatchStreamChange(type)
      BY <1>5, MessageSteps
    <2>2. \A i \in DOMAIN responses' : i + 1 \in DOMAIN responses /\ responses'[i] = responses[i + 1]
      BY <1>1, <2>1, HeadMessage
    <2> QED BY <1>5, <2>2, MessageSteps
  <1>6. ASSUME NEW x \in Seq(MessageType), responses' = responses \o x, NEW i \in DOMAIN responses'
        PROVE  \/ \E j \in DOMAIN responses : responses'[i] = responses[j]
               \/ \E j \in DOMAIN x : responses'[i] = x[j]
    <2>1. IsConcat(responses', responses, x)
      BY <1>1, <1>6, ConcatFacts DEF ConnOK
    <2>2. /\ Len(responses) \in Nat /\ Len(x) \in Nat
          /\ DOMAIN responses = 1 .. Len(responses) /\ DOMAIN x = 1 .. Len(x)
          /\ DOMAIN responses' = 1 .. Len(responses) + Len(x)
          /\ \A j \in 1 .. Len(responses) : responses'[j] = responses[j]
          /\ \A j \in 1 .. Len(x) : responses'[Len(responses) + j] = x[j]
      BY <2>1, Zenon DEF IsConcat
    <2>3. CASE i <= Len(responses)
      BY <2>2, <2>3
    <2>4. CASE i > Len(responses)
      <3>1. i - Len(responses) \in DOMAIN x /\ Len(responses) + (i - Len(responses)) = i
        BY <2>2, <2>4
      <3>2. responses'[Len(responses) + (i - Len(responses))] = x[i - Len(responses)]
        BY <2>2, <3>1
      <3> QED BY <3>1, <3>2
    <2>5. i \in Nat /\ Len(responses) \in Nat
      BY <2>2
    <2> QED BY <2>3, <2>4, <2>5
  <1>7. CASE ServerReads
    <2>1. serving' = version \/ serving' = NotServed
      BY <1>1, <1>7, ServerReadsFacts
    <2>2. serving' = NotServed \/ ~denied
      BY <1>1, <1>7, ServerReadsFacts
    <2>3. CASE denied /\ responses' = responses \o <<Message("error", 0)>>
      <3>1. PICK m \in MessageType : m = Message("error", 0)
        <4>1. Message("error", 0) \in MessageType
          BY VersionAssumption DEF Message, MessageType
        <4> QED BY <4>1
      <3>2. PICK x : x = <<m>>
        OBVIOUS
      <3>3. x \in Seq(MessageType) /\ \A j \in DOMAIN x : x[j] = m
        BY <3>2
      <3>4. responses' = responses \o x /\ m.type = "error"
        BY <2>3, <3>1, <3>2 DEF Message
      <3> QED BY <1>6, <2>2, <2>3, <3>3, <3>4
    <2>4. CASE serving # NotServed /\ responses' = responses \o <<Message("removed", 0)>>
      <3>1. PICK m \in MessageType : m = Message("removed", 0)
        <4>1. Message("removed", 0) \in MessageType
          BY VersionAssumption DEF Message, MessageType
        <4> QED BY <4>1
      <3>2. PICK x : x = <<m>>
        OBVIOUS
      <3>3. x \in Seq(MessageType) /\ \A j \in DOMAIN x : x[j] = m
        BY <3>2
      <3>4. responses' = responses \o x /\ m.type # "error"
        BY <2>4, <3>1, <3>2 DEF Message
      <3> QED BY <1>6, <2>2, <2>4, <3>3, <3>4
    <2>5. CASE ~denied /\ responses' = responses \o Answered
      <3>1. Answered \in Seq(MessageType) /\ \A j \in DOMAIN Answered : Answered[j].type # "error"
        <4>1. Answered \in Seq(MessageType)
          BY <1>1, AnsweredFacts
        <4>2. CASE version > 0
          <5>1. \A j \in DOMAIN Answered : j = 1 \/ j = 2 \/ j = 3 \/ j = 4
            BY <1>1, <4>2, AnsweredFacts
          <5>2. /\ Answered[1] = Message("added", 0) /\ Answered[2] = Message("doc", version)
                /\ Answered[3] = Message("current", 0) /\ Answered[4] = Message("snapshot", version)
            BY <1>1, <4>2, AnsweredFacts
          <5>3. \A j \in DOMAIN Answered : Answered[j].type # "error"
            BY <5>1, <5>2 DEF Message
          <5> QED BY <4>1, <5>3
        <4>3. CASE ~(version > 0)
          <5>1. \A j \in DOMAIN Answered : j = 1 \/ j = 2 \/ j = 3
            BY <1>1, <4>3, AnsweredFacts
          <5>2. /\ Answered[1] = Message("added", 0) /\ Answered[2] = Message("current", 0)
                /\ Answered[3] = Message("snapshot", version)
            BY <1>1, <4>3, AnsweredFacts
          <5>3. \A j \in DOMAIN Answered : Answered[j].type # "error"
            BY <5>1, <5>2 DEF Message
          <5> QED BY <4>1, <5>3
        <4> QED BY <4>2, <4>3
      <3> QED BY <1>6, <2>5, <3>1
    <2>6. CASE responses' = responses
      BY <2>2, <2>6
    <2> QED BY <1>1, <1>7, <2>3, <2>4, <2>5, <2>6, ServerReadsFacts
  <1>8. CASE ServerNotifies
    <2> DEFINE x == Documents \o <<Message("snapshot", version)>>
    <2>1. serving # NotServed /\ serving < version /\ responses' = responses \o Documents \o <<Message("snapshot", version)>>
      BY <1>8 DEF ServerNotifies
    <2>2. version > 0
      BY <1>1, <2>1 DEF ConnOK, NotServed
    <2>3. x \in Seq(MessageType) /\ \A j \in DOMAIN x : x[j].type # "error"
      BY <1>1, <2>2, NotifiedFacts DEF Message
    <2>4. Documents \in Seq(MessageType) /\ <<Message("snapshot", version)>> \in Seq(MessageType)
      <3>1. Message("doc", version) \in MessageType /\ Message("snapshot", version) \in MessageType
        BY <1>1 DEF Message, MessageType, ConnOK
      <3> QED BY <2>2, <3>1 DEF Documents
    <2>5. responses' = responses \o x
      BY <1>1, <2>1, <2>4, ConcatAssociative DEF ConnOK
    <2> HIDE DEF x
    <2> QED BY <1>6, <2>1, <2>3, <2>5
  <1> QED BY <1>1, <1>2, <1>3, <1>4, <1>5, <1>7, <1>8, WireSteps

\* An event leaves the main queue, or the listeners are told of a refusal.
LEMMA EventTail ==
  ASSUME CallsOK, OnEvent
  PROVE  /\ mainq # <<>> /\ 1 \in DOMAIN mainq /\ Head(mainq) = mainq[1] /\ mainq[1] \in EventType
         /\ \A i \in DOMAIN mainq' : i + 1 \in DOMAIN mainq /\ mainq'[i] = mainq[i + 1]
  <1>1. mainq # <<>> /\ mainq' = Tail(mainq)
    BY DEF OnEvent
  <1>2. /\ Len(mainq) \in Nat /\ DOMAIN mainq = 1 .. Len(mainq) /\ Len(mainq) >= 1
        /\ Head(mainq) = mainq[1] /\ mainq[1] \in EventType
        /\ DOMAIN mainq' = 1 .. Len(mainq) - 1
        /\ \A i \in 1 .. Len(mainq) - 1 : mainq'[i] = mainq[i + 1]
    BY <1>1, TailFacts DEF CallsOK
  <1> QED BY <1>1, <1>2

\* The events of a refusal.
LEMMA FailureFacts ==
  ASSUME CallsOK, EngineOK, OnTargetError, Listened
  PROVE  \A i \in DOMAIN mainq' : (\E j \in DOMAIN mainq : mainq'[i] = mainq[j])
                                  \/ \E r \in Reads : mainq'[i] = Failure(r)
  <1> DEFINE t == [i \in DOMAIN listeners |-> Failure(listeners[i])]
  <1>1. mainq' = mainq \o t
    BY DEF OnTargetError
  <1>2. Len(listeners) \in Nat /\ DOMAIN listeners = 1 .. Len(listeners)
        /\ \A i \in DOMAIN listeners : listeners[i] \in Reads
    BY LenProperties, ElementOfSeq DEF EngineOK
  <1>3. /\ DOMAIN t = 1 .. Len(listeners) /\ Len(t) = Len(listeners)
        /\ \A i \in DOMAIN listeners : t[i] = Failure(listeners[i])
    BY <1>2
  <1>4. t \in Seq(EventType)
    <2>1. \A r \in Reads : Failure(r) \in EventType
      BY VersionAssumption DEF Failure, EventType, Unknown, Document, NoVersion
    <2> QED BY <1>2, <2>1, IsASeq
  <1> HIDE DEF t
  <1>5. IsConcat(mainq', mainq, t)
    BY <1>1, <1>4, ConcatFacts DEF CallsOK
  <1>6. /\ Len(mainq) \in Nat /\ DOMAIN mainq = 1 .. Len(mainq)
        /\ DOMAIN mainq' = 1 .. Len(mainq) + Len(listeners)
        /\ \A i \in 1 .. Len(mainq) : mainq'[i] = mainq[i]
        /\ \A i \in 1 .. Len(listeners) : mainq'[Len(mainq) + i] = t[i]
    BY <1>3, <1>5, Zenon DEF IsConcat
  <1>7. ASSUME NEW i \in DOMAIN mainq', i \notin DOMAIN mainq
        PROVE  \E r \in Reads : mainq'[i] = Failure(r)
    <2>1. i - Len(mainq) \in DOMAIN listeners /\ Len(mainq) + (i - Len(mainq)) = i
      BY <1>2, <1>6, <1>7
    <2>2. mainq'[Len(mainq) + (i - Len(mainq))] = Failure(listeners[i - Len(mainq)])
      BY <1>2, <1>3, <1>6, <2>1
    <2> QED BY <1>2, <2>1, <2>2
  <1> QED BY <1>6, <1>7

\* Every step keeps from a reader who is refused what the document is.
LEMMA RefusedKept ==
  ASSUME ReadInv, TrackerInv, [Next]_vars
  PROVE  RefusedInv'
  <1> USE DEF ReadInv, Typed
  <1>1. denied' = denied
    BY RulesStand
  <1>2. \A type : OnWatchStreamChange(type) => 1 \in DOMAIN responses /\ responses[1].type = type
    BY HeadMessage
  <1>3. CASE denied
    <2>1. ~OnSnapshot /\ ~OnDocument /\ ~OnTargetCurrent
      BY <1>2, <1>3 DEF RefusedInv, OnSnapshot, OnDocument, OnTargetCurrent
    <2>2. serving' = NotServed /\ \A i \in DOMAIN responses' : responses'[i].type = "error"
      BY <1>3, Said DEF RefusedInv
    <2>3. /\ cached' = Unknown /\ synced' = FALSE
          /\ view'.doc = Unknown /\ view'.current = FALSE
      BY <1>3, <2>1, EngineSteps DEF RefusedInv, EngineOK, ViewType
    <2>4. update' = NoVersion /\ target'.current = FALSE
      <3>1. CASE Untouched
        BY <1>3, <3>1 DEF Untouched, RefusedInv, WatchOK
      <3>2. CASE CleanUpWatchStreamState
        BY <3>2 DEF CleanUpWatchStreamState, Fresh
      <3>3. ASSUME NEW what, Send(what), UNCHANGED update
            PROVE  update' = NoVersion /\ target'.current = FALSE
        BY <1>3, <3>3 DEF Send, RecordPendingTargetRequest, RefusedInv, WatchOK
      <3>4. CASE Messages
        <4>1. Fresh.current = FALSE
          BY DEF Fresh
        <4>2. target.current = FALSE /\ update = NoVersion
              /\ [target EXCEPT !.pending = @ - 1].current = FALSE
          BY <1>3 DEF RefusedInv, WatchOK
        <4>3. CASE OnTargetAdded
          BY <3>4, <4>2, <4>3, MessageSteps
        <4>4. CASE OnTargetRemoved
          BY <3>4, <4>1, <4>2, <4>4, MessageSteps
        <4>5. CASE OnTargetError
          BY <3>4, <4>1, <4>2, <4>5, MessageSteps
        <4> QED BY <2>1, <3>4, <4>3, <4>4, <4>5 DEF Messages
      <3>5. CASE ServerReads \/ ServerNotifies
        BY <1>3, <3>5 DEF ServerReads, ServerNotifies, watch, RefusedInv, WatchOK
      <3> QED BY <3>1, <3>2, <3>3, <3>4, <3>5, WireSteps
    <2>5. \A i \in DOMAIN mainq' : mainq'[i].doc = Unknown /\ ~mainq'[i].synced
      <3>1. CASE mainq' = mainq \/ Emission
        <4>1. \A r : Event(r, view').doc = Unknown /\ ~Event(r, view').synced
          BY <2>3 DEF Event
        <4>2. /\ \A i \in DOMAIN mainq : i \in DOMAIN mainq' /\ mainq'[i] = mainq[i]
              /\ \A i \in DOMAIN mainq' : i \notin DOMAIN mainq =>
                   \E j \in DOMAIN listeners' : mainq'[i] = Event(listeners'[j], view')
          BY <3>1, EmissionFacts
        <4> QED BY <1>3, <4>1, <4>2 DEF RefusedInv
      <3>2. CASE OnEvent
        <4>1. \A i \in DOMAIN mainq' : i + 1 \in DOMAIN mainq /\ mainq'[i] = mainq[i + 1]
          BY <3>2, EventTail
        <4> QED BY <1>3, <4>1 DEF RefusedInv
      <3>3. CASE OnTargetError /\ Listened
        <4>1. \A i \in DOMAIN mainq' : (\E j \in DOMAIN mainq : mainq'[i] = mainq[j])
                                       \/ \E r \in Reads : mainq'[i] = Failure(r)
          BY <3>3, FailureFacts
        <4>2. \A r : Failure(r).doc = Unknown /\ ~Failure(r).synced
          BY DEF Failure
        <4> QED BY <1>3, <4>1, <4>2 DEF RefusedInv
      <3> QED BY <3>1, <3>2, <3>3, MainqSteps DEF vars, calls
    <2> QED BY <1>1, <1>3, <2>2, <2>3, <2>4, <2>5 DEF RefusedInv
  <1>4. CASE ~denied
    <2>1. ~OnTargetError
      BY <1>2, <1>4 DEF RefusedInv, OnTargetError
    <2>2. \A i \in DOMAIN responses' : responses'[i].type # "error"
      BY <1>4, Said DEF RefusedInv
    <2>3. \A i \in DOMAIN mainq' : ~mainq'[i].error
      <3>1. CASE mainq' = mainq \/ Emission
        <4>1. \A r : Event(r, view').error = FALSE
          BY DEF Event
        <4>2. /\ \A i \in DOMAIN mainq : i \in DOMAIN mainq' /\ mainq'[i] = mainq[i]
              /\ \A i \in DOMAIN mainq' : i \notin DOMAIN mainq =>
                   \E j \in DOMAIN listeners' : mainq'[i] = Event(listeners'[j], view')
          BY <3>1, EmissionFacts
        <4> QED BY <1>4, <4>1, <4>2 DEF RefusedInv
      <3>2. CASE OnEvent
        <4>1. \A i \in DOMAIN mainq' : i + 1 \in DOMAIN mainq /\ mainq'[i] = mainq[i + 1]
          BY <3>2, EventTail
        <4> QED BY <1>4, <4>1 DEF RefusedInv
      <3> QED BY <2>1, <3>1, <3>2, MainqSteps DEF vars, calls
    <2> QED BY <1>1, <1>4, <2>2, <2>3 DEF RefusedInv
  <1> QED BY <1>3, <1>4
-----------------------------------------------------------------------------
(* What the cache holds and the calls are told.                             *)

\* Where nothing is awaited no acknowledgement is on its way.
LEMMA ActiveLatest ==
  ASSUME ReadInv, ~denied, target.pending = 0
  PROVE  requests = <<>> /\ \A i \in DOMAIN responses : Latest(i) /\ i \notin AcksOf(responses)
  <1>1. Len(requests) \in Nat /\ Len(responses) \in Nat /\ DOMAIN responses = 1 .. Len(responses)
    BY LenProperties DEF ReadInv, Typed, ConnOK
  <1>2. IsFiniteSet(AcksOf(responses))
    <2>1. IsFiniteSet(1 .. Len(responses))
      BY <1>1, FS_Interval
    <2> QED BY <1>1, <2>1, FS_Subset DEF AcksOf
  <1>3. Cardinality(AcksOf(responses)) \in Nat
    BY <1>2, FS_CardinalityType
  <1>4. Len(requests) = 0 /\ Cardinality(AcksOf(responses)) = 0
    BY <1>1, <1>3 DEF ReadInv, AwaitedInv
  <1>5. AcksOf(responses) = {}
    BY <1>2, <1>4, FS_EmptySet
  <1>6. requests = <<>>
    BY <1>4, EmptySeq DEF ReadInv, Typed, ConnOK
  <1>7. \A i \in DOMAIN responses : responses[i].type # "added" /\ i \notin AcksOf(responses)
    BY <1>5 DEF AcksOf
  <1> QED BY <1>6, <1>7 DEF Latest

\* A snapshot writes a version of the document, not an older one than was there,
\* and what it makes current is as new as the listen.
LEMMA SnapshotDoc ==
  ASSUME ReadInv, OnSnapshot
  PROVE  /\ cached' # Unknown => Truthful(cached')
         /\ cached.v <= cached'.v
         /\ synced' => cached' # Unknown
         /\ Listened /\ view'.current => view.since <= cached'.v
         /\ \A i \in DOMAIN responses : Versioned(responses[i]) => cached'.v <= responses[i].v
  <1> USE DEF ReadInv, Typed
  <1> DEFINE s == responses[1].v
  <1>1. /\ 1 \in DOMAIN responses /\ responses[1].type = "snapshot" /\ s \in 0 .. MaxVersion
        /\ \A i \in DOMAIN responses : 1 <= i
    BY HeadMessage DEF OnSnapshot
  <1>2. ~denied
    BY <1>1 DEF RefusedInv
  <1>3. /\ cached.v <= s /\ s <= version /\ s \in Nat /\ s \in 0 .. version
        /\ \A i \in DOMAIN responses : Versioned(responses[i]) =>
             cached.v <= responses[i].v /\ s <= responses[i].v
    <2>1. Versioned(responses[1])
      BY <1>1 DEF Versioned
    <2>2. cached.v <= s /\ s <= version
      BY <1>1, <2>1 DEF VersionsInv
    <2> QED BY <1>1, <2>1, <2>2, VersionAssumption DEF VersionsInv, ConnOK
  <1>4. Listened /\ ~IsActive => ~view.current
    <2>1. target.pending \in Nat
      BY DEF WatchOK
    <2>2. responses # <<>> /\ responses[1].type # "added"
      BY <1>1
    <2> QED BY <2>1, <2>2 DEF IsActive, RestoredInv
  <1>5. IsActive => view.since <= s
    BY <1>1, <1>2, ActiveLatest DEF IsActive, VersionsInv, Versioned
  <1>6. IsActive /\ update = NoVersion => s = 0
    <2>1. update = NoVersion => update # s
      BY <1>3 DEF NoVersion
    <2> QED BY <1>1, <1>3, <2>1 DEF DocumentsInv
  <1>7. /\ cached' = RemoteUpdate(s) /\ cached' \in Document
        /\ synced' = (IF IsActive THEN cached'.exists ELSE synced)
        /\ Listened => view'.current = IF IsActive THEN target.current ELSE view.current
    <2>1. \A x, y : [view EXCEPT !.doc = x, !.current = y].current = y
      BY DEF EngineOK, ViewType
    <2>2. /\ cached' = RemoteUpdate(s) /\ cached' \in Document
          /\ synced' = (IF IsActive THEN cached'.exists ELSE synced)
      BY SnapshotFacts DEF PlacesInv
    <2>3. Listened => view' = [view EXCEPT !.doc = cached',
                                           !.current = IF IsActive THEN target.current ELSE view.current]
      BY SnapshotFacts DEF PlacesInv
    <2>4. PICK y : y = IF IsActive THEN target.current ELSE view.current
      OBVIOUS
    <2>5. Listened => view' = [view EXCEPT !.doc = cached', !.current = y]
      BY <2>3, <2>4
    <2>6. Listened => view'.current = y
      BY <2>1, <2>5
    <2> QED BY <2>2, <2>4, <2>6
  <1>8. /\ cached \in Document /\ cached.v \in Int /\ view.since \in Nat
        /\ cached # Unknown => Truthful(cached)
        /\ Truthful(cached) => cached.v >= 0
        /\ Unknown.v = -1 /\ Unknown.exists = FALSE
    BY VersionAssumption DEF EngineOK, Document, ViewType, DocInv, Truthful, ConnOK, Unknown, NoVersion
  <1> HIDE DEF s
  <1>9. CASE update # NoVersion
    <2>1. cached' = Doc(s)
      <3>1. responses[1] = Message("snapshot", update)
        BY <1>1, <1>9 DEF DocumentsInv, SnapshotAt
      <3>2. s = update
        BY <3>1 DEF s, Message
      <3> QED BY <1>7, <1>9, <3>2 DEF RemoteUpdate
    <2>2. cached'.v = s /\ Truthful(cached') /\ cached' # Unknown
      BY <1>3, <1>8, <2>1 DEF Truthful, Doc
    <2> QED BY <1>3, <1>4, <1>5, <1>7, <2>2
  <1>10. CASE update = NoVersion /\ IsActive /\ target.current /\ ~synced
    <2>1. cached' = [v |-> 0, exists |-> FALSE]
      BY <1>6, <1>7, <1>10 DEF RemoteUpdate
    <2>2. cached'.v = 0 /\ cached'.exists = FALSE /\ s = 0
      BY <1>6, <1>10, <2>1
    <2>3. Truthful(cached')
      <3>1. Doc(0) = [v |-> 0, exists |-> FALSE]
        <4>1. 0 % 2 = 0
          OBVIOUS
        <4>2. Exists(0) = FALSE
          <5>1. ~(0 % 2 = 1)
            BY <4>1
          <5> QED BY <5>1, Zenon DEF Exists
        <4> QED BY <4>2, Zenon DEF Doc
      <3> QED BY <1>3, <2>1, <2>2, <3>1 DEF Truthful
    <2> QED BY <1>3, <1>5, <1>7, <1>10, <2>2, <2>3
  <1>11. CASE update = NoVersion /\ ~(IsActive /\ target.current /\ ~synced)
    <2>1. cached' = cached
      BY <1>7, <1>11 DEF RemoteUpdate
    <2>2. Listened /\ view'.current => view.since <= cached.v
      <3>1. Listened /\ view'.current => IsActive /\ target.current /\ synced
        BY <1>4, <1>7, <1>11
      <3>2. synced => cached.v >= 0
        BY <1>8 DEF DocInv
      <3> QED BY <1>5, <1>6, <1>8, <1>11, <3>1, <3>2
    <2>3. synced' => cached # Unknown
      BY <1>7, <1>8, <2>1 DEF DocInv
    <2> QED BY <1>3, <1>8, <2>1, <2>2, <2>3
  <1> QED BY <1>9, <1>10, <1>11

\* The cache never goes back.
LEMMA CacheGrows ==
  ASSUME ReadInv, [Next]_vars
  PROVE  cached.v <= cached'.v
  <1>1. cached.v \in Int
    BY DEF ReadInv, Typed, EngineOK, Document
  <1>2. CASE OnSnapshot
    BY <1>2, SnapshotDoc
  <1>3. CASE UNCHANGED cached
    BY <1>1, <1>3
  <1> QED BY <1>2, <1>3, EngineSteps

\* What the cache and the view hold stays true.
LEMMA DocKept ==
  ASSUME ReadInv, [Next]_vars
  PROVE  DocInv'
  <1> USE DEF ReadInv, Typed
  <1>1. /\ version \in Nat /\ version <= version' /\ version' \in Nat
        /\ view \in ViewType /\ view.since \in Nat
    <2>1. version \in Nat /\ view \in ViewType /\ view.since \in Nat
      BY VersionAssumption DEF ConnOK, EngineOK, ViewType
    <2> QED BY <2>1, RulesStand
  <1>2. \A d : Truthful(d) => d.v \in 0 .. version' /\ d = Doc(d.v)
    BY <1>1 DEF Truthful
  <1>3. CASE OnSnapshot
    <2>1. /\ cached' # Unknown => Truthful(cached')
          /\ synced' => cached' # Unknown
          /\ Listened /\ view'.current => view.since <= cached'.v
      BY <1>3, SnapshotDoc
    <2>2. /\ Listened' = Listened
          /\ IF Listened
             THEN view' = [view EXCEPT !.doc = cached',
                                       !.current = IF IsActive THEN target.current ELSE @]
             ELSE view' = view
      BY <1>3, SnapshotFacts DEF PlacesInv, Listened
    <2>3. view'.since = view.since /\ (Listened => view'.doc = cached')
      BY <1>1, <2>2 DEF ViewType
    <2> QED BY <1>1, <1>2, <2>1, <2>2, <2>3 DEF DocInv, Truthful
  <1>4. CASE /\ FirstListener
             /\ view' = [doc |-> cached, current |-> FALSE, since |-> version]
             /\ UNCHANGED <<cached, synced>>
    BY <1>1, <1>2, <1>4 DEF DocInv, Truthful
  <1>5. CASE /\ view' = view \/ view' = [view EXCEPT !.current = FALSE]
             /\ Listened' => Listened
             /\ UNCHANGED <<cached, synced>>
    <2>1. view'.doc = view.doc /\ view'.since = view.since /\ (view'.current => view.current)
      BY <1>1, <1>5 DEF ViewType
    <2> QED BY <1>1, <1>2, <1>5, <2>1 DEF DocInv, Truthful
  <1> QED BY <1>3, <1>4, <1>5, EngineSteps

\* The floors change when a call is made.
LEMMA FloorStands ==
  ASSUME [Next]_vars, ~GetDocument
  PROVE  UNCHANGED <<floor, asked>>
  <1>1. CASE Messages
    BY <1>1 DEF Messages, OnTargetAdded, OnTargetRemoved, OnTargetCurrent, OnDocument, OnSnapshot,
                OnTargetError, OnWatchStreamChange
  <1>2. CASE OnEvent \/ WorkerQueue \/ UNCHANGED vars
    BY <1>2 DEF OnEvent, WorkerQueue, JoinListeners, FirstListener, RemoveQueryListener, vars, calls
  <1>3. CASE Timers \/ Connection \/ Server
    BY <1>3 DEF Timers, Connection, Server, BackoffElapses, OnlineStateTimeout,
                IdleTimeout, ResumeStartWithCredentials, OnWatchStreamClose,
                HandleCredentialChange, ServerChanges, ServerReads, ServerNotifies, calls
  <1> QED BY <1>1, <1>2, <1>3 DEF Next

\* The answers, and who is muted.
LEMMA AnswersStand ==
  ASSUME [Next]_vars, ~OnEvent
  PROVE  UNCHANGED <<answer, muted>>
  <1>1. CASE Messages
    BY <1>1 DEF Messages, OnTargetAdded, OnTargetRemoved, OnTargetCurrent, OnDocument, OnSnapshot,
                OnTargetError, OnWatchStreamChange
  <1>2. CASE GetDocument \/ WorkerQueue \/ UNCHANGED vars
    BY <1>2 DEF GetDocument, WorkerQueue, JoinListeners, FirstListener, RemoveQueryListener, vars, calls
  <1>3. CASE Timers \/ Connection \/ Server
    BY <1>3 DEF Timers, Connection, Server, BackoffElapses, OnlineStateTimeout,
                IdleTimeout, ResumeStartWithCredentials, OnWatchStreamClose,
                HandleCredentialChange, ServerChanges, ServerReads, ServerNotifies, calls
  <1> QED BY <1>1, <1>2, <1>3 DEF Next

\* What the calls were told, and are being told, stays true.
LEMMA ToldKept ==
  ASSUME ReadInv, [Next]_vars
  PROVE  ToldInv'
  <1> USE DEF ReadInv, Typed
  <1>1. cached.v <= cached'.v
    BY CacheGrows
  <1>2. CallsOK' /\ EngineOK' /\ DocInv'
    BY CallsTyped, EngineTyped, DocKept
  <1>3. cached.v \in Int /\ cached'.v \in Int
    BY <1>2 DEF EngineOK, Document
  <1>4. \A n \in Int : n <= cached.v => n <= cached'.v
    BY <1>1, <1>3
  <1>5. /\ \A r \in Reads : floor[r] \in Nat /\ answer[r].v \in Nat
        /\ \A i \in DOMAIN mainq : mainq[i] \in EventType /\ mainq[i].read \in Reads
                                   /\ mainq[i].doc.v \in Int
    <2>1. \A i \in DOMAIN mainq : mainq[i] \in EventType
      BY ElementOfSeq, LenProperties DEF CallsOK
    <2> QED BY <2>1, VersionAssumption DEF CallsOK, AnswerType, EventType, Document
  <1>6. \A r \in Reads : floor'[r] = floor[r] \/ (GetDocument /\ r = asked + 1)
    <2>1. CASE GetDocument
      <3>1. \E n : floor' = [floor EXCEPT ![asked + 1] = n]
        BY <2>1 DEF GetDocument
      <3> QED BY <2>1, <3>1 DEF CallsOK
    <2>2. CASE ~GetDocument
      BY <2>2, FloorStands
    <2> QED BY <2>1, <2>2
  <1>7. \A i \in DOMAIN mainq : floor'[mainq[i].read] = floor[mainq[i].read]
    <2>1. \A i \in DOMAIN mainq : mainq[i].read # asked + 1
      BY <1>5 DEF AskedInv, CallsOK, Reads
    <2> QED BY <1>5, <1>6, <2>1
  <1>8. \A i \in DOMAIN mainq : EventOK(mainq[i], cached', floor')
    BY <1>4, <1>5, <1>7 DEF ToldInv, EventOK
  <1>9. \A i \in DOMAIN mainq' : EventOK(mainq'[i], cached', floor')
    <2>1. CASE mainq' = mainq \/ Emission
      <3>1. ASSUME NEW j \in DOMAIN listeners', NEW e, e = Event(listeners'[j], view')
            PROVE  EventOK(e, cached', floor')
        <4>1. Listened' /\ listeners'[j] \in Reads
          <5>1. listeners' \in Seq(Reads)
            BY <1>2 DEF EngineOK
          <5>2. DOMAIN listeners' = 1 .. Len(listeners') /\ listeners'[j] \in Reads
            BY <5>1, ElementOfSeq, LenProperties
          <5>3. listeners' # <<>>
            BY <5>2
          <5> QED BY <5>2, <5>3 DEF Listened
        <4>2. /\ e.doc = cached' /\ e.read = listeners'[j]
              /\ e.synced = view'.current /\ e.since = view'.since
          BY <1>2, <3>1, <4>1 DEF DocInv, Event
        <4>3. view'.current => view'.since <= cached'.v /\ view'.since \in Nat
          BY <1>2, <4>1, VersionAssumption DEF DocInv, EngineOK, ViewType
        <4>4. view'.current \/ cached'.exists => cached' # Unknown
          <5>1. Unknown.v = -1 /\ Unknown.exists = FALSE
            BY DEF Unknown, NoVersion
          <5> QED BY <4>3, <5>1, <1>3
        <4>5. cached' # Unknown => cached' = Doc(cached'.v) /\ cached'.v >= 0
          BY <1>2, VersionAssumption DEF DocInv, Truthful, ConnOK
        <4>6. cached'.v >= 0 => floor'[e.read] <= cached'.v
          <5>1. CASE GetDocument
            <6>1. mainq' = mainq /\ listeners' = listeners /\ asked' = asked + 1
              BY <5>1 DEF GetDocument, engine
            <6>2. listeners'[j] # asked + 1
              BY <4>1, <6>1 DEF AskedInv, CallsOK, Reads
            <6>3. floor'[e.read] = floor[e.read]
              BY <1>6, <4>1, <4>2, <6>2
            <6> QED BY <1>3, <1>4, <1>5, <4>1, <4>2, <6>3 DEF ToldInv
          <5>2. CASE ~GetDocument
            <6>1. floor'[e.read] = floor[e.read]
              BY <1>6, <4>1, <4>2, <5>2
            <6> QED BY <1>3, <1>4, <1>5, <4>1, <4>2, <6>1 DEF ToldInv
          <5> QED BY <5>1, <5>2
        <4> QED BY <1>3, <4>2, <4>3, <4>4, <4>5, <4>6 DEF EventOK
      <3>2. /\ \A i \in DOMAIN mainq : i \in DOMAIN mainq' /\ mainq'[i] = mainq[i]
            /\ \A i \in DOMAIN mainq' : i \notin DOMAIN mainq =>
                 \E j \in DOMAIN listeners' : mainq'[i] = Event(listeners'[j], view')
        BY <2>1, EmissionFacts
      <3> QED BY <1>8, <3>1, <3>2
    <2>2. CASE OnEvent
      BY <1>8, <2>2, EventTail
    <2>3. CASE OnTargetError /\ Listened
      <3>1. \A r : EventOK(Failure(r), cached', floor')
        <4>1. \A r : Failure(r).doc.v = -1 /\ Failure(r).doc.exists = FALSE /\ Failure(r).synced = FALSE
          BY DEF Failure, Unknown, NoVersion
        <4>2. -1 <= cached'.v
          BY <1>2 DEF EngineOK, Document
        <4> QED BY <4>1, <4>2 DEF EventOK
      <3> QED BY <1>8, <2>3, <3>1, FailureFacts
    <2> QED BY <2>1, <2>2, <2>3, MainqSteps DEF vars, calls
  <1>10. \A r \in Reads : answer'[r].v = 0 \/ answer'[r].v <= cached'.v
    <2>1. CASE OnEvent
      <3>1. /\ mainq[1] \in EventType /\ Head(mainq) = mainq[1] /\ 1 \in DOMAIN mainq
            /\ mainq[1].read \in Reads
        BY <1>5, <2>1, EventTail
      <3>2. answer' = answer \/ answer' = [answer EXCEPT ![mainq[1].read] = AnswerTo(mainq[1])]
        BY <2>1, <3>1 DEF OnEvent
      <3>3. AnswerTo(mainq[1]).v = 0 \/ AnswerTo(mainq[1]).v = mainq[1].doc.v
        <4>1. mainq[1].error \in BOOLEAN /\ mainq[1].synced \in BOOLEAN /\ mainq[1].doc.exists \in BOOLEAN
          BY <3>1 DEF EventType, Document
        <4> QED BY <4>1 DEF AnswerTo
      <3>4. mainq[1].doc.v <= cached'.v
        BY <1>4, <1>5, <3>1 DEF ToldInv, EventOK
      <3>5. \A r \in Reads : answer'[r] = answer[r] \/ answer'[r] = AnswerTo(mainq[1])
        BY <3>1, <3>2 DEF CallsOK
      <3> QED BY <1>4, <1>5, <3>3, <3>4, <3>5 DEF ToldInv
    <2>2. CASE ~OnEvent
      <3>1. answer' = answer
        BY <2>2, AnswersStand
      <3> QED BY <1>4, <1>5, <3>1 DEF ToldInv
    <2> QED BY <2>1, <2>2
  <1>11. \A r \in Reads : floor'[r] = 0 \/ floor'[r] <= cached'.v
    <2>1. CASE GetDocument
      <3>1. PICK n \in 0 .. MaxVersion : IsNewest(n) /\ floor' = [floor EXCEPT ![asked + 1] = n]
        BY <2>1 DEF GetDocument
      <3>2. n = 0 \/ n <= cached'.v
        BY <1>4, <1>5, <3>1 DEF IsNewest, ToldInv
      <3>3. \A r \in Reads : floor'[r] = n \/ floor'[r] = floor[r]
        BY <3>1 DEF CallsOK
      <3> QED BY <1>4, <1>5, <3>2, <3>3 DEF ToldInv
    <2>2. CASE ~GetDocument
      BY <1>4, <1>5, <1>6, <2>2 DEF ToldInv
    <2> QED BY <2>1, <2>2
  <1> QED BY <1>9, <1>10, <1>11 DEF ToldInv
-----------------------------------------------------------------------------
(* What is on its way on the connection.                                    *)

\* A stream that is not open has nothing on its way.
LEMMA WireClosed ==
  ASSUME ConnInv', QuietInv', stream' # "Open"
  PROVE  AwaitedInv' /\ VersionsInv' /\ RestoredInv' /\ DocumentsInv'
  <1>1. requests' = <<>> /\ responses' = <<>> /\ serving' = NotServed /\ target'.pending = 0
        /\ update' = NoVersion
    BY DEF ConnInv, QuietInv, Fresh
  <1>2. Len(requests') = 0 /\ DOMAIN requests' = {} /\ DOMAIN responses' = {}
    BY <1>1
  <1>3. AcksOf(responses') = {}
    BY <1>2 DEF AcksOf
  <1>4. Cardinality(AcksOf(responses')) = 0
    BY <1>3, FS_EmptySet
  <1>5. AwaitedInv'
    BY <1>1, <1>2, <1>4 DEF AwaitedInv
  <1> QED BY <1>1, <1>2, <1>5 DEF VersionsInv, RestoredInv, DocumentsInv

\* The step leaves the connection alone, and what the view says of it.
Aside ==
  /\ Untouched /\ Listened' = Listened /\ cached' = cached
  /\ view'.since = view.since /\ (view'.current => view.current)

\* The first listener sends its watch, the last one its end.
Watches ==
  /\ Send("watch") /\ ~Listened /\ Listened' /\ view'.current = FALSE
  /\ UNCHANGED <<update, cached, version>>

Unwatches ==
  /\ Send("unwatch") /\ Listened /\ ~Listened'
  /\ UNCHANGED <<update, cached, version>>

\* The steps that leave the stream open, or open it.
LEMMA OpenSteps ==
  ASSUME ReadInv, TrackerInv, [Next]_vars, stream' = "Open"
  PROVE  \/ ResumeStartWithCredentials
         \/ /\ stream = "Open"
            /\ Aside \/ Watches \/ Unwatches \/ Messages \/ ServerReads \/ ServerNotifies
  <1> USE DEF ReadInv, Typed
  <1> USE DEF Aside
  <1>1. CASE GetDocument \/ OnEvent \/ UNCHANGED vars
    BY <1>1 DEF GetDocument, OnEvent, vars, conn, watch, engine, Untouched, Listened
  <1>2. CASE JoinListeners
    <2>1. IsListen
      BY <1>2 DEF JoinListeners
    <2>2. Listened' /\ Listened
      BY <1>2, <2>1, AddedFacts, HeadListen DEF PlacesInv, JoinListeners
    <2> QED BY <1>2, <2>2 DEF JoinListeners, conn, watch, Untouched
  <1>3. CASE FirstListener
    <2>1. IsListen
      BY <1>3 DEF FirstListener
    <2>2. Listened' /\ ~Listened
      BY <1>3, <2>1, AddedFacts, HeadListen DEF PlacesInv, FirstListener
    <2>3. view'.current = FALSE /\ UNCHANGED <<cached, version>>
      BY <1>3 DEF FirstListener, server
    <2>4. Listen
      BY <1>3 DEF FirstListener
    <2>5. stream = "Open" /\ Send("watch") /\ UNCHANGED update
      BY <2>4 DEF Listen, Start, watch
    <2> QED BY <2>2, <2>3, <2>5 DEF Watches
  <1>4. CASE RemoveQueryListener
    <2>1. UNCHANGED <<view, cached, version>>
      BY <1>4 DEF RemoveQueryListener, server
    <2>2. CASE Listened /\ listeners' = <<>>
      <3>1. StopListening
        BY <1>4, <2>2 DEF RemoveQueryListener
      <3>2. stream = "Open" /\ Send("unwatch") /\ UNCHANGED update
        BY <3>1 DEF StopListening, watch
      <3> QED BY <2>1, <2>2, <3>2 DEF Unwatches, Listened
    <2>3. CASE ~(Listened /\ listeners' = <<>>)
      <3>1. UNCHANGED <<watch, conn>>
        BY <1>4, <2>3 DEF RemoveQueryListener
      <3>2. Listened' = Listened
        BY <1>4, <2>3 DEF RemoveQueryListener, Listened
      <3> QED BY <2>1, <3>1, <3>2 DEF watch, conn, Untouched
    <2> QED BY <2>2, <2>3
  <1>5. CASE OnlineStateTimeout
    <2>1. UNCHANGED <<listeners, cached, conn, watch>> /\ GoOffline
      BY <1>5 DEF OnlineStateTimeout
    <2>2. view' = view \/ view' = [view EXCEPT !.current = FALSE]
      BY <2>1, GoOfflineFacts DEF PlacesInv
    <2>3. view'.since = view.since /\ (view'.current => view.current)
      BY <2>2 DEF EngineOK, ViewType
    <2> QED BY <2>1, <2>3 DEF watch, conn, Untouched, Listened
  <1>6. CASE BackoffElapses \/ IdleTimeout \/ OnWatchStreamClose \/ HandleCredentialChange
    BY <1>6 DEF BackoffElapses, IdleTimeout, OnWatchStreamClose, HandleCredentialChange, Start,
                IsStarted
  <1>7. CASE Messages
    <2>1. UNCHANGED stream
      BY <1>7, MessageSteps
    <2> QED BY <1>7, <2>1
  <1>8. CASE ServerChanges
    BY <1>8 DEF ServerChanges, conn, watch, engine, Untouched, Listened
  <1>9. CASE ServerReads \/ ServerNotifies
    BY <1>9 DEF ServerReads, ServerNotifies, watch
  <1> QED
    BY <1>1, <1>2, <1>3, <1>4, <1>5, <1>6, <1>7, <1>8, <1>9
       DEF Next, WorkerQueue, Timers, Connection, Server

\* The acknowledgements of a sequence whose first message is taken.
LEMMA AcksTail ==
  ASSUME NEW s \in Seq(MessageType), s # <<>>
  PROVE  /\ Cardinality(AcksOf(s)) \in Nat
         /\ Cardinality(AcksOf(Tail(s))) =
              IF s[1].type \in {"added", "removed"} THEN Cardinality(AcksOf(s)) - 1
              ELSE Cardinality(AcksOf(s))
  <1>1. /\ Len(s) \in Nat /\ DOMAIN s = 1 .. Len(s) /\ 1 \in DOMAIN s
        /\ DOMAIN Tail(s) = 1 .. Len(s) - 1
        /\ \A i \in 1 .. Len(s) - 1 : Tail(s)[i] = s[i + 1]
    BY TailFacts
  <1> DEFINE A == AcksOf(s)  T == AcksOf(Tail(s))  R == A \ {1}
  <1>2. IsFiniteSet(A)
    <2>1. IsFiniteSet(1 .. Len(s))
      BY <1>1, FS_Interval
    <2> QED BY <1>1, <2>1, FS_Subset DEF AcksOf
  <1>3. IsFiniteSet(R) /\ Cardinality(A) \in Nat
        /\ Cardinality(R) = IF 1 \in A THEN Cardinality(A) - 1 ELSE Cardinality(A)
    BY <1>2, FS_RemoveElement, FS_CardinalityType
  <1>4. 1 \in A <=> s[1].type \in {"added", "removed"}
    BY <1>1 DEF AcksOf
  <1>5. \A i \in R : i - 1 \in T
    BY <1>1 DEF AcksOf
  <1>6. \A i \in T : i + 1 \in R
    BY <1>1 DEF AcksOf
  <1>7. Cardinality(T) = Cardinality(R)
    <2>1. T \subseteq Int /\ R \subseteq Int
      BY <1>1 DEF AcksOf
    <2> HIDE DEF T, R
    <2> DEFINE f == [i \in R |-> i - 1]
    <2>2. f \in [R -> T]
      BY <1>5
    <2>3. \A i, j \in R : f[i] = f[j] => i = j
      BY <2>1
    <2>4. \A j \in T : \E i \in R : f[i] = j
      <3>1. ASSUME NEW j \in T
            PROVE  \E i \in R : f[i] = j
        <4>1. j + 1 \in R /\ (j + 1) - 1 = j
          BY <1>6, <2>1
        <4>2. f[j + 1] = j
          BY <4>1
        <4> QED BY <4>1, <4>2
      <3> QED BY <3>1
    <2> HIDE DEF f
    <2>5. f \in Bijection(R, T)
      BY <2>2, <2>3, <2>4 DEF Bijection, Injection, Surjection, IsInjective
    <2>6. ExistsBijection(R, T)
      BY <2>5 DEF ExistsBijection
    <2> QED BY <1>3, <2>6, FS_Bijection
  <1> QED BY <1>3, <1>4, <1>7

\* Those of a sequence that has grown by one that has no acknowledgement but its
\* first message.
LEMMA AcksMore ==
  ASSUME NEW z, NEW s \in Seq(MessageType), NEW x, IsConcat(z, s, x),
         \A i \in DOMAIN x : x[i].type \in {"added", "removed"} => i = 1
  PROVE  /\ Cardinality(AcksOf(s)) \in Nat
         /\ Cardinality(AcksOf(z)) =
              IF 1 \in DOMAIN x /\ x[1].type \in {"added", "removed"}
              THEN Cardinality(AcksOf(s)) + 1 ELSE Cardinality(AcksOf(s))
  <1> DEFINE n == Len(s)
  <1>1. /\ n \in Nat /\ Len(x) \in Nat
        /\ DOMAIN s = 1 .. n /\ DOMAIN x = 1 .. Len(x) /\ DOMAIN z = 1 .. n + Len(x)
        /\ \A i \in 1 .. n : z[i] = s[i]
        /\ \A i \in 1 .. Len(x) : z[n + i] = x[i]
    BY Zenon DEF IsConcat
  <1>2. IsFiniteSet(AcksOf(s)) /\ Cardinality(AcksOf(s)) \in Nat
    <2>1. IsFiniteSet(1 .. n)
      BY <1>1, FS_Interval
    <2> QED BY <1>1, <2>1, FS_Subset, FS_CardinalityType DEF AcksOf
  <1> HIDE DEF n
  <1>3. \A i \in DOMAIN z : \/ i \in DOMAIN s /\ z[i] = s[i]
                            \/ i - n \in DOMAIN x /\ z[i] = x[i - n] /\ i \notin DOMAIN s
    <2>1. ASSUME NEW i \in DOMAIN z, i \notin DOMAIN s
          PROVE  i - n \in DOMAIN x /\ z[i] = x[i - n]
      <3>1. i - n \in 1 .. Len(x) /\ n + (i - n) = i
        BY <1>1, <2>1
      <3>2. z[n + (i - n)] = x[i - n]
        BY <1>1, <3>1
      <3> QED BY <1>1, <3>1, <3>2
    <2> QED BY <1>1, <2>1
  <1>4. CASE 1 \in DOMAIN x /\ x[1].type \in {"added", "removed"}
    <2>1. n + 1 \in DOMAIN z /\ n + 1 \notin DOMAIN s /\ z[n + 1] = x[1]
      BY <1>1, <1>4
    <2>2. \A i \in DOMAIN z : i - n = 1 => i = n + 1
      BY <1>1
    <2>3. AcksOf(z) = AcksOf(s) \cup {n + 1}
      <3>1. ASSUME NEW i \in AcksOf(z)
            PROVE  i \in AcksOf(s) \cup {n + 1}
        BY <1>3, <2>2, <3>1 DEF AcksOf
      <3>2. ASSUME NEW i \in AcksOf(s)
            PROVE  i \in AcksOf(z)
        <4>1. i \in DOMAIN z /\ z[i] = s[i]
          BY <1>1 DEF AcksOf
        <4> QED BY <4>1 DEF AcksOf
      <3>3. n + 1 \in AcksOf(z)
        BY <1>4, <2>1 DEF AcksOf
      <3> QED BY <3>1, <3>2, <3>3
    <2>4. n + 1 \notin AcksOf(s)
      BY <2>1 DEF AcksOf
    <2>5. Cardinality(AcksOf(s) \cup {n + 1}) = Cardinality(AcksOf(s)) + 1
      BY <1>2, <2>4, FS_AddElement
    <2> QED BY <1>2, <1>4, <2>3, <2>5
  <1>5. CASE ~(1 \in DOMAIN x /\ x[1].type \in {"added", "removed"})
    <2>1. AcksOf(z) = AcksOf(s)
      <3>1. ASSUME NEW i \in AcksOf(z)
            PROVE  i \in AcksOf(s)
        BY <1>3, <1>5, <3>1 DEF AcksOf
      <3>2. ASSUME NEW i \in AcksOf(s)
            PROVE  i \in AcksOf(z)
        <4>1. i \in DOMAIN z /\ z[i] = s[i]
          BY <1>1 DEF AcksOf
        <4> QED BY <4>1 DEF AcksOf
      <3> QED BY <3>1, <3>2
    <2> QED BY <1>2, <1>5, <2>1
  <1> QED BY <1>4, <1>5
\* What the server says: nothing, a refusal, the answer to a watch, that its end is
\* read, or a change.
LEMMA ServerSays ==
  ASSUME ReadInv, ~denied, ServerReads \/ ServerNotifies
  PROVE  \/ ServerReads /\ requests[1] = "unwatch" /\ serving = NotServed /\ responses' = responses
         \/ \E x \in Seq(MessageType) :
              /\ IsConcat(responses', responses, x)
              /\ \/ ServerReads /\ requests[1] = "watch" /\ x = Answered
                 \/ /\ ServerReads /\ requests[1] = "unwatch" /\ serving # NotServed
                    /\ Len(x) = 1 /\ x[1] = Message("removed", 0)
                 \/ /\ ServerNotifies /\ version > 0 /\ Len(x) = 2
                    /\ x[1] = Message("doc", version) /\ x[2] = Message("snapshot", version)
  <1> USE DEF ReadInv, Typed
  <1>1. CASE ServerReads
    <2>1. CASE requests[1] = "watch" /\ responses' = responses \o Answered
      BY <1>1, <2>1, AnsweredFacts, ConcatFacts DEF ConnOK
    <2>2. CASE requests[1] = "unwatch" /\ serving # NotServed
               /\ responses' = responses \o <<Message("removed", 0)>>
      <3>1. PICK m : m = Message("removed", 0)
        OBVIOUS
      <3>2. m \in MessageType
        BY <3>1, VersionAssumption DEF Message, MessageType
      <3>3. PICK x : x = <<m>>
        OBVIOUS
      <3>4. x \in Seq(MessageType) /\ Len(x) = 1 /\ x[1] = m
        BY <3>2, <3>3
      <3>5. responses' = responses \o x
        BY <2>2, <3>1, <3>3
      <3>6. IsConcat(responses', responses, x)
        BY <3>4, <3>5, ConcatFacts DEF ConnOK
      <3> QED BY <1>1, <2>2, <3>1, <3>4, <3>6
    <2> QED BY <1>1, <2>1, <2>2, ServerReadsFacts
  <1>2. CASE ServerNotifies
    <2> DEFINE x == Documents \o <<Message("snapshot", version)>>
    <2>1. serving # NotServed /\ serving < version
          /\ responses' = responses \o Documents \o <<Message("snapshot", version)>>
      BY <1>2 DEF ServerNotifies
    <2>2. version > 0
      BY <2>1 DEF ConnOK, NotServed
    <2>3. /\ x \in Seq(MessageType) /\ Len(x) = 2
          /\ x[1] = Message("doc", version) /\ x[2] = Message("snapshot", version)
      BY <2>2, NotifiedFacts
    <2>4. Documents \in Seq(MessageType) /\ <<Message("snapshot", version)>> \in Seq(MessageType)
      <3>1. Message("doc", version) \in MessageType /\ Message("snapshot", version) \in MessageType
        BY DEF Message, MessageType, ConnOK
      <3> QED BY <2>2, <3>1 DEF Documents
    <2>5. responses' = responses \o x
      BY <2>1, <2>4, ConcatAssociative DEF ConnOK
    <2> HIDE DEF x
    <2>6. IsConcat(responses', responses, x)
      BY <2>3, <2>5, ConcatFacts DEF ConnOK
    <2> QED BY <1>2, <2>2, <2>3, <2>6
  <1> QED BY <1>1, <1>2

\* In what the server says an acknowledgement comes first.
LEMMA SaidAcks ==
  ASSUME ReadInv, NEW x \in Seq(MessageType),
         \/ x = Answered
         \/ Len(x) = 1 /\ x[1] = Message("removed", 0)
         \/ Len(x) = 2 /\ x[1] = Message("doc", version) /\ x[2] = Message("snapshot", version)
  PROVE  /\ \A i \in DOMAIN x : x[i].type \in {"added", "removed"} => i = 1
         /\ 1 \in DOMAIN x
         /\ x[1].type = IF x = Answered THEN "added"
                        ELSE IF Len(x) = 1 THEN "removed" ELSE "doc"
  <1>1. DOMAIN x = 1 .. Len(x)
    BY LenProperties
  <1>2. CASE x = Answered
    <2>1. CASE version > 0
      <3>1. /\ DOMAIN x = 1 .. 4 /\ x[1].type = "added" /\ x[2].type = "doc"
            /\ x[3].type = "current" /\ x[4].type = "snapshot"
        BY <1>2, <2>1, AnsweredFacts DEF ReadInv, Typed, Message
      <3>2. \A i \in DOMAIN x : i = 1 \/ i = 2 \/ i = 3 \/ i = 4
        BY <3>1
      <3> QED BY <1>2, <3>1, <3>2
    <2>2. CASE ~(version > 0)
      <3>1. /\ DOMAIN x = 1 .. 3 /\ x[1].type = "added" /\ x[2].type = "current"
            /\ x[3].type = "snapshot"
        BY <1>2, <2>2, AnsweredFacts DEF ReadInv, Typed, Message
      <3>2. \A i \in DOMAIN x : i = 1 \/ i = 2 \/ i = 3
        BY <3>1
      <3> QED BY <1>2, <3>1, <3>2
    <2> QED BY <2>1, <2>2
  <1>3. Len(Answered) = 3 \/ Len(Answered) = 4
    BY AnsweredFacts DEF ReadInv, Typed
  <1>4. CASE Len(x) = 1 /\ x[1] = Message("removed", 0)
    <2>1. \A i \in DOMAIN x : i = 1
      BY <1>1, <1>4
    <2>2. 1 \in DOMAIN x /\ x # Answered
      <3>1. x = Answered => Len(x) = 3 \/ Len(x) = 4
        BY <1>3, Zenon
      <3>2. 1 \in DOMAIN x
        BY <1>1, <1>4
      <3>3. ~(Len(x) = 3 \/ Len(x) = 4)
        BY <1>4
      <3> QED BY <3>1, <3>2, <3>3
    <2> QED BY <1>4, <2>1, <2>2 DEF Message
  <1>5. CASE Len(x) = 2 /\ x[1] = Message("doc", version) /\ x[2] = Message("snapshot", version)
    <2>1. \A i \in DOMAIN x : i = 1 \/ i = 2
      BY <1>1, <1>5
    <2>2. 1 \in DOMAIN x /\ x # Answered
      <3>1. x = Answered => Len(x) = 3 \/ Len(x) = 4
        BY <1>3, Zenon
      <3>2. 1 \in DOMAIN x
        BY <1>1, <1>5
      <3>3. ~(Len(x) = 3 \/ Len(x) = 4)
        BY <1>5
      <3> QED BY <3>1, <3>2, <3>3
    <2> QED BY <1>5, <2>1, <2>2 DEF Message
  <1> QED BY <1>2, <1>4, <1>5

\* A request is sent by the side that has the right to it.
LEMMA AwaitedSent ==
  ASSUME ReadInv, ~denied, denied' = denied,
         (stream = "Open" /\ (Watches \/ Unwatches))
           \/ (stream = "Starting" /\ ConnInv /\ Listened /\ Send("watch") /\ UNCHANGED <<listeners, update>>)
  PROVE  AwaitedInv'
  <1> USE DEF ReadInv, Typed
  <1>1. PICK what \in {"watch", "unwatch"} :
          /\ Send(what)
          /\ (what = "watch") <=> Listened'
          /\ requests = <<>> => ((what = "watch") <=> (serving = NotServed))
          /\ requests # <<>> => ((what = "watch") <=> (requests[Len(requests)] # "watch"))
    <2>1. CASE stream = "Open" /\ Watches
      BY <2>1 DEF Watches, AwaitedInv
    <2>2. CASE stream = "Open" /\ Unwatches
      BY <2>2 DEF Unwatches, AwaitedInv
    <2>3. CASE stream = "Starting" /\ ConnInv /\ Listened /\ Send("watch") /\ UNCHANGED listeners
      BY <2>3 DEF ConnInv, Listened
    <2> QED BY <2>1, <2>2, <2>3
  <1>2. requests' = Append(requests, what) /\ UNCHANGED <<responses, serving>>
        /\ target'.pending = target.pending + 1
    BY <1>1 DEF Send, RecordPendingTargetRequest, WatchOK
  <1>3. /\ Len(requests) \in Nat /\ DOMAIN requests = 1 .. Len(requests)
        /\ Len(requests') = Len(requests) + 1 /\ DOMAIN requests' = 1 .. Len(requests) + 1
        /\ \A i \in 1 .. Len(requests) : requests'[i] = requests[i]
        /\ requests'[Len(requests) + 1] = what
    BY <1>2, AppendFacts DEF ConnOK
  <1>4. requests = <<>> <=> Len(requests) = 0
    BY EmptySeq DEF ConnOK
  <1>5. target'.pending = Len(requests') + Cardinality(AcksOf(responses'))
    <2>1. IsFiniteSet(AcksOf(responses))
      <3>1. Len(responses) \in Nat /\ DOMAIN responses = 1 .. Len(responses)
        BY LenProperties DEF ConnOK
      <3>2. IsFiniteSet(1 .. Len(responses))
        BY <3>1, FS_Interval
      <3> QED BY <3>1, <3>2, FS_Subset DEF AcksOf
    <2>2. Cardinality(AcksOf(responses)) \in Nat
      BY <2>1, FS_CardinalityType
    <2>3. target.pending = Len(requests) + Cardinality(AcksOf(responses))
      BY DEF AwaitedInv
    <2> QED BY <1>2, <1>3, <2>2, <2>3
  <1>6. ASSUME NEW i \in DOMAIN requests'
        PROVE  requests'[i] = "watch" <=> IF i = 1 THEN serving' = NotServed ELSE requests'[i - 1] # "watch"
    <2>1. CASE i <= Len(requests)
      <3>1. i \in DOMAIN requests /\ (i # 1 => i - 1 \in 1 .. Len(requests)) /\ i \in 1 .. Len(requests)
        BY <1>3, <2>1
      <3> QED BY <1>2, <1>3, <3>1 DEF AwaitedInv
    <2>2. CASE i = Len(requests) + 1 /\ i = 1
      <3>1. requests = <<>> /\ requests'[i] = what
        BY <1>3, <1>4, <2>2
      <3>2. (what = "watch") <=> (serving' = NotServed)
        BY <1>1, <1>2, <3>1
      <3> QED BY <2>2, <3>1, <3>2
    <2>3. CASE i = Len(requests) + 1 /\ i # 1
      <3>1. Len(requests) \in 1 .. Len(requests) /\ requests # <<>> /\ i - 1 = Len(requests)
        BY <1>3, <1>4, <2>3
      <3>2. requests'[i] = what /\ requests'[i - 1] = requests[Len(requests)]
        BY <1>3, <2>3, <3>1
      <3>3. (what = "watch") <=> (requests[Len(requests)] # "watch")
        BY <1>1, <3>1
      <3> QED BY <2>3, <3>2, <3>3
    <2> QED BY <1>3, <2>1, <2>2, <2>3
  <1>7. requests' # <<>> /\ (Listened' <=> requests'[Len(requests')] = "watch")
    <2>1. 1 \in DOMAIN requests'
      BY <1>3
    <2> QED BY <1>1, <1>3, <2>1
  <1> QED BY <1>5, <1>6, <1>7 DEF AwaitedInv

\* A message is read.
LEMMA AwaitedRead ==
  ASSUME ReadInv, ~denied, denied' = denied, Messages
  PROVE  AwaitedInv'
  <1> USE DEF ReadInv, Typed
  <1>1. PICK type : OnWatchStreamChange(type)
    BY MessageSteps
  <1>2. responses # <<>> /\ responses \in Seq(MessageType) /\ responses[1].type = type
        /\ responses' = Tail(responses) /\ 1 \in DOMAIN responses
    BY <1>1, HeadMessage
  <1>3. UNCHANGED <<requests, serving, stream>>
    BY MessageSteps
  <1>4. ~OnTargetError
    BY <1>2 DEF RefusedInv, OnTargetError, OnWatchStreamChange
  <1>5. UNCHANGED listeners
    BY <1>4 DEF Messages, OnTargetAdded, OnTargetRemoved, OnTargetCurrent, OnDocument, OnSnapshot,
                engine
  <1>6. /\ Cardinality(AcksOf(responses)) \in Nat
        /\ Cardinality(AcksOf(responses')) =
              IF type \in {"added", "removed"} THEN Cardinality(AcksOf(responses)) - 1
              ELSE Cardinality(AcksOf(responses))
    BY <1>2, AcksTail
  <1>7. target \in [pending : Nat, current : BOOLEAN] /\ Len(requests) \in Nat
    BY LenProperties DEF WatchOK, ConnOK
  <1>8. target'.pending = IF type \in {"added", "removed"} THEN target.pending - 1 ELSE target.pending
    <2>1. CASE OnTargetAdded
      <3>1. type = "added"
        BY <1>1, <2>1 DEF OnTargetAdded, OnWatchStreamChange
      <3> QED BY <1>7, <2>1, <3>1, MessageSteps
    <2>2. CASE OnTargetRemoved
      <3>1. type = "removed"
        BY <1>1, <2>2 DEF OnTargetRemoved, OnWatchStreamChange
      <3>2. target' = IF target.pending = 1 THEN Fresh ELSE [target EXCEPT !.pending = @ - 1]
        BY <2>2, MessageSteps
      <3> QED BY <1>7, <3>1, <3>2 DEF Fresh
    <2>3. CASE OnTargetCurrent
      <3>1. type = "current"
        BY <1>1, <2>3 DEF OnTargetCurrent, OnWatchStreamChange
      <3>2. target' = [target EXCEPT !.current = TRUE] \/ target' = target
        BY <2>3, MessageSteps
      <3> QED BY <1>7, <3>1, <3>2
    <2>4. CASE OnDocument
      <3>1. type = "doc"
        BY <1>1, <2>4 DEF OnDocument, OnWatchStreamChange
      <3> QED BY <2>4, <3>1, MessageSteps
    <2>5. CASE OnSnapshot
      <3>1. type = "snapshot"
        BY <1>1, <2>5 DEF OnSnapshot, OnWatchStreamChange
      <3> QED BY <2>5, <3>1, MessageSteps
    <2> QED BY <1>4, <2>1, <2>2, <2>3, <2>4, <2>5 DEF Messages
  <1>9. target.pending = Len(requests) + Cardinality(AcksOf(responses))
    BY DEF AwaitedInv
  <1>10. target'.pending = Len(requests) + Cardinality(AcksOf(responses'))
    BY <1>6, <1>7, <1>8, <1>9
  <1> QED BY <1>3, <1>5, <1>10 DEF AwaitedInv, Listened

\* The server reads a request, or tells of a change.
LEMMA AwaitedServed ==
  ASSUME ReadInv, ~denied, denied' = denied, ServerReads \/ ServerNotifies, stream = "Open"
  PROVE  AwaitedInv'
  <1> USE DEF ReadInv, Typed
  <1>1. UNCHANGED <<target, listeners, stream>>
    BY DEF ServerReads, ServerNotifies, engine, watch
  <1>2. /\ target.pending = Len(requests) + Cardinality(AcksOf(responses))
        /\ \A i \in DOMAIN requests :
             requests[i] = "watch" <=> IF i = 1 THEN serving = NotServed ELSE requests[i - 1] # "watch"
        /\ Listened <=> IF requests = <<>> THEN serving # NotServed
                        ELSE requests[Len(requests)] = "watch"
    BY DEF AwaitedInv
  <1>3. /\ Len(requests) \in Nat /\ responses \in Seq(MessageType)
        /\ version # NotServed
    BY LenProperties DEF ConnOK, NotServed
  <1>4. CASE ServerNotifies
    <2>1. serving # NotServed /\ serving' = version /\ UNCHANGED requests
      BY <1>4 DEF ServerNotifies
    <2>2. ~ServerReads
      <3>1. ServerReads => Len(requests') = Len(requests) - 1
        BY ServerReadsFacts
      <3> QED BY <1>3, <2>1, <3>1
    <2>3. PICK x \in Seq(MessageType) :
            /\ IsConcat(responses', responses, x) /\ Len(x) = 2
            /\ x[1] = Message("doc", version) /\ x[2] = Message("snapshot", version)
      BY <1>4, <2>2, ServerSays
    <2>4. /\ \A i \in DOMAIN x : x[i].type \in {"added", "removed"} => i = 1
          /\ x[1].type \notin {"added", "removed"}
      BY <2>3, SaidAcks DEF Message
    <2>5. Cardinality(AcksOf(responses')) = Cardinality(AcksOf(responses))
      BY <1>3, <2>3, <2>4, AcksMore
    <2> QED BY <1>1, <1>2, <1>3, <2>1, <2>5 DEF AwaitedInv, Listened
  <1>5. CASE ServerReads
    <2>1. /\ requests # <<>> /\ Len(requests) >= 1 /\ DOMAIN requests = 1 .. Len(requests)
          /\ Len(requests') = Len(requests) - 1 /\ DOMAIN requests' = 1 .. Len(requests) - 1
          /\ \A i \in 1 .. Len(requests) - 1 : requests'[i] = requests[i + 1]
          /\ requests[1] \in {"watch", "unwatch"} /\ requests' \in Seq({"watch", "unwatch"})
          /\ serving' = IF requests[1] = "watch" THEN version ELSE NotServed
      BY <1>5, ServerReadsFacts
    <2>2. (requests[1] = "watch") <=> (serving = NotServed)
      <3>1. 1 \in DOMAIN requests
        BY <1>3, <2>1
      <3> QED BY <1>2, <3>1
    <2>3. Cardinality(AcksOf(responses')) = Cardinality(AcksOf(responses)) + 1
          /\ Cardinality(AcksOf(responses)) \in Nat
      <3>1. ~ServerNotifies
        <4>1. ServerNotifies => requests' = requests
          BY DEF ServerNotifies
        <4> QED BY <1>3, <2>1, <4>1
      <3>2. ~(requests[1] = "unwatch" /\ serving = NotServed)
        BY <2>2
      <3>3. PICK x \in Seq(MessageType) :
              /\ IsConcat(responses', responses, x)
              /\ x = Answered \/ (Len(x) = 1 /\ x[1] = Message("removed", 0))
        BY <1>5, <2>1, <3>1, <3>2, ServerSays
      <3>4. /\ \A i \in DOMAIN x : x[i].type \in {"added", "removed"} => i = 1
            /\ 1 \in DOMAIN x /\ x[1].type \in {"added", "removed"}
        BY <3>3, SaidAcks
      <3> QED BY <1>3, <3>3, <3>4, AcksMore
    <2>4. target'.pending = Len(requests') + Cardinality(AcksOf(responses'))
      BY <1>1, <1>2, <1>3, <2>1, <2>3
    <2>5. (serving' = NotServed) <=> (requests[1] # "watch")
      BY <1>3, <2>1
    <2>6. ASSUME NEW i \in DOMAIN requests'
          PROVE  requests'[i] = "watch" <=> IF i = 1 THEN serving' = NotServed ELSE requests'[i - 1] # "watch"
      <3>1. /\ i + 1 \in DOMAIN requests /\ i + 1 # 1 /\ (i + 1) - 1 = i /\ requests'[i] = requests[i + 1]
            /\ i # 1 => requests'[i - 1] = requests[i]
        <4>1. i # 1 => i - 1 \in 1 .. Len(requests) - 1 /\ (i - 1) + 1 = i
          BY <1>3, <2>1
        <4> QED BY <1>3, <2>1, <4>1
      <3>2. requests[i + 1] = "watch" <=> requests[i] # "watch"
        BY <1>2, <3>1
      <3>3. CASE i = 1
        BY <2>5, <3>1, <3>2, <3>3
      <3>4. CASE i # 1
        BY <3>1, <3>2, <3>4
      <3> QED BY <3>3, <3>4
    <2>7. Listened <=> IF requests' = <<>> THEN serving' # NotServed
                       ELSE requests'[Len(requests')] = "watch"
      <3>1. Listened <=> requests[Len(requests)] = "watch"
        BY <1>2, <2>1
      <3>2. requests' = <<>> <=> Len(requests') = 0
        BY <2>1, EmptySeq
      <3>3. CASE requests' = <<>>
        <4>1. Len(requests) = 1
          <5>1. Len(requests') = 0
            BY <3>2, <3>3
          <5>2. Len(requests') = Len(requests) - 1 /\ Len(requests) \in Nat
            BY <1>3, <2>1
          <5> QED BY <5>1, <5>2
        <4>2. Listened <=> requests[1] = "watch"
          BY <3>1, <4>1
        <4> QED BY <2>5, <3>3, <4>2
      <3>4. CASE requests' # <<>>
        <4>1. Len(requests') \in 1 .. Len(requests) - 1 /\ Len(requests') + 1 = Len(requests)
          BY <1>3, <2>1, <3>2, <3>4
        <4> QED BY <2>1, <3>1, <3>4, <4>1
      <3> QED BY <3>3, <3>4
    <2> QED BY <1>1, <2>4, <2>6, <2>7 DEF AwaitedInv, Listened
  <1> QED BY <1>4, <1>5

\* What the target awaits stays on its way.
LEMMA AwaitedKept ==
  ASSUME ReadInv, TrackerInv, TrackerInv', [Next]_vars
  PROVE  AwaitedInv'
  <1>1. denied' = denied
    BY RulesStand
  <1>2. CASE denied
    BY <1>1, <1>2 DEF AwaitedInv
  <1>3. CASE ~denied /\ stream' # "Open"
    BY <1>3, WireClosed, QuietKept DEF TrackerInv
  <1>4. CASE ~denied /\ stream' = "Open"
    <2>1. CASE stream = "Open" /\ Aside
      BY <1>1, <1>4, <2>1 DEF Aside, Untouched, ReadInv, AwaitedInv
    <2>2. CASE stream = "Open" /\ (Watches \/ Unwatches)
      BY <1>1, <1>4, <2>2, AwaitedSent
    <2>3. CASE Messages
      BY <1>1, <1>4, <2>3, AwaitedRead
    <2>4. CASE stream = "Open" /\ (ServerReads \/ ServerNotifies)
      BY <1>1, <1>4, <2>4, AwaitedServed
    <2>5. CASE ResumeStartWithCredentials
      <3>1. stream = "Starting" /\ UNCHANGED <<listeners, update>>
        BY <2>5 DEF ResumeStartWithCredentials, engine
      <3>2. CASE Listened
        <4>1. Send("watch")
          BY <2>5, <3>2 DEF ResumeStartWithCredentials
        <4> QED BY <1>1, <1>4, <3>1, <3>2, <4>1, AwaitedSent DEF TrackerInv
      <3>3. CASE ~Listened
        <4>1. UNCHANGED <<requests, responses, serving, target>>
          BY <2>5, <3>3 DEF ResumeStartWithCredentials, conn
        <4>2. requests = <<>> /\ serving = NotServed
          BY <3>1 DEF TrackerInv, ConnInv
        <4> QED BY <1>1, <1>4, <3>1, <3>3, <4>1, <4>2 DEF ReadInv, AwaitedInv, Listened
      <3> QED BY <3>2, <3>3
    <2> QED BY <1>4, <2>1, <2>2, <2>3, <2>4, <2>5, OpenSteps
  <1> QED BY <1>2, <1>3, <1>4

\* The server does one thing at a time.
LEMMA OneRequest ==
  ASSUME ReadInv
  PROVE  ~(ServerReads /\ ServerNotifies)
  <1>1. ServerNotifies => requests' = requests
    BY DEF ServerNotifies
  <1>2. ServerReads => Len(requests') = Len(requests) - 1 /\ Len(requests) \in Nat
    BY ServerReadsFacts DEF ReadInv, Typed
  <1> QED BY <1>1, <1>2

\* The last request of a client that listens is not the end of a watch.
LEMMA UnwatchLast ==
  ASSUME ReadInv, ~denied, stream = "Open", ServerReads, Listened, requests' = <<>>
  PROVE  requests[1] # "unwatch"
  <1>1. Len(requests) \in Nat /\ Len(requests') = Len(requests) - 1 /\ requests # <<>>
    BY ServerReadsFacts DEF ReadInv, Typed
  <1>2. Len(requests') = 0
    OBVIOUS
  <1>3. Len(requests) = 1
    BY <1>1, <1>2
  <1> QED BY <1>1, <1>3 DEF ReadInv, AwaitedInv

\* The messages of a connection on which something was said.
LEMMA Grown ==
  ASSUME ConnOK, NEW x, IsConcat(responses', responses, x)
  PROVE  LET n == Len(responses)
         IN  /\ n \in Nat /\ DOMAIN responses = 1 .. n /\ Len(x) \in Nat /\ DOMAIN x = 1 .. Len(x)
             /\ DOMAIN responses' = 1 .. n + Len(x)
             /\ \A i \in DOMAIN responses : i \in DOMAIN responses' /\ responses'[i] = responses[i]
             /\ \A k \in DOMAIN x : n + k \in DOMAIN responses' /\ responses'[n + k] = x[k]
             /\ \A i \in DOMAIN responses' : i \notin DOMAIN responses =>
                  i > n /\ i - n \in DOMAIN x /\ responses'[i] = x[i - n]
  <1> DEFINE n == Len(responses)
  <1>1. /\ n \in Nat /\ Len(x) \in Nat
        /\ DOMAIN responses = 1 .. n /\ DOMAIN x = 1 .. Len(x) /\ DOMAIN responses' = 1 .. n + Len(x)
        /\ \A i \in 1 .. n : responses'[i] = responses[i]
        /\ \A i \in 1 .. Len(x) : responses'[n + i] = x[i]
    BY Zenon DEF IsConcat
  <1> HIDE DEF n
  <1>2. ASSUME NEW i \in DOMAIN responses', i \notin DOMAIN responses
        PROVE  i > n /\ i - n \in DOMAIN x /\ responses'[i] = x[i - n]
    <2>1. i - n \in 1 .. Len(x) /\ n + (i - n) = i /\ i > n
      BY <1>1, <1>2
    <2>2. responses'[n + (i - n)] = x[i - n]
      BY <1>1, <2>1
    <2> QED BY <1>1, <2>1, <2>2
  <1>3. \A i \in DOMAIN responses : i \in DOMAIN responses'
    BY <1>1
  <1>4. \A k \in DOMAIN x : n + k \in DOMAIN responses'
    BY <1>1
  <1> QED BY <1>1, <1>2, <1>3, <1>4 DEF n

\* What the server says of the document is of its version as it is.
LEMMA SaidVersions ==
  ASSUME ReadInv, NEW x \in Seq(MessageType),
         \/ x = Answered
         \/ Len(x) = 1 /\ x[1] = Message("removed", 0)
         \/ Len(x) = 2 /\ x[1] = Message("doc", version) /\ x[2] = Message("snapshot", version)
  PROVE  \A k \in DOMAIN x : Versioned(x[k]) => x[k].v = version
  <1>1. DOMAIN x = 1 .. Len(x)
    BY LenProperties
  <1>2. CASE x = Answered /\ version > 0
    <2>1. /\ DOMAIN x = 1 .. 4 /\ x[1] = Message("added", 0) /\ x[2] = Message("doc", version)
          /\ x[3] = Message("current", 0) /\ x[4] = Message("snapshot", version)
      BY <1>2, AnsweredFacts DEF ReadInv, Typed
    <2>2. \A i \in DOMAIN x : i = 1 \/ i = 2 \/ i = 3 \/ i = 4
      BY <2>1
    <2> QED BY <2>1, <2>2 DEF Versioned, Message
  <1>3. CASE x = Answered /\ ~(version > 0)
    <2>1. /\ DOMAIN x = 1 .. 3 /\ x[1] = Message("added", 0) /\ x[2] = Message("current", 0)
          /\ x[3] = Message("snapshot", version)
      BY <1>3, AnsweredFacts DEF ReadInv, Typed
    <2>2. \A i \in DOMAIN x : i = 1 \/ i = 2 \/ i = 3
      BY <2>1
    <2> QED BY <2>1, <2>2 DEF Versioned, Message
  <1>4. CASE Len(x) = 1 /\ x[1] = Message("removed", 0)
    <2>1. \A i \in DOMAIN x : i = 1
      BY <1>1, <1>4
    <2> QED BY <1>4, <2>1 DEF Versioned, Message
  <1>5. CASE Len(x) = 2 /\ x[1] = Message("doc", version) /\ x[2] = Message("snapshot", version)
    <2>1. \A i \in DOMAIN x : i = 1 \/ i = 2
      BY <1>1, <1>5
    <2> QED BY <1>5, <2>1 DEF Versioned, Message
  <1> QED BY <1>2, <1>3, <1>4, <1>5

\* A message is read.
LEMMA VersionsRead ==
  ASSUME ReadInv, ~denied, Messages, [Next]_vars
  PROVE  VersionsInv'
  <1> USE DEF ReadInv, Typed
  <1>1. PICK type : OnWatchStreamChange(type)
    BY MessageSteps
  <1>2. /\ Len(responses) \in Nat /\ DOMAIN responses = 1 .. Len(responses)
        /\ DOMAIN responses' = 1 .. Len(responses) - 1 /\ responses[1].type = type
        /\ \A i \in 1 .. Len(responses) - 1 : responses'[i] = responses[i + 1]
        /\ 1 \in DOMAIN responses
    BY <1>1, HeadMessage
  <1>3. \A i \in DOMAIN responses' : i \in Nat /\ i + 1 \in DOMAIN responses /\ responses'[i] = responses[i + 1]
    BY <1>2
  <1>4. UNCHANGED <<requests, version>>
    BY MessageSteps
  <1>5. ~OnTargetError
    BY <1>2 DEF RefusedInv, OnTargetError, OnWatchStreamChange
  <1>6. UNCHANGED listeners
    BY <1>5 DEF Messages, OnTargetAdded, OnTargetRemoved, OnTargetCurrent, OnDocument, OnSnapshot,
                engine
  <1>7. \A i \in DOMAIN responses : Versioned(responses[i]) =>
          cached'.v <= responses[i].v /\ responses[i].v <= version
    <2>1. CASE OnSnapshot
      BY <2>1, SnapshotDoc DEF VersionsInv
    <2>2. CASE ~OnSnapshot
      <3>1. UNCHANGED cached
        BY <1>5, <2>2 DEF Messages, OnTargetAdded, OnTargetRemoved, OnTargetCurrent, OnDocument, engine
      <3> QED BY <3>1 DEF VersionsInv
    <2> QED BY <2>1, <2>2
  <1>8. view'.since = view.since
    <2>1. ~FirstListener
      <3>1. FirstListener => Listened' /\ ~Listened
        <4>1. FirstListener => IsListen
          BY DEF FirstListener
        <4> QED BY <4>1, AddedFacts, HeadListen DEF PlacesInv, FirstListener
      <3> QED BY <1>6, <3>1 DEF Listened
    <2>2. CASE OnSnapshot
      <3>1. view' = view \/ view' = [view EXCEPT !.doc = cached', !.current = IF IsActive THEN target.current ELSE @]
        BY <2>2, SnapshotFacts DEF PlacesInv
      <3> QED BY <3>1 DEF EngineOK, ViewType
    <2>3. CASE view' = view \/ view' = [view EXCEPT !.current = FALSE]
      BY <2>3 DEF EngineOK, ViewType
    <2> QED BY <2>1, <2>2, <2>3, EngineSteps
  <1>9. \A i \in DOMAIN responses' : Latest(i)' => Latest(i + 1)
    <2>1. ASSUME NEW i \in DOMAIN responses', Latest(i)', NEW j \in DOMAIN responses, j > i + 1
          PROVE  responses[j].type # "added"
      <3>1. j - 1 \in DOMAIN responses' /\ j - 1 > i /\ (j - 1) + 1 = j
        BY <1>2, <1>3, <2>1
      <3>2. responses'[j - 1] = responses[j]
        BY <1>3, <3>1
      <3> QED BY <2>1, <3>1, <3>2 DEF Latest
    <2> QED BY <2>1 DEF Latest
  <1>10. \A i, j \in DOMAIN responses' : i <= j => i + 1 <= j + 1
    BY <1>3
  <1>11. \A i \in DOMAIN responses' : Versioned(responses'[i]) =>
           cached'.v <= responses'[i].v /\ responses'[i].v <= version'
    BY <1>3, <1>4, <1>7
  <1>12. \A i, j \in DOMAIN responses' :
           Versioned(responses'[i]) /\ Versioned(responses'[j]) /\ i <= j => responses'[i].v <= responses'[j].v
    BY <1>3, <1>10 DEF VersionsInv
  <1>13. Listened' /\ requests' = <<>> =>
           \A i \in DOMAIN responses' : Versioned(responses'[i]) /\ Latest(i)' => view'.since <= responses'[i].v
    BY <1>3, <1>4, <1>6, <1>8, <1>9 DEF VersionsInv, Listened
  <1> QED BY <1>11, <1>12, <1>13 DEF VersionsInv

\* The server says what the version is.
LEMMA VersionsServed ==
  ASSUME ReadInv, ~denied, ServerReads \/ ServerNotifies, stream = "Open"
  PROVE  VersionsInv'
  <1> USE DEF ReadInv, Typed
  <1>1. UNCHANGED <<listeners, view, cached, version>>
    BY DEF ServerReads, ServerNotifies, engine, server
  <1>2. cached.v <= version /\ view.since <= version /\ version \in Int
    <2>1. cached = Unknown => cached.v = -1
      BY DEF Unknown, NoVersion
    <2> QED BY <2>1 DEF DocInv, Truthful, ConnOK
  <1>3. CASE ServerReads /\ requests[1] = "unwatch" /\ responses' = responses
    <2>1. Listened /\ requests' = <<>> => FALSE
      BY <1>3, UnwatchLast
    <2> QED BY <1>1, <1>3, <2>1 DEF VersionsInv, Listened
  <1>4. CASE ~(ServerReads /\ requests[1] = "unwatch" /\ responses' = responses)
    <2>1. PICK x \in Seq(MessageType) :
            /\ IsConcat(responses', responses, x)
            /\ \/ ServerReads /\ requests[1] = "watch" /\ x = Answered
               \/ /\ ServerReads /\ requests[1] = "unwatch" /\ serving # NotServed
                  /\ Len(x) = 1 /\ x[1] = Message("removed", 0)
               \/ /\ ServerNotifies /\ version > 0 /\ Len(x) = 2
                  /\ x[1] = Message("doc", version) /\ x[2] = Message("snapshot", version)
      BY <1>4, ServerSays
    <2> DEFINE n == Len(responses)
    <2>2. /\ n \in Nat /\ DOMAIN responses = 1 .. n /\ DOMAIN x = 1 .. Len(x)
          /\ DOMAIN responses' = 1 .. n + Len(x)
          /\ \A i \in DOMAIN responses : i \in DOMAIN responses' /\ responses'[i] = responses[i]
          /\ \A k \in DOMAIN x : n + k \in DOMAIN responses' /\ responses'[n + k] = x[k]
          /\ \A i \in DOMAIN responses' : i \notin DOMAIN responses =>
               i > n /\ i - n \in DOMAIN x /\ responses'[i] = x[i - n]
      BY <2>1, Grown
    <2> HIDE DEF n
    <2>3. \A k \in DOMAIN x : Versioned(x[k]) => x[k].v = version
      BY <2>1, SaidVersions
    <2>4. \A i \in DOMAIN responses' :
            \/ i \in DOMAIN responses /\ responses'[i] = responses[i] /\ i <= n
            \/ i > n /\ (Versioned(responses'[i]) => responses'[i].v = version)
      BY <2>2, <2>3
    <2>5. \A i \in DOMAIN responses' : Versioned(responses'[i]) =>
            cached.v <= responses'[i].v /\ responses'[i].v <= version
      BY <1>2, <2>4 DEF VersionsInv
    <2>6. ASSUME NEW i \in DOMAIN responses', NEW j \in DOMAIN responses',
                 Versioned(responses'[i]), Versioned(responses'[j]), i <= j
          PROVE  responses'[i].v <= responses'[j].v
      <3>1. CASE responses'[j].v = version
        BY <2>5, <2>6, <3>1
      <3>2. CASE responses'[j].v # version
        <4>1. j \in DOMAIN responses /\ responses'[j] = responses[j] /\ j <= n
          BY <2>4, <2>6, <3>2
        <4>2. i \in DOMAIN responses /\ responses'[i] = responses[i]
          <5>1. i <= n
            BY <2>2, <2>6, <4>1
          <5> QED BY <2>2, <2>4, <5>1
        <4> QED BY <2>6, <4>1, <4>2 DEF VersionsInv
      <3> QED BY <3>1, <3>2
    <2>7. ASSUME Listened, requests' = <<>>, NEW i \in DOMAIN responses',
                 Versioned(responses'[i]), Latest(i)'
          PROVE  view.since <= responses'[i].v
      <3>1. CASE responses'[i].v = version
        BY <1>2, <3>1
      <3>2. CASE responses'[i].v # version
        <4>1. i \in DOMAIN responses /\ responses'[i] = responses[i] /\ i <= n
          BY <2>4, <2>7, <3>2
        <4>2. CASE ServerReads
          <5>1. requests[1] = "watch"
            <6>1. requests[1] # "unwatch"
              BY <2>7, <4>2, UnwatchLast
            <6> QED BY <4>2, <6>1, ServerReadsFacts
          <5>2. ~ServerNotifies
            BY <4>2, OneRequest
          <5>3. x = Answered
            BY <2>1, <5>1, <5>2
          <5>4. 1 \in DOMAIN x /\ x[1].type = "added"
            BY <2>1, <5>3, SaidAcks
          <5>5. n + 1 \in DOMAIN responses' /\ responses'[n + 1].type = "added" /\ n + 1 > i
            BY <2>2, <4>1, <5>4
          <5> QED BY <2>7, <5>5 DEF Latest
        <4>3. CASE ServerNotifies
          <5>1. requests = <<>>
            BY <2>7, <4>3 DEF ServerNotifies
          <5>2. Latest(i)
            BY <2>2, <2>7 DEF Latest
          <5> QED BY <2>7, <4>1, <5>1, <5>2 DEF VersionsInv
        <4> QED BY <4>2, <4>3
      <3> QED BY <3>1, <3>2
    <2> QED BY <1>1, <2>5, <2>6, <2>7 DEF VersionsInv, Listened
  <1> QED BY <1>3, <1>4

\* Versions go on growing on their way.
LEMMA VersionsKept ==
  ASSUME ReadInv, TrackerInv, TrackerInv', [Next]_vars
  PROVE  VersionsInv'
  <1>1. denied' = denied /\ version' \in Int /\ version \in Int /\ version <= version'
    <2>1. version \in Int
      BY DEF ReadInv, Typed, ConnOK
    <2> QED BY <2>1, RulesStand
  <1>2. CASE denied
    <2>1. \A i \in DOMAIN responses' : responses'[i].type = "error"
      BY <1>1, <1>2, RefusedKept DEF RefusedInv
    <2> QED BY <2>1 DEF VersionsInv, Versioned
  <1>3. CASE ~denied /\ stream' # "Open"
    BY <1>3, WireClosed, QuietKept DEF TrackerInv
  <1>4. CASE ~denied /\ stream' = "Open"
    <2>1. CASE stream = "Open" /\ Aside
      <3>1. UNCHANGED <<requests, responses, cached>> /\ Listened' = Listened /\ view'.since = view.since
        BY <2>1 DEF Aside, Untouched
      <3>2. \A i \in DOMAIN responses : Versioned(responses[i]) => responses[i].v \in Int
        <4>1. \A i \in DOMAIN responses : responses[i] \in MessageType
          BY ElementOfSeq, LenProperties DEF ReadInv, Typed, ConnOK
        <4> QED BY <4>1 DEF MessageType
      <3>3. \A i \in DOMAIN responses : Versioned(responses[i]) =>
              cached.v <= responses[i].v /\ responses[i].v <= version'
        BY <1>1, <3>2 DEF ReadInv, VersionsInv
      <3>4. \A i : Latest(i)' = Latest(i)
        BY <3>1 DEF Latest
      <3> QED BY <3>1, <3>3, <3>4 DEF ReadInv, VersionsInv
    <2>2. CASE Watches \/ Unwatches
      <3>1. PICK what \in {"watch", "unwatch"} : Send(what) /\ UNCHANGED <<cached, version>>
        BY <2>2 DEF Watches, Unwatches
      <3>2. requests' = Append(requests, what) /\ UNCHANGED responses
        BY <3>1 DEF Send
      <3>3. requests' # <<>>
        BY <3>2, AppendProperties DEF ReadInv, Typed, ConnOK
      <3> QED BY <3>1, <3>2, <3>3 DEF ReadInv, VersionsInv
    <2>3. CASE Messages
      BY <1>4, <2>3, VersionsRead
    <2>4. CASE stream = "Open" /\ (ServerReads \/ ServerNotifies)
      BY <1>4, <2>4, VersionsServed
    <2>5. CASE ResumeStartWithCredentials
      <3>1. responses = <<>> /\ UNCHANGED responses
        BY <2>5 DEF ResumeStartWithCredentials, TrackerInv, ConnInv, Send, conn
      <3> QED BY <3>1 DEF VersionsInv
    <2> QED BY <1>4, <2>1, <2>2, <2>3, <2>4, <2>5, OpenSteps
  <1> QED BY <1>2, <1>3, <1>4

\* A view that is still current awaits nothing but the watch of a new stream.
LEMMA RestoredKept ==
  ASSUME ReadInv, TrackerInv, TrackerInv', [Next]_vars
  PROVE  RestoredInv'
  <1> USE DEF ReadInv, Typed
  <1>1. denied' = denied
    BY RulesStand
  <1>2. CASE denied
    BY <1>1, <1>2, RefusedKept DEF RefusedInv, RestoredInv
  <1>3. CASE ~denied /\ stream' # "Open"
    BY <1>3, WireClosed, QuietKept DEF TrackerInv
  <1>4. CASE ~denied /\ stream' = "Open"
    <2>1. CASE stream = "Open" /\ Aside
      BY <2>1 DEF Aside, Untouched, RestoredInv
    <2>2. CASE Watches \/ Unwatches
      BY <2>2 DEF Watches, Unwatches, RestoredInv
    <2>3. CASE Messages
      <3>1. PICK type : OnWatchStreamChange(type)
        BY <2>3, MessageSteps
      <3>2. responses # <<>> /\ responses[1].type = type /\ 1 \in DOMAIN responses
        BY <3>1, HeadMessage
      <3>3. target.pending > 0 /\ Listened /\ view.current => type = "added" /\ target.pending = 1
        BY <3>2 DEF RestoredInv
      <3>4. target.pending \in Nat
        BY DEF WatchOK
      <3>5. CASE OnTargetAdded
        <4>1. target'.pending = target.pending - 1 /\ UNCHANGED engine
          BY <3>5 DEF OnTargetAdded, WatchOK
        <4> QED BY <3>3, <3>4, <4>1 DEF RestoredInv, engine, Listened
      <3>6. CASE OnTargetRemoved
        <4>1. type = "removed"
          BY <3>1, <3>6 DEF OnTargetRemoved, OnWatchStreamChange
        <4>2. UNCHANGED engine /\ (target'.pending > 0 => target.pending > 0)
          <5>1. target' = IF target.pending = 1 THEN Fresh ELSE [target EXCEPT !.pending = @ - 1]
            BY <3>6 DEF OnTargetRemoved
          <5>2. Fresh.pending = 0 /\ [target EXCEPT !.pending = @ - 1].pending = target.pending - 1
            BY DEF Fresh, WatchOK
          <5>3. target'.pending = 0 \/ target'.pending = target.pending - 1
            BY <5>1, <5>2
          <5> QED BY <3>4, <3>6, <5>3 DEF OnTargetRemoved
        <4> QED BY <3>3, <4>1, <4>2 DEF RestoredInv, engine, Listened
      <3>7. CASE OnTargetCurrent
        <4>1. type = "current"
          BY <3>1, <3>7 DEF OnTargetCurrent, OnWatchStreamChange
        <4>2. UNCHANGED engine /\ target'.pending = target.pending
          <5>1. target' = target \/ target' = [target EXCEPT !.current = TRUE]
            BY <3>7 DEF OnTargetCurrent
          <5> QED BY <3>7, <5>1 DEF OnTargetCurrent, WatchOK
        <4> QED BY <3>3, <4>1, <4>2 DEF RestoredInv, engine, Listened
      <3>8. CASE OnDocument
        <4>1. type = "doc"
          BY <3>1, <3>8 DEF OnDocument, OnWatchStreamChange
        <4>2. UNCHANGED engine /\ UNCHANGED target
          BY <3>8 DEF OnDocument
        <4> QED BY <3>3, <4>1, <4>2 DEF RestoredInv, engine, Listened
      <3>9. CASE OnSnapshot
        <4>1. type = "snapshot"
          BY <3>1, <3>9 DEF OnSnapshot, OnWatchStreamChange
        <4>2. /\ UNCHANGED target /\ Listened' = Listened
              /\ Listened => view' = [view EXCEPT !.doc = cached',
                                                  !.current = IF IsActive THEN target.current ELSE @]
          BY <3>9, SnapshotFacts DEF PlacesInv, Listened
        <4>3. Listened /\ target.pending > 0 => view'.current = view.current
          <5>1. target.pending > 0 => ~IsActive
            BY <3>4 DEF IsActive
          <5> QED BY <4>2, <5>1 DEF EngineOK, ViewType
        <4> QED BY <3>3, <4>1, <4>2, <4>3 DEF RestoredInv
      <3>10. ~OnTargetError
        BY <1>4, <3>2 DEF RefusedInv, OnTargetError, OnWatchStreamChange
      <3> QED BY <2>3, <3>5, <3>6, <3>7, <3>8, <3>9, <3>10 DEF Messages
    <2>4. CASE ServerReads /\ stream = "Open"
      <3>1. UNCHANGED <<target, listeners, view>> /\ requests # <<>>
        BY <2>4, ServerReadsFacts
      <3>2. ASSUME Listened, view.current, target.pending > 0
            PROVE  /\ target.pending = 1 /\ requests' = <<>> /\ responses' # <<>>
                   /\ responses'[1].type = "added"
        <4>1. target.pending = 1 /\ requests = <<"watch">> /\ responses = <<>>
          BY <3>1, <3>2 DEF RestoredInv
        <4>2. requests[1] = "watch" /\ requests' = <<>>
          BY <2>4, <4>1 DEF ServerReads
        <4>3. responses' = responses \o Answered
          BY <1>4, <2>4, <4>2, ServerReadsFacts
        <4>4. Answered \in Seq(MessageType) /\ Answered[1].type = "added"
              /\ (Len(Answered) = 3 \/ Len(Answered) = 4)
          BY AnsweredFacts DEF Message
        <4>5. responses' = Answered
          BY <4>1, <4>3, <4>4, ConcatEmptySeq
        <4>6. responses' # <<>>
          BY <4>4, <4>5
        <4> QED BY <4>1, <4>2, <4>4, <4>5, <4>6
      <3> QED BY <3>1, <3>2 DEF RestoredInv, Listened
    <2>5. CASE ServerNotifies /\ stream = "Open"
      <3>1. UNCHANGED <<target, listeners, view, requests>> /\ serving # NotServed
        BY <2>5 DEF ServerNotifies, engine, watch
      <3>2. ASSUME Listened, view.current, target.pending > 0
            PROVE  /\ target.pending = 1 /\ requests = <<>> /\ responses' # <<>>
                   /\ responses'[1].type = "added"
        <4>1. requests # <<"watch">>
          <5>1. requests = <<"watch">> => 1 \in DOMAIN requests /\ requests[1] = "watch"
            OBVIOUS
          <5> QED BY <1>4, <3>1, <5>1 DEF AwaitedInv
        <4>2. /\ target.pending = 1
              /\ requests = <<>> /\ responses # <<>> /\ responses[1].type = "added"
          BY <3>2, <4>1 DEF RestoredInv
        <4>3. PICK x \in Seq(MessageType) : IsConcat(responses', responses, x)
          BY <1>4, <2>5, OneRequest, ServerSays
        <4>4. /\ DOMAIN responses = 1 .. Len(responses) /\ Len(responses) \in Nat
              /\ \A i \in DOMAIN responses : i \in DOMAIN responses' /\ responses'[i] = responses[i]
          BY <4>3, Grown
        <4>5. 1 \in DOMAIN responses
          BY <4>2, <4>4, EmptySeq DEF ConnOK
        <4>6. 1 \in DOMAIN responses' /\ responses'[1] = responses[1]
          BY <4>4, <4>5
        <4> QED BY <4>2, <4>6
      <3> QED BY <3>1, <3>2 DEF RestoredInv, Listened
    <2>6. CASE ResumeStartWithCredentials
      <3>1. /\ requests = <<>> /\ responses = <<>> /\ target = Fresh /\ UNCHANGED listeners
        BY <2>6 DEF ResumeStartWithCredentials, TrackerInv, ConnInv, QuietInv, engine
      <3>2. CASE Listened
        <4>1. Send("watch")
          BY <2>6, <3>2 DEF ResumeStartWithCredentials
        <4>2. requests' = <<"watch">> /\ responses' = <<>>
          BY <3>1, <4>1 DEF Send
        <4>3. target'.pending = 1
          BY <3>1, <4>1 DEF Send, RecordPendingTargetRequest, Fresh
        <4> QED BY <4>2, <4>3 DEF RestoredInv
      <3>3. CASE ~Listened
        BY <3>1, <3>3 DEF RestoredInv, Listened
      <3> QED BY <3>2, <3>3
    <2> QED BY <1>4, <2>1, <2>2, <2>3, <2>4, <2>5, <2>6, OpenSteps
  <1> QED BY <1>2, <1>3, <1>4

\* The first message is taken from the connection.
Taken ==
  /\ Len(responses) \in Nat /\ Len(responses) >= 1
  /\ DOMAIN responses = 1 .. Len(responses) /\ DOMAIN responses' = 1 .. Len(responses) - 1
  /\ \A i \in 1 .. Len(responses) - 1 : responses'[i] = responses[i + 1]

\* A snapshot that was next but one is next.
LEMMA SnapshotNearer ==
  ASSUME Taken, NEW i \in Nat, i >= 1, NEW n, SnapshotAt(responses, i + 1, n)
  PROVE  SnapshotAt(responses', i, n)
  <1>1. i + 1 \in DOMAIN responses /\ i \in DOMAIN responses' /\ responses'[i] = responses[i + 1]
    BY DEF SnapshotAt, Taken
  <1>2. (i + 1) + 1 \in DOMAIN responses =>
          i + 1 \in DOMAIN responses' /\ responses'[i + 1] = responses[(i + 1) + 1]
    BY <1>1 DEF Taken
  <1> QED BY <1>1, <1>2 DEF SnapshotAt

\* What is on its way is one message nearer, and a document that is taken goes to
\* update.
LEMMA DocumentsShift ==
  ASSUME DocumentsInv, Taken,
         update' # NoVersion => SnapshotAt(responses', 1, update'),
         responses[1].type = "doc" /\ IsActive' => update' = responses[1].v,
         responses[1].type = "current" => UNCHANGED update /\ IsActive' = IsActive
  PROVE  DocumentsInv'
  <1>1. ASSUME NEW i \in DOMAIN responses', responses'[i].type = "doc"
        PROVE  responses'[i].v > 0 /\ SnapshotAt(responses', i + 1, responses'[i].v)
    <2>1. i \in Nat /\ i + 1 \in DOMAIN responses /\ responses'[i] = responses[i + 1]
      BY <1>1 DEF Taken
    <2>2. responses[i + 1].v > 0 /\ SnapshotAt(responses, (i + 1) + 1, responses[i + 1].v)
      BY <1>1, <2>1 DEF DocumentsInv
    <2>3. i + 1 \in Nat /\ i + 1 >= 1
      BY <2>1
    <2>4. \A n : n = responses[i + 1].v => SnapshotAt(responses', i + 1, n)
      BY <2>2, <2>3, SnapshotNearer
    <2> QED BY <2>1, <2>2, <2>4 DEF SnapshotAt
  <1>2. ASSUME NEW i \in DOMAIN responses', responses'[i].type = "snapshot", responses'[i].v > 0
        PROVE  \/ i > 1 /\ responses'[i - 1] = Message("doc", responses'[i].v)
               \/ /\ i > 2 /\ responses'[i - 1].type = "current"
                  /\ responses'[i - 2] = Message("doc", responses'[i].v)
               \/ /\ i = 1 \/ (i = 2 /\ responses'[1].type = "current")
                  /\ IsActive' => update' = responses'[i].v
    <2> DEFINE v == responses'[i].v
    <2>1. i \in Nat /\ i >= 1 /\ i + 1 \in DOMAIN responses /\ responses[i + 1] = responses'[i]
          /\ i < Len(responses)
      BY <1>2 DEF Taken
    <2>2. (i + 1) - 1 = i /\ (i + 1) - 2 = i - 1
      BY <2>1
    <2>3. \/ responses[i] = Message("doc", v)
          \/ i >= 2 /\ responses[i].type = "current" /\ responses[i - 1] = Message("doc", v)
          \/ i = 1 /\ responses[1].type = "current" /\ (IsActive => update = v)
      <3>1. \/ i + 1 > 1 /\ responses[(i + 1) - 1] = Message("doc", v)
            \/ /\ i + 1 > 2 /\ responses[(i + 1) - 1].type = "current"
               /\ responses[(i + 1) - 2] = Message("doc", v)
            \/ /\ i + 1 = 1 \/ (i + 1 = 2 /\ responses[1].type = "current")
               /\ IsActive => update = v
        BY <1>2, <2>1 DEF DocumentsInv
      <3> HIDE DEF v
      <3> QED BY <2>1, <2>2, <3>1
    <2> HIDE DEF v
    <2>4. i >= 2 => responses'[i - 1] = responses[i]
      <3>1. i >= 2 => i - 1 \in 1 .. Len(responses) - 1 /\ (i - 1) + 1 = i
        BY <2>1 DEF Taken
      <3> QED BY <3>1 DEF Taken
    <2>5. i > 2 => responses'[i - 2] = responses[i - 1]
      <3>1. i > 2 => i - 2 \in 1 .. Len(responses) - 1 /\ (i - 2) + 1 = i - 1
        BY <2>1 DEF Taken
      <3> QED BY <3>1 DEF Taken
    <2>6. CASE responses[i] = Message("doc", v)
      <3>1. i = 1 => responses[1].type = "doc" /\ responses[1].v = v
        BY <2>6 DEF Message
      <3>2. i = 1 => (IsActive' => update' = v)
        BY <3>1
      <3> QED BY <2>1, <2>4, <2>6, <3>2 DEF v
    <2>7. CASE i >= 2 /\ responses[i].type = "current" /\ responses[i - 1] = Message("doc", v)
      <3>1. i = 2 => /\ responses[1].type = "doc" /\ responses[1].v = v
                     /\ responses'[1].type = "current"
        <4>1. 2 - 1 = 1
          OBVIOUS
        <4> QED BY <2>4, <2>7, <4>1 DEF Message
      <3>2. i = 2 => (IsActive' => update' = v)
        BY <3>1
      <3>3. i = 2 \/ i > 2
        BY <2>1, <2>7
      <3> QED BY <2>4, <2>5, <2>7, <3>1, <3>2, <3>3 DEF v
    <2>8. CASE i = 1 /\ responses[1].type = "current" /\ (IsActive => update = v)
      BY <2>8 DEF v
    <2> QED BY <2>3, <2>6, <2>7, <2>8
  <1> QED BY <1>1, <1>2 DEF DocumentsInv

\* A message is read.
LEMMA DocumentsRead ==
  ASSUME ReadInv, ~denied, Messages, [Next]_vars
  PROVE  DocumentsInv'
  <1> USE DEF ReadInv, Typed
  <1>1. PICK type : OnWatchStreamChange(type)
    BY MessageSteps
  <1>2. Taken /\ responses[1].type = type /\ Head(responses) = responses[1]
    BY <1>1, HeadMessage DEF Taken
  <1>3. 1 \in DOMAIN responses
    BY <1>2 DEF Taken
  <1>5. ~OnTargetError
    BY <1>2, <1>3 DEF RefusedInv, OnTargetError, OnWatchStreamChange
  <1>7. CASE OnDocument
    <2>1. type = "doc" /\ responses[1].type = "doc"
      BY <1>1, <1>2, <1>7 DEF OnDocument, OnWatchStreamChange
    <2>2. /\ update' = IF IsActive THEN responses[1].v ELSE update
          /\ UNCHANGED <<target, listeners>>
      BY <1>2, <1>7 DEF OnDocument, engine
    <2>3. responses[1].v > 0 /\ SnapshotAt(responses, 2, responses[1].v)
      <3>1. responses[1].v > 0 /\ SnapshotAt(responses, 1 + 1, responses[1].v)
        BY <1>3, <2>1 DEF DocumentsInv
      <3>2. \A k : k = 1 + 1 => SnapshotAt(responses, k, responses[1].v)
        BY <3>1
      <3>3. 2 = 1 + 1
        OBVIOUS
      <3> QED BY <3>1, <3>2, <3>3, Zenon
    <2>4. ~SnapshotAt(responses, 1, update)
      BY <2>1 DEF SnapshotAt, Message
    <2>5. update' # NoVersion => SnapshotAt(responses', 1, responses[1].v) /\ update' = responses[1].v
      <3>1. update = NoVersion
        BY <2>4 DEF DocumentsInv
      <3>2. SnapshotAt(responses, 1 + 1, responses[1].v)
        BY <2>3
      <3>3. \A n : n = responses[1].v => SnapshotAt(responses', 1, n)
        BY <1>2, <3>2, SnapshotNearer
      <3> QED BY <2>2, <3>1, <3>3 DEF SnapshotAt
    <2>6. update' # NoVersion => SnapshotAt(responses', 1, update')
      BY <2>5 DEF SnapshotAt
    <2>7. IsActive' => update' = responses[1].v
      BY <2>2 DEF IsActive, Listened
    <2> QED BY <2>1, <2>6, <2>7, <1>2, DocumentsShift
  <1>8. CASE ~OnDocument
    <2>1. responses[1].type # "doc"
      BY <1>1, <1>2, <1>5, <1>8 DEF Messages, OnTargetAdded, OnTargetRemoved, OnTargetCurrent, OnSnapshot,
                             OnWatchStreamChange
    <2>2. CASE OnTargetCurrent
      <3>1. /\ UNCHANGED <<update, listeners>> /\ responses[1].type = "current"
            /\ target'.pending = target.pending
        <4>1. target' = target \/ target' = [target EXCEPT !.current = TRUE]
          BY <2>2 DEF OnTargetCurrent
        <4> QED BY <1>2, <2>2, <4>1 DEF OnTargetCurrent, WatchOK, engine, OnWatchStreamChange
      <3>2. IsActive' = IsActive
        BY <3>1 DEF IsActive, Listened
      <3>3. update' # NoVersion => SnapshotAt(responses', 1, update')
        <4>1. ASSUME update # NoVersion
              PROVE  2 \in DOMAIN responses /\ responses[2] = Message("snapshot", update)
          <5>1. SnapshotAt(responses, 1, update)
            BY <4>1 DEF DocumentsInv
          <5>2. 1 + 1 = 2
            OBVIOUS
          <5> QED BY <3>1, <5>1, <5>2 DEF SnapshotAt, Message
        <4>2. 1 + 1 = 2
          OBVIOUS
        <4>3. update # NoVersion => 1 \in DOMAIN responses' /\ responses'[1] = responses[2]
          BY <1>2, <4>1, <4>2 DEF Taken
        <4> QED BY <3>1, <4>1, <4>3 DEF SnapshotAt
      <3> QED BY <2>1, <3>1, <3>2, <3>3, <1>2, DocumentsShift
    <2>3. CASE ~OnTargetCurrent
      <3>1. responses[1].type \in {"added", "removed", "snapshot"}
        BY <1>2, <1>5, <1>8, <2>3 DEF Messages, OnTargetAdded, OnTargetRemoved, OnSnapshot,
                               OnWatchStreamChange
      <3>2. update' = NoVersion
        <4>1. CASE OnSnapshot
          BY <4>1 DEF OnSnapshot
        <4>2. CASE ~OnSnapshot
          <5>1. UNCHANGED update /\ responses[1].type # "snapshot"
            BY <1>2, <1>5, <1>8, <2>3, <4>2 DEF Messages, OnTargetAdded, OnTargetRemoved,
                                                OnWatchStreamChange
          <5>2. ~SnapshotAt(responses, 1, update)
            BY <3>1, <5>1 DEF SnapshotAt, Message
          <5> QED BY <5>1, <5>2 DEF DocumentsInv
        <4> QED BY <4>1, <4>2
      <3>3. responses[1].type # "current"
        BY <3>1
      <3> QED BY <2>1, <3>2, <3>3, <1>2, DocumentsShift
    <2> QED BY <2>2, <2>3
  <1> QED BY <1>7, <1>8

\* In what the server says a document comes before its snapshot.
LEMMA SaidDocuments ==
  ASSUME ReadInv, NEW x \in Seq(MessageType),
         \/ x = Answered
         \/ Len(x) = 1 /\ x[1] = Message("removed", 0)
         \/ Len(x) = 2 /\ version > 0 /\ x[1] = Message("doc", version) /\ x[2] = Message("snapshot", version)
  PROVE  /\ \A k \in DOMAIN x : x[k].type = "doc" =>
              /\ x[k].v > 0
              /\ \/ k + 1 \in DOMAIN x /\ x[k + 1] = Message("snapshot", x[k].v)
                 \/ /\ k + 1 \in DOMAIN x /\ x[k + 1].type = "current"
                    /\ k + 2 \in DOMAIN x /\ x[k + 2] = Message("snapshot", x[k].v)
         /\ \A k \in DOMAIN x : x[k].type = "snapshot" /\ x[k].v > 0 =>
              \/ k > 1 /\ k - 1 \in DOMAIN x /\ x[k - 1] = Message("doc", x[k].v)
              \/ /\ k > 2 /\ k - 1 \in DOMAIN x /\ x[k - 1].type = "current"
                 /\ k - 2 \in DOMAIN x /\ x[k - 2] = Message("doc", x[k].v)
  <1>1. DOMAIN x = 1 .. Len(x) /\ version \in Nat
    BY LenProperties DEF ReadInv, Typed, ConnOK
  <1>2. CASE x = Answered /\ version > 0
    <2>1. /\ DOMAIN x = 1 .. 4 /\ x[1] = Message("added", 0) /\ x[2] = Message("doc", version)
          /\ x[3] = Message("current", 0) /\ x[4] = Message("snapshot", version)
      BY <1>2, AnsweredFacts DEF ReadInv, Typed
    <2>2. /\ x[1].type = "added" /\ x[2].type = "doc" /\ x[2].v = version /\ x[3].type = "current"
          /\ x[4].type = "snapshot" /\ x[4].v = version
      BY <2>1 DEF Message
    <2>3. ASSUME NEW k \in DOMAIN x, x[k].type = "doc"
          PROVE  /\ x[k].v > 0
                 /\ k + 1 \in DOMAIN x /\ x[k + 1].type = "current"
                 /\ k + 2 \in DOMAIN x /\ x[k + 2] = Message("snapshot", x[k].v)
      <3>1. k = 2 /\ 2 + 1 = 3 /\ 2 + 2 = 4
        BY <2>1, <2>2, <2>3
      <3> QED BY <1>2, <2>1, <2>2, <3>1
    <2>4. ASSUME NEW k \in DOMAIN x, x[k].type = "snapshot"
          PROVE  /\ k > 2 /\ k - 1 \in DOMAIN x /\ x[k - 1].type = "current"
                 /\ k - 2 \in DOMAIN x /\ x[k - 2] = Message("doc", x[k].v)
      <3>1. k = 4 /\ 4 - 1 = 3 /\ 4 - 2 = 2
        BY <2>1, <2>2, <2>4
      <3> QED BY <1>2, <2>1, <2>2, <3>1
    <2> QED BY <2>3, <2>4
  <1>3. CASE x = Answered /\ ~(version > 0)
    <2>1. /\ DOMAIN x = 1 .. 3 /\ x[1] = Message("added", 0) /\ x[2] = Message("current", 0)
          /\ x[3] = Message("snapshot", version)
      BY <1>3, AnsweredFacts DEF ReadInv, Typed
    <2>2. \A i \in DOMAIN x : i = 1 \/ i = 2 \/ i = 3
      BY <2>1
    <2>3. \A i \in DOMAIN x : x[i].type # "doc" /\ (x[i].type = "snapshot" => x[i].v = version)
      BY <2>1, <2>2 DEF Message
    <2> QED BY <1>3, <2>3
  <1>4. CASE Len(x) = 1 /\ x[1] = Message("removed", 0)
    <2>1. \A i \in DOMAIN x : i = 1
      BY <1>1, <1>4
    <2> QED BY <1>4, <2>1 DEF Message
  <1>5. CASE Len(x) = 2 /\ version > 0 /\ x[1] = Message("doc", version) /\ x[2] = Message("snapshot", version)
    <2>1. DOMAIN x = 1 .. 2
      BY <1>1, <1>5
    <2>2. x[1].type = "doc" /\ x[1].v = version /\ x[2].type = "snapshot" /\ x[2].v = version
      BY <1>5 DEF Message
    <2>3. ASSUME NEW k \in DOMAIN x, x[k].type = "doc"
          PROVE  x[k].v > 0 /\ k + 1 \in DOMAIN x /\ x[k + 1] = Message("snapshot", x[k].v)
      <3>1. k = 1 /\ 1 + 1 = 2
        BY <2>1, <2>2, <2>3
      <3> QED BY <1>5, <2>1, <2>2, <3>1
    <2>4. ASSUME NEW k \in DOMAIN x, x[k].type = "snapshot"
          PROVE  k > 1 /\ k - 1 \in DOMAIN x /\ x[k - 1] = Message("doc", x[k].v)
      <3>1. k = 2 /\ 2 - 1 = 1
        BY <2>1, <2>2, <2>4
      <3> QED BY <1>5, <2>1, <2>2, <3>1
    <2> QED BY <2>3, <2>4
  <1> QED BY <1>2, <1>3, <1>4, <1>5

\* The server says what the document is.
LEMMA DocumentsServed ==
  ASSUME ReadInv, ~denied, ServerReads \/ ServerNotifies
  PROVE  DocumentsInv'
  <1> USE DEF ReadInv, Typed
  <1>1. UNCHANGED <<listeners, target, update>>
    BY DEF ServerReads, ServerNotifies, engine, watch
  <1>2. IsActive' = IsActive
    BY <1>1 DEF IsActive, Listened
  <1>3. CASE responses' = responses
    <2>1. \A i, n : SnapshotAt(responses', i, n) = SnapshotAt(responses, i, n)
      BY <1>3 DEF SnapshotAt
    <2> QED BY <1>1, <1>2, <1>3, <2>1 DEF DocumentsInv, SnapshotAt
  <1>4. CASE responses' # responses
    <2>1. PICK x \in Seq(MessageType) :
            /\ IsConcat(responses', responses, x)
            /\ \/ x = Answered
               \/ Len(x) = 1 /\ x[1] = Message("removed", 0)
               \/ /\ Len(x) = 2 /\ version > 0
                  /\ x[1] = Message("doc", version) /\ x[2] = Message("snapshot", version)
      BY <1>4, ServerSays
    <2> DEFINE n == Len(responses)
    <2>2. /\ n \in Nat /\ DOMAIN responses = 1 .. n /\ DOMAIN x = 1 .. Len(x)
          /\ DOMAIN responses' = 1 .. n + Len(x)
          /\ \A i \in DOMAIN responses : i \in DOMAIN responses' /\ responses'[i] = responses[i]
          /\ \A k \in DOMAIN x : n + k \in DOMAIN responses' /\ responses'[n + k] = x[k]
          /\ \A i \in DOMAIN responses' : i \notin DOMAIN responses =>
               i > n /\ i - n \in DOMAIN x /\ responses'[i] = x[i - n]
      BY <2>1, Grown
    <2> HIDE DEF n
    <2>3. \A i, v : SnapshotAt(responses, i, v) => SnapshotAt(responses', i, v)
      BY <2>2 DEF SnapshotAt
    <2>4. /\ \A k \in DOMAIN x : x[k].type = "doc" =>
               /\ x[k].v > 0
               /\ \/ k + 1 \in DOMAIN x /\ x[k + 1] = Message("snapshot", x[k].v)
                  \/ /\ k + 1 \in DOMAIN x /\ x[k + 1].type = "current"
                     /\ k + 2 \in DOMAIN x /\ x[k + 2] = Message("snapshot", x[k].v)
          /\ \A k \in DOMAIN x : x[k].type = "snapshot" /\ x[k].v > 0 =>
               \/ k > 1 /\ k - 1 \in DOMAIN x /\ x[k - 1] = Message("doc", x[k].v)
               \/ /\ k > 2 /\ k - 1 \in DOMAIN x /\ x[k - 1].type = "current"
                  /\ k - 2 \in DOMAIN x /\ x[k - 2] = Message("doc", x[k].v)
      BY <2>1, SaidDocuments
    <2>5. ASSUME NEW i \in DOMAIN responses', responses'[i].type = "doc"
          PROVE  responses'[i].v > 0 /\ SnapshotAt(responses', i + 1, responses'[i].v)
      <3>1. CASE i \in DOMAIN responses
        <4>1. responses'[i] = responses[i]
          BY <2>2, <3>1
        <4>2. responses[i].v > 0 /\ SnapshotAt(responses, i + 1, responses[i].v)
          BY <2>5, <3>1, <4>1 DEF DocumentsInv
        <4>3. \A v : v = responses[i].v => SnapshotAt(responses', i + 1, v)
          BY <2>3, <4>2
        <4> QED BY <4>1, <4>2, <4>3 DEF SnapshotAt
      <3>2. CASE i \notin DOMAIN responses
        <4>1. PICK k \in DOMAIN x : i = n + k /\ responses'[i] = x[k] /\ k \in Nat
          <5>1. i - n \in DOMAIN x /\ responses'[i] = x[i - n]
            BY <2>2, <3>2
          <5>2. i = n + (i - n) /\ i - n \in Nat
            BY <2>2, <5>1
          <5> QED BY <5>1, <5>2
        <4>2. i + 1 = n + (k + 1) /\ (i + 1) + 1 = n + (k + 2)
          BY <2>2, <4>1
        <4>3. /\ x[k].v > 0
              /\ \/ k + 1 \in DOMAIN x /\ x[k + 1] = Message("snapshot", x[k].v)
                 \/ /\ k + 1 \in DOMAIN x /\ x[k + 1].type = "current"
                    /\ k + 2 \in DOMAIN x /\ x[k + 2] = Message("snapshot", x[k].v)
          BY <2>4, <2>5, <4>1
        <4>4. k + 1 \in DOMAIN x => i + 1 \in DOMAIN responses' /\ responses'[i + 1] = x[k + 1]
          BY <2>2, <4>2
        <4>5. k + 2 \in DOMAIN x => (i + 1) + 1 \in DOMAIN responses' /\ responses'[(i + 1) + 1] = x[k + 2]
          BY <2>2, <4>2
        <4> QED BY <4>1, <4>3, <4>4, <4>5 DEF SnapshotAt
      <3> QED BY <3>1, <3>2
    <2>6. ASSUME NEW i \in DOMAIN responses', responses'[i].type = "snapshot", responses'[i].v > 0
          PROVE  \/ i > 1 /\ responses'[i - 1] = Message("doc", responses'[i].v)
                 \/ /\ i > 2 /\ responses'[i - 1].type = "current"
                    /\ responses'[i - 2] = Message("doc", responses'[i].v)
                 \/ /\ i = 1 \/ (i = 2 /\ responses'[1].type = "current")
                    /\ IsActive' => update' = responses'[i].v
      <3>1. CASE i \in DOMAIN responses
        <4>1. responses'[i] = responses[i] /\ 1 \in DOMAIN responses
          <5>1. 1 \in DOMAIN responses
            BY <2>2, <3>1
          <5> QED BY <2>2, <3>1, <5>1
        <4>2. /\ i > 1 => i - 1 \in DOMAIN responses
              /\ i > 2 => i - 2 \in DOMAIN responses
          BY <2>2, <3>1
        <4>3. /\ responses'[1] = responses[1]
              /\ i > 1 => responses'[i - 1] = responses[i - 1]
              /\ i > 2 => responses'[i - 2] = responses[i - 2]
          BY <2>2, <4>1, <4>2
        <4> QED BY <1>1, <1>2, <2>6, <3>1, <4>1, <4>3 DEF DocumentsInv
      <3>2. CASE i \notin DOMAIN responses
        <4>1. PICK k \in DOMAIN x : i = n + k /\ responses'[i] = x[k] /\ k \in Nat
          <5>1. i - n \in DOMAIN x /\ responses'[i] = x[i - n]
            BY <2>2, <3>2
          <5>2. i = n + (i - n) /\ i - n \in Nat
            BY <2>2, <5>1
          <5> QED BY <5>1, <5>2
        <4>2. /\ i - 1 = n + (k - 1) /\ i - 2 = n + (k - 2)
              /\ (k > 1 => i > 1) /\ (k > 2 => i > 2)
          BY <2>2, <4>1
        <4>3. \/ k > 1 /\ k - 1 \in DOMAIN x /\ x[k - 1] = Message("doc", x[k].v)
              \/ /\ k > 2 /\ k - 1 \in DOMAIN x /\ x[k - 1].type = "current"
                 /\ k - 2 \in DOMAIN x /\ x[k - 2] = Message("doc", x[k].v)
          BY <2>4, <2>6, <4>1
        <4>4. k - 1 \in DOMAIN x => responses'[i - 1] = x[k - 1]
          BY <2>2, <4>2
        <4>5. k - 2 \in DOMAIN x => responses'[i - 2] = x[k - 2]
          BY <2>2, <4>2
        <4> QED BY <4>1, <4>2, <4>3, <4>4, <4>5
      <3> QED BY <3>1, <3>2
    <2>7. update' # NoVersion => SnapshotAt(responses', 1, update')
      <3>1. update # NoVersion => SnapshotAt(responses', 1, update)
        BY <2>3 DEF DocumentsInv
      <3> QED BY <1>1, <3>1 DEF SnapshotAt
    <2> QED BY <2>5, <2>6, <2>7 DEF DocumentsInv
  <1> QED BY <1>3, <1>4

\* Every step keeps documents before their snapshots.
LEMMA DocumentsKept ==
  ASSUME ReadInv, TrackerInv, TrackerInv', [Next]_vars
  PROVE  DocumentsInv'
  <1> USE DEF ReadInv, Typed
  <1>1. denied' = denied
    BY RulesStand
  <1>2. CASE denied
    <2>1. (\A i \in DOMAIN responses' : responses'[i].type = "error") /\ update' = NoVersion
      BY <1>1, <1>2, RefusedKept DEF RefusedInv
    <2> QED BY <2>1 DEF DocumentsInv
  <1>3. CASE ~denied /\ stream' # "Open"
    BY <1>3, WireClosed, QuietKept DEF TrackerInv
  <1>4. CASE ~denied /\ stream' = "Open"
    <2>1. CASE stream = "Open" /\ Aside
      <3>1. UNCHANGED <<responses, target, update>> /\ Listened' = Listened
        BY <2>1 DEF Aside, Untouched
      <3>2. (\A i, n : SnapshotAt(responses', i, n) = SnapshotAt(responses, i, n)) /\ IsActive' = IsActive
        BY <3>1 DEF SnapshotAt, IsActive
      <3> QED BY <3>1, <3>2 DEF DocumentsInv, SnapshotAt
    <2>2. CASE Watches \/ Unwatches
      <3>1. PICK what \in {"watch", "unwatch"} : Send(what) /\ UNCHANGED update
        BY <2>2 DEF Watches, Unwatches
      <3>2. UNCHANGED responses /\ target'.pending = target.pending + 1
        BY <3>1 DEF Send, RecordPendingTargetRequest, WatchOK
      <3>3. target.pending \in Nat
        BY DEF WatchOK
      <3>4. ~IsActive'
        BY <3>2, <3>3 DEF IsActive
      <3>5. \A i, n : SnapshotAt(responses', i, n) = SnapshotAt(responses, i, n)
        BY <3>2 DEF SnapshotAt
      <3>6. ASSUME NEW i \in DOMAIN responses, responses[i].type = "snapshot", responses[i].v > 0
            PROVE  \/ i > 1 /\ responses[i - 1] = Message("doc", responses[i].v)
                   \/ /\ i > 2 /\ responses[i - 1].type = "current"
                      /\ responses[i - 2] = Message("doc", responses[i].v)
                   \/ i = 1 \/ (i = 2 /\ responses[1].type = "current")
        BY <3>6 DEF DocumentsInv
      <3>7. \A i \in DOMAIN responses : responses[i].type = "doc" =>
              responses[i].v > 0 /\ SnapshotAt(responses, i + 1, responses[i].v)
        BY DEF DocumentsInv
      <3>8. update # NoVersion => SnapshotAt(responses, 1, update)
        BY DEF DocumentsInv
      <3> QED BY <3>1, <3>2, <3>4, <3>5, <3>6, <3>7, <3>8 DEF DocumentsInv, SnapshotAt
    <2>3. CASE Messages
      BY <1>4, <2>3, DocumentsRead
    <2>4. CASE ServerReads \/ ServerNotifies
      BY <1>4, <2>4, DocumentsServed
    <2>5. CASE ResumeStartWithCredentials
      <3>1. responses = <<>> /\ UNCHANGED <<responses, update>> /\ update = NoVersion
        BY <2>5 DEF ResumeStartWithCredentials, TrackerInv, ConnInv, QuietInv, Send, conn
      <3> QED BY <3>1 DEF DocumentsInv
    <2> QED BY <1>4, <2>1, <2>2, <2>3, <2>4, <2>5, OpenSteps
  <1> QED BY <1>2, <1>3, <1>4
-----------------------------------------------------------------------------
(* The theorems.                                                            *)

\* The initial states satisfy the invariant.
LEMMA ReadInit == Init => ReadInv
  <1> SUFFICES ASSUME Init
               PROVE  ReadInv
    OBVIOUS
  <1>1. NoAnswer \in AnswerType /\ Unknown \in Document /\ Unknown.v = -1 /\ NoAnswer.v = 0
    BY VersionAssumption DEF NoAnswer, AnswerType, Unknown, Document, NoVersion
  <1>2. CallsOK
    BY <1>1, ReadsAssumption, VersionAssumption DEF Init, CallsOK
  <1>3. EngineOK
    <2>1. view \in ViewType
      <3>1. 0 \in 0 .. MaxVersion
        BY VersionAssumption
      <3> QED BY <1>1, <3>1 DEF Init, ViewType
    <2>2. listeners \in Seq(Reads) /\ raised \in SUBSET Reads
      BY DEF Init
    <2> QED BY <1>1, <2>1, <2>2 DEF Init, EngineOK
  <1>12. WatchOK
    <2>1. target \in [pending : Nat, current : BOOLEAN]
      BY DEF Init, Fresh
    <2>2. failures \in 0 .. faults /\ update \in -1 .. MaxVersion
      BY VersionAssumption DEF Init, NoVersion
    <2>3. online \in {"Unknown", "Online", "Offline"} /\ timer \in BOOLEAN /\ stream \in States
          /\ idle \in BOOLEAN
      BY DEF Init, States
    <2> QED BY <2>1, <2>2, <2>3 DEF WatchOK
  <1>13. ConnOK
    BY VersionAssumption, FaultsAssumption DEF Init, ConnOK, NotServed
  <1>4. DOMAIN workerq = {} /\ DOMAIN mainq = {} /\ DOMAIN listeners = {} /\ DOMAIN requests = {}
        /\ DOMAIN responses = {} /\ Len(requests) = 0
    BY DEF Init
  <1>5. ~Listened
    BY DEF Init, Listened
  <1>6. AskedInv /\ PlacesInv /\ LastWordInv
    BY <1>4 DEF AskedInv, PlacesInv, LastWordInv, Distinct, ListenOps, Init
  <1>7. RefusedInv
    BY <1>4 DEF RefusedInv, Init, Fresh
  <1>8. DocInv
    BY <1>5 DEF DocInv, Init
  <1>9. ToldInv
    BY <1>1, <1>4 DEF ToldInv, Init
  <1>10. QuietInv /\ VersionsInv /\ RestoredInv /\ DocumentsInv
    BY <1>4, <1>5 DEF QuietInv, VersionsInv, RestoredInv, DocumentsInv, Init
  <1>11. AwaitedInv
    <2>1. AcksOf(responses) = {}
      BY <1>4 DEF AcksOf
    <2>2. Cardinality(AcksOf(responses)) = 0
      BY <2>1, FS_EmptySet
    <2> QED BY <1>4, <1>5, <2>2 DEF AwaitedInv, Init, Fresh
  <1> QED BY <1>2, <1>3, <1>6, <1>7, <1>8, <1>9, <1>10, <1>11, <1>12, <1>13
         DEF ReadInv, Typed

\* Every step keeps it.
LEMMA ReadStep ==
  ASSUME ReadInv, TrackerInv, TrackerInv', [Next]_vars
  PROVE  ReadInv'
  <1>1. ConnOK'
    BY ConnTyped
  <1>2. Typed'
    BY <1>1, CallsTyped, EngineTyped, WatchTyped DEF Typed
  <1>3. AskedInv' /\ PlacesInv' /\ LastWordInv'
    BY PlacesKept
  <1>4. RefusedInv' /\ DocInv' /\ ToldInv' /\ QuietInv'
    BY RefusedKept, DocKept, ToldKept, QuietKept
  <1>5. AwaitedInv' /\ VersionsInv' /\ RestoredInv' /\ DocumentsInv'
    BY AwaitedKept, VersionsKept, RestoredKept, DocumentsKept
  <1> QED BY <1>2, <1>3, <1>4, <1>5 DEF ReadInv

\* The invariant of calls, cache, view and connection holds in every reachable
\* state, whatever becomes of the stream, its listeners and the credentials.
THEOREM ReadCorrect == Spec => []ReadInv
  <1>1. ReadInv /\ TrackerInv /\ TrackerInv' /\ [Next]_vars => ReadInv'
    BY ReadStep
  <1> QED BY ReadInit, TrackerCorrect, <1>1, PTL DEF Spec

\* The client's queues, view, cache, stream and connection keep their types; no
\* acknowledgement comes that is not awaited, so outstanding_responses_ is a count.
THEOREM TypeCorrect == Spec => []TypeOK
  <1>1. ReadInv => TypeOK
    BY Parts DEF ReadInv
  <1> QED BY <1>1, ReadCorrect, PTL

\* What the cache holds is not newer than the document.
LEMMA CacheNotAhead ==
  ASSUME ReadInv
  PROVE  cached.v <= version
  <1>1. version \in Nat
    BY DEF ReadInv, Typed, ConnOK
  <1>2. Unknown.v = -1
    BY DEF Unknown, NoVersion
  <1>3. CASE cached = Unknown
    BY <1>1, <1>2, <1>3
  <1>4. CASE cached # Unknown
    BY <1>4 DEF ReadInv, DocInv, Truthful
  <1> QED BY <1>3, <1>4

\* A snapshot that getDocument is given as synced is as new as its listen and
\* says truly whether the document existed; errors go only to a reader who is
\* refused.
THEOREM SnapshotsAlwaysTruthful == Spec => []SnapshotsTruthful
  <1>1. ASSUME ReadInv
        PROVE  SnapshotsTruthful
    <2>1. ASSUME NEW i \in DOMAIN mainq
          PROVE  LET e == mainq[i]
                 IN  /\ e.error => denied
                     /\ e.synced => e.since <= e.doc.v /\ e.doc.v <= version
                     /\ e.synced \/ e.doc.exists => e.doc = Doc(e.doc.v)
      <3>1. mainq[i].error => denied
        BY <1>1, <2>1 DEF ReadInv, RefusedInv
      <3>2. EventOK(mainq[i], cached, floor)
        BY <1>1, <2>1 DEF ReadInv, ToldInv
      <3>3. mainq[i] \in EventType
        BY <1>1, <2>1, ElementOfSeq, LenProperties DEF ReadInv, Typed, CallsOK
      <3>4. cached.v \in Int /\ mainq[i].doc.v \in Int /\ version \in Int
        BY <1>1, <3>3, VersionAssumption DEF ReadInv, Typed, EngineOK, ConnOK, Document, EventType
      <3>5. mainq[i].doc.v <= version
        BY <1>1, <3>2, <3>4, CacheNotAhead DEF EventOK
      <3> QED BY <3>1, <3>2, <3>5 DEF EventOK
    <2> QED BY <2>1 DEF SnapshotsTruthful
  <1> QED BY <1>1, ReadCorrect, PTL
-----------------------------------------------------------------------------
(* The promise.                                                             *)

\* A call is answered with a version between its floor and what the document is
\* now, or told why not.
LEMMA AnswersKeepPromise ==
  ASSUME ReadInv, [Next]_vars, OnEvent, Head(mainq).read \notin muted
  PROVE  \E r \in Reads : Promise!Answer(r)
  <1> USE DEF ReadInv, Typed
  <1> DEFINE e == mainq[1]
  <1>1. Head(mainq) = e /\ e \in EventType /\ 1 \in DOMAIN mainq
    BY EventTail
  <1>2. /\ e.read \in Reads /\ e.error \in BOOLEAN /\ e.synced \in BOOLEAN /\ e.doc \in Document
        /\ e.doc.v \in Int /\ e.doc.exists \in BOOLEAN
    BY <1>1, VersionAssumption DEF EventType, Document
  <1>3. /\ e.read <= asked /\ answer[e.read] = NoAnswer /\ EventOK(e, cached, floor)
        /\ answer' = [answer EXCEPT ![e.read] = AnswerTo(e)]
    BY <1>1 DEF AskedInv, LastWordInv, ToldInv, OnEvent
  <1>4. UNCHANGED <<version, denied, asked, floor>>
    BY DEF OnEvent, server
  <1>5. /\ ~denied => ~e.error
        /\ denied => e.doc = Unknown /\ ~e.synced /\ ~e.doc.exists
    <2>1. Unknown.exists = FALSE
      BY DEF Unknown
    <2>2. CASE denied
      <3>1. mainq[1].doc = Unknown /\ ~mainq[1].synced
        BY <1>1, <2>2 DEF RefusedInv
      <3> QED BY <2>1, <2>2, <3>1
    <2>3. CASE ~denied
      BY <1>1, <2>3 DEF RefusedInv
    <2> QED BY <2>2, <2>3
  <1>6. e.doc.v <= version
    BY <1>2, <1>3, CacheNotAhead, VersionAssumption DEF EventOK, EngineOK, ConnOK, Document
  <1>7. floor[e.read] \in Nat /\ version \in Nat
    BY <1>2 DEF CallsOK, ConnOK
  <1>8. e.synced \/ e.doc.exists =>
          /\ ~denied /\ e.doc.v \in floor[e.read] .. version
          /\ e.doc.exists = Exists(e.doc.v)
    <2>1. e.synced \/ e.doc.exists => e.doc = Doc(e.doc.v) /\ floor[e.read] <= e.doc.v
      BY <1>3 DEF EventOK
    <2>2. Doc(e.doc.v).exists = Exists(e.doc.v)
      BY DEF Doc
    <2> QED BY <1>2, <1>5, <1>6, <1>7, <2>1, <2>2
  <1> HIDE DEF e
  <1>9. AnswerTo(e) \in Promise!Failures \cup (IF denied THEN {} ELSE Promise!Allowed(e.read))
    <2>1. CASE e.error
      BY <1>2, <1>5, <2>1 DEF AnswerTo, Promise!Failures
    <2>2. CASE ~e.error /\ e.doc.exists
      <3>1. AnswerTo(e) = [kind |-> "document", v |-> e.doc.v]
        BY <2>2 DEF AnswerTo
      <3>2. ~denied /\ e.doc.v \in {m \in floor[e.read] .. version : Promise!Exists(m)}
        BY <1>8, <2>2 DEF Exists, Promise!Exists
      <3> QED BY <3>1, <3>2 DEF Promise!Allowed
    <2>3. CASE ~e.error /\ ~e.doc.exists /\ e.synced
      <3>1. AnswerTo(e) = [kind |-> "absent", v |-> e.doc.v]
        BY <2>3 DEF AnswerTo
      <3>2. ~denied /\ e.doc.v \in {m \in floor[e.read] .. version : ~Promise!Exists(m)}
        BY <1>8, <2>3 DEF Exists, Promise!Exists
      <3> QED BY <3>1, <3>2 DEF Promise!Allowed
    <2>4. CASE ~e.error /\ ~e.doc.exists /\ ~e.synced
      BY <2>4 DEF AnswerTo, Promise!Failures
    <2> QED BY <1>2, <2>1, <2>2, <2>3, <2>4
  <1> QED BY <1>2, <1>3, <1>4, <1>9 DEF Promise!Answer, Promise!NoAnswer, NoAnswer

\* The client and its server implement ReadPromise: a call is answered once, with
\* what the document was at a version not older than what was answered before the
\* call, or with an error, and a reader who is refused learns nothing else.
THEOREM ReadsKeepPromise == Spec => KeepsReadPromise
  <1>1. Init => Promise!Init
    BY DEF Init, Promise!Init, Promise!Reads, Reads, NoAnswer, Promise!NoAnswer
  <1>2. ASSUME ReadInv, [Next]_vars
        PROVE  [Promise!Next]_Promise!vars
    <2>1. CASE GetDocument
      <3>1. UNCHANGED <<version, denied, answer>>
        BY <2>1 DEF GetDocument, server
      <3>2. PICK n \in 0 .. MaxVersion : IsNewest(n) /\ floor' = [floor EXCEPT ![asked'] = n]
        BY <2>1 DEF GetDocument
      <3>3. Promise!IsNewest(n)
        BY <3>2 DEF IsNewest, Promise!IsNewest, Reads, Promise!Reads
      <3>4. asked < MaxReads /\ asked' = asked + 1
        BY <2>1 DEF GetDocument
      <3>5. Promise!Ask
        BY <3>1, <3>2, <3>3, <3>4 DEF Promise!Ask
      <3> QED BY <3>5 DEF Promise!Next
    <2>2. CASE OnEvent /\ Head(mainq).read \notin muted
      <3>1. \E r \in Reads : Promise!Answer(r)
        BY <1>2, <2>2, AnswersKeepPromise
      <3> QED BY <3>1 DEF Promise!Next, Promise!Reads, Reads
    <2>3. CASE ServerChanges
      <3>1. Promise!Change
        BY <2>3 DEF ServerChanges, Promise!Change, calls
      <3> QED BY <3>1 DEF Promise!Next
    <2>4. CASE ~GetDocument /\ ~(OnEvent /\ Head(mainq).read \notin muted) /\ ~ServerChanges
      <3>1. UNCHANGED <<floor, asked>> /\ UNCHANGED <<version, denied>>
        BY <1>2, <2>4, FloorStands, RulesStand
      <3>2. UNCHANGED answer
        <4>1. CASE OnEvent
          BY <2>4, <4>1 DEF OnEvent
        <4>2. CASE ~OnEvent
          BY <1>2, <4>2, AnswersStand
        <4> QED BY <4>1, <4>2
      <3> QED BY <3>1, <3>2 DEF Promise!vars
    <2> QED BY <2>1, <2>2, <2>3, <2>4
  <1> QED BY <1>1, <1>2, ReadCorrect, PTL DEF Spec, KeepsReadPromise, Promise!Spec
=============================================================================
