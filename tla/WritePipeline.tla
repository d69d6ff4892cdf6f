---------------------------- MODULE WritePipeline ----------------------------
(***************************************************************************)
(* How the vendored Firestore client brings writes to the server: the      *)
(* mutation queue that leveldb keeps for each user (FSTLocalStore,         *)
(* LevelDbMutationQueue), the pipeline of RemoteStore, the write stream    *)
(* with its states (Stream, WriteStream), and a server at the other end of *)
(* a connection that can be lost.  Every handler runs on one worker queue, *)
(* so each is one action.  The network is never disabled: the application  *)
(* does not ask for it.                                                    *)
(***************************************************************************)
EXTENDS Integers, Sequences

CONSTANTS
  Users,               \* accounts, the absent one included
  MaxWrites,           \* bound on the calls of writeMutations
  kMaxPendingWrites,   \* most batches in the pipeline
  MaxFaults            \* bound on lost streams, refused tokens, user changes and crashes

ASSUME MaxWritesAssumption == MaxWrites \in Nat
ASSUME PendingAssumption == kMaxPendingWrites \in Nat \ {0}
ASSUME FaultsAssumption == MaxFaults \in Nat

VARIABLES
  running,      \* the process is up
  user,         \* FSTSyncEngine._currentUser
  disk,         \* rows of the mutations table: user, batch id, call
  nextBatchId,  \* of the current user's queue
  blocks,       \* _mutationCompletionBlocks: user, batch id, the call it answers
  pipeline,     \* write_pipeline_
  stream,       \* Stream::state_
  handshake,    \* "none", "sent", "answered" or "complete" (handshake_complete_)
  idle,         \* the idleness timer runs
  wire,         \* batches on the current connection that the server has not taken
  answers,      \* the server's answers on it that the client has not read
  strays,       \* what was on the wire of connections that are gone
  applied,      \* calls that the server has taken
  refused,      \* calls that the server has refused
  calls,        \* the user of each call of writeMutations so far
  told,         \* per call: what its completion was told
  faults        \* faults so far

phone == <<user, disk, nextBatchId, blocks>>
conn  == <<stream, handshake, idle, wire, answers, strays>>
server == <<applied, refused>>
vars == <<running, phone, pipeline, conn, server, calls, told, faults>>

Numbers == 1 .. MaxWrites
kBatchIdUnknown == -1

Init ==
  /\ running = TRUE
  /\ user \in Users
  /\ disk = {}
  /\ nextBatchId = 0
  /\ blocks = {}
  /\ pipeline = <<>>
  /\ stream = "Initial"
  /\ handshake = "none"
  /\ idle = FALSE
  /\ wire = <<>>
  /\ answers = <<>>
  /\ strays = {}
  /\ applied = {}
  /\ refused = {}
  /\ calls = <<>>
  /\ told = [n \in Numbers |-> "none"]
  /\ faults = 0
-----------------------------------------------------------------------------
(* The mutation queue.                                                      *)

RowsOf(u, rows) == {r \in rows : r.user = u}

\* Mistaken form of IsNextBatchId, for the mutation runs: each start counts from 0.
IsNextBatchIdAfresh(n, rows) == n = 0

\* LoadNextBatchIdFromDb: one more than the largest id of any user.
IsNextBatchId(n, rows) ==
  /\ \A r \in rows : r.id < n
  /\ n = 0 \/ \E r \in rows : r.id = n - 1

LoadNextBatchId ==
  \E n \in 0 .. MaxWrites : IsNextBatchId(n, disk') /\ nextBatchId' = n

\* Mistaken form of Last, for a mutation run: with an empty pipeline the search
\* starts after batch 0.
LastFromZero(p) == IF p = <<>> THEN 0 ELSE p[Len(p)].id

\* The rows that the loop of FillWritePipeline takes, one after the other, for
\* a pipeline p: those after its last batch, in the order of their ids, until
\* the pipeline is full or there is none left.
Last(p) == IF p = <<>> THEN kBatchIdUnknown ELSE p[Len(p)].id

Ascending(s) == \A i, j \in DOMAIN s : i < j => s[i].id < s[j].id

IsRefill(s, p, rows) ==
  /\ Ascending(s)
  /\ \A i \in DOMAIN s : s[i] \in rows /\ s[i].id > Last(p)
  /\ \A r \in rows : r.id > Last(p) =>
       \/ \E i \in DOMAIN s : s[i] = r
       \/ Len(p) + Len(s) = kMaxPendingWrites /\ \A i \in DOMAIN s : s[i].id < r.id

Refills(p, rows) ==
  {s \in UNION {[1 .. n -> rows] : n \in 0 .. kMaxPendingWrites - Len(p)} :
     IsRefill(s, p, rows)}
-----------------------------------------------------------------------------
(* The remote store and the write stream.                                   *)

IsStarted(state) == state \in {"Starting", "Open", "Backoff"}

\* Mistaken form of Start, for a mutation run: an error is left as it is.
StartOnlyFresh(state) == IF state = "Initial" THEN "Starting" ELSE state

\* Stream::Start: at once, or after a backoff.
Start(state) == CASE state = "Initial" -> "Starting"
                  [] state = "Error"   -> "Backoff"
                  [] OTHER             -> state

\* StartWriteStream where ShouldStartWriteStream holds.
StartIfNeeded(p, state) == IF p # <<>> THEN Start(state) ELSE state

\* FillWritePipeline for a pipeline p and the rows of the current user, on a
\* stream in the given state: what is added goes out at once when the handshake
\* is complete; with nothing to send an open stream is marked idle.
FillWritePipeline(p, rows, state) ==
  \E s \in Refills(p, rows) :
    LET sends == state = "Open" /\ handshake = "complete" /\ s # <<>>
    IN  /\ pipeline' = p \o s
        /\ stream' = StartIfNeeded(p \o s, state)
        /\ wire' = IF sends THEN wire \o s ELSE IF state = "Open" THEN wire ELSE <<>>
        /\ idle' = (state = "Open" /\ ~sends /\ (idle \/ p \o s = <<>>))

\* The connection goes: answers that were not read are lost; batches that the
\* server has not taken it may still take.
Ended == \E i \in DOMAIN answers : ~answers[i].ok

Disconnect ==
  /\ handshake' = "none"
  /\ answers' = <<>>
  /\ strays' = IF wire = <<>> \/ Ended THEN strays ELSE strays \cup {wire}

\* The completion block of a batch of the current user is called and removed.
BlocksFor(r) == {b \in blocks : b.user = user /\ b.id = r.id}

Tell(r, what) ==
  told' = [n \in Numbers |-> IF \E b \in BlocksFor(r) : b.call = n THEN what ELSE told[n]]

\* writeMutations: the batch is stored, then its block, then the pipeline
\* is filled.
Write ==
  /\ running
  /\ Len(calls) < MaxWrites
  /\ LET n    == Len(calls) + 1
         row  == [user |-> user, id |-> nextBatchId, call |-> n]
         Same(r) == r.user = user /\ r.id = nextBatchId
     IN  /\ calls' = Append(calls, user)
         /\ disk' = {r \in disk : ~Same(r)} \cup {row}
         /\ blocks' = {b \in blocks : ~Same(b)} \cup {row}
  /\ nextBatchId' = nextBatchId + 1
  /\ FillWritePipeline(pipeline, RowsOf(user, disk'), stream)
  /\ UNCHANGED <<running, user, handshake, answers, strays, server, told, faults>>

\* The token arrives: the call starts without a round trip, so the stream is
\* open at once, and OnWriteStreamOpen writes the handshake.
ResumeStartWithCredentials ==
  /\ running /\ stream = "Starting"
  /\ stream' = "Open"
  /\ handshake' = "sent"
  /\ idle' = FALSE
  /\ UNCHANGED <<running, phone, pipeline, wire, answers, strays, server, calls, told, faults>>

\* Mistaken form of OnHandshakeComplete, for a mutation run: only the first
\* batch is sent again.
OnHandshakeCompleteFirst ==
  /\ running /\ handshake = "answered"
  /\ handshake' = "complete"
  /\ wire' = wire \o SubSeq(pipeline, 1, 1)
  /\ idle' = (idle /\ pipeline = <<>>)
  /\ UNCHANGED <<running, phone, pipeline, stream, answers, strays, server, calls, told, faults>>

\* OnWriteStreamHandshakeComplete: the whole pipeline goes out.
OnHandshakeComplete ==
  /\ running /\ handshake = "answered"
  /\ handshake' = "complete"
  /\ wire' = wire \o pipeline
  /\ idle' = (idle /\ pipeline = <<>>)
  /\ UNCHANGED <<running, phone, pipeline, stream, answers, strays, server, calls, told, faults>>

\* OnWriteStreamMutationResult: the answer is taken for the first batch of the
\* pipeline; its block is called, and only then is its row removed.
OnMutationResult ==
  /\ running /\ answers # <<>> /\ Head(answers).ok
  /\ LET r == Head(pipeline)
     IN  /\ Tell(r, "ok")
         /\ blocks' = blocks \ BlocksFor(r)
         /\ disk' = disk \ {r}
  /\ answers' = Tail(answers)
  /\ FillWritePipeline(Tail(pipeline), RowsOf(user, disk'), stream)
  /\ UNCHANGED <<running, user, nextBatchId, handshake, strays, server, calls, faults>>

\* OnWriteStreamClose after a permanent error: HandleWriteError rejects the
\* first batch of the pipeline, inhibits the backoff and fills the pipeline.
HandleWriteError ==
  /\ running /\ answers # <<>> /\ ~Head(answers).ok
  /\ LET r == Head(pipeline)
     IN  /\ disk' = disk \ {r}
         /\ Tell(r, "error")
         /\ blocks' = blocks \ BlocksFor(r)
  /\ Disconnect
  /\ FillWritePipeline(Tail(pipeline), RowsOf(user, disk'), "Initial")
  /\ UNCHANGED <<running, user, nextBatchId, server, calls, faults>>

\* The stream finishes with a transient error, or the token is refused: what is
\* in the pipeline stays, for the stream that a backoff starts.
OnStreamFinish ==
  /\ running /\ stream \in {"Starting", "Open"}
  /\ faults < MaxFaults
  /\ faults' = faults + 1
  /\ Disconnect
  /\ stream' = StartIfNeeded(pipeline, "Error")
  /\ wire' = <<>>
  /\ idle' = FALSE
  /\ UNCHANGED <<running, phone, pipeline, server, calls, told>>

BackoffElapses ==
  /\ running /\ stream = "Backoff"
  /\ stream' = Start("Initial")
  /\ UNCHANGED <<running, phone, pipeline, handshake, idle, wire, answers, strays,
                 server, calls, told, faults>>

\* The idleness timer stops the stream.
IdleStop ==
  /\ running /\ idle
  /\ stream' = "Initial"
  /\ Disconnect
  /\ wire' = <<>>
  /\ idle' = FALSE
  /\ UNCHANGED <<running, phone, pipeline, server, calls, told, faults>>
-----------------------------------------------------------------------------
(* Another user, a crash, a restart.                                        *)

\* Mistaken form of Restarted, for a mutation run: what was in the pipeline of
\* the user before stays in it.
RestartedKeeping(u, state) ==
  /\ user' = u
  /\ LoadNextBatchId
  /\ FillWritePipeline(pipeline, RowsOf(u, disk'), state)

\* EnableNetwork with an empty pipeline, for the queue of user u.
Restarted(u, state) ==
  /\ user' = u
  /\ LoadNextBatchId
  /\ FillWritePipeline(<<>>, RowsOf(u, disk'), state)

\* credentialDidChangeWithUser, also for a new token of the same user: the
\* queue is swapped if the user is another, both streams are stopped and the
\* pipeline is cleared and filled again.
CredentialDidChange(u) ==
  /\ running /\ faults < MaxFaults
  /\ faults' = faults + 1
  /\ disk' = disk
  /\ Disconnect
  /\ LET state == IF IsStarted(stream) THEN "Initial" ELSE stream
     IN  IF u # user
         THEN Restarted(u, state)
         ELSE /\ FillWritePipeline(<<>>, RowsOf(u, disk), state)
              /\ UNCHANGED <<user, nextBatchId>>
  /\ UNCHANGED <<running, blocks, server, calls, told>>

\* What is in memory goes with the process.
Dies ==
  /\ running /\ faults < MaxFaults
  /\ faults' = faults + 1
  /\ running' = FALSE
  /\ blocks' = {}
  /\ pipeline' = <<>>
  /\ stream' = "Initial"
  /\ Disconnect
  /\ wire' = <<>>
  /\ idle' = FALSE
  /\ UNCHANGED <<user, nextBatchId, server, calls>>

Crash == Dies /\ UNCHANGED <<disk, told>>

\* The process ends in the middle of OnMutationResult, when the block has been
\* called and the transaction that removes the row is not committed...
CrashBeforeAcknowledge ==
  /\ answers # <<>> /\ Head(answers).ok
  /\ Dies
  /\ Tell(Head(pipeline), "ok")
  /\ UNCHANGED disk

\* ... or of HandleWriteError, when the row is gone and the block is not called.
CrashBeforeCompletion ==
  /\ answers # <<>> /\ ~Head(answers).ok
  /\ Dies
  /\ disk' = disk \ {Head(pipeline)}
  /\ UNCHANGED told

\* initializeWithUser: the queue is loaded; no block comes back.
Restart(u) ==
  /\ ~running
  /\ running' = TRUE
  /\ disk' = disk
  /\ Restarted(u, "Initial")
  /\ UNCHANGED <<blocks, handshake, answers, strays, server, calls, told, faults>>
-----------------------------------------------------------------------------
(* The server.  It takes what comes on a connection in order, ends the      *)
(* stream at a batch that it refuses, and answers a repeated batch as it    *)
(* did before.  What it had received of a connection that is gone it may    *)
(* take at any later time, or never.                                        *)

ServerShakes ==
  /\ handshake = "sent"
  /\ handshake' = "answered"
  /\ UNCHANGED <<running, phone, pipeline, stream, idle, wire, answers, strays, server,
                 calls, told, faults>>

Answer(ok) ==
  /\ wire # <<>> /\ ~Ended
  /\ answers' = Append(answers, [batch |-> Head(wire), ok |-> ok])
  /\ wire' = Tail(wire)
  /\ UNCHANGED <<running, phone, pipeline, stream, handshake, idle, strays, calls, told, faults>>

ServerTakes ==
  /\ Answer(TRUE)
  /\ Head(wire).call \notin refused
  /\ applied' = applied \cup {Head(wire).call}
  /\ UNCHANGED refused

ServerRefuses ==
  /\ Answer(FALSE)
  /\ Head(wire).call \notin applied
  /\ refused' = refused \cup {Head(wire).call}
  /\ UNCHANGED applied

ServerTakesStray ==
  \E s \in strays :
    /\ s # <<>> /\ Head(s).call \notin refused
    /\ applied' = applied \cup {Head(s).call}
    /\ strays' = (strays \ {s}) \cup ({Tail(s)} \ {<<>>})
    /\ UNCHANGED <<running, phone, pipeline, stream, handshake, idle, wire, answers,
                   refused, calls, told, faults>>
-----------------------------------------------------------------------------
Client ==
  \/ Write \/ ResumeStartWithCredentials \/ OnHandshakeComplete
  \/ OnMutationResult \/ HandleWriteError
  \/ OnStreamFinish \/ BackoffElapses \/ IdleStop
  \/ \E u \in Users : CredentialDidChange(u)

Process ==
  Crash \/ CrashBeforeAcknowledge \/ CrashBeforeCompletion \/ \E u \in Users : Restart(u)

Server == ServerShakes \/ ServerTakes \/ ServerRefuses \/ ServerTakesStray

Next == Client \/ Process \/ Server

Spec == Init /\ [][Next]_vars

\* The worker queue runs what is on it, the timers elapse, the process is
\* started again and again, and the server answers what it is sent; streams are
\* lost only as often as MaxFaults allows.
Fairness ==
  /\ WF_vars(ResumeStartWithCredentials) /\ WF_vars(BackoffElapses)
  /\ WF_vars(OnHandshakeComplete)
  /\ WF_vars(OnMutationResult) /\ WF_vars(HandleWriteError)
  /\ WF_vars(\E u \in Users : Restart(u))
  /\ WF_vars(ServerShakes) /\ WF_vars(ServerTakes \/ ServerRefuses)

FairSpec == Spec /\ Fairness
-----------------------------------------------------------------------------
Row == [user : Users, id : Int, call : Numbers]
States == {"Initial", "Starting", "Open", "Backoff", "Error"}

\* The shape of the state.
TypeOK ==
  /\ running \in BOOLEAN
  /\ user \in Users
  /\ disk \in SUBSET Row
  /\ nextBatchId \in Nat
  /\ blocks \in SUBSET Row
  /\ pipeline \in Seq(Row)
  /\ stream \in States
  /\ handshake \in {"none", "sent", "answered", "complete"}
  /\ idle \in BOOLEAN
  /\ wire \in Seq(Row)
  /\ answers \in Seq([batch : Row, ok : BOOLEAN])
  /\ strays \in SUBSET Seq(Row)
  /\ applied \in SUBSET Numbers
  /\ refused \in SUBSET Numbers
  /\ calls \in Seq(Users)
  /\ Len(calls) <= MaxWrites
  /\ told \in [Numbers -> {"none", "ok", "error"}]
  /\ faults \in 0 .. MaxFaults

\* "correlated to the first write in our write pipeline" and "Got result for
\* empty write pipeline": the answers that come and the batches that are on the
\* wire are, in order, the batches of the pipeline, across refills, refusals
\* and new streams; so an answer is never taken for another batch's.
AnswersMatch ==
  /\ Len(answers) + Len(wire) <= Len(pipeline)
  /\ \A i \in DOMAIN answers : answers[i].batch = pipeline[i]
  /\ \A i \in DOMAIN wire : wire[i] = pipeline[Len(answers) + i]

\* "Write stream was stopped gracefully while still needed" never fails: the
\* idleness timer runs only on a stream with its handshake behind it and
\* nothing to send.
IdleMeansNothingToSend ==
  idle => stream = "Open" /\ handshake = "complete" /\ pipeline = <<>> /\ wire = <<>>

\* What the pipeline holds is the beginning of the current user's queue: no
\* batch of another user is sent, and none is passed over.
PipelineIsHeadOfQueue ==
  /\ Ascending(pipeline)
  /\ \A i \in DOMAIN pipeline : pipeline[i] \in RowsOf(user, disk)
  /\ running => \A r \in RowsOf(user, disk) :
       \/ \E i \in DOMAIN pipeline : pipeline[i] = r
       \/ Len(pipeline) = kMaxPendingWrites /\ r.id > Last(pipeline)

\* A completion told of success is that of a call that the server has taken, one
\* told of an error that of a call it has refused; a completion that is still to
\* be called belongs to a batch that is still on disk, of the same call.
CompletionsTruthful ==
  /\ \A n \in Numbers : /\ told[n] = "ok" => n \in applied
                        /\ told[n] = "error" => n \in refused
  /\ blocks \subseteq disk
  /\ \A b \in blocks : told[b.call] = "none"

\* The server takes the calls of one user in the order they were made, leaving
\* out those it refuses, though batches are sent again after lost streams,
\* crashes and changes of user, and old connections deliver late.
AppliedInOrder ==
  \A m, n \in DOMAIN calls :
    m < n /\ calls[m] = calls[n] /\ n \in applied \cup refused => m \in applied \cup refused

\* Inductive strengthening of the invariants above.  The connection goes with
\* the stream; what the answers say is so...
StreamInv ==
  /\ ~running => pipeline = <<>> /\ stream = "Initial" /\ blocks = {}
  /\ handshake # "none" <=> stream = "Open"
  /\ handshake # "complete" => wire = <<>> /\ answers = <<>>
  /\ handshake = "complete" => Len(answers) + Len(wire) = Len(pipeline)
  /\ \A i \in DOMAIN answers :
       /\ answers[i].ok => answers[i].batch.call \in applied
       /\ ~answers[i].ok => answers[i].batch.call \in refused /\ i = Len(answers)

\* ... a user's rows are in the order of the calls, each call has one, and a call
\* without a row has its verdict...
QueueInv ==
  /\ \A r \in disk :
       /\ r.id \in 0 .. nextBatchId - 1
       /\ r.call \in DOMAIN calls /\ calls[r.call] = r.user
  /\ \A q, r \in disk :
       /\ q.call = r.call => q = r
       /\ q.user = r.user /\ q.id = r.id => q = r
       /\ q.user = r.user /\ q.id < r.id => q.call < r.call
  /\ applied \cup refused \subseteq DOMAIN calls
  /\ applied \cap refused = {}
  /\ \A n \in DOMAIN calls :
       n \in applied \/ n \in refused \/ \E r \in disk : r.call = n

\* ... and a connection that is gone holds every call before one that it holds,
\* unless that has its verdict.
StraysInv ==
  \A s \in strays : \A i \in DOMAIN s :
    /\ s[i].call \in DOMAIN calls
    /\ \A m \in DOMAIN calls :
         m < s[i].call /\ calls[m] = calls[s[i].call] =>
           \/ m \in applied \cup refused
           \/ \E j \in DOMAIN s : j < i /\ s[j].call = m

PipelineInv ==
  /\ TypeOK /\ StreamInv /\ QueueInv /\ StraysInv
  /\ AnswersMatch /\ IdleMeansNothingToSend /\ PipelineIsHeadOfQueue
  /\ CompletionsTruthful /\ AppliedInOrder

\* The client with its server keeps the promise of DurableWrites.
Promise == INSTANCE DurableWrites WITH pending <- {r.call : r \in disk}
KeepsPromise == Promise!Spec

\* A write is settled in the end, unless its user is no longer signed in.
EventuallySettled ==
  \A n \in Numbers :
    (\E r \in disk : r.call = n) ~>
      ((\A r \in disk : r.call # n) \/ calls[n] # user)
=============================================================================
