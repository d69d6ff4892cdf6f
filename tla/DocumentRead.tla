---------------------------- MODULE DocumentRead ----------------------------
(***************************************************************************)
(* How the vendored Firestore client answers getDocument: a listener that  *)
(* is removed at its first event (DocumentReference, AsyncEventListener),  *)
(* listeners of the same query sharing one listen (EventManager, FSTView), *)
(* the watch stream and its aggregator (RemoteStore, Stream,               *)
(* WatchChangeAggregator), the guess whether the phone is online           *)
(* (OnlineStateTracker), the cache (FSTLocalStore), and a server at the    *)
(* other end of a connection that can be lost.  All reads are of one       *)
(* document.  What runs on the worker queue or on the main queue is one    *)
(* action.                                                                 *)
(***************************************************************************)
EXTENDS Integers, Sequences

CONSTANTS
  MaxReads,    \* bound on the calls of getDocument
  MaxVersion,  \* bound on the changes of the document on the server
  MaxFaults    \* bound on lost streams, refused tokens and changes of credentials

ASSUME ReadsAssumption == MaxReads \in Nat
ASSUME VersionAssumption == MaxVersion \in Nat
ASSUME FaultsAssumption == MaxFaults \in Nat

VARIABLES
  asked,      \* calls so far
  answer,     \* per call: what its completion was given
  workerq,    \* what the calls have put on the worker queue: listens and removals
  mainq,      \* events on the main queue: the call and the snapshot, or the error
  muted,      \* calls whose listener is muted
  listeners,  \* of the query in EventManager; the query is listened to while it has one
  raised,     \* calls whose listener has raised its initial event
  view,       \* FSTView: the document, isCurrent; and the version when it was made
  cached,     \* the document in the remote document cache
  synced,     \* the document is among the remote keys of the target
  online, failures, timer,   \* state_, watch_stream_failures_, online_state_timer_
  stream,     \* Stream::state_
  idle,       \* the idleness timer runs
  target,     \* TargetState: outstanding_responses_, current_
  update,     \* pending_document_updates_: a version or NoVersion
  requests,   \* sent on the connection and not read by the server
  responses,  \* sent by the server and not read by the client
  serving,    \* NotServed, or the last version the server has sent to the target
  version,    \* of the document on the server: it exists at the odd ones
  denied,     \* the server refuses the reader
  floor,      \* per call: the newest version that had been answered before it
  faults      \* faults so far

calls == <<asked, answer, floor, workerq, mainq, muted>>
engine == <<listeners, raised, view, cached, synced>>
tracker == <<online, failures, timer>>
conn == <<requests, responses, serving>>
watch == <<stream, idle, target, update>>
server == <<version, denied>>
vars == <<calls, engine, tracker, conn, watch, server, faults>>

Reads == 1 .. MaxReads
NoVersion == -1
NotServed == -1
Exists(v) == v % 2 = 1
Unknown == [v |-> NoVersion, exists |-> FALSE]
Doc(n) == [v |-> n, exists |-> Exists(n)]
NoAnswer == [kind |-> "none", v |-> 0]
Fresh == [pending |-> 0, current |-> FALSE]

Init ==
  /\ asked = 0
  /\ answer = [r \in Reads |-> NoAnswer]
  /\ floor = [r \in Reads |-> 0]
  /\ workerq = <<>> /\ mainq = <<>>
  /\ muted = {}
  /\ listeners = <<>> /\ raised = {}
  /\ view = [doc |-> Unknown, current |-> FALSE, since |-> 0]
  /\ cached = Unknown
  /\ synced = FALSE
  /\ online = "Unknown" /\ failures = 0 /\ timer = FALSE
  /\ stream = "Initial" /\ idle = FALSE
  /\ target = Fresh /\ update = NoVersion
  /\ requests = <<>> /\ responses = <<>> /\ serving = NotServed
  /\ version = 0
  /\ denied \in BOOLEAN
  /\ faults = 0
-----------------------------------------------------------------------------
(* Events.                                                                  *)

Listened == listeners # <<>>

Event(r, w) == [read |-> r, error |-> FALSE, doc |-> w.doc, synced |-> w.current, since |-> w.since]
Failure(r) == [read |-> r, error |-> TRUE, doc |-> Unknown, synced |-> FALSE, since |-> 0]

\* QueryListener: the initial event waits for a synced snapshot unless the
\* client is offline (wait_for_sync_when_online); later ones do not.
ShouldRaise(r, w, state) == r \in raised \/ w.current \/ state = "Offline"

\* The listeners of s that are in S, in their order.
Among(s, S) ==
  LET upTo[i \in 0 .. Len(s)] ==
        IF i = 0 THEN <<>> ELSE IF s[i] \in S THEN Append(upTo[i - 1], s[i]) ELSE upTo[i - 1]
  IN  upTo[Len(s)]

\* A snapshot goes to the given listeners of the query, in their order.
Emit(who, w) ==
  /\ mainq' = mainq \o [i \in DOMAIN who |-> Event(who[i], w)]
  /\ raised' = raised \cup {who[i] : i \in DOMAIN who}

Silent == UNCHANGED <<mainq, raised>>

\* SetAndBroadcast(Offline): the view is no longer current, which those that had
\* a synced snapshot are told; then the listeners that wait are given the cache.
GoOffline ==
  /\ online' = "Offline"
  /\ IF online = "Offline"
     THEN Silent /\ UNCHANGED view
     ELSE LET w    == [view EXCEPT !.current = FALSE]
              Told == {r \in Reads : view.current \/ r \notin raised}
          IN  Emit(Among(listeners, Told), w) /\ view' = w

\* UpdateState, to a state that is not Offline.
UpdateState(state) ==
  /\ online' = state
  /\ failures' = 0
  /\ timer' = FALSE

\* HandleWatchStreamStart where no attempt has failed.
HandleWatchStreamStart ==
  IF failures # 0
  THEN UNCHANGED tracker
  ELSE online' = "Unknown" /\ timer' = TRUE /\ UNCHANGED failures

\* Mistaken form of HandleWatchStreamFailure, for a mutation run: the timer runs on.
HandleWatchStreamFailureTimed ==
  IF online = "Online"
  THEN online' = "Unknown" /\ timer' = TRUE /\ UNCHANGED <<failures, mainq, raised, view>>
  ELSE failures' = failures + 1 /\ UNCHANGED timer /\ GoOffline

\* HandleWatchStreamFailure, kMaxWatchStreamFailures being 1, and the
\* HandleWatchStreamStart that follows it.
HandleWatchStreamFailure ==
  IF online = "Online"
  THEN online' = "Unknown" /\ timer' = TRUE /\ UNCHANGED <<failures, mainq, raised, view>>
  ELSE failures' = failures + 1 /\ timer' = FALSE /\ GoOffline
-----------------------------------------------------------------------------
(* The application and its main queue.                                      *)

IsNewest(n) ==
  /\ \A r \in Reads : answer[r].v <= n
  /\ n = 0 \/ \E r \in Reads : answer[r].v = n

\* getDocument: a listener is made and its listen goes to the worker queue.
GetDocument ==
  /\ asked < MaxReads
  /\ asked' = asked + 1
  /\ \E n \in 0 .. MaxVersion : IsNewest(n) /\ floor' = [floor EXCEPT ![asked'] = n]
  /\ workerq' = Append(workerq, [op |-> "listen", read |-> asked'])
  /\ UNCHANGED <<answer, mainq, muted, engine, tracker, conn, watch, server, faults>>

\* What ListenOnce makes of a snapshot or an error.
AnswerTo(e) ==
  CASE e.error                       -> [kind |-> "refused", v |-> 0]
    [] ~e.error /\ e.doc.exists      -> [kind |-> "document", v |-> e.doc.v]
    [] ~e.error /\ ~e.doc.exists /\ e.synced  -> [kind |-> "absent", v |-> e.doc.v]
    [] ~e.error /\ ~e.doc.exists /\ ~e.synced -> [kind |-> "unavailable", v |-> 0]

\* Mistaken form of Remove, for a mutation run: the listener is not muted.
RemoveUnmuted(r) ==
  /\ workerq' = Append(workerq, [op |-> "remove", read |-> r])
  /\ UNCHANGED muted

\* ListenerRegistration::Remove.
Remove(r) ==
  /\ muted' = muted \cup {r}
  /\ workerq' = Append(workerq, [op |-> "remove", read |-> r])

\* An event of a listener that is not muted reaches ListenOnce: it is removed,
\* unless the event is an error, and the completion is called.
OnEvent ==
  /\ mainq # <<>>
  /\ mainq' = Tail(mainq)
  /\ LET e == Head(mainq)
     IN  IF e.read \in muted
         THEN UNCHANGED <<answer, muted, workerq>>
         ELSE /\ answer' = [answer EXCEPT ![e.read] = AnswerTo(e)]
              /\ IF e.error THEN UNCHANGED <<muted, workerq>> ELSE Remove(e.read)
  /\ UNCHANGED <<asked, floor, engine, tracker, conn, watch, server, faults>>
-----------------------------------------------------------------------------
(* The remote store and the watch stream.                                   *)

IsStarted == stream \in {"Starting", "Open", "Backoff"}

\* Stream::Start: at once, or after a backoff.
Start(state) == IF state = "Error" THEN "Backoff" ELSE "Starting"

\* Mistaken form of RecordPendingTargetRequest, for a mutation run: nothing is
\* awaited.
RecordPendingTargetRequestNot(t) == t

RecordPendingTargetRequest(t) == [t EXCEPT !.pending = @ + 1]

\* A request goes out on the open stream, which is idle only after the end of
\* the one watch.
Send(what) ==
  /\ requests' = Append(requests, what)
  /\ target' = RecordPendingTargetRequest(target)
  /\ idle' = (what = "unwatch")
  /\ UNCHANGED <<responses, serving>>

\* The connection goes with all that is on it, and the aggregator with it.
CleanUpWatchStreamState ==
  /\ requests' = <<>> /\ responses' = <<>> /\ serving' = NotServed
  /\ target' = Fresh /\ update' = NoVersion
  /\ idle' = FALSE

IsListen == workerq # <<>> /\ Head(workerq).op = "listen"
IsRemoval == workerq # <<>> /\ Head(workerq).op = "remove"

\* Mistaken form of JoinListeners, for a mutation run: the snapshot that is there
\* is not given.
JoinListenersSilently ==
  /\ IsListen /\ Listened
  /\ listeners' = Append(listeners, Head(workerq).read)
  /\ Silent
  /\ workerq' = Tail(workerq)
  /\ UNCHANGED <<asked, answer, floor, muted, view, cached, synced, tracker, conn, watch,
                 server, faults>>

\* AddQueryListener for a query that is listened to: the listener is given the
\* last snapshot at once.
JoinListeners ==
  /\ IsListen /\ Listened
  /\ LET r == Head(workerq).read
     IN  /\ listeners' = Append(listeners, r)
         /\ IF ShouldRaise(r, view, online) THEN Emit(<<r>>, view) ELSE Silent
  /\ workerq' = Tail(workerq)
  /\ UNCHANGED <<asked, answer, floor, muted, view, cached, synced, tracker, conn, watch,
                 server, faults>>

\* RemoteStore::Listen: the stream is started, or the watch is sent, or, while
\* the stream is starting, it waits for OnWatchStreamOpen.
Listen ==
  \/ /\ ~IsStarted
     /\ stream' = Start(stream)
     /\ HandleWatchStreamStart
     /\ target' = Fresh /\ update' = NoVersion
     /\ UNCHANGED <<idle, conn>>
  \/ /\ stream = "Open"
     /\ Send("watch")
     /\ UNCHANGED <<stream, update, tracker>>
  \/ /\ stream \in {"Starting", "Backoff"}
     /\ UNCHANGED <<watch, conn, tracker>>

\* AddQueryListener for the first listener: listenToQuery makes a view of what
\* is cached and starts the listen.
FirstListener ==
  /\ IsListen /\ ~Listened
  /\ LET r == Head(workerq).read
         w == [doc |-> cached, current |-> FALSE, since |-> version]
     IN  /\ listeners' = <<r>>
         /\ view' = w
         /\ IF ShouldRaise(r, w, online) THEN Emit(<<r>>, w) ELSE Silent
  /\ Listen
  /\ workerq' = Tail(workerq)
  /\ UNCHANGED <<asked, answer, floor, muted, cached, synced, server, faults>>

\* RemoteStore::StopListening of the only target.
StopListening ==
  \/ /\ stream = "Open"
     /\ Send("unwatch")
     /\ UNCHANGED <<stream, update, tracker>>
  \/ /\ stream # "Open"
     /\ UpdateState("Unknown")
     /\ UNCHANGED <<watch, conn>>

\* RemoveQueryListener: with the last listener the listen is stopped; a
\* listener that an error has removed is not found.
RemoveQueryListener ==
  /\ IsRemoval
  /\ \/ /\ Listened
        /\ listeners' = Among(listeners, Reads \ {Head(workerq).read})
        /\ IF listeners' = <<>> THEN StopListening ELSE UNCHANGED <<watch, conn, tracker>>
     \/ ~Listened /\ UNCHANGED <<listeners, watch, conn, tracker>>
  /\ workerq' = Tail(workerq)
  /\ UNCHANGED <<asked, answer, floor, mainq, muted, raised, view, cached, synced, server, faults>>

\* The token arrives: the call starts without a round trip, so the stream is
\* open at once, and OnWatchStreamOpen restores the watch.
ResumeStartWithCredentials ==
  /\ stream = "Starting"
  /\ stream' = "Open"
  /\ IF Listened THEN Send("watch") ELSE UNCHANGED <<conn, target, idle>>
  /\ UNCHANGED <<calls, engine, tracker, update, server, faults>>

\* The stream finishes with an error, or the token is refused: OnWatchStreamClose
\* tries again as long as the query is listened to.
OnWatchStreamClose ==
  /\ stream \in {"Starting", "Open"}
  /\ faults < MaxFaults
  /\ faults' = faults + 1
  /\ CleanUpWatchStreamState
  /\ \/ Listened /\ HandleWatchStreamFailure /\ stream' = Start("Error")
     \/ ~Listened /\ UpdateState("Unknown") /\ stream' = "Error" /\ Silent /\ UNCHANGED view
  /\ UNCHANGED <<asked, answer, floor, workerq, muted, listeners, cached, synced, server>>

BackoffElapses ==
  /\ stream = "Backoff"
  /\ stream' = Start("Initial")
  /\ UNCHANGED <<calls, engine, tracker, conn, idle, target, update, server, faults>>

OnlineStateTimeout ==
  /\ timer
  /\ timer' = FALSE
  /\ GoOffline
  /\ UNCHANGED <<asked, answer, floor, workerq, muted, listeners, cached, synced, failures,
                 conn, watch, server, faults>>

\* The idleness timer stops the stream.
IdleTimeout ==
  /\ idle
  /\ stream' = "Initial"
  /\ CleanUpWatchStreamState
  /\ UpdateState("Unknown")
  /\ UNCHANGED <<calls, engine, server, faults>>

\* HandleCredentialChange, for a new token or another user: the stream is
\* stopped and, if the query is listened to, started again.
HandleCredentialChange ==
  /\ faults < MaxFaults
  /\ faults' = faults + 1
  /\ CleanUpWatchStreamState
  /\ LET state == IF IsStarted THEN "Initial" ELSE stream
     IN  stream' = IF Listened THEN Start(state) ELSE state
  /\ online' = "Unknown" /\ failures' = 0 /\ timer' = Listened
  /\ UNCHANGED <<calls, engine, server>>
-----------------------------------------------------------------------------
(* Messages of the server.                                                  *)

\* Mistaken form of IsActive, for a mutation run: no answer is awaited.
IsActiveAtOnce == Listened

\* QueryDataForActiveTarget: a target that awaits an answer is not active.
IsActive == Listened /\ target.pending = 0

\* A message is read: the connection is Online.
OnWatchStreamChange(type) ==
  /\ responses # <<>> /\ Head(responses).type = type
  /\ responses' = Tail(responses)
  /\ UpdateState("Online")
  /\ UNCHANGED <<asked, answer, floor, workerq, muted, stream, idle, requests, serving,
                 server, faults>>

OnTargetAdded ==
  /\ OnWatchStreamChange("added")
  /\ target' = [target EXCEPT !.pending = @ - 1]
  /\ UNCHANGED <<mainq, engine, update>>

OnTargetRemoved ==
  /\ OnWatchStreamChange("removed")
  /\ target' = IF target.pending = 1 THEN Fresh ELSE [target EXCEPT !.pending = @ - 1]
  /\ UNCHANGED <<mainq, engine, update>>

OnTargetCurrent ==
  /\ OnWatchStreamChange("current")
  /\ target' = IF IsActive THEN [target EXCEPT !.current = TRUE] ELSE target
  /\ UNCHANGED <<mainq, engine, update>>

OnDocument ==
  /\ OnWatchStreamChange("doc")
  /\ update' = IF IsActive THEN Head(responses).v ELSE update
  /\ UNCHANGED <<mainq, engine, target>>

\* CreateRemoteEvent: a document query that is current and has no document says
\* that there is none.
RemoteUpdate(s) ==
  CASE update # NoVersion -> Doc(update)
    [] update = NoVersion /\ IsActive /\ target.current /\ ~synced -> [v |-> s, exists |-> FALSE]
    [] OTHER -> cached

\* RaiseWatchSnapshot: what is pending goes to the cache, also when the target
\* is not active; the view of an active one follows.
OnSnapshot ==
  /\ OnWatchStreamChange("snapshot")
  /\ LET s == Head(responses).v
         d == RemoteUpdate(s)
         w == [view EXCEPT !.doc = d, !.current = IF IsActive THEN target.current ELSE @]
         Told == {r \in Reads : ShouldRaise(r, w, "Online")}
     IN  /\ cached' = d
         /\ synced' = IF IsActive THEN d.exists ELSE synced
         /\ IF Listened
            THEN /\ view' = w
                 /\ IF w.current # view.current \/ (d # view.doc /\ (d.exists \/ view.doc.exists))
                    THEN Emit(Among(listeners, Told), w)
                    ELSE Silent
            ELSE Silent /\ UNCHANGED view
  /\ update' = NoVersion
  /\ UNCHANGED <<listeners, target>>

\* ProcessTargetError: all listeners are told and gone, and the target with them.
OnTargetError ==
  /\ OnWatchStreamChange("error")
  /\ IF Listened
     THEN /\ mainq' = mainq \o [i \in DOMAIN listeners |-> Failure(listeners[i])]
          /\ listeners' = <<>>
          /\ target' = Fresh
     ELSE UNCHANGED <<mainq, listeners, target>>
  /\ UNCHANGED <<raised, view, cached, synced, update>>
-----------------------------------------------------------------------------
(* The server.                                                              *)

Message(type, n) == [type |-> type, v |-> n]
Documents == IF version > 0 THEN <<Message("doc", version)>> ELSE <<>>

\* The document changes: it is made, deleted, made again...
ServerChanges ==
  /\ version < MaxVersion
  /\ version' = version + 1
  /\ UNCHANGED <<calls, engine, tracker, conn, watch, denied, faults>>

\* A watch is answered with the document as it is, or refused; the end of a
\* watch that is served is acknowledged.
ServerReads ==
  /\ requests # <<>>
  /\ requests' = Tail(requests)
  /\ LET watched == Head(requests) = "watch"
     IN  /\ serving' = IF watched /\ ~denied THEN version ELSE NotServed
         /\ responses' = responses \o
              CASE watched /\ denied  -> <<Message("error", 0)>>
                [] watched /\ ~denied ->
                     <<Message("added", 0)>> \o Documents
                       \o <<Message("current", 0), Message("snapshot", version)>>
                [] ~watched /\ serving # NotServed -> <<Message("removed", 0)>>
                [] ~watched /\ serving = NotServed -> <<>>
  /\ UNCHANGED <<calls, engine, tracker, watch, server, faults>>

\* A target that is served hears of a change.
ServerNotifies ==
  /\ serving # NotServed /\ serving < version
  /\ serving' = version
  /\ responses' = responses \o Documents \o <<Message("snapshot", version)>>
  /\ UNCHANGED <<calls, engine, tracker, requests, watch, server, faults>>
-----------------------------------------------------------------------------
Messages ==
  OnTargetAdded \/ OnTargetRemoved \/ OnTargetCurrent \/ OnDocument \/ OnSnapshot \/ OnTargetError

WorkerQueue == JoinListeners \/ FirstListener \/ RemoveQueryListener

Timers == BackoffElapses \/ OnlineStateTimeout \/ IdleTimeout

Connection == ResumeStartWithCredentials \/ OnWatchStreamClose \/ HandleCredentialChange

Server == ServerChanges \/ ServerReads \/ ServerNotifies

Next ==
  \/ GetDocument \/ OnEvent
  \/ WorkerQueue \/ Timers \/ Connection \/ Messages \/ Server

Spec == Init /\ [][Next]_vars

\* The phone does what is its own to do: it runs what is on its queues, reads
\* what has come, gets a token, and its timers elapse.
PhoneFairness ==
  /\ WF_vars(OnEvent) /\ WF_vars(WorkerQueue) /\ WF_vars(Messages)
  /\ WF_vars(BackoffElapses) /\ WF_vars(OnlineStateTimeout)
  /\ WF_vars(ResumeStartWithCredentials)

\* The phone alone: the server need not answer.
PhoneSpec == Spec /\ PhoneFairness

\* And with a server that reads what is sent to it; the connection is lost only
\* as often as MaxFaults allows.
FairSpec == PhoneSpec /\ WF_vars(ServerReads)
-----------------------------------------------------------------------------
Document == [v : -1 .. MaxVersion, exists : BOOLEAN]

\* The shape of the state.
TypeOK ==
  /\ asked \in 0 .. MaxReads
  /\ answer \in [Reads -> [kind : {"none", "document", "absent", "unavailable", "refused"},
                           v : 0 .. MaxVersion]]
  /\ floor \in [Reads -> 0 .. MaxVersion]
  /\ workerq \in Seq([op : {"listen", "remove"}, read : Reads])
  /\ mainq \in Seq([read : Reads, error : BOOLEAN, doc : Document, synced : BOOLEAN,
                    since : 0 .. MaxVersion])
  /\ muted \in SUBSET Reads
  /\ listeners \in Seq(Reads)
  /\ raised \in SUBSET Reads
  /\ view \in [doc : Document, current : BOOLEAN, since : 0 .. MaxVersion]
  /\ cached \in Document
  /\ synced \in BOOLEAN
  /\ online \in {"Unknown", "Online", "Offline"}
  /\ failures \in 0 .. MaxFaults
  /\ timer \in BOOLEAN
  /\ stream \in {"Initial", "Starting", "Open", "Backoff", "Error"}
  /\ idle \in BOOLEAN
  /\ target \in [pending : Nat, current : BOOLEAN]
  /\ update \in -1 .. MaxVersion
  /\ requests \in Seq({"watch", "unwatch"})
  /\ responses \in Seq([type : {"added", "removed", "doc", "current", "snapshot", "error"},
                        v : 0 .. MaxVersion])
  /\ serving \in -1 .. MaxVersion
  /\ version \in 0 .. MaxVersion
  /\ denied \in BOOLEAN
  /\ faults \in 0 .. MaxFaults

\* The hard assertions of OnlineStateTracker, "online_state_timer_ shouldn't be
\* started yet", "watch_stream_failures_ must be 0" and "Timer should be canceled
\* if we transitioned to a different state", never fail, whatever becomes of the
\* stream and its listeners meanwhile.
TrackerConsistent ==
  /\ timer => online = "Unknown" /\ failures = 0 /\ IsStarted
  /\ online = "Online" => failures = 0 /\ stream = "Open"
  /\ online = "Offline" => IsStarted
  /\ failures # 0 => online = "Offline"

\* "Watch stream was stopped gracefully while still needed" never fails.
IdleMeansNotListened == idle => stream = "Open" /\ ~Listened

\* A snapshot that is said to be synced is one the server gave for this listen,
\* not a late message of an earlier one: it is as new as the document was when
\* the listen began, and says truly whether the document existed.
SnapshotsTruthful ==
  \A i \in DOMAIN mainq :
    LET e == mainq[i]
    IN  /\ e.error => denied
        /\ e.synced => e.since <= e.doc.v /\ e.doc.v <= version
        /\ e.synced \/ e.doc.exists => e.doc = Doc(e.doc.v)

\* Every call is answered in the end, from the server or, when that takes too
\* long, from the cache.
EventuallyAnswered == \A r \in Reads : asked >= r ~> answer[r] # NoAnswer

\* The client with its server keeps the promise of ReadPromise.
Promise == INSTANCE ReadPromise
KeepsReadPromise == Promise!Spec

\* "We have a timeout for OnlineState to reach Online or Offline": a client that
\* is listening does not stay in Unknown.
UnknownEnds == (Listened /\ online = "Unknown") ~> (~Listened \/ online # "Unknown")
=============================================================================
