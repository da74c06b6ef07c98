-------------------------------- MODULE LiveFeed --------------------------------
(***************************************************************************)
(* The live feed of the dashboard: SQLiteEventHandler (core/logger.py)     *)
(* writes a business event to the `logs` table and publishes it on         *)
(* event_bus, where every open /api/events stream (web/routes/api.py) has  *)
(* a bounded queue of its own.  A stream waits for its queue in a thread   *)
(* of the event loop's executor, at most two seconds at a time.            *)
(*                                                                         *)
(* logging.Handler runs emit under the handler's lock.  What is between    *)
(* two acquisitions of a lock, two awaits or two queue operations is one   *)
(* step.                                                                   *)
(***************************************************************************)
EXTENDS Integers, Sequences, SequencesExt, FiniteSets

CONSTANTS
    Threads,      \* threads that log business events
    Connections,  \* /api/events streams of browsers
    QueueSize,    \* maxsize of a subscriber's queue
    Workers,      \* threads of the executor
    MaxEvents     \* events logged

ASSUME LiveFeedAssumption ==
    /\ QueueSize \in Nat \ {0}
    /\ Workers \in Nat \ {0}
    /\ MaxEvents \in Nat
    /\ IsFiniteSet(Connections)

VARIABLES
    handled,      \* number of events that reached the handler
    logs,         \* events recorded in the logs table, oldest first
                  \* (deleting old rows takes nothing from a stream)
    emit,         \* what each thread does in the handler
    subscribers,  \* event_bus._subscribers
    queue,        \* the queue of each stream
    stream,       \* where each stream is, and the item it holds
    connected,    \* streams whose browser is still there
    jobs,         \* executor: waiting calls of _get_with_timeout
    running,      \* executor: calls of _get_with_timeout under way
    should_exit,  \* uvicorn was asked to stop
    received,     \* history: what the browser of each stream got
    since,        \* history: rows of logs that no stream opened then has to show
    full          \* history: streams that lost an event to a full queue

logVars    == <<handled, logs, emit>>
busVars    == <<subscribers, queue>>
streamVars == <<stream, connected, received, since>>
poolVars   == <<jobs, running>>
vars       == <<logVars, busVars, streamVars, poolVars, should_exit, full>>

Events == 1 .. MaxEvents
NoItem == 0

Idle   == [pc |-> "idle", event |-> NoItem, todo |-> {}]
Closed == [pc |-> "closed", item |-> NoItem]

Init ==
    /\ handled = 0 /\ logs = <<>>
    /\ emit = [t \in Threads |-> Idle]
    /\ subscribers = {}
    /\ queue = [c \in Connections |-> <<>>]
    /\ stream = [c \in Connections |-> Closed]
    /\ connected = {}
    /\ jobs = <<>> /\ running = {}
    /\ should_exit = FALSE
    /\ received = [c \in Connections |-> <<>>]
    /\ since = [c \in Connections |-> 0]
    /\ full = {}

-------------------------------------------------------------------------------
(* SQLiteEventHandler.emit and event_bus.publish *)

\* Mistake: a handler without its lock.
HandleUnlocked(t) ==
    /\ emit[t] = Idle
    /\ handled < MaxEvents
    /\ handled' = handled + 1
    /\ emit' = [emit EXCEPT ![t] = [Idle EXCEPT !.pc = "record", !.event = handled + 1]]
    /\ UNCHANGED <<logs, busVars, streamVars, poolVars, should_exit, full>>

\* Handler.handle: one thread at a time is in emit.
Handle(t) ==
    /\ \A u \in Threads : emit[u] = Idle
    /\ handled < MaxEvents
    /\ handled' = handled + 1
    /\ emit' = [emit EXCEPT ![t] = [Idle EXCEPT !.pc = "record", !.event = handled + 1]]
    /\ UNCHANGED <<logs, busVars, streamVars, poolVars, should_exit, full>>

\* record_log; when the database refuses, the exception ends emit silently.
Record(t) ==
    /\ emit[t].pc = "record"
    /\ \/ /\ logs' = Append(logs, emit[t].event)
          /\ emit' = [emit EXCEPT ![t].pc = "publish"]
       \/ /\ emit' = [emit EXCEPT ![t] = Idle]
          /\ UNCHANGED logs
    /\ UNCHANGED <<handled, busVars, streamVars, poolVars, should_exit, full>>

\* publish copies the list of subscribers, under the bus's lock.
Publish(t) ==
    /\ emit[t].pc = "publish"
    /\ emit' = [emit EXCEPT ![t].pc = "deliver", ![t].todo = subscribers]
    /\ UNCHANGED <<handled, logs, busVars, streamVars, poolVars, should_exit, full>>

Put(c, e) == queue' = [queue EXCEPT ![c] = Append(@, e)]

\* Mistake: a queue without a bound.
DeliverUnbounded(t) ==
    /\ emit[t].pc = "deliver"
    /\ \E c \in emit[t].todo :
          /\ emit' = [emit EXCEPT ![t].todo = @ \ {c}]
          /\ IF c \in subscribers THEN Put(c, emit[t].event) ELSE UNCHANGED queue
    /\ UNCHANGED <<handled, logs, subscribers, streamVars, poolVars, should_exit, full>>

\* put_nowait to the next queue of the copied list; a full queue loses the event.
\* The queue of a stream that has left meanwhile is nobody's any more.
Deliver(t) ==
    /\ emit[t].pc = "deliver"
    /\ \E c \in emit[t].todo :
          /\ emit' = [emit EXCEPT ![t].todo = @ \ {c}]
          /\ IF c \notin subscribers THEN UNCHANGED <<queue, full>>
             ELSE IF Len(queue[c]) < QueueSize
                    THEN Put(c, emit[t].event) /\ UNCHANGED full
                    ELSE full' = full \cup {c} /\ UNCHANGED queue
    /\ UNCHANGED <<handled, logs, subscribers, streamVars, poolVars, should_exit>>

\* emit is over; the handler's lock is free.
Emitted(t) ==
    /\ emit[t].pc = "deliver" /\ emit[t].todo = {}
    /\ emit' = [emit EXCEPT ![t] = Idle]
    /\ UNCHANGED <<handled, logs, busVars, streamVars, poolVars, should_exit, full>>

Emit(t) == Handle(t) \/ Record(t) \/ Publish(t) \/ Deliver(t) \/ Emitted(t)

-------------------------------------------------------------------------------
(* events(): one stream *)

\* A recorded event whose list of receivers is not copied yet.
BeforePublish == \E t \in Threads : emit[t].pc = "publish"

\* The browser connects and event_source subscribes.  A name is given to a new
\* stream when nothing of the old one is left.
Open(c) ==
    /\ stream[c] = Closed /\ ~should_exit
    /\ c \notin running /\ \A t \in Threads : c \notin emit[t].todo
    /\ subscribers' = subscribers \cup {c}
    /\ stream' = [stream EXCEPT ![c].pc = "check"]
    /\ connected' = connected \cup {c}
    /\ since' = [since EXCEPT ![c] = IF BeforePublish THEN Len(logs) - 1 ELSE Len(logs)]
    /\ UNCHANGED <<logVars, queue, poolVars, received, should_exit, full>>

\* Mistake: only the browser's leaving ends the loop.
CheckBrowserOnly(c) ==
    /\ stream[c].pc = "check"
    /\ IF c \notin connected
         THEN stream' = [stream EXCEPT ![c].pc = "leave"] /\ UNCHANGED jobs
         ELSE stream' = [stream EXCEPT ![c].pc = "get"] /\ jobs' = Append(jobs, c)
    /\ UNCHANGED <<logVars, busVars, connected, received, since, running, should_exit, full>>

\* The head of the loop: is_disconnected, _server_shutting_down, and then
\* _get_with_timeout is handed to the executor.
Check(c) ==
    /\ stream[c].pc = "check"
    /\ IF c \notin connected \/ should_exit
         THEN stream' = [stream EXCEPT ![c].pc = "leave"] /\ UNCHANGED jobs
         ELSE stream' = [stream EXCEPT ![c].pc = "get"] /\ jobs' = Append(jobs, c)
    /\ UNCHANGED <<logVars, busVars, connected, received, since, running, should_exit, full>>

\* The item goes to the browser; one that is gone never sees it.
Send(c) ==
    /\ stream[c].pc = "send"
    /\ IF c \in connected
         THEN /\ received' = [received EXCEPT ![c] = Append(@, stream[c].item)]
              /\ stream' = [stream EXCEPT ![c] = [pc |-> "check", item |-> NoItem]]
         ELSE /\ stream' = [stream EXCEPT ![c] = [pc |-> "leave", item |-> NoItem]]
              /\ UNCHANGED received
    /\ UNCHANGED <<logVars, busVars, connected, since, poolVars, should_exit, full>>

\* finally: unsubscribe
Leave(c) ==
    /\ stream[c].pc = "leave"
    /\ subscribers' = subscribers \ {c}
    /\ stream' = [stream EXCEPT ![c] = Closed]
    /\ queue' = [queue EXCEPT ![c] = <<>>]
    /\ connected' = connected \ {c}
    /\ received' = [received EXCEPT ![c] = <<>>]
    /\ since' = [since EXCEPT ![c] = 0]
    /\ full' = full \ {c}
    /\ UNCHANGED <<logVars, poolVars, should_exit>>

Stream(c) == Check(c) \/ Send(c) \/ Leave(c)

-------------------------------------------------------------------------------
(* The executor: _get_with_timeout in a thread of its own. *)

StartGet ==
    /\ jobs # <<>> /\ Cardinality(running) < Workers
    /\ running' = running \cup {Head(jobs)}
    /\ jobs' = Tail(jobs)
    /\ UNCHANGED <<logVars, busVars, streamVars, should_exit, full>>

\* q.get has an item; if the stream was cancelled, the item is lost with it.
Get(c) ==
    /\ c \in running /\ queue[c] # <<>>
    /\ running' = running \ {c}
    /\ queue' = [queue EXCEPT ![c] = Tail(@)]
    /\ stream' = IF stream[c].pc = "get"
                   THEN [stream EXCEPT ![c] = [pc |-> "send", item |-> Head(queue[c])]]
                   ELSE stream
    /\ UNCHANGED <<logVars, subscribers, connected, received, since, jobs,
                   should_exit, full>>

\* Mistake: q.get without a timeout.
NoTimeout(c) == FALSE /\ UNCHANGED vars

\* Two seconds without an item: a keep-alive, and back to the head of the loop.
Timeout(c) ==
    /\ c \in running /\ queue[c] = <<>>
    /\ running' = running \ {c}
    /\ stream' = IF stream[c].pc = "get" THEN [stream EXCEPT ![c].pc = "check"]
                                         ELSE stream
    /\ UNCHANGED <<logVars, busVars, connected, received, since, jobs,
                   should_exit, full>>

-------------------------------------------------------------------------------
(* Browsers and the server. *)

Disconnect(c) ==
    /\ c \in connected
    /\ connected' = connected \ {c}
    /\ UNCHANGED <<logVars, busVars, stream, received, since, poolVars, should_exit, full>>

\* The web framework may cancel the stream of a browser that is gone, and the
\* server those that are left when it has waited long enough.
Cancel(c) ==
    /\ c \notin connected \/ should_exit
    /\ stream[c].pc \in {"check", "get", "send"}
    /\ stream' = [stream EXCEPT ![c] = [pc |-> "leave", item |-> NoItem]]
    /\ \/ c \notin ToSet(jobs) /\ UNCHANGED jobs
       \/ \E i \in DOMAIN jobs : jobs[i] = c /\ jobs' = RemoveAt(jobs, i)
    /\ UNCHANGED <<logVars, busVars, connected, received, since, running, should_exit, full>>

Shutdown ==
    /\ ~should_exit
    /\ should_exit' = TRUE
    /\ UNCHANGED <<logVars, busVars, streamVars, poolVars, full>>

Next ==
    \/ \E t \in Threads : Emit(t)
    \/ \E c \in Connections :
          Open(c) \/ Stream(c) \/ Get(c) \/ Timeout(c) \/ Disconnect(c) \/ Cancel(c)
    \/ StartGet \/ Shutdown

Spec == Init /\ [][Next]_vars

\* The event loop runs every stream that is ready, the executor starts what
\* waits when a thread is free, and q.get returns after two seconds at most.
\* Nothing is assumed of browsers, of the threads that log or of cancellation.
FairSpec ==
    /\ Spec
    /\ \A c \in Connections : WF_vars(Stream(c)) /\ WF_vars(Get(c) \/ Timeout(c))
    /\ WF_vars(StartGet)

-------------------------------------------------------------------------------
(* Properties. *)

\* The type of every variable.
TypeOK ==
    /\ handled \in 0 .. MaxEvents
    /\ logs \in Seq(Events)
    /\ emit \in [Threads -> [pc : {"idle", "record", "publish", "deliver"},
                             event : Events \cup {NoItem}, todo : SUBSET Connections]]
    /\ subscribers \subseteq Connections
    /\ queue \in [Connections -> Seq(Events)]
    /\ \A c \in Connections : Len(queue[c]) <= QueueSize
    /\ stream \in [Connections -> [pc : {"closed", "check", "get", "send", "leave"},
                                   item : Events \cup {NoItem}]]
    /\ connected \subseteq Connections
    /\ jobs \in Seq(Connections)
    /\ running \subseteq Connections
    /\ should_exit \in BOOLEAN
    /\ received \in [Connections -> Seq(Events)]
    /\ since \in [Connections -> Nat]
    /\ full \subseteq Connections

Held(c) == IF stream[c].pc = "send" THEN <<stream[c].item>> ELSE <<>>

\* What a stream has shown, holds and has waiting.
Feed(c) == received[c] \o Held(c) \o queue[c]

Live(c) == stream[c].pc \in {"check", "get", "send"}

\* An event is on its way to the queue of c.
Awaited(c) == BeforePublish \/ \E t \in Threads : c \in emit[t].todo

Position(e) == CHOOSE i \in DOMAIN logs : logs[i] = e

\* Whatever threads log and however full a queue is, a stream shows recorded
\* events only, each at most once and in the order of the logs table.
\* (SQLiteEventHandler.emit: record, then publish, under one lock.)
FeedFollowsLog ==
    \A c \in Connections :
        /\ \A i \in DOMAIN Feed(c) : \E j \in DOMAIN logs : logs[j] = Feed(c)[i]
        /\ \A i, j \in DOMAIN Feed(c) :
               i < j => Position(Feed(c)[i]) < Position(Feed(c)[j])

\* A stream misses nothing since it opened, unless its queue was full: slow or
\* leaving streams never cost another one an event.  (event_bus: "slow/disconnected
\* clients never block the publisher".)
NoGapUnlessFull ==
    \A c \in Connections :
        Live(c) /\ c \notin full =>
            Feed(c) = SubSeq(logs, since[c] + 1,
                             IF Awaited(c) THEN Len(logs) - 1 ELSE Len(logs))

\* Streams end and leave the bus once their browser is gone or the server shuts
\* down, also when they share the threads of the executor; uvicorn waits for them.
\* (_server_shutting_down: "so they can exit on their own".)
StreamsEnd ==
    \A c \in Connections :
        c \in subscribers /\ (c \notin connected \/ should_exit) ~> c \notin subscribers

\* An event in a queue reaches the browser, though other streams hold the threads
\* of the executor, unless the browser leaves or the server stops.
QueuedIsShown ==
    \A c \in Connections, e \in Events :
        (\E i \in DOMAIN queue[c] : queue[c][i] = e)
            ~> (\E i \in DOMAIN received[c] : received[c][i] = e)
               \/ c \notin connected \/ should_exit
===============================================================================
