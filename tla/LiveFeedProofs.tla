---------------------------- MODULE LiveFeedProofs ----------------------------
(***************************************************************************)
(* Theorems about LiveFeed, for any number of threads, streams, executor   *)
(* threads and events, and queues of any size.                             *)
(***************************************************************************)
EXTENDS LiveFeed, SequenceTheorems, TLAPS

-------------------------------------------------------------------------------
(* The inductive invariant. *)

Increasing(s) == \A i, j \in DOMAIN s : i < j => s[i] < s[j]

\* Under the handler's lock one thread works on the youngest event: it is younger
\* than all that are recorded, and then the last of them.
EmitHolds ==
    /\ \A t, u \in Threads : emit[t] # Idle /\ emit[u] # Idle => t = u
    /\ \A t \in Threads :
          /\ emit[t].pc = "idle" => emit[t] = Idle
          /\ emit[t].pc \in {"record", "publish"} => emit[t].todo = {}
          /\ emit[t].pc = "record" =>
                /\ emit[t].event \in Events /\ emit[t].event = handled
                /\ \A e \in ToSet(logs) : e < handled
          /\ emit[t].pc \in {"publish", "deliver"} =>
                logs # <<>> /\ emit[t].event = logs[Len(logs)]
    /\ \A e \in ToSet(logs) : e <= handled
    /\ Increasing(logs)

\* A stream has one call in the executor, waiting or under way, or none; only one
\* that was cancelled leaves a call under way behind.
PoolHolds ==
    /\ \A i \in DOMAIN jobs : stream[jobs[i]].pc = "get" /\ jobs[i] \notin running
    /\ \A i, j \in DOMAIN jobs : jobs[i] = jobs[j] => i = j
    /\ \A c \in Connections : stream[c].pc \in {"check", "send"} => c \notin running

\* A stream that is closed has left the bus and holds nothing.
ClosedHolds(c) ==
    /\ c \in subscribers <=> stream[c].pc # "closed"
    /\ stream[c].pc = "closed" =>
          stream[c] = Closed /\ received[c] = <<>> /\ queue[c] = <<>>
    /\ stream[c].pc = "send" => stream[c].item \in Events

\* How much of the log a stream that missed nothing shows.
Due(c) == IF Awaited(c) THEN Len(logs) - 1 ELSE Len(logs)

\* f is what a stream has shown, holds and has waiting.
FeedHolds(f, c) ==
    /\ Increasing(f)
    /\ ToSet(f) \subseteq ToSet(logs)
    /\ Awaited(c) => logs # <<>> /\ \A e \in ToSet(f) : e < logs[Len(logs)]
    /\ Live(c) /\ c \notin full =>
          /\ since[c] <= Due(c)
          /\ f = SubSeq(logs, since[c] + 1, Due(c))

IInv ==
    /\ TypeOK
    /\ EmitHolds
    /\ PoolHolds
    /\ \A c \in Connections : ClosedHolds(c) /\ FeedHolds(Feed(c), c)

-------------------------------------------------------------------------------
(* Sequences of events. *)

\* Elements and order of a concatenation.
LEMMA ConcatOrdered ==
    ASSUME NEW a \in Seq(Events), NEW b \in Seq(Events)
    PROVE  /\ a \o b \in Seq(Events)
           /\ ToSet(a \o b) = ToSet(a) \cup ToSet(b)
           /\ Increasing(a \o b) <=>
                 /\ Increasing(a) /\ Increasing(b)
                 /\ \A x \in ToSet(a), y \in ToSet(b) : x < y
  <1> DEFINE s == a \o b
             m == Len(a)
             n == Len(b)
  <1>1. /\ s \in Seq(Events)
        /\ Len(s) = m + n
        /\ \A i \in 1 .. m + n : s[i] = IF i <= m THEN a[i] ELSE b[i - m]
    BY ConcatProperties
  <1>2. /\ m \in Nat /\ n \in Nat
        /\ DOMAIN a = 1 .. m /\ DOMAIN b = 1 .. n /\ DOMAIN s = 1 .. m + n
    BY <1>1, LenProperties
  <1> HIDE DEF s
  <1>3. /\ \A i \in 1 .. m : i \in 1 .. m + n /\ s[i] = a[i]
        /\ \A j \in 1 .. n : m + j \in 1 .. m + n /\ s[m + j] = b[j]
        /\ \A i \in 1 .. m + n : i \in 1 .. m \/ \E j \in 1 .. n : i = m + j
    <2>1. ASSUME NEW i \in 1 .. m PROVE i \in 1 .. m + n /\ s[i] = a[i]
      BY <1>1, <1>2
    <2>2. ASSUME NEW j \in 1 .. n PROVE m + j \in 1 .. m + n /\ s[m + j] = b[j]
      <3>1. m + j \in 1 .. m + n /\ ~(m + j <= m) /\ (m + j) - m = j
        BY <1>2
      <3>2. QED
        BY <1>1, <3>1
    <2>3. ASSUME NEW i \in 1 .. m + n, i \notin 1 .. m
          PROVE  \E j \in 1 .. n : i = m + j
      <3>1. i - m \in 1 .. n /\ i = m + (i - m)
        BY <1>2, <2>3
      <3>2. QED
        BY <3>1
    <2>4. QED
      BY <2>1, <2>2, <2>3
  <1>4. ToSet(s) = ToSet(a) \cup ToSet(b)
    <2>1. ASSUME NEW i \in 1 .. m + n PROVE s[i] \in ToSet(a) \cup ToSet(b)
      <3>1. CASE i \in 1 .. m
        BY <1>2, <1>3, <3>1 DEF ToSet
      <3>2. CASE i \notin 1 .. m
        <4>1. PICK j \in 1 .. n : i = m + j
          BY <1>3, <3>2
        <4>2. QED
          BY <1>2, <1>3, <4>1 DEF ToSet
      <3>3. QED
        BY <3>1, <3>2
    <2>2. ToSet(a) \cup ToSet(b) \subseteq ToSet(s)
      BY <1>2, <1>3 DEF ToSet
    <2>3. QED
      BY <1>2, <2>1, <2>2 DEF ToSet
  <1>5. ASSUME Increasing(s)
        PROVE  /\ Increasing(a) /\ Increasing(b)
               /\ \A x \in ToSet(a), y \in ToSet(b) : x < y
    <2>1. Increasing(a)
      BY <1>2, <1>3, <1>5 DEF Increasing
    <2>2. Increasing(b)
      <3>1. SUFFICES ASSUME NEW i \in 1 .. n, NEW j \in 1 .. n, i < j PROVE b[i] < b[j]
        BY <1>2 DEF Increasing
      <3>2. m + i < m + j /\ m + i \in 1 .. m + n /\ m + j \in 1 .. m + n
        BY <1>2, <3>1
      <3>3. s[m + i] < s[m + j]
        BY <1>2, <1>5, <3>2 DEF Increasing
      <3>4. QED
        BY <1>3, <3>3
    <2>3. ASSUME NEW i \in 1 .. m, NEW j \in 1 .. n PROVE a[i] < b[j]
      <3>1. i < m + j /\ i \in 1 .. m + n /\ m + j \in 1 .. m + n
        BY <1>2
      <3>2. s[i] < s[m + j]
        BY <1>2, <1>5, <3>1 DEF Increasing
      <3>3. QED
        BY <1>3, <3>2
    <2>4. QED
      BY <1>2, <2>1, <2>2, <2>3 DEF ToSet
  <1>6. ASSUME Increasing(a), Increasing(b), \A x \in ToSet(a), y \in ToSet(b) : x < y
        PROVE  Increasing(s)
    <2>1. SUFFICES ASSUME NEW i \in 1 .. m + n, NEW j \in 1 .. m + n, i < j
                   PROVE  s[i] < s[j]
      BY <1>2 DEF Increasing
    <2>2. CASE j \in 1 .. m
      BY <1>2, <1>3, <1>6, <2>1, <2>2 DEF Increasing
    <2>3. CASE i \in 1 .. m /\ j \notin 1 .. m
      <3>1. s[i] \in ToSet(a) /\ s[j] \in ToSet(b)
        BY <1>2, <1>3, <2>3 DEF ToSet
      <3>2. QED
        BY <1>6, <3>1
    <2>4. CASE i \notin 1 .. m /\ j \notin 1 .. m
      <3>1. PICK k \in 1 .. n : i = m + k
        BY <1>3, <2>4
      <3>2. PICK l \in 1 .. n : j = m + l
        BY <1>3, <2>4
      <3>3. k < l /\ s[i] = b[k] /\ s[j] = b[l]
        BY <1>2, <1>3, <2>1, <3>1, <3>2
      <3>4. QED
        BY <1>2, <1>6, <3>3 DEF Increasing
    <2>5. CASE i \notin 1 .. m /\ j \in 1 .. m
      BY <1>2, <2>1, <2>5
    <2>6. QED
      BY <2>2, <2>3, <2>4, <2>5
  <1>7. QED
    BY <1>1, <1>4, <1>5, <1>6 DEF s

LEMMA Regrouped ==
    ASSUME NEW a \in Seq(Events), NEW b \in Seq(Events), NEW d \in Seq(Events)
    PROVE  a \o (b \o d) = (a \o b) \o d
  <1>1. (a \o b) \o d = a \o (b \o d)
    BY ConcatAssociative
  <1>2. QED
    BY <1>1

\* The empty sequence and sequences of one event.
LEMMA ShortSequences ==
    /\ <<>> \in Seq(Events) /\ ToSet(<<>>) = {} /\ Increasing(<<>>)
    /\ \A e \in Events : <<e>> \in Seq(Events) /\ ToSet(<<e>>) = {e} /\ Increasing(<<e>>)
  BY DEF ToSet, Increasing

\* A queue is its head and the rest.
LEMMA HeadAndTail ==
    ASSUME NEW q \in Seq(Events), q # <<>>
    PROVE  /\ Head(q) \in Events
           /\ Tail(q) \in Seq(Events)
           /\ Len(Tail(q)) = Len(q) - 1
           /\ q = <<Head(q)>> \o Tail(q)
  <1>1. Head(q) \in Events /\ Tail(q) \in Seq(Events) /\ Len(Tail(q)) = Len(q) - 1
    BY HeadTailProperties
  <1>2. Len(q) \in Nat /\ Len(q) >= 1
    BY EmptySeq, LenProperties
  <1>3. /\ SubSeq(q, 1, Len(q)) = <<q[1]>> \o SubSeq(q, 2, Len(q))
        /\ SubSeq(q, 1, Len(q)) = q /\ Tail(q) = SubSeq(q, 2, Len(q))
    BY <1>2, SubSeqRecursiveFirst, SubSeqFull, TailIsSubSeq
  <1>4. Head(q) = q[1]
    BY <1>2
  <1>5. QED
    BY <1>1, <1>3, <1>4

\* Leaving events out of a feed keeps its order.
LEMMA Shortened ==
    ASSUME NEW a \in Seq(Events), NEW b \in Seq(Events), NEW d \in Seq(Events),
           Increasing((a \o b) \o d)
    PROVE  Increasing(a \o d) /\ ToSet(a \o d) \subseteq ToSet((a \o b) \o d)
  <1>1. /\ a \o b \in Seq(Events) /\ ToSet(a \o b) = ToSet(a) \cup ToSet(b)
        /\ ToSet((a \o b) \o d) = ToSet(a \o b) \cup ToSet(d)
        /\ ToSet(a \o d) = ToSet(a) \cup ToSet(d)
    BY ConcatOrdered
  <1>2. /\ Increasing(a \o b) /\ Increasing(d)
        /\ \A x \in ToSet(a \o b), y \in ToSet(d) : x < y
    BY <1>1, ConcatOrdered
  <1>3. Increasing(a)
    BY <1>2, ConcatOrdered
  <1>4. QED
    BY <1>1, <1>2, <1>3, ConcatOrdered

\* One more event, younger than all others.
LEMMA Lengthened ==
    ASSUME NEW s \in Seq(Events), NEW e \in Events, Increasing(s),
           \A x \in ToSet(s) : x < e
    PROVE  /\ Append(s, e) \in Seq(Events)
           /\ Append(s, e) = s \o <<e>>
           /\ Increasing(Append(s, e))
           /\ ToSet(Append(s, e)) = ToSet(s) \cup {e}
  <1>1. Append(s, e) = s \o <<e>>
    BY AppendIsConcat
  <1>2. PICK one \in Seq(Events) : one = <<e>> /\ ToSet(one) = {e} /\ Increasing(one)
    BY ShortSequences
  <1>3. /\ s \o one \in Seq(Events)
        /\ ToSet(s \o one) = ToSet(s) \cup {e}
        /\ Increasing(s \o one)
    <2>1. \A x \in ToSet(s), y \in ToSet(one) : x < y
      BY <1>2
    <2>2. QED
      BY <1>2, <2>1, ConcatOrdered
  <1>4. QED
    BY <1>1, <1>2, <1>3

\* The part of the log from k on, when an event is recorded, and when the last one
\* is shown.
LEMMA LogParts ==
    ASSUME NEW s \in Seq(Events), NEW e \in Events, NEW k \in Nat
    PROVE  /\ k <= Len(s) =>
                SubSeq(Append(s, e), k + 1, Len(s)) = SubSeq(s, k + 1, Len(s))
           /\ k < Len(s) =>
                SubSeq(s, k + 1, Len(s)) = Append(SubSeq(s, k + 1, Len(s) - 1), s[Len(s)])
  <1> DEFINE n == Len(s)
  <1>1. n \in Nat
    BY LenProperties
  <1>2. ASSUME k <= n PROVE SubSeq(Append(s, e), k + 1, n) = SubSeq(s, k + 1, n)
    <2>1. CASE k = n
      BY <1>1, <2>1, SubSeqEmpty
    <2>2. CASE k < n
      <3>1. <<e>> \in Seq(Events) /\ Append(s, e) = s \o <<e>>
        BY ShortSequences, AppendIsConcat
      <3>2. k + 1 \in 1 .. n /\ n \in 1 .. n
        BY <1>1, <2>2
      <3>3. QED
        BY <3>1, <3>2, SubSeqOfConcat1
    <2>3. QED
      BY <1>1, <1>2, <2>1, <2>2
  <1>3. ASSUME k < n
        PROVE  SubSeq(s, k + 1, n) = Append(SubSeq(s, k + 1, n - 1), s[n])
    <2>1. k + 1 \in 1 .. n /\ n \in k + 1 .. n /\ n - 1 \in Int /\ k + 1 \in Int
      BY <1>1, <1>3
    <2>2. SubSeq(s, k + 1, n) = SubSeq(s, k + 1, n - 1) \o <<s[n]>>
      BY <2>1, SubSeqRecursiveSecond
    <2>3. s[n] \in Events /\ \A i \in k + 1 .. n - 1 : s[i] \in Events
      BY <1>1, <2>1, ElementOfSeq
    <2>4. SubSeq(s, k + 1, n - 1) \in Seq(Events)
      BY <2>1, <2>3, SubSeqProperties
    <2>5. QED
      BY <2>2, <2>3, <2>4, AppendIsConcat
  <1>4. QED
    BY <1>2, <1>3

-------------------------------------------------------------------------------
(* What the invariant says of a stream and of the thread in the handler. *)

LEMMA StreamTypes ==
    ASSUME IInv, NEW c \in Connections
    PROVE  /\ logs \in Seq(Events)
           /\ received[c] \in Seq(Events)
           /\ Held(c) \in Seq(Events)
           /\ queue[c] \in Seq(Events)
           /\ received[c] \o Held(c) \in Seq(Events)
           /\ Feed(c) \in Seq(Events)
  <1>1. /\ logs \in Seq(Events) /\ received[c] \in Seq(Events) /\ queue[c] \in Seq(Events)
    BY DEF IInv, TypeOK
  <1>2. Held(c) \in Seq(Events)
    BY ShortSequences DEF IInv, ClosedHolds, Held
  <1>3. QED
    BY <1>1, <1>2, ConcatOrdered DEF Feed

\* The other threads wait for the lock.
LEMMA OneWorker ==
    ASSUME IInv, NEW t \in Threads, emit[t].pc # "idle"
    PROVE  /\ \A u \in Threads : u # t => emit[u] = Idle
           /\ \A c : Awaited(c) <=> emit[t].pc = "publish" \/ c \in emit[t].todo
           /\ emit[t].event \in Events \cup {NoItem}
           /\ emit[t].todo \subseteq Connections
  <1>1. emit[t] # Idle
    BY DEF Idle
  <1>2. \A u \in Threads : u # t => emit[u] = Idle
    BY <1>1 DEF IInv, EmitHolds
  <1>3. Idle.pc = "idle" /\ Idle.todo = {}
    BY DEF Idle
  <1>4. \A c : Awaited(c) <=> emit[t].pc = "publish" \/ c \in emit[t].todo
    BY <1>2, <1>3 DEF Awaited, BeforePublish
  <1>5. QED
    BY <1>2, <1>4 DEF IInv, TypeOK

\* A feed that is as it was, and awaits no more than it did.
LEMMA FeedStays ==
    ASSUME IInv, NEW c \in Connections,
           logs' = logs, since'[c] = since[c], Feed(c)' = Feed(c),
           Live(c)' => Live(c) /\ (Awaited(c)' <=> Awaited(c)),
           Awaited(c)' => Awaited(c),
           c \in full => c \in full' \/ ~Live(c)'
    PROVE  FeedHolds(Feed(c), c)'
  BY DEF IInv, FeedHolds, Due

-------------------------------------------------------------------------------
(* The steps of a thread that logs. *)

LEMMA InitHolds == Init => IInv
  <1> SUFFICES ASSUME Init PROVE IInv
    OBVIOUS
  <1>1. TypeOK
    <2>1. /\ Idle \in [pc : {"idle", "record", "publish", "deliver"},
                       event : Events \cup {NoItem}, todo : SUBSET Connections]
          /\ Closed \in [pc : {"closed", "check", "get", "send", "leave"},
                         item : Events \cup {NoItem}]
      BY DEF Idle, Closed
    <2>2. <<>> \in Seq(Events) /\ <<>> \in Seq(Connections)
      OBVIOUS
    <2>3. \A c \in Connections : Len(queue[c]) <= QueueSize
      BY LiveFeedAssumption DEF Init
    <2>4. 0 \in 0 .. MaxEvents
      BY LiveFeedAssumption
    <2>5. QED
      BY <2>1, <2>2, <2>3, <2>4 DEF Init, TypeOK
  <1>2. EmitHolds
    BY ShortSequences DEF Init, EmitHolds, Idle
  <1>3. PoolHolds
    BY DEF Init, PoolHolds, Closed
  <1>4. ASSUME NEW c \in Connections
        PROVE  ClosedHolds(c) /\ FeedHolds(Feed(c), c)
    <2>1. ClosedHolds(c)
      BY DEF Init, ClosedHolds, Closed
    <2>2. Feed(c) = <<>>
      BY ConcatEmptySeq, ShortSequences DEF Init, Feed, Held, Closed
    <2>3. ~Live(c) /\ ~Awaited(c)
      BY DEF Init, Live, Closed, Awaited, BeforePublish, Idle
    <2>4. QED
      BY <2>1, <2>2, <2>3, ShortSequences DEF FeedHolds
  <1>5. QED
    BY <1>1, <1>2, <1>3, <1>4 DEF IInv

LEMMA HandleStep ==
    ASSUME IInv, NEW t \in Threads, Handle(t) PROVE IInv'
  <1>1. TypeOK'
    <2>1. /\ handled + 1 \in 0 .. MaxEvents
          /\ handled + 1 \in Events
      BY LiveFeedAssumption DEF Handle, IInv, TypeOK, Events
    <2>2. [Idle EXCEPT !.pc = "record", !.event = handled + 1]
             \in [pc : {"idle", "record", "publish", "deliver"},
                  event : Events \cup {NoItem}, todo : SUBSET Connections]
      BY <2>1 DEF Idle
    <2>3. QED
      BY <2>1, <2>2 DEF Handle, IInv, TypeOK, busVars, streamVars, poolVars
  <1>2. /\ emit'[t] = [Idle EXCEPT !.pc = "record", !.event = handled + 1]
        /\ \A u \in Threads : u # t => emit'[u] = Idle
        /\ handled \in Nat /\ handled' = handled + 1
        /\ logs' = logs /\ logs \in Seq(Events)
    BY DEF Handle, IInv, TypeOK
  <1>3. EmitHolds'
    <2>1. \A e \in ToSet(logs) : e <= handled /\ e < handled + 1 /\ e <= handled + 1
      <3>1. ASSUME NEW i \in DOMAIN logs PROVE logs[i] \in Int
        <4>1. logs[i] \in Events
          BY <1>2, LenProperties, ElementOfSeq
        <4>2. QED
          BY <4>1 DEF Events
      <3>2. \A e \in ToSet(logs) : e \in Int /\ e <= handled
        BY <3>1 DEF IInv, EmitHolds, ToSet
      <3>3. QED
        BY <1>2, <3>2
    <2>2. LET k == [Idle EXCEPT !.pc = "record", !.event = handled + 1]
          IN  k.pc = "record" /\ k.event = handled + 1 /\ k.todo = {}
      BY DEF Idle
    <2>3. /\ emit'[t].pc = "record" /\ emit'[t].event = handled'
          /\ emit'[t].todo = {}
      BY <1>2, <2>2
    <2>4. /\ \A u \in Threads : u # t => emit'[u] = Idle
          /\ handled' \in Events
      <3>1. handled < MaxEvents
        BY DEF Handle
      <3>2. QED
        BY <1>2, <3>1, LiveFeedAssumption DEF Events
    <2>5. Increasing(logs)' /\ ToSet(logs)' = ToSet(logs)
      BY <1>2 DEF IInv, EmitHolds
    <2>6. Idle.pc = "idle"
      BY DEF Idle
    <2>7. QED
      BY <1>2, <2>1, <2>3, <2>4, <2>5, <2>6 DEF EmitHolds
  <1>4. PoolHolds'
    BY DEF Handle, IInv, PoolHolds, poolVars, streamVars
  <1>5. ASSUME NEW c \in Connections
        PROVE  (ClosedHolds(c) /\ FeedHolds(Feed(c), c))'
    <2>1. ~Awaited(c) /\ ~Awaited(c)'
      BY <1>2 DEF Handle, Awaited, BeforePublish, Idle
    <2>2. Feed(c)' = Feed(c) /\ (Live(c)' <=> Live(c))
      BY DEF Handle, Feed, Held, Live, busVars, streamVars
    <2>3. FeedHolds(Feed(c), c)'
      BY <2>1, <2>2, FeedStays DEF Handle, streamVars
    <2>4. QED
      BY <2>3 DEF Handle, IInv, ClosedHolds, busVars, streamVars
  <1>6. QED
    BY <1>1, <1>3, <1>4, <1>5 DEF IInv

LEMMA RecordStep ==
    ASSUME IInv, NEW t \in Threads, Record(t) PROVE IInv'
  <1> DEFINE e == emit[t].event
  <1>1. /\ emit[t].pc = "record" /\ e \in Events /\ e = handled
        /\ emit[t].todo = {}
        /\ \A x \in ToSet(logs) : x < e
        /\ logs \in Seq(Events) /\ Increasing(logs)
    BY DEF Record, IInv, EmitHolds, TypeOK
  <1>2. /\ \A u \in Threads : u # t => emit[u] = Idle
        /\ \A c : ~Awaited(c)
    BY <1>1, OneWorker
  <1>3. PoolHolds'
    BY DEF Record, IInv, PoolHolds, poolVars, streamVars
  <1>4. ASSUME NEW c \in Connections
        PROVE  /\ ClosedHolds(c)'
               /\ Feed(c)' = Feed(c) /\ (Live(c)' <=> Live(c))
    BY DEF Record, IInv, ClosedHolds, Feed, Held, Live, busVars, streamVars
  <1>5. Idle.pc = "idle" /\ Idle.todo = {}
    BY DEF Idle
  <1>6. CASE logs' = Append(logs, e) /\ emit' = [emit EXCEPT ![t].pc = "publish"]
    <2>1. /\ logs' \in Seq(Events) /\ Increasing(logs)'
          /\ ToSet(logs)' = ToSet(logs) \cup {e}
      BY <1>1, <1>6, Lengthened
    <2>2. /\ logs' # <<>> /\ Len(logs') = Len(logs) + 1 /\ logs'[Len(logs')] = e
          /\ Len(logs) \in Nat
      BY <1>1, <1>6, AppendProperties, LenProperties
    <2>3. /\ emit'[t].pc = "publish" /\ emit'[t].event = e /\ emit'[t].todo = {}
          /\ \A u \in Threads : u # t => emit'[u] = Idle
      BY <1>1, <1>2, <1>6 DEF IInv, TypeOK
    <2>4. TypeOK'
      <3>1. emit' \in [Threads -> [pc : {"idle", "record", "publish", "deliver"},
                              event : Events \cup {NoItem}, todo : SUBSET Connections]]
        <4>1. emit \in [Threads -> [pc : {"idle", "record", "publish", "deliver"},
                              event : Events \cup {NoItem}, todo : SUBSET Connections]]
          BY DEF IInv, TypeOK
        <4>2. QED
          BY <1>6, <4>1
      <3>2. QED
        BY <2>1, <3>1 DEF Record, IInv, TypeOK, busVars, streamVars, poolVars
    <2>5. EmitHolds'
      <3>1. \A x \in ToSet(logs)' : x <= handled'
        BY <1>1, <2>1 DEF Record, IInv, TypeOK, EmitHolds
      <3>2. QED
        BY <1>5, <2>1, <2>2, <2>3, <3>1 DEF EmitHolds
    <2>6. \A c : Awaited(c)'
      BY <2>3 DEF Awaited, BeforePublish
    <2>7. ASSUME NEW c \in Connections PROVE FeedHolds(Feed(c), c)'
      <3>1. /\ Increasing(Feed(c)) /\ ToSet(Feed(c)) \subseteq ToSet(logs)
            /\ Live(c) /\ c \notin full =>
                  since[c] <= Len(logs)
                  /\ Feed(c) = SubSeq(logs, since[c] + 1, Len(logs))
        BY <1>2 DEF IInv, FeedHolds, Due
      <3>2. Due(c)' = Len(logs)
        BY <2>2, <2>6 DEF Due
      <3>3. /\ since'[c] = since[c] /\ since[c] \in Nat /\ full' = full
        BY DEF Record, IInv, TypeOK, streamVars
      <3>4. since[c] <= Len(logs) =>
               SubSeq(logs', since[c] + 1, Len(logs)) = SubSeq(logs, since[c] + 1, Len(logs))
        BY <1>1, <1>6, <3>3, LogParts
      <3>5. QED
        BY <1>1, <1>4, <2>1, <2>2, <3>1, <3>2, <3>3, <3>4 DEF FeedHolds
    <2>8. QED
      BY <1>3, <1>4, <2>4, <2>5, <2>7 DEF IInv
  <1>7. CASE logs' = logs /\ emit' = [emit EXCEPT ![t] = Idle]
    <2>1. \A u \in Threads : emit'[u] = Idle
      BY <1>2, <1>7 DEF IInv, TypeOK
    <2>2. TypeOK'
      BY <1>7 DEF Record, IInv, TypeOK, Idle, NoItem, busVars, streamVars, poolVars
    <2>3. EmitHolds'
      BY <1>5, <1>7, <2>1 DEF Record, IInv, EmitHolds
    <2>4. \A c : ~Awaited(c)'
      BY <1>5, <2>1 DEF Awaited, BeforePublish
    <2>5. ASSUME NEW c \in Connections PROVE FeedHolds(Feed(c), c)'
      BY <1>2, <1>4, <1>7, <2>4, FeedStays DEF Record, streamVars
    <2>6. QED
      BY <1>3, <1>4, <2>2, <2>3, <2>5 DEF IInv
  <1>8. QED
    BY <1>6, <1>7 DEF Record

\* Who publishes was the youngest event's recorder, and knows who listens.
LEMMA PublishStep ==
    ASSUME IInv, NEW t \in Threads, Publish(t) PROVE IInv'
  <1>1. /\ emit[t].pc = "publish" /\ emit[t].event = logs[Len(logs)] /\ logs # <<>>
        /\ emit' = [emit EXCEPT ![t].pc = "deliver", ![t].todo = subscribers]
        /\ subscribers \subseteq Connections
    BY DEF Publish, IInv, EmitHolds, TypeOK
  <1>2. /\ \A u \in Threads : u # t => emit[u] = Idle
        /\ \A c : Awaited(c)
    BY <1>1, OneWorker
  <1>3. /\ emit'[t].pc = "deliver" /\ emit'[t].event = emit[t].event
        /\ emit'[t].todo = subscribers
        /\ \A u \in Threads : u # t => emit'[u] = Idle
    BY <1>1, <1>2 DEF IInv, TypeOK
  <1>4. TypeOK'
    <2>1. emit' \in [Threads -> [pc : {"idle", "record", "publish", "deliver"},
                            event : Events \cup {NoItem}, todo : SUBSET Connections]]
      <3> DEFINE Tasks == [pc : {"idle", "record", "publish", "deliver"},
                           event : Events \cup {NoItem}, todo : SUBSET Connections]
      <3>1. emit \in [Threads -> Tasks]
        BY DEF IInv, TypeOK
      <3>2. [emit[t] EXCEPT !.pc = "deliver", !.todo = subscribers] \in Tasks
        BY <1>1, <3>1
      <3>3. QED
        BY <1>1, <3>1, <3>2
    <2>2. QED
      BY <2>1 DEF Publish, IInv, TypeOK, busVars, streamVars, poolVars
  <1>5. Idle.pc = "idle" /\ Idle.todo = {}
    BY DEF Idle
  <1>6. EmitHolds'
    BY <1>1, <1>3, <1>5 DEF Publish, IInv, EmitHolds
  <1>7. PoolHolds'
    BY DEF Publish, IInv, PoolHolds, poolVars, streamVars
  <1>8. ASSUME NEW c \in Connections
        PROVE  (ClosedHolds(c) /\ FeedHolds(Feed(c), c))'
    <2>1. /\ ClosedHolds(c)'
          /\ Feed(c)' = Feed(c) /\ (Live(c)' <=> Live(c))
      BY DEF Publish, IInv, ClosedHolds, Feed, Held, Live, busVars, streamVars
    <2>2. Awaited(c)' <=> c \in subscribers
      BY <1>3, <1>5 DEF Awaited, BeforePublish
    <2>3. Live(c) => c \in subscribers
      BY DEF IInv, ClosedHolds, Live
    <2>4. FeedHolds(Feed(c), c)'
      BY <1>2, <2>1, <2>2, <2>3, FeedStays DEF Publish, streamVars
    <2>5. QED
      BY <2>1, <2>4
  <1>9. QED
    BY <1>4, <1>6, <1>7, <1>8 DEF IInv

LEMMA DeliverStep ==
    ASSUME IInv, NEW t \in Threads, Deliver(t) PROVE IInv'
  <1> DEFINE e == emit[t].event
  <1>1. PICK d \in emit[t].todo :
          /\ emit' = [emit EXCEPT ![t].todo = @ \ {d}]
          /\ IF d \notin subscribers THEN UNCHANGED <<queue, full>>
             ELSE IF Len(queue[d]) < QueueSize
                    THEN Put(d, e) /\ UNCHANGED full
                    ELSE full' = full \cup {d} /\ UNCHANGED queue
    BY DEF Deliver
  <1>2. /\ emit[t].pc = "deliver" /\ e = logs[Len(logs)] /\ logs # <<>>
        /\ d \in Connections /\ logs \in Seq(Events) /\ e \in Events
        /\ e \in ToSet(logs)
    <2>1. /\ emit[t].pc = "deliver" /\ e = logs[Len(logs)] /\ logs # <<>>
          /\ d \in Connections /\ logs \in Seq(Events)
      BY <1>1 DEF Deliver, IInv, EmitHolds, TypeOK
    <2>2. Len(logs) \in DOMAIN logs
      BY <2>1, EmptySeq, LenProperties
    <2>3. QED
      BY <2>1, <2>2, LenProperties, ElementOfSeq DEF ToSet
  <1>3. /\ \A u \in Threads : u # t => emit[u] = Idle
        /\ \A c : Awaited(c) <=> c \in emit[t].todo
    BY <1>2, OneWorker
  <1>4. Idle.pc = "idle" /\ Idle.todo = {}
    BY DEF Idle
  <1>5. /\ emit'[t].pc = "deliver" /\ emit'[t].event = e
        /\ emit'[t].todo = emit[t].todo \ {d}
        /\ \A u \in Threads : u # t => emit'[u] = Idle
        /\ emit' \in [Threads -> [pc : {"idle", "record", "publish", "deliver"},
                             event : Events \cup {NoItem}, todo : SUBSET Connections]]
    <2> DEFINE Tasks == [pc : {"idle", "record", "publish", "deliver"},
                         event : Events \cup {NoItem}, todo : SUBSET Connections]
    <2>1. emit \in [Threads -> Tasks]
      BY DEF IInv, TypeOK
    <2>2. [emit[t] EXCEPT !.todo = @ \ {d}] \in Tasks
      BY <2>1
    <2>3. emit' \in [Threads -> Tasks]
      BY <1>1, <2>1, <2>2
    <2>4. /\ emit'[t].pc = "deliver" /\ emit'[t].event = e
          /\ emit'[t].todo = emit[t].todo \ {d}
          /\ \A u \in Threads : u # t => emit'[u] = Idle
      BY <1>1, <1>2, <1>3, <2>1
    <2>5. QED
      BY <2>3, <2>4
  <1>6. \A c : Awaited(c)' <=> c \in emit[t].todo /\ c # d
    BY <1>4, <1>5 DEF Awaited, BeforePublish
  <1>7. /\ EmitHolds' /\ PoolHolds'
    BY <1>2, <1>4, <1>5 DEF Deliver, IInv, EmitHolds, PoolHolds, poolVars, streamVars
  <1>8. ASSUME NEW c \in Connections, queue'[c] = queue[c],
               c \in full => c \in full', c = d => ~Live(c) \/ c \in full'
        PROVE  (ClosedHolds(c) /\ FeedHolds(Feed(c), c))'
    <2>1. /\ ClosedHolds(c)'
          /\ Feed(c)' = Feed(c) /\ (Live(c)' <=> Live(c))
      BY <1>8 DEF Deliver, IInv, ClosedHolds, Feed, Held, Live, streamVars
    <2>2. FeedHolds(Feed(c), c)
      BY DEF IInv
    <2>3. since' = since /\ logs' = logs
      BY DEF Deliver, streamVars
    <2>4. FeedHolds(Feed(c), c)'
      BY <1>3, <1>6, <1>8, <2>1, <2>2, <2>3 DEF FeedHolds, Due
    <2>5. QED
      BY <2>1, <2>4
  <1>9. ASSUME NEW c \in Connections, c = d, queue'[c] = Append(queue[c], e),
               full' = full, c \in subscribers
        PROVE  (ClosedHolds(c) /\ FeedHolds(Feed(c), c))'
    <2>1. ClosedHolds(c)' /\ (Live(c)' <=> Live(c))
      BY <1>9 DEF Deliver, IInv, ClosedHolds, Live, streamVars
    <2>2. /\ Feed(c) \in Seq(Events) /\ received[c] \o Held(c) \in Seq(Events)
          /\ queue[c] \in Seq(Events)
      BY StreamTypes
    <2>3. FeedHolds(Feed(c), c) /\ Awaited(c)
      BY <1>1, <1>3, <1>9 DEF IInv
    <2>4. Feed(c)' = Append(Feed(c), e)
      <3>1. Feed(c)' = (received[c] \o Held(c)) \o Append(queue[c], e)
        BY <1>9 DEF Deliver, Feed, Held, streamVars
      <3>2. /\ <<e>> \in Seq(Events)
            /\ Append(queue[c], e) = queue[c] \o <<e>>
            /\ Append(Feed(c), e) = Feed(c) \o <<e>>
        BY <1>2, <2>2, ShortSequences, AppendIsConcat
      <3>3. (received[c] \o Held(c)) \o (queue[c] \o <<e>>)
               = ((received[c] \o Held(c)) \o queue[c]) \o <<e>>
        <4>1. PICK one \in Seq(Events) : one = <<e>>
          BY <3>2
        <4>2. PICK front \in Seq(Events) : front = received[c] \o Held(c)
          BY <2>2
        <4>3. front \o (queue[c] \o one) = (front \o queue[c]) \o one
          BY <2>2, Regrouped
        <4>4. QED
          BY <4>1, <4>2, <4>3, Zenon
      <3>4. QED
        BY <3>1, <3>2, <3>3 DEF Feed
    <2>5. /\ Increasing(Feed(c))' /\ ToSet(Feed(c))' = ToSet(Feed(c)) \cup {e}
      BY <1>2, <2>2, <2>3, <2>4, Lengthened DEF FeedHolds
    <2>6. ~Awaited(c)' /\ logs' = logs /\ since' = since /\ since[c] \in Nat
      BY <1>6, <1>9 DEF Deliver, IInv, TypeOK, streamVars
    <2>7. ASSUME Live(c), c \notin full
          PROVE  /\ since[c] <= Len(logs)
                 /\ Feed(c)' = SubSeq(logs, since[c] + 1, Len(logs))
      <3>1. /\ since[c] <= Len(logs) - 1
            /\ Feed(c) = SubSeq(logs, since[c] + 1, Len(logs) - 1)
        BY <2>3, <2>7 DEF FeedHolds, Due
      <3>2. since[c] < Len(logs) /\ Len(logs) \in Nat
        BY <1>2, <2>6, <3>1, LenProperties
      <3>3. SubSeq(logs, since[c] + 1, Len(logs))
               = Append(SubSeq(logs, since[c] + 1, Len(logs) - 1), logs[Len(logs)])
        BY <1>2, <2>6, <3>2, LogParts
      <3>4. QED
        <4>1. since[c] <= Len(logs)
          BY <2>6, <3>2
        <4>2. QED
          BY <1>2, <2>4, <3>1, <3>3, <4>1, Zenon
    <2>8. FeedHolds(Feed(c), c)'
      BY <1>2, <1>9, <2>1, <2>3, <2>5, <2>6, <2>7 DEF FeedHolds, Due
    <2>9. QED
      BY <2>1, <2>8
  <1>10. queue \in [Connections -> Seq(Events)] /\ full \subseteq Connections
    BY DEF IInv, TypeOK
  <1>11. CASE d \in subscribers /\ Len(queue[d]) < QueueSize
    <2>1. queue' = [queue EXCEPT ![d] = Append(@, e)] /\ full' = full
      BY <1>1, <1>11 DEF Put
    <2>2. /\ Append(queue[d], e) \in Seq(Events)
          /\ Len(Append(queue[d], e)) <= QueueSize
      BY <1>2, <1>10, <1>11, AppendProperties, LenProperties, LiveFeedAssumption
    <2>3. TypeOK'
      BY <1>2, <1>5, <1>10, <2>1, <2>2 DEF Deliver, IInv, TypeOK, streamVars, poolVars
    <2>4. QED
      BY <1>2, <1>7, <1>8, <1>9, <1>10, <1>11, <2>1, <2>3 DEF IInv
  <1>12. CASE ~(d \in subscribers /\ Len(queue[d]) < QueueSize)
    <2>1. /\ queue' = queue /\ full \subseteq full' /\ full' \subseteq Connections
          /\ d \in subscribers => d \in full'
      BY <1>1, <1>2, <1>10, <1>12
    <2>2. d \notin subscribers => ~Live(d)
      BY <1>2 DEF IInv, ClosedHolds, Live
    <2>3. TypeOK'
      BY <1>5, <2>1 DEF Deliver, IInv, TypeOK, streamVars, poolVars
    <2>4. QED
      BY <1>7, <1>8, <2>1, <2>2, <2>3 DEF IInv
  <1>13. QED
    BY <1>11, <1>12

LEMMA EmittedStep ==
    ASSUME IInv, NEW t \in Threads, Emitted(t) PROVE IInv'
  <1>1. /\ emit[t].pc = "deliver" /\ emit[t].todo = {}
        /\ emit' = [emit EXCEPT ![t] = Idle]
    BY DEF Emitted
  <1>2. /\ \A u \in Threads : u # t => emit[u] = Idle
        /\ \A c : ~Awaited(c)
    BY <1>1, OneWorker
  <1>3. \A u \in Threads : emit'[u] = Idle
    BY <1>1, <1>2 DEF IInv, TypeOK
  <1>4. Idle.pc = "idle" /\ Idle.todo = {}
    BY DEF Idle
  <1>5. TypeOK'
    BY <1>1 DEF Emitted, IInv, TypeOK, Idle, NoItem, busVars, streamVars, poolVars
  <1>6. EmitHolds' /\ PoolHolds'
    BY <1>3, <1>4 DEF Emitted, IInv, EmitHolds, PoolHolds, poolVars, streamVars
  <1>7. ASSUME NEW c \in Connections
        PROVE  (ClosedHolds(c) /\ FeedHolds(Feed(c), c))'
    <2>1. /\ ClosedHolds(c)'
          /\ Feed(c)' = Feed(c) /\ (Live(c)' <=> Live(c))
      BY DEF Emitted, IInv, ClosedHolds, Feed, Held, Live, busVars, streamVars
    <2>2. ~Awaited(c)'
      BY <1>3, <1>4 DEF Awaited, BeforePublish
    <2>3. FeedHolds(Feed(c), c)'
      BY <1>2, <2>1, <2>2, FeedStays DEF Emitted, streamVars
    <2>4. QED
      BY <2>1, <2>3
  <1>8. QED
    BY <1>5, <1>6, <1>7 DEF IInv

-------------------------------------------------------------------------------
(* The steps of a stream, its queue and its calls in the executor. *)

\* Streams change nothing for the threads that log.
LEMMA LogStays ==
    ASSUME IInv, UNCHANGED logVars
    PROVE  /\ EmitHolds'
           /\ \A c : (Awaited(c)' <=> Awaited(c)) /\ Due(c)' = Due(c)
  BY DEF logVars, IInv, EmitHolds, Awaited, BeforePublish, Due

\* A stream that this step is not about.
LEMMA StreamStays ==
    ASSUME IInv, UNCHANGED logVars, NEW c \in Connections,
           stream'[c] = stream[c], received'[c] = received[c], queue'[c] = queue[c],
           since'[c] = since[c], c \in subscribers' <=> c \in subscribers,
           c \in full' <=> c \in full
    PROVE  (ClosedHolds(c) /\ FeedHolds(Feed(c), c))'
  <1>1. ClosedHolds(c)'
    BY DEF IInv, ClosedHolds
  <1>2. Feed(c)' = Feed(c) /\ (Live(c)' <=> Live(c))
    BY DEF Feed, Held, Live
  <1>3. FeedHolds(Feed(c), c)'
    BY <1>2, LogStays, FeedStays DEF logVars
  <1>4. QED
    BY <1>1, <1>3

\* A feed that is as it was, of a stream that goes on or ends.
LEMMA FeedKept ==
    ASSUME IInv, UNCHANGED logVars, NEW c \in Connections, Feed(c)' = Feed(c),
           Live(c)' => Live(c) /\ since'[c] = since[c] /\ (c \in full => c \in full')
    PROVE  FeedHolds(Feed(c), c)'
  <1>1. FeedHolds(Feed(c), c)
    BY DEF IInv
  <1>2. QED
    BY <1>1, LogStays DEF FeedHolds, logVars

\* A stream that ends may lose events.
LEMMA FeedCut ==
    ASSUME IInv, UNCHANGED logVars, NEW c \in Connections, ~Live(c)',
           Increasing(Feed(c)'), ToSet(Feed(c)') \subseteq ToSet(Feed(c))
    PROVE  FeedHolds(Feed(c), c)'
  <1>1. FeedHolds(Feed(c), c)
    BY DEF IInv
  <1>2. QED
    BY <1>1, LogStays DEF FeedHolds, logVars

\* Without an item in hand, a feed is what was shown and what waits.
LEMMA NothingHeld ==
    ASSUME IInv, NEW c \in Connections
    PROVE  /\ received[c] \o Held(c) \o queue[c] = Feed(c)
           /\ stream[c].pc # "send" => Held(c) = <<>> /\ Feed(c) = received[c] \o queue[c]
           /\ stream[c].pc = "send" => Held(c) = <<stream[c].item>>
  BY StreamTypes, ConcatEmptySeq DEF Feed, Held

LEMMA OpenStep ==
    ASSUME IInv, NEW c \in Connections, Open(c) PROVE IInv'
  <1>1. /\ stream[c] = Closed /\ Closed.pc = "closed" /\ Closed.item = NoItem
        /\ UNCHANGED logVars /\ logs \in Seq(Events) /\ Len(logs) \in Nat
        /\ \A t \in Threads : c \notin emit[t].todo
    BY LenProperties DEF Open, Closed, logVars, IInv, TypeOK
  <1>2. /\ stream'[c].pc = "check" /\ stream'[c].item = NoItem
        /\ \A d \in Connections : d # c => stream'[d] = stream[d]
        /\ stream' \in [Connections ->
                          [pc : {"closed", "check", "get", "send", "leave"},
                           item : Events \cup {NoItem}]]
    BY <1>1 DEF Open, IInv, TypeOK
  <1>3. BeforePublish => Len(logs) - 1 \in Nat
    <2>1. BeforePublish => logs # <<>>
      BY DEF BeforePublish, IInv, EmitHolds
    <2>2. QED
      BY <1>1, <2>1, EmptySeq
  <1>4. /\ Awaited(c) <=> BeforePublish
        /\ since'[c] = Due(c) /\ Due(c) \in Nat
        /\ since' \in [Connections -> Nat]
        /\ \A d \in Connections : d # c => since'[d] = since[d]
    BY <1>1, <1>3 DEF Open, Awaited, Due, IInv, TypeOK
  <1>5. TypeOK'
    <2>1. /\ handled' = handled /\ logs' = logs /\ emit' = emit
          /\ queue' = queue /\ jobs' = jobs /\ running' = running
          /\ received' = received /\ should_exit' = should_exit /\ full' = full
      BY DEF Open, logVars, poolVars
    <2>2. subscribers' \subseteq Connections /\ connected' \subseteq Connections
      BY DEF Open, IInv, TypeOK
    <2>3. /\ TypeOK
          /\ stream' \in [Connections ->
                            [pc : {"closed", "check", "get", "send", "leave"},
                             item : Events \cup {NoItem}]]
          /\ since' \in [Connections -> Nat]
      BY <1>2, <1>4 DEF IInv
    <2>4. QED
      BY <2>1, <2>2, <2>3 DEF TypeOK
  <1>6. PoolHolds'
    BY <1>1, <1>2 DEF Open, IInv, PoolHolds, TypeOK, poolVars
  <1>7. /\ Feed(c)' = <<>> /\ Feed(c) = <<>> /\ queue'[c] = queue[c]
    <2>1. received[c] = <<>> /\ queue[c] = <<>>
      BY <1>1 DEF IInv, ClosedHolds
    <2>2. Held(c) = <<>> /\ Held(c)' = <<>>
      BY <1>1, <1>2 DEF Held
    <2>3. QED
      BY <2>1, <2>2, ShortSequences, ConcatEmptySeq DEF Open, Feed
  <1>8. FeedHolds(Feed(c), c)'
    <2>1. FeedHolds(<<>>, c)
      BY <1>7 DEF IInv
    <2>2. SubSeq(logs, Due(c) + 1, Due(c)) = <<>>
      BY <1>4, SubSeqEmpty
    <2>3. QED
      BY <1>1, <1>4, <1>7, <2>1, <2>2, LogStays DEF FeedHolds, logVars
  <1>9. ClosedHolds(c)'
    BY <1>2 DEF Open, ClosedHolds
  <1>10. ASSUME NEW d \in Connections, d # c
         PROVE  (ClosedHolds(d) /\ FeedHolds(Feed(d), d))'
    BY <1>1, <1>2, <1>4, <1>10, StreamStays DEF Open
  <1>11. QED
    BY <1>1, <1>5, <1>6, <1>8, <1>9, <1>10, LogStays DEF IInv

\* A step that moves a stream on and leaves its feed alone.
LEMMA StreamMoves ==
    ASSUME IInv, NEW c \in Connections, NEW pc \in {"check", "get", "leave"},
           stream' = [stream EXCEPT ![c].pc = pc] \/
              stream' = [stream EXCEPT ![c] = [pc |-> pc, item |-> NoItem]],
           Feed(c)' = Feed(c), stream[c].pc \in {"check", "get", "send"},
           \A d \in Connections \ {c} : received'[d] = received[d],
           received' \in [Connections -> Seq(Events)],
           jobs' \in Seq(Connections), running' \subseteq Connections,
           PoolHolds',
           UNCHANGED <<logVars, busVars, connected, since, should_exit, full>>
    PROVE  IInv'
  <1>1. /\ stream'[c].pc = pc
        /\ \A d \in Connections : d # c => stream'[d] = stream[d]
        /\ stream' \in [Connections ->
                          [pc : {"closed", "check", "get", "send", "leave"},
                           item : Events \cup {NoItem}]]
    <2> DEFINE Places == [pc : {"closed", "check", "get", "send", "leave"},
                          item : Events \cup {NoItem}]
    <2>1. stream \in [Connections -> Places]
      BY DEF IInv, TypeOK
    <2>2. [stream[c] EXCEPT !.pc = pc] \in Places /\ [pc |-> pc, item |-> NoItem] \in Places
      BY <2>1
    <2>3. PICK k \in Places : stream' = [stream EXCEPT ![c] = k] /\ k.pc = pc
      BY <2>1, <2>2
    <2>4. QED
      BY <2>1, <2>3
  <1>2. TypeOK'
    BY <1>1 DEF IInv, TypeOK, logVars, busVars
  <1>3. FeedHolds(Feed(c), c)'
    BY FeedKept DEF Live
  <1>4. ClosedHolds(c)'
    BY <1>1 DEF IInv, ClosedHolds, busVars
  <1>5. ASSUME NEW d \in Connections, d # c
        PROVE  (ClosedHolds(d) /\ FeedHolds(Feed(d), d))'
    BY <1>1, <1>5, StreamStays DEF busVars
  <1>6. QED
    BY <1>2, <1>3, <1>4, <1>5, LogStays DEF IInv

\* A stream that ends with an item in hand.
LEMMA LosesItem ==
    ASSUME IInv, NEW c \in Connections, stream[c].pc \in {"check", "get", "send"},
           stream' = [stream EXCEPT ![c] = [pc |-> "leave", item |-> NoItem]],
           jobs' \in Seq(Connections), PoolHolds',
           UNCHANGED <<logVars, busVars, connected, received, since, running,
                       should_exit, full>>
    PROVE  IInv'
  <1> DEFINE Places == [pc : {"closed", "check", "get", "send", "leave"},
                        item : Events \cup {NoItem}]
  <1>1. stream \in [Connections -> Places] /\ [pc |-> "leave", item |-> NoItem] \in Places
    BY DEF IInv, TypeOK
  <1>2. /\ stream'[c].pc = "leave"
        /\ \A d \in Connections : d # c => stream'[d] = stream[d]
        /\ stream' \in [Connections -> Places]
    BY <1>1
  <1>3. TypeOK'
    BY <1>2 DEF IInv, TypeOK, logVars, busVars
  <1>4. Feed(c)' = received[c] \o queue[c]
    <2>1. received[c] \o <<>> = received[c]
      BY StreamTypes, ConcatEmptySeq
    <2>2. Held(c)' = <<>>
      BY <1>2 DEF Held
    <2>3. QED
      BY <2>1, <2>2 DEF Feed, busVars
  <1>5. FeedHolds(Feed(c), c)'
    <2>1. Increasing(Feed(c))
      BY DEF IInv, FeedHolds
    <2>2. /\ Increasing(received[c] \o queue[c])
          /\ ToSet(received[c] \o queue[c]) \subseteq ToSet(Feed(c))
      BY <2>1, StreamTypes, Shortened DEF Feed
    <2>3. QED
      BY <1>2, <1>4, <2>2, FeedCut DEF Live
  <1>6. ClosedHolds(c)'
    BY <1>2 DEF IInv, ClosedHolds, busVars
  <1>7. ASSUME NEW d \in Connections, d # c
        PROVE  (ClosedHolds(d) /\ FeedHolds(Feed(d), d))'
    BY <1>2, <1>7, StreamStays DEF busVars
  <1>8. QED
    BY <1>3, <1>5, <1>6, <1>7, LogStays DEF IInv

LEMMA CheckStep ==
    ASSUME IInv, NEW c \in Connections, Check(c) PROVE IInv'
  <1>1. /\ stream[c].pc = "check" /\ jobs \in Seq(Connections)
        /\ running \subseteq Connections /\ c \notin running
        /\ stream \in [Connections -> [pc : {"closed", "check", "get", "send", "leave"},
                                       item : Events \cup {NoItem}]]
        /\ received \in [Connections -> Seq(Events)]
    BY DEF Check, IInv, TypeOK, PoolHolds
  <1>2. PICK pc \in {"leave", "get"} :
          /\ stream' = [stream EXCEPT ![c].pc = pc]
          /\ pc = "leave" => jobs' = jobs
          /\ pc = "get" => jobs' = Append(jobs, c)
    BY DEF Check
  <1>3. /\ stream'[c].pc = pc
        /\ \A d \in Connections : d # c => stream'[d] = stream[d]
    BY <1>1, <1>2
  <1>4. jobs' \in Seq(Connections) /\ PoolHolds'
    <2>1. CASE pc = "leave"
      BY <1>1, <1>2, <1>3, <2>1, LenProperties, ElementOfSeq DEF Check, IInv, PoolHolds
    <2>2. CASE pc = "get"
      <3>1. /\ jobs' \in Seq(Connections) /\ Len(jobs') = Len(jobs) + 1
            /\ \A i \in 1 .. Len(jobs) : jobs'[i] = jobs[i]
            /\ jobs'[Len(jobs) + 1] = c
        <4>1. jobs' = Append(jobs, c)
          BY <1>2, <2>2
        <4>2. QED
          BY <1>1, <4>1, AppendProperties
      <3>2. /\ Len(jobs) \in Nat /\ DOMAIN jobs = 1 .. Len(jobs)
            /\ DOMAIN jobs' = 1 .. Len(jobs) + 1
        BY <1>1, <3>1, LenProperties
      <3>3. \A i \in 1 .. Len(jobs) : jobs[i] \in Connections /\ jobs[i] # c
        BY <1>1, <3>2, ElementOfSeq DEF IInv, PoolHolds
      <3>4. QED
        <4>1. running' = running
          BY DEF Check
        <4>2. \A i \in 1 .. Len(jobs) : stream'[jobs[i]].pc = "get" /\ jobs[i] \notin running
          BY <1>3, <3>2, <3>3 DEF IInv, PoolHolds
        <4>3. ASSUME NEW i \in 1 .. Len(jobs) + 1
              PROVE  stream'[jobs'[i]].pc = "get" /\ jobs'[i] \notin running
          <5>1. CASE i = Len(jobs) + 1
            BY <1>1, <1>3, <2>2, <3>1, <5>1
          <5>2. CASE i \in 1 .. Len(jobs)
            BY <3>1, <4>2, <5>2
          <5>3. QED
            BY <3>2, <5>1, <5>2
        <4>4. ASSUME NEW i \in 1 .. Len(jobs) + 1, NEW j \in 1 .. Len(jobs) + 1,
                     jobs'[i] = jobs'[j]
              PROVE  i = j
          <5>1. CASE i \in 1 .. Len(jobs) /\ j \in 1 .. Len(jobs)
            BY <3>1, <3>2, <4>4, <5>1 DEF IInv, PoolHolds
          <5>2. CASE i = Len(jobs) + 1 /\ j \in 1 .. Len(jobs)
            BY <3>1, <3>3, <4>4, <5>2
          <5>3. CASE i \in 1 .. Len(jobs) /\ j = Len(jobs) + 1
            BY <3>1, <3>3, <4>4, <5>3
          <5>4. QED
            BY <3>2, <5>1, <5>2, <5>3
        <4>5. \A d \in Connections : stream'[d].pc \in {"check", "send"} => d \notin running
          BY <1>3, <2>2 DEF IInv, PoolHolds
        <4>6. QED
          BY <3>1, <3>2, <4>1, <4>3, <4>4, <4>5 DEF PoolHolds
    <2>3. QED
      BY <2>1, <2>2
  <1>5. Feed(c)' = Feed(c)
    BY <1>1, <1>3 DEF Check, Feed, Held, busVars
  <1>6. QED
    BY <1>1, <1>2, <1>4, <1>5, StreamMoves DEF Check

LEMMA SendStep ==
    ASSUME IInv, NEW c \in Connections, Send(c) PROVE IInv'
  <1> DEFINE x == stream[c].item
  <1>1. /\ stream[c].pc = "send" /\ x \in Events /\ <<x>> \in Seq(Events)
        /\ received \in [Connections -> Seq(Events)] /\ c \notin running
        /\ jobs \in Seq(Connections) /\ running \subseteq Connections
        /\ stream \in [Connections -> [pc : {"closed", "check", "get", "send", "leave"},
                                       item : Events \cup {NoItem}]]
    BY ShortSequences DEF Send, IInv, TypeOK, ClosedHolds, PoolHolds
  <1>2. PoolHolds'
    <2>1. /\ stream'[c].pc \in {"check", "leave"}
          /\ \A d \in Connections : d # c => stream'[d] = stream[d]
      BY <1>1 DEF Send
    <2>2. \A i \in DOMAIN jobs : jobs[i] \in Connections /\ jobs[i] # c
      BY <1>1, LenProperties, ElementOfSeq DEF IInv, PoolHolds
    <2>3. QED
      <3>1. jobs' = jobs /\ running' = running
        BY DEF Send, poolVars
      <3>2. \A i \in DOMAIN jobs : stream'[jobs[i]].pc = "get" /\ jobs[i] \notin running
        BY <2>1, <2>2 DEF IInv, PoolHolds
      <3>3. \A d \in Connections : stream'[d].pc \in {"check", "send"} => d \notin running
        BY <1>1, <2>1 DEF IInv, PoolHolds
      <3>4. QED
        BY <3>1, <3>2, <3>3 DEF IInv, PoolHolds
  <1>3. CASE c \in connected
    <2>1. /\ received' = [received EXCEPT ![c] = Append(@, x)]
          /\ stream' = [stream EXCEPT ![c] = [pc |-> "check", item |-> NoItem]]
      BY <1>3 DEF Send
    <2>2. /\ Append(received[c], x) \in Seq(Events)
          /\ Append(received[c], x) = received[c] \o <<x>>
          /\ queue[c] \in Seq(Events)
      BY <1>1, AppendProperties, AppendIsConcat, StreamTypes
    <2>3. received' \in [Connections -> Seq(Events)] /\ received'[c] = received[c] \o <<x>>
      BY <1>1, <2>1, <2>2
    <2>4. Feed(c)' = Feed(c)
      <3>1. Held(c) = <<x>> /\ Held(c)' = <<>>
        BY <1>1, <2>1 DEF Held
      <3>2. received'[c] \o <<>> = received'[c]
        BY <2>2, <2>3, ConcatEmptySeq
      <3>3. QED
        BY <2>3, <3>1, <3>2 DEF Feed, Send, busVars
    <2>5. QED
      BY <1>1, <1>2, <2>1, <2>3, <2>4, StreamMoves DEF Send, poolVars
  <1>4. CASE c \notin connected
    <2>1. stream' = [stream EXCEPT ![c] = [pc |-> "leave", item |-> NoItem]]
          /\ received' = received
      BY <1>4 DEF Send
    <2>2. QED
      BY <1>1, <1>2, <2>1, LosesItem DEF Send, poolVars
  <1>5. QED
    BY <1>3, <1>4

LEMMA LeaveStep ==
    ASSUME IInv, NEW c \in Connections, Leave(c) PROVE IInv'
  <1>1. /\ stream[c].pc = "leave" /\ UNCHANGED logVars
        /\ stream' = [stream EXCEPT ![c] = Closed]
        /\ Closed \in [pc : {"closed", "check", "get", "send", "leave"},
                       item : Events \cup {NoItem}]
        /\ Closed.pc = "closed"
        /\ jobs' = jobs /\ running' = running
    BY DEF Leave, Closed, poolVars
  <1>2. /\ stream'[c] = Closed /\ queue'[c] = <<>> /\ received'[c] = <<>>
        /\ \A d \in Connections : d # c =>
              /\ stream'[d] = stream[d] /\ queue'[d] = queue[d]
              /\ received'[d] = received[d] /\ since'[d] = since[d]
    BY <1>1 DEF Leave, IInv, TypeOK
  <1>3. TypeOK'
    <2>1. <<>> \in Seq(Events) /\ Len(<<>>) <= QueueSize
      BY LiveFeedAssumption
    <2>2. stream' \in [Connections -> [pc : {"closed", "check", "get", "send", "leave"},
                                       item : Events \cup {NoItem}]]
      BY <1>1 DEF IInv, TypeOK
    <2>3. /\ queue' \in [Connections -> Seq(Events)]
          /\ received' \in [Connections -> Seq(Events)]
          /\ since' \in [Connections -> Nat]
      BY <2>1 DEF Leave, IInv, TypeOK
    <2>4. \A d \in Connections : Len(queue'[d]) <= QueueSize
      BY <1>2, <2>1 DEF IInv, TypeOK
    <2>5. QED
      BY <1>1, <2>2, <2>3, <2>4 DEF Leave, IInv, TypeOK, logVars
  <1>4. PoolHolds'
    <2>1. \A i \in DOMAIN jobs : jobs[i] \in Connections /\ jobs[i] # c
      BY <1>1, LenProperties, ElementOfSeq DEF IInv, TypeOK, PoolHolds
    <2>2. \A i \in DOMAIN jobs : stream'[jobs[i]].pc = "get" /\ jobs[i] \notin running
      BY <1>2, <2>1 DEF IInv, PoolHolds
    <2>3. \A d \in Connections : stream'[d].pc \in {"check", "send"} => d \notin running
      BY <1>1, <1>2 DEF IInv, PoolHolds
    <2>4. QED
      BY <1>1, <2>2, <2>3 DEF IInv, PoolHolds
  <1>5. ClosedHolds(c)'
    BY <1>1, <1>2 DEF Leave, ClosedHolds
  <1>6. FeedHolds(Feed(c), c)'
    <2>1. Feed(c)' = <<>>
      BY <1>1, <1>2, ShortSequences, ConcatEmptySeq DEF Feed, Held
    <2>2. QED
      BY <1>1, <1>2, <2>1, ShortSequences, FeedCut DEF Live
  <1>7. ASSUME NEW d \in Connections, d # c
        PROVE  (ClosedHolds(d) /\ FeedHolds(Feed(d), d))'
    BY <1>1, <1>2, <1>7, StreamStays DEF Leave
  <1>8. QED
    BY <1>1, <1>3, <1>4, <1>5, <1>6, <1>7, LogStays DEF IInv

LEMMA DisconnectStep ==
    ASSUME IInv, NEW c \in Connections, Disconnect(c) PROVE IInv'
  <1>1. ASSUME NEW d \in Connections
        PROVE  (ClosedHolds(d) /\ FeedHolds(Feed(d), d))'
    BY StreamStays DEF Disconnect, busVars
  <1>2. TypeOK'
    BY DEF Disconnect, IInv, TypeOK, logVars, busVars, poolVars
  <1>3. PoolHolds'
    BY DEF Disconnect, IInv, PoolHolds, poolVars
  <1>4. QED
    BY <1>1, <1>2, <1>3, LogStays DEF Disconnect, IInv

LEMMA ShutdownStep == ASSUME IInv, Shutdown PROVE IInv'
  <1>1. ASSUME NEW d \in Connections
        PROVE  (ClosedHolds(d) /\ FeedHolds(Feed(d), d))'
    BY StreamStays DEF Shutdown, busVars, streamVars
  <1>2. TypeOK'
    BY DEF Shutdown, IInv, TypeOK, logVars, busVars, streamVars, poolVars
  <1>3. PoolHolds'
    BY DEF Shutdown, IInv, PoolHolds, streamVars, poolVars
  <1>4. QED
    BY <1>1, <1>2, <1>3, LogStays DEF Shutdown, IInv

\* The calls that wait move up.
LEMMA StartGetStep == ASSUME IInv, StartGet PROVE IInv'
  <1>1. /\ jobs \in Seq(Connections) /\ jobs # <<>>
        /\ running' = running \cup {Head(jobs)} /\ jobs' = Tail(jobs)
        /\ stream' = stream
    BY DEF StartGet, IInv, TypeOK, streamVars
  <1>2. /\ Head(jobs) = jobs[1] /\ Head(jobs) \in Connections
        /\ Tail(jobs) \in Seq(Connections) /\ Len(Tail(jobs)) = Len(jobs) - 1
        /\ \A i \in 1 .. Len(Tail(jobs)) : Tail(jobs)[i] = jobs[i + 1]
        /\ Len(jobs) \in Nat /\ Len(jobs) >= 1
        /\ DOMAIN jobs = 1 .. Len(jobs) /\ DOMAIN Tail(jobs) = 1 .. Len(Tail(jobs))
    BY <1>1, HeadTailProperties, EmptySeq, LenProperties
  <1>3. PoolHolds'
    <2>1. \A i \in 1 .. Len(jobs) - 1 : i + 1 \in 1 .. Len(jobs) /\ i + 1 # 1
      BY <1>2
    <2>2. \A i \in DOMAIN jobs' :
             /\ i + 1 \in DOMAIN jobs /\ i + 1 # 1
             /\ jobs'[i] = jobs[i + 1]
      BY <1>1, <1>2, <2>1
    <2>3. \A i \in DOMAIN jobs' : stream'[jobs'[i]].pc = "get" /\ jobs'[i] \notin running'
      BY <1>1, <1>2, <2>2 DEF IInv, PoolHolds
    <2>4. \A i, j \in DOMAIN jobs' : jobs'[i] = jobs'[j] => i = j
      <3>1. \A i \in DOMAIN jobs' : i \in Int
        BY <1>1, <1>2
      <3>2. QED
        BY <2>2, <3>1 DEF IInv, PoolHolds
    <2>5. stream[jobs[1]].pc = "get"
      BY <1>2 DEF IInv, PoolHolds
    <2>6. \A d \in Connections : stream'[d].pc \in {"check", "send"} => d \notin running'
      BY <1>1, <1>2, <2>5 DEF IInv, PoolHolds
    <2>7. QED
      BY <2>3, <2>4, <2>6 DEF PoolHolds
  <1>4. ASSUME NEW d \in Connections
        PROVE  (ClosedHolds(d) /\ FeedHolds(Feed(d), d))'
    BY StreamStays DEF StartGet, busVars, streamVars
  <1>5. TypeOK'
    BY <1>1, <1>2 DEF StartGet, IInv, TypeOK, logVars, busVars, streamVars
  <1>6. QED
    BY <1>3, <1>4, <1>5, LogStays DEF StartGet, IInv

LEMMA GetStep ==
    ASSUME IInv, NEW c \in Connections, Get(c) PROVE IInv'
  <1> DEFINE Places == [pc : {"closed", "check", "get", "send", "leave"},
                        item : Events \cup {NoItem}]
             x      == Head(queue[c])
             rest   == Tail(queue[c])
  <1>1. /\ c \in running /\ queue[c] # <<>> /\ UNCHANGED logVars
        /\ running' = running \ {c} /\ jobs' = jobs
        /\ queue' = [queue EXCEPT ![c] = rest]
        /\ stream \in [Connections -> Places] /\ queue \in [Connections -> Seq(Events)]
        /\ received' = received /\ since' = since /\ full' = full
        /\ subscribers' = subscribers
    BY DEF Get, IInv, TypeOK
  <1>2. /\ x \in Events /\ rest \in Seq(Events) /\ Len(rest) = Len(queue[c]) - 1
        /\ queue[c] = <<x>> \o rest /\ <<x>> \in Seq(Events)
    BY StreamTypes, <1>1, HeadAndTail, ShortSequences
  <1>3. /\ queue'[c] = rest
        /\ \A d \in Connections : d # c => queue'[d] = queue[d]
        /\ queue' \in [Connections -> Seq(Events)]
    BY <1>1, <1>2
  <1>4. \A d \in Connections : Len(queue'[d]) <= QueueSize
    <2>1. Len(queue[c]) \in Nat /\ Len(queue[c]) <= QueueSize
      BY <1>1, LenProperties DEF IInv, TypeOK
    <2>2. Len(rest) <= QueueSize
      BY <1>2, <2>1, LiveFeedAssumption
    <2>3. QED
      BY <1>3, <2>2 DEF IInv, TypeOK
  <1>5. CASE stream[c].pc = "get"
    <2>1. /\ stream' = [stream EXCEPT ![c] = [pc |-> "send", item |-> x]]
          /\ [pc |-> "send", item |-> x] \in Places
      BY <1>2, <1>5 DEF Get
    <2>2. /\ stream'[c].pc = "send" /\ stream'[c].item = x
          /\ \A d \in Connections : d # c => stream'[d] = stream[d]
          /\ stream' \in [Connections -> Places]
      BY <1>1, <2>1
    <2>3. TypeOK'
      BY <1>1, <1>3, <1>4, <2>2 DEF Get, IInv, TypeOK, logVars
    <2>4. PoolHolds'
      <3>1. \A i \in DOMAIN jobs : jobs[i] \in Connections /\ jobs[i] # c
        BY <1>1, LenProperties, ElementOfSeq DEF IInv, TypeOK, PoolHolds
      <3>2. \A i \in DOMAIN jobs : stream'[jobs[i]].pc = "get" /\ jobs[i] \notin running'
        BY <1>1, <2>2, <3>1 DEF IInv, PoolHolds
      <3>3. \A d \in Connections : stream'[d].pc \in {"check", "send"} => d \notin running'
        BY <1>1, <2>2 DEF IInv, PoolHolds
      <3>4. QED
        BY <1>1, <3>2, <3>3 DEF IInv, PoolHolds
    <2>5. Feed(c)' = Feed(c)
      <3>1. Held(c) = <<>> /\ Held(c)' = <<x>>
        BY <1>5, <2>2 DEF Held
      <3>2. received[c] \in Seq(Events) /\ received[c] \o <<>> = received[c]
        BY StreamTypes, ConcatEmptySeq
      <3>3. received[c] \o (<<x>> \o rest) = (received[c] \o <<x>>) \o rest
        BY <1>2, <3>2, Regrouped
      <3>4. QED
        BY <1>1, <1>2, <1>3, <3>1, <3>2, <3>3 DEF Feed
    <2>6. FeedHolds(Feed(c), c)'
      BY <1>1, <1>5, <2>5, FeedKept DEF Live
    <2>7. ClosedHolds(c)'
      BY <1>1, <1>2, <1>5, <2>2 DEF IInv, ClosedHolds
    <2>8. ASSUME NEW d \in Connections, d # c
          PROVE  (ClosedHolds(d) /\ FeedHolds(Feed(d), d))'
      BY <1>1, <1>3, <2>2, <2>8, StreamStays
    <2>9. QED
      BY <1>1, <2>3, <2>4, <2>6, <2>7, <2>8, LogStays DEF IInv
  <1>6. CASE stream[c].pc # "get"
    <2>1. stream' = stream
      BY <1>6 DEF Get
    <2>2. stream[c].pc = "leave"
      BY <1>1, <1>6 DEF IInv, ClosedHolds, PoolHolds
    <2>3. TypeOK'
      BY <1>1, <1>3, <1>4, <2>1 DEF Get, IInv, TypeOK, logVars
    <2>4. PoolHolds'
      BY <1>1, <2>1 DEF IInv, PoolHolds
    <2>5. /\ Feed(c) = received[c] \o queue[c]
          /\ Feed(c)' = received[c] \o rest
          /\ received[c] \in Seq(Events)
      <3>1. received[c] \in Seq(Events) /\ received[c] \o <<>> = received[c]
        BY StreamTypes, ConcatEmptySeq
      <3>2. Held(c) = <<>> /\ Held(c)' = <<>>
        BY <2>1, <2>2 DEF Held
      <3>3. QED
        BY <1>1, <1>3, <3>1, <3>2 DEF Feed
    <2>6. Feed(c) = (received[c] \o <<x>>) \o rest
      <3>1. received[c] \o (<<x>> \o rest) = (received[c] \o <<x>>) \o rest
        BY <1>2, <2>5, Regrouped
      <3>2. QED
        BY <1>2, <2>5, <3>1
    <2>7. Increasing(Feed(c))
      BY DEF IInv, FeedHolds
    <2>8. Increasing(Feed(c)') /\ ToSet(Feed(c)') \subseteq ToSet(Feed(c))
      <3>1. PICK one \in Seq(Events) : one = <<x>>
        BY <1>2
      <3>2. Increasing((received[c] \o one) \o rest)
        BY <2>6, <2>7, <3>1
      <3>3. /\ Increasing(received[c] \o rest)
            /\ ToSet(received[c] \o rest) \subseteq ToSet((received[c] \o one) \o rest)
        BY <1>2, <2>5, <3>2, Shortened
      <3>4. QED
        BY <2>5, <2>6, <3>1, <3>3
    <2>9. FeedHolds(Feed(c), c)'
      BY <1>1, <2>1, <2>2, <2>8, FeedCut DEF Live
    <2>10. ClosedHolds(c)'
      BY <1>1, <2>1, <2>2 DEF IInv, ClosedHolds
    <2>11. ASSUME NEW d \in Connections, d # c
           PROVE  (ClosedHolds(d) /\ FeedHolds(Feed(d), d))'
      BY <1>1, <1>3, <2>1, <2>11, StreamStays
    <2>12. QED
      BY <1>1, <2>3, <2>4, <2>9, <2>10, <2>11, LogStays DEF IInv
  <1>7. QED
    BY <1>5, <1>6

LEMMA TimeoutStep ==
    ASSUME IInv, NEW c \in Connections, Timeout(c) PROVE IInv'
  <1>1. /\ c \in running /\ running' = running \ {c} /\ jobs' = jobs
        /\ jobs \in Seq(Connections) /\ running \subseteq Connections
        /\ received \in [Connections -> Seq(Events)] /\ received' = received
        /\ stream \in [Connections -> [pc : {"closed", "check", "get", "send", "leave"},
                                       item : Events \cup {NoItem}]]
    BY DEF Timeout, IInv, TypeOK
  <1>2. CASE stream[c].pc = "get"
    <2>1. stream' = [stream EXCEPT ![c].pc = "check"]
      BY <1>2 DEF Timeout
    <2>2. /\ stream'[c].pc = "check"
          /\ \A d \in Connections : d # c => stream'[d] = stream[d]
      BY <1>1, <2>1
    <2>3. PoolHolds'
      <3>1. \A i \in DOMAIN jobs : jobs[i] \in Connections /\ jobs[i] # c
        BY <1>1, LenProperties, ElementOfSeq DEF IInv, PoolHolds
      <3>2. \A i \in DOMAIN jobs : stream'[jobs[i]].pc = "get" /\ jobs[i] \notin running'
        BY <1>1, <2>2, <3>1 DEF IInv, PoolHolds
      <3>3. \A d \in Connections : stream'[d].pc \in {"check", "send"} => d \notin running'
        BY <1>1, <2>2 DEF IInv, PoolHolds
      <3>4. QED
        BY <1>1, <3>2, <3>3 DEF IInv, PoolHolds
    <2>4. Feed(c)' = Feed(c)
      BY <1>2, <2>2 DEF Timeout, Feed, Held, busVars
    <2>5. QED
      BY <1>1, <1>2, <2>1, <2>3, <2>4, StreamMoves DEF Timeout
  <1>3. CASE stream[c].pc # "get"
    <2>1. stream' = stream
      BY <1>3 DEF Timeout
    <2>2. TypeOK'
      BY <1>1, <2>1 DEF Timeout, IInv, TypeOK, logVars, busVars
    <2>3. PoolHolds'
      BY <1>1, <2>1 DEF IInv, PoolHolds
    <2>4. ASSUME NEW d \in Connections
          PROVE  (ClosedHolds(d) /\ FeedHolds(Feed(d), d))'
      BY <2>1, StreamStays DEF Timeout, busVars
    <2>5. QED
      BY <2>2, <2>3, <2>4, LogStays DEF Timeout, IInv
  <1>4. QED
    BY <1>2, <1>3

\* Taking a call that waits out of the executor.
LEMMA JobRemoved ==
    ASSUME NEW s \in Seq(Connections), NEW i \in DOMAIN s,
           \A k, l \in DOMAIN s : s[k] = s[l] => k = l
    PROVE  /\ RemoveAt(s, i) \in Seq(Connections)
           /\ \A j \in DOMAIN RemoveAt(s, i) :
                 \E k \in DOMAIN s : k # i /\ RemoveAt(s, i)[j] = s[k]
           /\ \A j, m \in DOMAIN RemoveAt(s, i) :
                 RemoveAt(s, i)[j] = RemoveAt(s, i)[m] => j = m
  <1> DEFINE n     == Len(s)
             front == SubSeq(s, 1, i - 1)
             back  == SubSeq(s, i + 1, n)
             t     == front \o back
             At(j) == IF j < i THEN j ELSE j + 1
  <1>1. DOMAIN s = 1 .. n /\ n \in Nat /\ i \in 1 .. n
    BY LenProperties
  <1>2. \A j \in 1 .. n : s[j] \in Connections
    BY <1>1, ElementOfSeq
  <1>3. /\ front \in Seq(Connections) /\ Len(front) = i - 1
        /\ \A j \in 1 .. i - 1 : front[j] = s[j]
    BY <1>1, <1>2, SubSeqProperties
  <1>4. /\ back \in Seq(Connections) /\ Len(back) = n - i
        /\ \A j \in 1 .. n - i : back[j] = s[i + j]
    BY <1>1, <1>2, SubSeqProperties
  <1> HIDE DEF front, back
  <1>5. /\ t \in Seq(Connections) /\ Len(t) = n - 1
        /\ \A j \in 1 .. n - 1 : t[j] = IF j <= i - 1 THEN front[j] ELSE back[j - (i - 1)]
    <2>1. /\ t \in Seq(Connections)
          /\ Len(t) = Len(front) + Len(back)
          /\ \A j \in 1 .. Len(front) + Len(back) :
                t[j] = IF j <= Len(front) THEN front[j] ELSE back[j - Len(front)]
      <3>1. front \in Seq(Connections) /\ back \in Seq(Connections)
        BY <1>3, <1>4
      <3>2. QED
        BY <3>1, ConcatProperties
    <2>2. Len(front) + Len(back) = n - 1
      BY <1>1, <1>3, <1>4
    <2>3. QED
      BY <1>3, <2>1, <2>2
  <1> HIDE DEF t
  <1>6. DOMAIN t = 1 .. n - 1
    BY <1>5, LenProperties
  <1>7. ASSUME NEW j \in 1 .. n - 1
        PROVE  t[j] = s[At(j)] /\ At(j) \in 1 .. n /\ At(j) # i
    <2>1. CASE j < i
      BY <1>1, <1>3, <1>5, <2>1
    <2>2. CASE ~(j < i)
      <3>1. j - (i - 1) \in 1 .. n - i /\ i + (j - (i - 1)) = j + 1 /\ ~(j <= i - 1)
        BY <1>1, <2>2
      <3>2. QED
        <4>1. t[j] = back[j - (i - 1)]
          BY <1>5, <3>1
        <4>2. back[j - (i - 1)] = s[j + 1]
          BY <1>4, <3>1
        <4>3. QED
          BY <1>1, <2>2, <4>1, <4>2
    <2>3. QED
      BY <2>1, <2>2
  <1>8. \A j, m \in 1 .. n - 1 : At(j) = At(m) => j = m
    BY <1>1
  <1> HIDE DEF At
  <1>9. RemoveAt(s, i) = t
    BY DEF RemoveAt, t, front, back
  <1>10. QED
    BY <1>1, <1>5, <1>6, <1>7, <1>8, <1>9

LEMMA CancelStep ==
    ASSUME IInv, NEW c \in Connections, Cancel(c) PROVE IInv'
  <1>1. /\ stream[c].pc \in {"check", "get", "send"}
        /\ stream' = [stream EXCEPT ![c] = [pc |-> "leave", item |-> NoItem]]
        /\ jobs \in Seq(Connections) /\ running' = running
        /\ stream \in [Connections -> [pc : {"closed", "check", "get", "send", "leave"},
                                       item : Events \cup {NoItem}]]
        /\ \A i, j \in DOMAIN jobs : jobs[i] = jobs[j] => i = j
        /\ \A i \in DOMAIN jobs : jobs[i] \in Connections
    BY LenProperties, ElementOfSeq DEF Cancel, IInv, TypeOK, PoolHolds
  <1>2. /\ jobs' \in Seq(Connections)
        /\ \A j \in DOMAIN jobs' : \E k \in DOMAIN jobs : jobs'[j] = jobs[k] /\ jobs[k] # c
        /\ \A i, j \in DOMAIN jobs' : jobs'[i] = jobs'[j] => i = j
    <2>1. CASE c \notin ToSet(jobs) /\ UNCHANGED jobs
      BY <1>1, <2>1 DEF ToSet
    <2>2. CASE \E i \in DOMAIN jobs : jobs[i] = c /\ jobs' = RemoveAt(jobs, i)
      <3>1. PICK i \in DOMAIN jobs : jobs[i] = c /\ jobs' = RemoveAt(jobs, i)
        BY <2>2
      <3>2. /\ jobs' \in Seq(Connections)
            /\ \A j \in DOMAIN jobs' : \E k \in DOMAIN jobs : k # i /\ jobs'[j] = jobs[k]
            /\ \A j, m \in DOMAIN jobs' : jobs'[j] = jobs'[m] => j = m
        BY <1>1, <3>1, JobRemoved
      <3>3. QED
        BY <1>1, <3>1, <3>2
    <2>3. QED
      BY <2>1, <2>2 DEF Cancel
  <1>3. /\ stream'[c].pc = "leave"
        /\ \A d \in Connections : d # c => stream'[d] = stream[d]
    BY <1>1
  <1>4. PoolHolds'
    BY <1>1, <1>2, <1>3 DEF IInv, PoolHolds
  <1>5. QED
    BY <1>1, <1>2, <1>4, LosesItem DEF Cancel

-------------------------------------------------------------------------------
(* The theorems. *)

LEMMA StepHolds == ASSUME IInv, [Next]_vars PROVE IInv'
  <1>1. ASSUME NEW t \in Threads, Emit(t) PROVE IInv'
    BY <1>1, HandleStep, RecordStep, PublishStep, DeliverStep, EmittedStep DEF Emit
  <1>2. ASSUME NEW c \in Connections,
               Open(c) \/ Stream(c) \/ Get(c) \/ Timeout(c) \/ Disconnect(c) \/ Cancel(c)
        PROVE  IInv'
    BY <1>2, OpenStep, CheckStep, SendStep, LeaveStep, GetStep, TimeoutStep,
       DisconnectStep, CancelStep DEF Stream
  <1>3. CASE StartGet \/ Shutdown
    BY <1>3, StartGetStep, ShutdownStep
  <1>4. CASE UNCHANGED vars
    <2>1. UNCHANGED logVars /\ TypeOK' /\ PoolHolds'
      BY <1>4 DEF vars, logVars, busVars, streamVars, poolVars, IInv, TypeOK, PoolHolds
    <2>2. ASSUME NEW c \in Connections
          PROVE  (ClosedHolds(c) /\ FeedHolds(Feed(c), c))'
      BY <1>4, <2>1, StreamStays DEF vars, busVars, streamVars
    <2>3. QED
      BY <2>1, <2>2, LogStays DEF IInv
  <1>5. QED
    BY <1>1, <1>2, <1>3, <1>4 DEF Next

\* The invariant behind the theorems below: the handler's lock makes the log grow in
\* order, and what a stream holds and has waiting is a part of the log that ends
\* before the event still on its way (SQLiteEventHandler.emit, event_bus.publish).
THEOREM InvariantHolds == Spec => []IInv
  <1>1. IInv /\ [Next]_vars => IInv'
    BY StepHolds
  <1>2. QED
    BY <1>1, InitHolds, PTL DEF Spec

\* Every variable has its type; no queue is longer than its bound (event_bus.py).
THEOREM TypeCorrect == Spec => []TypeOK
  <1>1. IInv => TypeOK
    BY DEF IInv
  <1>2. QED
    BY <1>1, InvariantHolds, PTL

\* A stream shows recorded events only, each at most once and in the order of the
\* log, for any number of threads and streams (SQLiteEventHandler.emit).
THEOREM FeedInOrder == Spec => []FeedFollowsLog
  <1>1. ASSUME IInv PROVE FeedFollowsLog
    <2>1. SUFFICES ASSUME NEW c \in Connections
                   PROVE  /\ \A i \in DOMAIN Feed(c) : \E j \in DOMAIN logs :
                                logs[j] = Feed(c)[i]
                          /\ \A i, j \in DOMAIN Feed(c) :
                                i < j => Position(Feed(c)[i]) < Position(Feed(c)[j])
      BY DEF FeedFollowsLog
    <2> DEFINE f == Feed(c)
    <2>2. Increasing(f) /\ ToSet(f) \subseteq ToSet(logs) /\ Increasing(logs)
      BY <1>1 DEF IInv, FeedHolds, EmitHolds
    <2> HIDE DEF f
    <2>3. \A i \in DOMAIN f : \E j \in DOMAIN logs : logs[j] = f[i]
      BY <2>2 DEF ToSet
    <2>4. /\ logs \in Seq(Events) /\ DOMAIN logs = 1 .. Len(logs) /\ Len(logs) \in Nat
          /\ \A k \in DOMAIN logs : logs[k] \in Int
      <3>1. logs \in Seq(Events) /\ DOMAIN logs = 1 .. Len(logs) /\ Len(logs) \in Nat
        BY <1>1, LenProperties DEF IInv, TypeOK
      <3>2. ASSUME NEW k \in DOMAIN logs PROVE logs[k] \in Int
        <4>1. logs[k] \in Events
          BY <3>1, ElementOfSeq
        <4>2. QED
          BY <4>1 DEF Events
      <3>3. QED
        BY <3>1, <3>2
    <2>5. ASSUME NEW i \in DOMAIN f, NEW j \in DOMAIN f, i < j
          PROVE  Position(f[i]) < Position(f[j])
      <3> DEFINE p == Position(f[i])
                 q == Position(f[j])
      <3>1. /\ p \in DOMAIN logs /\ logs[p] = f[i]
            /\ q \in DOMAIN logs /\ logs[q] = f[j]
        BY <2>3 DEF Position
      <3>2. logs[p] < logs[q]
        BY <2>2, <2>5, <3>1 DEF Increasing
      <3> HIDE DEF p, q
      <3>3. p \in Int /\ q \in Int /\ ~(logs[q] < logs[p]) /\ logs[p] # logs[q]
        BY <2>4, <3>1, <3>2
      <3>4. ~(q < p) /\ p # q
        BY <2>2, <3>1, <3>3 DEF Increasing
      <3>5. p < q
        BY <3>3, <3>4
      <3>6. QED
        BY <3>5 DEF p, q
    <2>6. QED
      BY <2>3, <2>5 DEF f
  <1>2. QED
    BY <1>1, InvariantHolds, PTL

\* A stream whose queue was never full shows all that was recorded since it opened,
\* but for the event on its way, whatever other streams do (event_bus.publish).
THEOREM NothingMissed == Spec => []NoGapUnlessFull
  <1>1. IInv => NoGapUnlessFull
    BY DEF IInv, FeedHolds, Due, NoGapUnlessFull
  <1>2. QED
    BY <1>1, InvariantHolds, PTL
===============================================================================
