-------------------------- MODULE ConnectivityProofs --------------------------
(***************************************************************************)
(* Theorems about Connectivity, for any services, dashboard threads, flips *)
(* and faults.                                                             *)
(***************************************************************************)
EXTENDS Connectivity, TLAPS

-------------------------------------------------------------------------------
(* The inductive invariant. *)

Status == {"unknown", "online", "offline"}

TaskType == [pc : {"sleep", "probe", "client", "set", "log", "done"},
             service : Services \cup {"none"}, check : BOOLEAN, previous : Status,
             answer : BOOLEAN, said : {"nothing", "connected", "restored", "lost"},
             replaced : Status \cup {"none"}, touched : BOOLEAN]

\* A check that no other thread came between replaced the status it had read, and
\* until it writes that status is still the one it read.
TaskHolds(k) ==
    /\ k \in TaskType
    /\ k.pc \in {"probe", "client", "set", "log"} => k.service \in Services
    /\ k.pc = "log" => k.check /\ k.replaced # "none"
    /\ k.check => k.pc \in {"probe", "client", "set", "log"}
    /\ k.check /\ ~k.touched =>
          k.previous = IF k.replaced = "none" THEN status[k.service] ELSE k.replaced

IInv ==
    /\ reachable \in [Services -> BOOLEAN]
    /\ status \in [Services -> Status]
    /\ task \in [Threads -> TaskType]
    /\ flips \in 0 .. MaxFlips
    /\ faults \in 0 .. MaxFaults
    /\ \A t \in Threads : TaskHolds(task[t])

-------------------------------------------------------------------------------
(* The steps. *)

\* A thread with nothing to do, perhaps with what it has just said.
LEMMA FreeHolds ==
    ASSUME NEW s \in Services \cup {"none"}, NEW pc \in {"sleep", "done"},
           NEW said \in {"nothing", "connected", "restored", "lost"}
    PROVE  /\ TaskHolds([Free EXCEPT !.pc = pc, !.service = s, !.said = said])
           /\ TaskHolds(Free) /\ TaskHolds(Free)'
  BY DEF TaskHolds, TaskType, Free, Status

\* A step of one thread that leaves every status as it is.
LEMMA OneTask ==
    ASSUME IInv, NEW t \in Threads, NEW k, TaskHolds(k), task' = [task EXCEPT ![t] = k],
           status' = status, reachable' \in [Services -> BOOLEAN],
           flips' \in 0 .. MaxFlips, faults' \in 0 .. MaxFaults
    PROVE  IInv'
  <1>1. k \in TaskType
    BY DEF TaskHolds
  <1>2. task' \in [Threads -> TaskType]
    BY <1>1 DEF IInv
  <1>3. ASSUME NEW u \in Threads PROVE TaskHolds(task[u])'
    <2>1. TaskHolds(task'[u])
      BY DEF IInv
    <2>2. QED
      BY <2>1 DEF TaskHolds
  <1>4. QED
    BY <1>2, <1>3 DEF IInv

\* A check begins, or a use of the mail client.
LEMMA BeginStep ==
    ASSUME IInv, NEW t \in Threads, NEW s \in Services, NEW check \in BOOLEAN,
           Begin(t, s, check), UNCHANGED <<reachable, status, flips, faults>>
    PROVE  IInv'
  <1> DEFINE k == [Free EXCEPT !.pc = "probe", !.service = s, !.check = check,
                      !.previous = IF check THEN status[s] ELSE "unknown"]
  <1>1. TaskHolds(k)
    <2>1. status[s] \in Status
      BY DEF IInv
    <2>2. QED
      BY <2>1 DEF TaskHolds, TaskType, Free, Status
  <1>2. task' = [task EXCEPT ![t] = k]
    BY DEF Begin
  <1> HIDE DEF k
  <1>3. QED
    BY <1>1, <1>2, OneTask DEF IInv

LEMMA ProbeStep ==
    ASSUME IInv, NEW t \in Threads, Probe(t) PROVE IInv'
  <1>1. task[t].pc = "probe" /\ TaskHolds(task[t])
    BY DEF Probe, IInv
  <1>2. PICK answer \in BOOLEAN :
          task' = [task EXCEPT ![t].answer = answer,
                       ![t].pc = IF task[t].service = "firewall" THEN "set" ELSE "client"]
    BY DEF Probe
  <1> DEFINE k == [task[t] EXCEPT !.answer = answer,
                      !.pc = IF task[t].service = "firewall" THEN "set" ELSE "client"]
  <1>3. TaskHolds(k)
    BY <1>1 DEF TaskHolds, TaskType
  <1>4. task' = [task EXCEPT ![t] = k]
    BY <1>2 DEF IInv
  <1>5. faults' \in 0 .. MaxFaults
    BY ConnectivityAssumption DEF Probe, IInv
  <1> HIDE DEF k
  <1>6. QED
    BY <1>3, <1>4, <1>5, OneTask DEF Probe, IInv

LEMMA SetStep ==
    ASSUME IInv, NEW t \in Threads, NEW pc \in {"set", "log"}, set_status(t, pc),
           task[t].pc \in {"client", "set"},
           UNCHANGED <<reachable, flips, faults>>
    PROVE  IInv'
  <1> DEFINE s == task[t].service
  <1>1. /\ TaskHolds(task[t]) /\ s \in Services /\ task \in [Threads -> TaskType]
        /\ status[s] \in Status /\ status \in [Services -> Status]
    BY DEF IInv, TaskHolds
  <1>2. /\ status' \in [Services -> Status]
        /\ \A r \in Services : r # s => status'[r] = status[r]
    BY <1>1 DEF set_status, Online, Status
  <1>3. ASSUME NEW u \in Threads PROVE TaskHolds(task[u])'
    <2>1. task'[u] = IF u = t /\ ~task[t].check
                       THEN Free
                     ELSE IF u = t
                       THEN [task[u] EXCEPT !.pc = pc,
                                !.replaced = IF @ = "none" THEN status[s] ELSE @]
                     ELSE IF task[u].service = s /\ task[u].check
                                                 /\ task[u].replaced = "none"
                       THEN [task[u] EXCEPT !.touched = TRUE]
                     ELSE task[u]
      BY DEF set_status, Written
    <2>2. TaskHolds(task[u])
      BY DEF IInv
    <2>3. CASE u = t /\ ~task[t].check
      BY <2>1, <2>3, FreeHolds
    <2>4. CASE u = t /\ task[t].check
      <3> DEFINE new == IF task[t].replaced = "none" THEN status[s] ELSE task[t].replaced
      <3>1. new \in Status /\ new # "none"
        BY <1>1 DEF TaskHolds, TaskType, Status
      <3>2. task'[t] = [task[t] EXCEPT !.pc = pc, !.replaced = new]
        BY <2>1, <2>4
      <3>3. task[t].check /\ ~task[t].touched => task[t].previous = new
        BY <1>1 DEF TaskHolds
      <3> HIDE DEF new
      <3>4. QED
        <4>1. /\ task'[t] \in TaskType /\ task'[t].pc = pc /\ task'[t].replaced = new
              /\ task'[t].service = task[t].service /\ task'[t].check
              /\ task'[t].touched = task[t].touched
              /\ task'[t].previous = task[t].previous
          BY <1>1, <2>4, <3>1, <3>2 DEF TaskHolds, TaskType
        <4>2. QED
          BY <1>1, <2>4, <3>1, <3>3, <4>1 DEF TaskHolds
    <2>5. CASE u # t /\ task[u].service = s /\ task[u].check /\ task[u].replaced = "none"
      BY <2>1, <2>2, <2>5 DEF TaskHolds, TaskType
    <2>6. CASE u # t /\ ~(task[u].service = s /\ task[u].check
                                              /\ task[u].replaced = "none")
      BY <1>2, <2>1, <2>2, <2>6 DEF TaskHolds
    <2>7. QED
      BY <2>3, <2>4, <2>5, <2>6
  <1>4. task' \in [Threads -> TaskType]
    BY <1>3 DEF set_status, Written, TaskHolds
  <1>5. QED
    BY <1>2, <1>3, <1>4 DEF IInv

LEMMA LogStep ==
    ASSUME IInv, NEW t \in Threads, Log(t) PROVE IInv'
  <1> DEFINE said == Change(task[t].service, task[t].previous, task[t].answer)
             k    == [Free EXCEPT !.pc = "done", !.service = task[t].service, !.said = said]
  <1>1. said \in {"nothing", "connected", "restored", "lost"}
    BY DEF Change
  <1>2. task[t].service \in Services \cup {"none"}
    BY DEF IInv, TaskHolds, TaskType
  <1> HIDE DEF said
  <1>3. TaskHolds(k)
    BY <1>1, <1>2, FreeHolds
  <1>4. task' = [task EXCEPT ![t] = k]
    BY DEF Log, said
  <1> HIDE DEF k
  <1>5. QED
    BY <1>3, <1>4, OneTask DEF Log, IInv

\* A thread is done, or gives up.
LEMMA FreeStep ==
    ASSUME IInv, NEW t \in Threads, task' = [task EXCEPT ![t] = Free],
           UNCHANGED <<reachable, status, flips>>, faults' \in 0 .. MaxFaults
    PROVE  IInv'
  BY FreeHolds, OneTask DEF IInv

LEMMA WorkStep ==
    ASSUME IInv, NEW t \in Threads, Work(t) PROVE IInv'
  <1>1. CASE Probe(t)
    BY <1>1, ProbeStep
  <1>2. CASE ClientSets(t)
    BY <1>2, SetStep DEF ClientSets
  <1>3. CASE CheckSets(t)
    BY <1>3, SetStep DEF CheckSets
  <1>4. CASE Log(t)
    BY <1>4, LogStep
  <1>5. CASE Raise(t)
    <2>1. faults' \in 0 .. MaxFaults
      BY <1>5, ConnectivityAssumption DEF Raise, IInv
    <2>2. QED
      BY <1>5, <2>1, FreeStep DEF Raise
  <1>6. QED
    BY <1>1, <1>2, <1>3, <1>4, <1>5 DEF Work

\* Every loop checks services.
LEMMA RoundsAreServices ==
    ASSUME NEW t \in Loops, NEW i \in 1 .. Len(Rounds[t]) PROVE Rounds[t][i] \in Services
  <1>1. \A s : Kept(s) \in Seq(Services)
    BY DEF Kept
  <1>2. Rounds[t] \in Seq(Services)
    BY <1>1 DEF Rounds
  <1>3. QED
    BY <1>2

LEMMA LoopStep ==
    ASSUME IInv, NEW t \in Loops, Loop(t) PROVE IInv'
  <1>1. t \in Threads
    BY DEF Threads
  <1>2. Len(Rounds[t]) \in Nat /\ (Rounds[t] # <<>> => Len(Rounds[t]) >= 1)
    <2>1. \A s : Kept(s) \in Seq(Services)
      BY DEF Kept
    <2>2. Rounds[t] \in Seq(Services)
      BY <2>1 DEF Rounds
    <2>3. QED
      BY <2>2
  <1>3. CASE Wake(t)
    <2>1. Rounds[t][1] \in Services
      BY <1>2, <1>3, RoundsAreServices DEF Wake
    <2>2. QED
      BY <1>1, <1>3, <2>1, BeginStep DEF Wake
  <1>4. CASE Work(t)
    BY <1>1, <1>4, WorkStep
  <1>5. CASE NextOfRound(t)
    <2>1. CASE task' = [task EXCEPT ![t] = Free]
      BY <1>1, <1>5, <2>1, FreeStep DEF NextOfRound, IInv
    <2>2. CASE \E i \in 1 .. Len(Rounds[t]) - 1 : Begin(t, Rounds[t][i + 1], TRUE)
      <3>1. PICK i \in 1 .. Len(Rounds[t]) - 1 : Begin(t, Rounds[t][i + 1], TRUE)
        BY <2>2
      <3>2. i + 1 \in 1 .. Len(Rounds[t])
        BY <1>2
      <3>3. Rounds[t][i + 1] \in Services
        BY <3>2, RoundsAreServices
      <3>4. QED
        BY <1>1, <1>5, <3>1, <3>3, BeginStep DEF NextOfRound
    <2>3. QED
      BY <1>5, <2>1, <2>2 DEF NextOfRound
  <1>6. QED
    BY <1>3, <1>4, <1>5 DEF Loop

LEMMA OtherStep ==
    ASSUME IInv, NEW t \in Threads, Other(t) \/ Ask(t) \/ Use(t) PROVE IInv'
  <1>1. CASE Work(t)
    BY <1>1, WorkStep
  <1>2. CASE Return(t)
    BY <1>2, FreeStep DEF Return, IInv
  <1>3. CASE Ask(t)
    BY <1>3, BeginStep, ConnectivityAssumption DEF Ask
  <1>4. CASE Use(t)
    BY <1>4, BeginStep DEF Use
  <1>5. QED
    BY <1>1, <1>2, <1>3, <1>4 DEF Other

LEMMA FlipStep ==
    ASSUME IInv, NEW s \in Services, Flip(s) PROVE IInv'
  <1>1. reachable' \in [Services -> BOOLEAN] /\ flips' \in 0 .. MaxFlips
    BY ConnectivityAssumption DEF Flip, IInv
  <1>2. QED
    BY <1>1 DEF Flip, IInv, TaskHolds

LEMMA InitHolds == Init => IInv
  <1> SUFFICES ASSUME Init PROVE IInv
    OBVIOUS
  <1>1. \A t \in Threads : TaskHolds(task[t])
    BY FreeHolds DEF Init
  <1>2. task \in [Threads -> TaskType]
    BY <1>1 DEF Init, TaskHolds
  <1>3. QED
    BY <1>1, <1>2, ConnectivityAssumption DEF Init, IInv, Status

LEMMA StepHolds == ASSUME IInv, [Next]_vars PROVE IInv'
  <1>1. CASE \E t \in Loops : Loop(t)
    BY <1>1, LoopStep
  <1>2. CASE \E t \in Threads : Other(t) \/ Ask(t) \/ Use(t)
    BY <1>2, OtherStep
  <1>3. CASE \E s \in Services : Flip(s)
    BY <1>3, FlipStep
  <1>4. CASE UNCHANGED vars
    BY <1>4 DEF vars, IInv, TaskHolds
  <1>5. QED
    BY <1>1, <1>2, <1>3, <1>4 DEF Next, Threads

-------------------------------------------------------------------------------
(* The theorems. *)

\* The invariant behind the theorems below: a check that no other thread came
\* between replaces the status it read, although the mail client writes first.
THEOREM InvariantHolds == Spec => []IInv
  <1>1. IInv /\ [Next]_vars => IInv'
    BY StepHolds
  <1>2. QED
    BY <1>1, InitHolds, PTL DEF Spec

\* Every variable has its type (firewall_connectivity_monitor.py,
\* email_connectivity_monitor.py).
THEOREM TypeCorrect == Spec => []TypeOK
  <1>1. IInv => TypeOK
    BY DEF IInv, TypeOK, TaskType, Status
  <1>2. QED
    BY <1>1, InvariantHolds, PTL

\* Whatever services, threads and faults there are, a check announces the change it
\* made, unless another thread wrote the status in between (check_once).
THEOREM ChangesAreAnnounced == Spec => ChangesAnnounced
  <1> DEFINE Told(t) == Log(t) /\ ~task[t].touched =>
          /\ task'[t].said = "restored" <=> task[t].answer /\ task[t].replaced = "offline"
          /\ task'[t].said = "lost"     <=> ~task[t].answer /\ task[t].replaced # "offline"
  <1>1. ASSUME IInv, NEW t \in Threads PROVE Told(t)
    <2>1. SUFFICES ASSUME Log(t), ~task[t].touched
                   PROVE  /\ task'[t].said = "restored" <=>
                                task[t].answer /\ task[t].replaced = "offline"
                          /\ task'[t].said = "lost" <=>
                                ~task[t].answer /\ task[t].replaced # "offline"
      OBVIOUS
    <2>2. /\ task[t].previous = task[t].replaced /\ task[t].previous \in Status
          /\ task[t].answer \in BOOLEAN
      BY <1>1, <2>1 DEF IInv, TaskHolds, TaskType, Log
    <2>3. task'[t].said = Change(task[t].service, task[t].previous, task[t].answer)
      BY <1>1, <2>1 DEF Log, IInv, Free
    <2>4. CASE task[t].answer
      BY <2>2, <2>3, <2>4 DEF Change, Status
    <2>5. CASE ~task[t].answer
      BY <2>2, <2>3, <2>5 DEF Change, Status
    <2>6. QED
      BY <2>4, <2>5
  <1>2. IInv => [\A t \in Threads : Told(t)]_vars
    BY <1>1
  <1>3. QED
    BY <1>2, InvariantHolds, PTL DEF Spec, ChangesAnnounced
===============================================================================
