------------------------------ MODULE Connectivity ------------------------------
(***************************************************************************)
(* The cached connection status of firewall, IMAP and SMTP server, and the *)
(* threads that write it: the two connectivity loops, the checks asked for *)
(* in the dashboard, and the mail client whenever it connects or sends.    *)
(* A check reads the previous status, probes the service, writes the       *)
(* status and logs; other threads do the same meanwhile.  The mail client  *)
(* writes the status by itself before the check around it does.            *)
(***************************************************************************)
EXTENDS Integers, Sequences

CONSTANTS
    Services,    \* of "firewall", "imap" and "smtp"
    Dashboards,  \* threads that serve the dashboard
    Asked,       \* services that are checked from the dashboard
    MaxFlips,    \* bound: how often a service goes up or down
    MaxFaults    \* bound: exceptions the checks do not expect, refused messages

\* The threads of main.py, and the services each loop checks, in order.
Loops   == {"firewall-monitor", "email-connectivity-monitor"}
Threads == Loops \cup {"email-monitor"} \cup Dashboards

ASSUME ConnectivityAssumption ==
    /\ Services \subseteq {"firewall", "imap", "smtp"}
    /\ Dashboards \cap {"firewall-monitor", "email-connectivity-monitor",
                        "email-monitor"} = {}
    /\ Asked \subseteq Services
    /\ MaxFlips \in Nat /\ MaxFaults \in Nat

VARIABLES
    reachable,  \* whether each service answers
    status,     \* the cached status of each service
    task,       \* what each thread does
    flips,      \* changes of reachable so far
    faults      \* unexpected exceptions and refused messages so far

vars == <<reachable, status, task, flips, faults>>

Online(answer) == IF answer THEN "online" ELSE "offline"

\* pc: where the thread is; service: the one at hand; check: it is a check, not a use
\* by the mail client; previous: the status read first; answer: what the probe found;
\* said: the change the check has announced.  History: the status its first write
\* replaced, and whether another thread wrote it between begin and first write.
Free == [pc |-> "sleep", service |-> "none", check |-> FALSE, previous |-> "unknown",
         answer |-> FALSE, said |-> "nothing", replaced |-> "none", touched |-> FALSE]

Init ==
    /\ reachable \in [Services -> BOOLEAN]
    /\ status = [s \in Services |-> "unknown"]
    /\ task = [t \in Threads |-> Free]
    /\ flips = 0 /\ faults = 0

-------------------------------------------------------------------------------
(* Writing the status. *)

\* The tasks when t writes the status of its service and goes on at pc.
Written(t, pc) ==
    LET s == task[t].service
    IN  [u \in Threads |->
           IF u = t /\ ~task[t].check
             THEN Free
           ELSE IF u = t
             THEN [task[u] EXCEPT !.pc = pc,
                      !.replaced = IF @ = "none" THEN status[s] ELSE @]
           ELSE IF task[u].service = s /\ task[u].check /\ task[u].replaced = "none"
             THEN [task[u] EXCEPT !.touched = TRUE]
           ELSE task[u]]

set_status(t, pc) ==
    /\ status' = [status EXCEPT ![task[t].service] = Online(task[t].answer)]
    /\ task' = Written(t, pc)

-------------------------------------------------------------------------------
(* A check: check_once, check_imap_once, check_smtp_once; or a use by the mail  *)
(* client: ImapMailbox.connect, send_notification.                             *)

Begin(t, s, check) ==
    task' = [task EXCEPT ![t] =
        [Free EXCEPT !.pc = "probe", !.service = s, !.check = check,
                     !.previous = IF check THEN status[s] ELSE "unknown"]]

\* firewall_client.ping, and the mail client's connection; a server may refuse the
\* message it is sent.
Probe(t) ==
    /\ task[t].pc = "probe"
    /\ \E answer \in BOOLEAN :
          /\ \/ answer = reachable[task[t].service] /\ UNCHANGED faults
             \/ /\ ~task[t].check /\ ~answer
                /\ faults < MaxFaults /\ faults' = faults + 1
          /\ task' = [task EXCEPT ![t].answer = answer,
                 ![t].pc = IF task[t].service = "firewall" THEN "set" ELSE "client"]
    /\ UNCHANGED <<reachable, status, flips>>

\* Mistake: the previous status is read when the client has connected.
ClientSetsFirst(t) ==
    /\ task[t].pc = "client"
    /\ status' = [status EXCEPT ![task[t].service] = Online(task[t].answer)]
    /\ task' = [Written(t, "set") EXCEPT
                   ![t].previous = Online(task[t].answer)]
    /\ UNCHANGED <<reachable, flips, faults>>

\* The mail client writes the status it found.
ClientSets(t) ==
    /\ task[t].pc = "client"
    /\ set_status(t, "set")
    /\ UNCHANGED <<reachable, flips, faults>>

\* The check writes the status.
CheckSets(t) ==
    /\ task[t].pc = "set"
    /\ set_status(t, "log")
    /\ UNCHANGED <<reachable, flips, faults>>

\* Mistake: the log names the status, not the change.
ChangeAsStatus(s, previous, answer) ==
    IF previous = Online(answer) THEN "nothing" ELSE Online(answer)

\* The log names a change against the previous status; a first connection is one
\* for the IMAP server alone.
Change(s, previous, answer) ==
    CASE answer /\ previous = "offline"                 -> "restored"
      [] answer /\ previous = "unknown" /\ s = "imap"   -> "connected"
      [] ~answer /\ previous # "offline"                -> "lost"
      [] OTHER                                          -> "nothing"

Log(t) ==
    /\ task[t].pc = "log"
    /\ task' = [task EXCEPT ![t] = [Free EXCEPT !.pc = "done", !.service = task[t].service,
                    !.said = Change(task[t].service, task[t].previous, task[t].answer)]]
    /\ UNCHANGED <<reachable, status, flips, faults>>

-------------------------------------------------------------------------------
(* The threads. *)

\* The services a loop checks one after the other.
Kept(s) == IF s \in Services THEN <<s>> ELSE <<>>

Rounds == [t \in Loops |->
    IF t = "firewall-monitor" THEN Kept("firewall") ELSE Kept("imap") \o Kept("smtp")]

\* A loop wakes up and checks its first service.
Wake(t) ==
    /\ task[t].pc = "sleep" /\ Rounds[t] # <<>>
    /\ Begin(t, Rounds[t][1], TRUE)
    /\ UNCHANGED <<reachable, status, flips, faults>>

\* Mistake: the round ends with a service that does not answer.
NextIfOnline(t) ==
    /\ task[t].pc = "done"
    /\ \/ \E i \in 1 .. Len(Rounds[t]) - 1 :
             /\ Rounds[t][i] = task[t].service /\ status[task[t].service] = "online"
             /\ Begin(t, Rounds[t][i + 1], TRUE)
       \/ /\ \/ Rounds[t][Len(Rounds[t])] = task[t].service
             \/ status[task[t].service] # "online"
          /\ task' = [task EXCEPT ![t] = Free]
    /\ UNCHANGED <<reachable, status, flips, faults>>

\* The next service of the round, or sleep.
NextOfRound(t) ==
    /\ task[t].pc = "done"
    /\ \/ \E i \in 1 .. Len(Rounds[t]) - 1 :
             Rounds[t][i] = task[t].service /\ Begin(t, Rounds[t][i + 1], TRUE)
       \/ /\ Rounds[t][Len(Rounds[t])] = task[t].service
          /\ task' = [task EXCEPT ![t] = Free]
    /\ UNCHANGED <<reachable, status, flips, faults>>

\* An administrator asks for a check of one service.
Ask(t) ==
    /\ task[t].pc = "sleep"
    /\ \E s \in Asked : Begin(t, s, TRUE)
    /\ UNCHANGED <<reachable, status, flips, faults>>

\* The email monitor opens the mailbox or sends a notification.
Use(t) ==
    /\ task[t].pc = "sleep"
    /\ \E s \in Services \ {"firewall"} : Begin(t, s, FALSE)
    /\ UNCHANGED <<reachable, status, flips, faults>>

Return(t) ==
    /\ task[t].pc = "done"
    /\ task' = [task EXCEPT ![t] = Free]
    /\ UNCHANGED <<reachable, status, flips, faults>>

\* An exception the mail checks do not expect: the rest of the round is left out.
\* ping never raises.
Raise(t) ==
    /\ task[t].pc = "probe" /\ task[t].service # "firewall" /\ faults < MaxFaults
    /\ task' = [task EXCEPT ![t] = Free]
    /\ faults' = faults + 1
    /\ UNCHANGED <<reachable, status, flips>>

\* What a thread does once it has begun.
Work(t) == Probe(t) \/ ClientSets(t) \/ CheckSets(t) \/ Log(t) \/ Raise(t)

Loop(t) == Wake(t) \/ Work(t) \/ NextOfRound(t)

Other(t) == Work(t) \/ Return(t)

\* A service goes up or down.
Flip(s) ==
    /\ flips < MaxFlips
    /\ reachable' = [reachable EXCEPT ![s] = ~@]
    /\ flips' = flips + 1
    /\ UNCHANGED <<status, task, faults>>

Next ==
    \/ \E t \in Loops : Loop(t)
    \/ \E t \in Threads \ Loops : Other(t)
    \/ \E t \in Dashboards : Ask(t)
    \/ Use("email-monitor")
    \/ \E s \in Services : Flip(s)

Spec == Init /\ [][Next]_vars

\* The loops never end, and every request has a timeout.
FairSpec ==
    /\ Spec
    /\ \A t \in Loops : WF_vars(Loop(t))
    /\ \A t \in Threads \ Loops : WF_vars(Other(t))

-------------------------------------------------------------------------------
(* Properties. *)

\* The type of every variable.
TypeOK ==
    /\ reachable \in [Services -> BOOLEAN]
    /\ status \in [Services -> {"unknown", "online", "offline"}]
    /\ task \in [Threads ->
          [pc : {"sleep", "probe", "client", "set", "log", "done"},
           service : Services \cup {"none"}, check : BOOLEAN,
           previous : {"unknown", "online", "offline"}, answer : BOOLEAN,
           said : {"nothing", "connected", "restored", "lost"},
           replaced : {"none", "unknown", "online", "offline"}, touched : BOOLEAN]]
    /\ flips \in 0 .. MaxFlips
    /\ faults \in 0 .. MaxFaults

\* A check that replaces the status "offline" by "online", or another one by
\* "offline", says so in the log, although the mail client writes the new status
\* before the check does; unless another thread wrote the status after the check had
\* read it.  (check_once, check_imap_once, check_smtp_once.)
ChangesAnnounced ==
    [][\A t \in Threads : Log(t) /\ ~task[t].touched =>
          /\ task'[t].said = "restored" <=> task[t].answer /\ task[t].replaced = "offline"
          /\ task'[t].said = "lost"     <=> ~task[t].answer /\ task[t].replaced # "offline"]_vars

\* Once the services stay as they are, the status of each of them becomes and stays
\* right, although checks that began before still end, other threads keep checking,
\* another service of the same loop is down, and checks raise.
StatusConverges ==
    \A s \in Services :
        /\ <>[](reachable[s])  => <>[](status[s] = "online")
        /\ <>[](~reachable[s]) => <>[](status[s] = "offline")
===============================================================================
