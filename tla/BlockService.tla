------------------------------ MODULE BlockService ------------------------------
(***************************************************************************)
(* What rule_updater.block_ip promises its callers: a call may put its     *)
(* address into every configured rule, and it reports success only for an  *)
(* address that is in every rule, or that the registry protects.  Calls    *)
(* and administrators that interfere are made explicit: a call undoes at   *)
(* most what others have done since it began, and success holds unless     *)
(* somebody took the address out again meanwhile.                          *)
(***************************************************************************)
CONSTANTS
    Callers,  \* threads that call block_ip
    Ips       \* addresses

VARIABLES
    inAllRules,  \* addresses present in every configured rule
    call         \* what each caller is doing; before: the address was in every
                 \* rule when the call began; added, taken: addresses that others
                 \* put into some rule, or took out of one, since

Returned(a, result) == [busy |-> FALSE, ip |-> a, before |-> FALSE,
                        added |-> {}, taken |-> {}, result |-> result]

Init ==
    /\ inAllRules \in SUBSET Ips
    /\ call \in [Callers -> {Returned(a, "none") : a \in Ips}]

Begin(c, a) ==
    /\ ~call[c].busy
    /\ call' = [call EXCEPT ![c] = [busy |-> TRUE, ip |-> a,
                                    before |-> a \in inAllRules,
                                    added |-> {}, taken |-> {}, result |-> "none"]]
    /\ UNCHANGED inAllRules

\* Some rule gets the addresses in put and loses those in out.
Change(put, out) ==
    /\ inAllRules' \in SUBSET (inAllRules \cup put)
    /\ inAllRules \subseteq inAllRules' \cup out

\* What the calls under way know of it.
Noticed(put, out) ==
    [c \in Callers |->
        IF ~call[c].busy THEN call[c]
          ELSE [call[c] EXCEPT !.added = @ \cup put, !.taken = @ \cup out]]

\* An upload, and the call as it is then: its own address comes in; of others only
\* what was taken out since the call began comes back, and only what was put in
\* since is lost.
Write(c, after) ==
    \E put \in SUBSET (call[c].taken \cup {call[c].ip}),
       out \in SUBSET (call[c].added \ {call[c].ip}) :
          /\ Change(put, out)
          /\ call' = [Noticed(put, out) EXCEPT ![c] = after]

\* "blocked": this call completed the block; "duplicate": it had nothing to do;
\* "allowed": the address is protected and the call did nothing; "failed" says
\* nothing of what has been done.
Justified(c, result) ==
    LET inAll == call[c].ip \in inAllRules
        added == call[c].ip \in call[c].added
        taken == call[c].ip \in call[c].taken
    IN  /\ result = "blocked"   => taken \/ (inAll /\ ~call[c].before)
        /\ result = "duplicate" => (inAll \/ taken) /\ (call[c].before \/ added)
        /\ result = "allowed"   => inAll = call[c].before \/ added \/ taken

Finish(c, result) ==
    /\ call[c].busy /\ Justified(c, result)
    /\ call' = [call EXCEPT ![c] = Returned(@.ip, result)]
    /\ UNCHANGED inAllRules

\* A failed call may still have made its last request.
WriteAndFail(c) == call[c].busy /\ Write(c, Returned(call[c].ip, "failed"))

\* An administrator takes an address out of a rule.
Remove(a) == Change({}, {a}) /\ call' = Noticed({}, {a})

Next ==
    \/ \E c \in Callers :
          \/ \E a \in Ips : Begin(c, a)
          \/ call[c].busy /\ Write(c, call[c])
          \/ \E result \in {"allowed", "duplicate", "blocked", "failed"} :
                Finish(c, result)
          \/ WriteAndFail(c)
    \/ \E a \in Ips : Remove(a)

Spec == Init /\ [][Next]_<<inAllRules, call>>
===============================================================================
