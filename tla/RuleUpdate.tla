------------------------------- MODULE RuleUpdate -------------------------------
(***************************************************************************)
(* rule_updater.block_ip call by call: the trust guard, the session with   *)
(* the firewall, and for each configured rule, in order, fetch, duplicate  *)
(* check, host object, upload of the whole rule and verification.  Each    *)
(* request to the firewall is one step, so calls of different threads (the *)
(* monitor and the dashboard) and administrators interleave between them.  *)
(*                                                                         *)
(* The firewall may fail any request, before or after it took effect, and  *)
(* may report success and drop the upload.                                 *)
(***************************************************************************)
EXTENDS Integers, Sequences, SequencesExt

CONSTANTS
    Callers,      \* threads that call block_ip
    Ips,          \* addresses
    RuleNames,    \* FIREWALL_RULE_NAMES, in order and without duplicates
    Initial,      \* lists of entries a rule may have at the start
    Removable,    \* addresses an administrator may take out of a rule by hand
    MaxRemovals   \* bound: how often an administrator does

Rules == {RuleNames[i] : i \in DOMAIN RuleNames}

\* An entry of a rule: the host object made for an address, or (older firmware,
\* entries made by hand) the address itself.
Host(a) == [ip |-> a, raw |-> FALSE]
Entries == [ip : Ips, raw : BOOLEAN]

ASSUME RuleUpdateAssumption ==
    /\ RuleNames \in Seq(Rules) /\ RuleNames # <<>>
    /\ \A i, j \in DOMAIN RuleNames : RuleNames[i] = RuleNames[j] => i = j
    /\ Initial \subseteq Seq(Entries)
    /\ \A s \in Initial : \A i, j \in DOMAIN s : s[i].ip = s[j].ip => i = j
    /\ Removable \subseteq Ips
    /\ MaxRemovals \in Nat

VARIABLES
    rules,      \* the firewall's rules: their source networks
    hosts,      \* the firewall's IP host objects
    call,       \* the state of each caller's last call
    removals    \* how often an administrator took out an entry

vars == <<rules, hosts, call, removals>>

Locations == {"idle", "guard", "login", "fetch", "host", "upload", "verify"}
Outcomes  == {"none", "present", "appended", "failed"}
Results   == {"none", "allowed", "duplicate", "blocked", "failed"}

-------------------------------------------------------------------------------
(* xml_handler *)

\* Mistake: looking for the host object's name alone.
HostInRule(a, entries) == Host(a) \in ToSet(entries)

ip_in_rule(a, entries) == \E e \in ToSet(entries) : e.ip = a

append_ip_to_rule(a, entries) ==
    IF Host(a) \in ToSet(entries) THEN entries ELSE Append(entries, Host(a))

Addresses(entries) == {e.ip : e \in ToSet(entries)}

-------------------------------------------------------------------------------
(* The state of a call. *)

\* pc: where the call is; ip: its address; next: index of the rule at hand;
\* copy: the rule as fetched; hostDone: _HostCreator._done; outcomes: one
\* _RuleOutcome per rule; result: what the call returned or raised.  History:
\* the address was in every rule when the call began (before), and addresses that
\* others have put into or taken out of some rule since (added, taken).
NewCall(a) == [pc |-> "guard", ip |-> a, next |-> 1, copy |-> <<>>,
               hostDone |-> FALSE, outcomes |-> [r \in Rules |-> "none"],
               result |-> "none",
               before |-> \A r \in Rules : ip_in_rule(a, rules[r]),
               added |-> {}, taken |-> {}]

\* Between calls only the last result is left.
Returned(a, result) == [NewCall(a) EXCEPT !.pc = "idle", !.before = FALSE,
                                          !.result = result]

Init ==
    /\ rules \in [Rules -> Initial]
    /\ hosts = {e.ip : e \in {x \in UNION {ToSet(s) : s \in Initial} : ~x.raw}}
    /\ call \in [Callers -> {Returned(a, "none") : a \in Ips}]
    /\ removals = 0

-------------------------------------------------------------------------------
(* The end of a rule and of a call. *)

\* Mistake: one rule that already had the address makes the call a duplicate.
AnyPresent(outcomes) ==
    CASE \E r \in Rules : outcomes[r] = "failed"  -> "failed"
      [] \E r \in Rules : outcomes[r] = "present" -> "duplicate"
      [] OTHER                                    -> "blocked"

\* PartialBlockError is a RuleUpdateError: to the callers both are failures.
RollUp(outcomes) ==
    CASE \E r \in Rules : outcomes[r] = "failed"  -> "failed"
      [] \A r \in Rules : outcomes[r] = "present" -> "duplicate"
      [] OTHER                                    -> "blocked"

Finish(c, result) == call' = [call EXCEPT ![c] = Returned(@.ip, result)]

\* Mistake: the index runs past the last rule.
RuleDoneTooFar(c, outcome) ==
    LET k        == call[c].next
        outcomes == [call[c].outcomes EXCEPT ![RuleNames[k]] = outcome]
    IN  [call[c] EXCEPT !.pc = IF k < Len(RuleNames) THEN "fetch" ELSE "idle",
                        !.next = k + 1, !.copy = <<>>, !.outcomes = outcomes]

\* The call when the rule at hand is done with: on to the next one, or returned.
RuleDone(c, outcome) ==
    LET k        == call[c].next
        outcomes == [call[c].outcomes EXCEPT ![RuleNames[k]] = outcome]
    IN  IF k < Len(RuleNames)
          THEN [call[c] EXCEPT !.pc = "fetch", !.next = k + 1,
                               !.copy = <<>>, !.outcomes = outcomes]
          ELSE Returned(call[c].ip, RollUp(outcomes))

Rule(c) == RuleNames[call[c].next]

-------------------------------------------------------------------------------
(* block_ip *)

Call(c, a) ==
    /\ call[c].pc = "idle"
    /\ call' = [call EXCEPT ![c] = NewCall(a)]
    /\ UNCHANGED <<rules, hosts, removals>>

\* The final trust guard.  The registry is in ProtectedEndpoints; here it holds the
\* address, does not, or is unavailable, as administrators please.
Guard(c) ==
    /\ call[c].pc = "guard"
    /\ \/ Finish(c, "failed")
       \/ Finish(c, "allowed")
       \/ call' = [call EXCEPT ![c].pc = "login"]
    /\ UNCHANGED <<rules, hosts, removals>>

\* A refused login fails the call before any rule is reached.
Authenticate(c) ==
    /\ call[c].pc = "login"
    /\ \/ Finish(c, "failed")
       \/ call' = [call EXCEPT ![c].pc = "fetch"]
    /\ UNCHANGED <<rules, hosts, removals>>

Fetch(c) ==
    /\ call[c].pc = "fetch"
    /\ call' = [call EXCEPT ![c] =
          IF ip_in_rule(@.ip, rules[Rule(c)])
            THEN RuleDone(c, "present")
            ELSE [@ EXCEPT !.pc = IF call[c].hostDone THEN "upload" ELSE "host",
                           !.copy = rules[Rule(c)]]]
    /\ UNCHANGED <<rules, hosts, removals>>

\* ip_host_exists and create_ip_host; at most one creation per call.
EnsureHost(c) ==
    /\ call[c].pc = "host"
    /\ hosts' = hosts \cup {call[c].ip}
    /\ call' = [call EXCEPT ![c].pc = "upload", ![c].hostDone = TRUE]
    /\ UNCHANGED <<rules, removals>>

\* The calls when rule r is replaced: those under way go on after it.
Noticed(r, entries) ==
    LET old == Addresses(rules[r])
        new == Addresses(entries)
    IN  [c \in Callers |->
           IF call[c].pc = "idle" THEN call[c]
             ELSE [call[c] EXCEPT !.added = @ \cup (new \ old),
                                  !.taken = @ \cup (old \ new)]]

\* Mistake: uploading the new entry alone.
UploadNewOnly(c) ==
    /\ call[c].pc = "upload"
    /\ \E entries \in {<<Host(call[c].ip)>>, rules[Rule(c)]},
          after \in {[call[c] EXCEPT !.pc = "verify"], RuleDone(c, "failed")} :
          /\ rules' = [rules EXCEPT ![Rule(c)] = entries]
          /\ call' = [Noticed(Rule(c), entries) EXCEPT ![c] = after]
    /\ UNCHANGED <<hosts, removals>>

\* The upload replaces the whole rule, unless the firewall drops it; the answer
\* may be lost in both cases.
Upload(c) ==
    /\ call[c].pc = "upload"
    /\ \E entries \in {append_ip_to_rule(call[c].ip, call[c].copy), rules[Rule(c)]},
          after \in {[call[c] EXCEPT !.pc = "verify"], RuleDone(c, "failed")} :
          /\ rules' = [rules EXCEPT ![Rule(c)] = entries]
          /\ call' = [Noticed(Rule(c), entries) EXCEPT ![c] = after]
    /\ UNCHANGED <<hosts, removals>>

\* Mistake: believing the firewall's success code.
VerifyNothing(c) ==
    /\ call[c].pc = "verify"
    /\ call' = [call EXCEPT ![c] = RuleDone(c, "appended")]
    /\ UNCHANGED <<rules, hosts, removals>>

\* Re-fetch and look.
Verify(c) ==
    /\ call[c].pc = "verify"
    /\ call' = [call EXCEPT ![c] =
          RuleDone(c, IF ip_in_rule(@.ip, rules[Rule(c)]) THEN "appended" ELSE "failed")]
    /\ UNCHANGED <<rules, hosts, removals>>

\* Mistake: the host counts as made although its creation failed.
RequestFailsHostDone(c) ==
    /\ call[c].pc \in {"fetch", "host", "verify"}
    /\ LET k == call[c].next
       IN  IF k < Len(RuleNames)
             THEN call' = [call EXCEPT ![c].pc = "fetch", ![c].next = k + 1,
                               ![c].hostDone = TRUE,
                               ![c].outcomes[RuleNames[k]] = "failed"]
             ELSE Finish(c, "failed")
    /\ UNCHANGED <<rules, hosts, removals>>

\* A request fails (no such rule, timeout, refused, malformed answer): the rule
\* fails and the next one is tried.  A host may have been created all the same.
RequestFails(c) ==
    /\ call[c].pc \in {"fetch", "host", "verify"}
    /\ call' = [call EXCEPT ![c] = RuleDone(c, "failed")]
    /\ hosts' \in {hosts} \cup (IF call[c].pc = "host" THEN {hosts \cup {call[c].ip}}
                                                       ELSE {})
    /\ UNCHANGED <<rules, removals>>

Step(c) ==
    \/ Guard(c) \/ Authenticate(c) \/ Fetch(c) \/ EnsureHost(c) \/ Upload(c)
    \/ Verify(c) \/ RequestFails(c)

-------------------------------------------------------------------------------
(* An administrator of the firewall takes the i-th entry out of a rule. *)

RemoveByHand(r, i) ==
    /\ removals < MaxRemovals /\ removals' = removals + 1
    /\ rules[r][i].ip \in Removable
    /\ rules' = [rules EXCEPT ![r] = RemoveAt(@, i)]
    /\ call' = Noticed(r, RemoveAt(rules[r], i))
    /\ UNCHANGED hosts

Next ==
    \/ \E c \in Callers : Step(c) \/ \E a \in Ips : Call(c, a)
    \/ \E r \in Rules : \E i \in DOMAIN rules[r] : RemoveByHand(r, i)

Spec == Init /\ [][Next]_vars

-------------------------------------------------------------------------------
(* Properties. *)

\* The type of every variable.
TypeOK ==
    /\ rules \in [Rules -> Seq(Entries)]
    /\ hosts \subseteq Ips
    /\ call \in [Callers -> [pc : Locations, ip : Ips,
                             next : DOMAIN RuleNames, copy : Seq(Entries),
                             hostDone : BOOLEAN,
                             outcomes : [Rules -> Outcomes], result : Results,
                             before : BOOLEAN,
                             added : SUBSET Ips, taken : SUBSET Ips]]
    /\ removals \in 0..MaxRemovals

\* Whatever calls and administrators interleave, no rule ever lists an address
\* twice, neither as two host objects nor as a host object beside the address
\* itself.  (src/README.md, "never duplicated".)
NeverListedTwice ==
    \A r \in Rules : \A i, j \in DOMAIN rules[r] :
        rules[r][i].ip = rules[r][j].ip => i = j

\* The rules hold no name of a host object that does not exist: the firewall
\* would refuse the upload, and the retry of it, for good.
ReferencesExist ==
    \A r \in Rules : \A e \in ToSet(rules[r]) : e.raw \/ e.ip \in hosts

\* A call that reports "blocked" or "duplicate" has left its address in every rule
\* unless somebody else took it out meanwhile, although the firewall loses requests,
\* answers and uploads, earlier calls failed half way and other calls overlap.
SuccessMeansEveryRule ==
    [][\A c \in Callers :
          /\ call[c].pc # "idle" /\ call'[c].pc = "idle"
          /\ call'[c].result \in {"blocked", "duplicate"}
          => \/ \A r \in Rules : ip_in_rule(call[c].ip, rules'[r])
             \/ call[c].ip \in call[c].taken]_vars

\* A call takes nothing out of a rule but what others put into one since it began:
\* entries are lost where calls overlap, and there alone.
OnlyOverlapLoses ==
    [][\A c \in Callers : call[c].pc = "upload" /\ call'[c].pc # "upload"
          => \A r \in Rules : Addresses(rules[r]) \subseteq
                               Addresses(rules'[r]) \cup call[c].added]_vars

\* Nothing a call does takes an entry out of a rule.  (src/README.md, "All
\* existing entries are preserved".)
EntriesPreserved ==
    [][\A c \in Callers : Step(c)
          => \A r \in Rules : ToSet(rules[r]) \subseteq ToSet(rules'[r])]_vars

-------------------------------------------------------------------------------
(* The calls implement BlockService. *)

Everywhere == {a \in Ips : \A r \in Rules : ip_in_rule(a, rules[r])}

CallView == [c \in Callers |-> [busy   |-> call[c].pc # "idle",
                               ip     |-> call[c].ip,
                               before |-> call[c].before,
                               added  |-> call[c].added,
                               taken  |-> call[c].taken,
                               result |-> call[c].result]]

Service == INSTANCE BlockService WITH inAllRules <- Everywhere, call <- CallView

\* Calls do what their callers rely on: they put their own address into the rules
\* and report "blocked" when they completed the block and "duplicate" when it was
\* complete before; where calls or administrators interfere, they undo at most what
\* was done since they began.
ImplementsBlockService == Service!Spec
===============================================================================
