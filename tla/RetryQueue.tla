------------------------------ MODULE RetryQueue ------------------------------
(***************************************************************************)
(* The retry queue for firewall blocks that failed, and everything that    *)
(* writes to it: the email monitor thread (startup scan, retry worker and  *)
(* message pipeline of core/email_monitor.py), the dashboard threads       *)
(* (retry now, remove, pause, resume, delete: web/routes/api.py and        *)
(* core/retry_actions.py) and the SQLite transactions of core/database.py. *)
(*                                                                         *)
(* Every transaction of database.py holds the process-wide lock, so it is  *)
(* one step.  A call of rule_updater.block_ip is one step too: what the    *)
(* caller sees of it is its result.  Whatever happens between two such     *)
(* steps of a thread may interleave with the steps of the others.          *)
(***************************************************************************)
EXTENDS Integers, FiniteSets

CONSTANTS
    Ips,          \* addresses the alerts name
    Texts,        \* host names and other text an alert may give as its origin
    Alerts,       \* alert messages, one row of `alerts` each
    Operators,    \* dashboard threads that may run retry_now
    NoIp,         \* endpoint that is not an address, or no address
    NoAlert,      \* NULL in pending_blocks.alert_id
    Origin,       \* origin endpoint of each message
    Impacted,     \* impacted endpoint of each message
    Fallback,     \* what the origin_ip column of each message names, split at commas
    Protectable,  \* addresses and names an administrator may add to the registry
    Filters,      \* statuses the sender, body and keyword checks may give
    MaxFaults,    \* crashes and unexpected exceptions of one behaviour
    Remembered    \* alerts the history `failures` is kept for

\* What a candidate column, and with it a row of the queue, may name.  Only an
\* address can be blocked.
Entries == Ips \cup Texts

ASSUME RetryQueueAssumption ==
    /\ Ips \cap Texts = {}
    /\ NoIp \notin Entries
    /\ NoAlert \notin Alerts
    /\ Origin \in [Alerts -> Ips \cup {NoIp}]
    /\ Impacted \in [Alerts -> Ips \cup {NoIp}]
    /\ Fallback \in [Alerts -> SUBSET Entries]
    /\ \A m \in Alerts : Origin[m] \in Ips => Fallback[m] = {Origin[m]}
    /\ Protectable \subseteq Entries
    /\ Filters \subseteq {"ignored", "rejected"}
    /\ IsFiniteSet(Ips)
    /\ MaxFaults \in Nat
    /\ Remembered \subseteq Alerts

VARIABLES
    alert,      \* alerts: status and candidate column of each message's row
    pending,    \* pending_blocks
    inRules,    \* addresses put into every configured rule, as block_ip verified
    protected,  \* addresses and names in the protected-endpoint registry
    reachable,  \* the registry, the firewall and all its rules answer
    retrying,   \* _retrying_ips
    toScan,     \* messages the startup scan has still to handle
    fresh,      \* messages the live monitor has not polled yet
    phase,      \* "startup" (run_startup_scan) or "live" (run_forever)
    pc,         \* where the monitor thread is
    msg,        \* message in the pipeline
    previous,   \* previous_status, read when the message was looked up
    cands,      \* decision.candidates
    todo,       \* candidates, or entries of the worker's list, still to try
    ip,         \* entry being retried or reserved
    results,    \* outcome of block_ip per candidate
    web,        \* state of each dashboard thread
    faults,     \* crashes and exceptions so far
    failures    \* history: candidates of each remembered alert whose block failed,
                \* whose retry nobody cancelled since and that no crash left to
                \* the alert

dbVars   == <<alert, pending>>
envVars  == <<inRules, protected, reachable>>
mailVars == <<toScan, fresh>>
pipeVars == <<msg, previous, cands, results>>
monVars  == <<phase, pc, todo, ip, pipeVars>>
ctlVars  == <<web, faults, failures>>
vars     == <<dbVars, envVars, retrying, mailVars, monVars, ctlVars>>

-------------------------------------------------------------------------------
(* Processing statuses.  The action_taken column follows the status: "failed" *)
(* goes with "processing_failed", "partial" with "partially_blocked".         *)
(* "ignored" is no_keyword_match or partial_parse; all statuses that are      *)
(* neither final nor reprocessable are "rejected".                            *)

Final         == {"blocked_successfully", "already_blocked", "allowlisted",
                  "manually_resolved"}
Reprocessable == {"not_processed", "processing_failed", "partially_blocked",
                  "ignored"}
Statuses      == Final \cup Reprocessable \cup {"rejected", "absent"}

Accepting == {"blocked", "duplicate", "allowed"}
Results   == Accepting \cup {"failed"}

Absent == [status |-> "absent", candidates |-> {}]
NoRow  == [queued |-> FALSE, active |-> FALSE, tried |-> FALSE,
           alert_id |-> NoAlert]

\* Of the column `attempts` only attempts > 0 is kept, as `tried`: the code counts
\* without a limit and decides nothing by the count.
AlertRow   == [status : Statuses, candidates : SUBSET Entries]
PendingRow == [queued : BOOLEAN, active : BOOLEAN, tried : BOOLEAN,
               alert_id : Alerts \cup {NoAlert}]

\* decide_endpoints: the untrusted addresses among the two endpoints.
Candidates(m) == ({Origin[m], Impacted[m]} \ {NoIp}) \ protected

\* Rows _CANDIDATE_MATCH_SQL selects among the failed alerts.
Failed(a) == {m \in Alerts : /\ alert[m].status = "processing_failed"
                             /\ a \in alert[m].candidates}

\* Mistake: the action_taken of a result written as its processing_status.
StatusIsResult(result) == result

StatusOf(result) == CASE result = "blocked"   -> "blocked_successfully"
                      [] result = "duplicate" -> "already_blocked"
                      [] result = "allowed"   -> "allowlisted"

-------------------------------------------------------------------------------
(* Transactions of database.py. *)

reserve_pending_block(a, m) ==
    pending' = [pending EXCEPT ![a] =
        [queued |-> TRUE, active |-> TRUE, tried |-> TRUE, alert_id |-> m]]

\* Mistake: recording a failed retry with the insert-or-update statement.
RecordByUpsert(a) ==
    pending' = [pending EXCEPT ![a] =
        [queued |-> TRUE, active |-> TRUE, tried |-> TRUE,
         alert_id |-> @.alert_id]]

\* Mistake: giving up on an address when a retry fails too.
RecordOrGiveUp(a) ==
    pending' = [pending EXCEPT ![a] =
        IF @.tried THEN NoRow ELSE [@ EXCEPT !.tried = pending[a].queued]]

record_retry_attempt(a) ==
    pending' = IF pending[a].queued
                 THEN [pending EXCEPT ![a].tried = TRUE]
                 ELSE pending

\* Mistake: deleting every row of the alert the resolved row belongs to.
ResolveWholeAlert(a, result) ==
    /\ alert' = [m \in Alerts |->
           IF m \in Failed(a) THEN [alert[m] EXCEPT !.status = StatusOf(result)]
                              ELSE alert[m]]
    /\ pending' = [b \in Entries |->
           IF b = a \/ pending[b].alert_id = pending[a].alert_id THEN NoRow
                                                                ELSE pending[b]]

\* Mistake: the first candidate to succeed settles the alert.
ResolveFirst(a, result) ==
    /\ alert' = [m \in Alerts |->
           IF m \in Failed(a) THEN [alert[m] EXCEPT !.status = StatusOf(result)]
                              ELSE alert[m]]
    /\ pending' = [pending EXCEPT ![a] = NoRow]

\* An alert with two candidates is final only once its other one has left
\* the queue.
resolve_pending_block(a, result) ==
    /\ alert' = [m \in Alerts |->
           IF /\ m \in Failed(a)
              /\ \A b \in alert[m].candidates \ {a} : ~pending[b].queued
             THEN [alert[m] EXCEPT !.status = StatusOf(result)]
             ELSE alert[m]]
    /\ pending' = [pending EXCEPT ![a] = NoRow]

sync_pending_blocks_from_alerts ==
    LET missing == {a \in Entries : Failed(a) # {} /\ ~pending[a].queued}
    IN  \E owner \in [missing -> Alerts] :
          /\ \A a \in missing : owner[a] \in Failed(a)
          /\ pending' = [a \in Entries |->
                 IF a \in missing
                   THEN [queued |-> TRUE, active |-> TRUE, tried |-> FALSE,
                         alert_id |-> owner[a]]
                   ELSE pending[a]]

\* update_alert changes nothing when the row has been deleted.
update_alert(m, status, candidates) ==
    alert' = IF alert[m].status = "absent" THEN alert
             ELSE [alert EXCEPT ![m] = [status |-> status,
                                        candidates |-> candidates]]

has_active_retry_for_alert(m) ==
    \E a \in Entries :
        pending[a].queued /\ pending[a].active /\ pending[a].alert_id = m

-------------------------------------------------------------------------------
(* rule_updater.block_ip, as its callers see it.  The trust guard comes first, *)
(* then whatever is not an address is refused; an update that reports failure  *)
(* may have reached every rule all the same.                                   *)

block_ip(a, result) ==
    \/ /\ result = "allowed"
       /\ a \in protected
       /\ UNCHANGED inRules
    \/ /\ result = "duplicate"
       /\ reachable /\ a \in inRules \ protected
       /\ UNCHANGED inRules
    \/ /\ result = "blocked"
       /\ reachable /\ a \in Ips \ (protected \cup inRules)
       /\ inRules' = inRules \cup {a}
    \/ /\ result = "failed"
       /\ ~reachable \/ a \in Texts \ protected
       /\ inRules' \in {inRules, inRules \cup (({a} \cap Ips) \ protected)}

-------------------------------------------------------------------------------
(* Initial state: first start on an empty database. *)

NoResults == [a \in Entries |-> "none"]
IdleWeb   == [pc |-> "idle", ip |-> NoIp, result |-> "none"]

Init ==
    /\ alert = [m \in Alerts |-> Absent]
    /\ pending = [a \in Entries |-> NoRow]
    /\ inRules \in SUBSET Ips
    /\ protected = {}
    /\ reachable \in BOOLEAN
    /\ retrying = {}
    /\ toScan \in SUBSET Alerts
    /\ fresh = Alerts \ toScan
    /\ phase = "startup" /\ pc = "idle"
    /\ msg = NoAlert /\ previous = "absent" /\ cands = {}
    /\ todo = {} /\ ip = NoIp /\ results = NoResults
    /\ web = [o \in Operators |-> IdleWeb]
    /\ faults = 0
    /\ failures = [m \in Alerts |-> {}]

-------------------------------------------------------------------------------
(* The message pipeline: _process_message. *)

\* The pipeline returns to the startup scan or to the polling loop.
LeavePipeline ==
    /\ pc' = IF phase = "startup" THEN "idle" ELSE "poll"
    /\ msg' = NoAlert /\ previous' = "absent" /\ cands' = {}
    /\ todo' = {} /\ ip' = NoIp /\ results' = NoResults

\* find_alert_by_message_identity
LookUp ==
    /\ pc = "lookup"
    /\ previous' = alert[msg].status
    /\ pc' = "owned"
    /\ UNCHANGED <<dbVars, envVars, retrying, mailVars, phase, todo, ip, msg,
                   cands, results, ctlVars>>

\* Skip what the queue owns, what is final and what is not reprocessable.
Skip ==
    /\ pc = "owned"
    /\ previous # "absent"
    /\ has_active_retry_for_alert(msg) \/ previous \notin Reprocessable
    /\ LeavePipeline
    /\ UNCHANGED <<dbVars, envVars, retrying, mailVars, phase, ctlVars>>

\* record_alert, or update_alert of the identity fields alone.  A new row has a
\* new id (AUTOINCREMENT): queue rows of the message's deleted alert keep a dead
\* one, which no row matches again.
Record ==
    /\ pc = "owned"
    /\ \/ previous = "absent"
       \/ previous \in Reprocessable /\ ~has_active_retry_for_alert(msg)
    /\ alert' = IF previous = "absent"
                  THEN [alert EXCEPT ![msg] = [status |-> "not_processed",
                                               candidates |-> {}]]
                  ELSE alert
    /\ pending' = IF previous = "absent"
                    THEN [a \in Entries |-> IF pending[a].alert_id = msg
                            THEN [pending[a] EXCEPT !.alert_id = NoAlert]
                            ELSE pending[a]]
                    ELSE pending
    /\ pc' = "decide"
    /\ UNCHANGED <<envVars, retrying, mailVars, phase, todo, ip,
                   pipeVars, ctlVars>>

\* Untrusted sender, no readable body or no keyword: no endpoint is looked at.
Filter ==
    /\ pc = "decide"
    /\ \E status \in Filters : update_alert(msg, status, alert[msg].candidates)
    /\ LeavePipeline
    /\ UNCHANGED <<pending, envVars, retrying, mailVars, phase, ctlVars>>

\* The registry is unavailable: the candidate column is left alone.
RegistryUnavailable ==
    /\ pc = "decide"
    /\ ~reachable
    /\ update_alert(msg, "rejected", alert[msg].candidates)
    /\ LeavePipeline
    /\ UNCHANGED <<pending, envVars, retrying, mailVars, phase, ctlVars>>

\* Not approved for blocking: selected_candidate is empty, so the candidate
\* column falls back to origin_ip, which holds the origin's host name or text
\* when it is not an address.
Reject ==
    /\ pc = "decide"
    /\ Candidates(msg) = {}
    /\ update_alert(msg, "rejected", Fallback[msg])
    /\ LeavePipeline
    /\ UNCHANGED <<pending, envVars, retrying, mailVars, phase, ctlVars>>

Approve ==
    /\ pc = "decide"
    /\ Candidates(msg) # {}
    /\ cands' = Candidates(msg)
    /\ todo' = Candidates(msg)
    /\ pc' = "block"
    /\ UNCHANGED <<dbVars, envVars, retrying, mailVars, phase, ip, msg,
                   previous, results, ctlVars>>

TwoCandidates == Cardinality(cands) > 1

\* One call of block_ip for a candidate.  With two candidates a failure is
\* reserved before the next call, with one it is reserved after the save.
Block(a) ==
    /\ pc = "block"
    /\ a \in todo
    /\ \E r \in Results :
         /\ block_ip(a, r)
         /\ results' = [results EXCEPT ![a] = r]
         /\ IF r = "failed" /\ TwoCandidates
              THEN pc' = "reserve" /\ ip' = a
              ELSE /\ pc' = IF todo = {a} THEN "save" ELSE "block"
                   /\ UNCHANGED ip
         /\ failures' = IF r = "failed" /\ msg \in Remembered
                          THEN [failures EXCEPT ![msg] = @ \cup {a}]
                          ELSE failures
    /\ todo' = todo \ {a}
    /\ UNCHANGED <<dbVars, protected, reachable, retrying, mailVars, phase, msg,
                   previous, cands, web, faults>>

ReserveCandidate ==
    /\ pc = "reserve"
    /\ reserve_pending_block(ip, msg)
    /\ pc' = IF todo = {} THEN "save" ELSE "block"
    /\ ip' = NoIp
    /\ UNCHANGED <<alert, envVars, retrying, mailVars, phase, todo, pipeVars,
                   ctlVars>>

Outcomes == {results[a] : a \in cands}

AggregateStatus ==
    IF Outcomes = {"failed"}         THEN "processing_failed"
    ELSE IF "failed" \in Outcomes    THEN "partially_blocked"
    ELSE IF "blocked" \in Outcomes   THEN "blocked_successfully"
    ELSE IF "duplicate" \in Outcomes THEN "already_blocked"
    ELSE "allowlisted"

\* _save_result; a lone failed candidate is reserved next.
Save ==
    /\ pc = "save"
    /\ update_alert(msg, AggregateStatus, cands)
    /\ IF "failed" \in Outcomes /\ ~TwoCandidates
         THEN /\ pc' = "reserveLast"
              /\ UNCHANGED <<todo, ip, pipeVars>>
         ELSE LeavePipeline
    /\ UNCHANGED <<pending, envVars, retrying, mailVars, phase, ctlVars>>

ReserveLast ==
    /\ pc = "reserveLast"
    /\ \E a \in cands : reserve_pending_block(a, msg)
    /\ LeavePipeline
    /\ UNCHANGED <<alert, envVars, retrying, mailVars, phase, ctlVars>>

Pipeline ==
    \/ LookUp \/ Skip \/ Record \/ Filter \/ RegistryUnavailable \/ Reject \/ Approve
    \/ \E a \in Ips : Block(a)
    \/ ReserveCandidate \/ Save \/ ReserveLast

-------------------------------------------------------------------------------
(* run_startup_scan *)

ScanMessage(m) ==
    /\ phase = "startup" /\ pc = "idle" /\ m \in toScan
    /\ toScan' = toScan \ {m}
    /\ msg' = m
    /\ pc' = "lookup"
    /\ UNCHANGED <<dbVars, envVars, retrying, fresh, phase, todo, ip, previous,
                   cands, results, ctlVars>>

\* The except clause of the scan: whatever alert the message has becomes
\* a failed one, its candidate column untouched.
MarkScanFailure(m) ==
    alert' = IF alert[m].status = "absent" THEN alert
             ELSE [alert EXCEPT ![m].status = "processing_failed"]

\* Fetching or storing one message raises.
ScanFetchFails(m) ==
    /\ phase = "startup" /\ pc = "idle" /\ m \in toScan
    /\ toScan' = toScan \ {m}
    /\ MarkScanFailure(m)
    /\ UNCHANGED <<pending, envVars, retrying, fresh, monVars, ctlVars>>

ScanDone ==
    /\ phase = "startup" /\ pc = "idle" /\ toScan = {}
    /\ phase' = "live"
    /\ UNCHANGED <<dbVars, envVars, retrying, mailVars, pc, todo, ip, pipeVars,
                   ctlVars>>

-------------------------------------------------------------------------------
(* run_forever: retry worker, then polling. *)

Sync ==
    /\ phase = "live" /\ pc = "idle"
    /\ sync_pending_blocks_from_alerts
    /\ pc' = "list"
    /\ UNCHANGED <<alert, envVars, retrying, mailVars, phase, todo, ip, pipeVars,
                   ctlVars>>

\* Mistake: rows recovered with attempts = 0 are taken for handled ones.
ListAttempted ==
    /\ pc = "list"
    /\ todo' = {a \in Entries : pending[a].queued /\ pending[a].active
                                /\ pending[a].tried}
    /\ pc' = "retry"
    /\ UNCHANGED <<dbVars, envVars, retrying, mailVars, phase, ip, pipeVars,
                   ctlVars>>

\* The list is read once and worked through without another look at the table.
ListPending ==
    /\ pc = "list"
    /\ todo' = {a \in Entries : pending[a].queued /\ pending[a].active}
    /\ pc' = "retry"
    /\ UNCHANGED <<dbVars, envVars, retrying, mailVars, phase, ip, pipeVars,
                   ctlVars>>

RetryNext(a) ==
    /\ pc = "retry" /\ a \in todo
    /\ todo' = todo \ {a}
    /\ ip' = a
    /\ retrying' = retrying \cup {a}
    /\ pc' = "retryBlock"
    /\ UNCHANGED <<dbVars, envVars, mailVars, phase, pipeVars, ctlVars>>

\* On success the finally clause runs before the row is resolved, on failure
\* after the attempt is recorded.
RetryBlock ==
    /\ pc = "retryBlock"
    /\ \E r \in Results :
         /\ block_ip(ip, r)
         /\ results' = [results EXCEPT ![ip] = r]
         /\ IF r = "failed"
              THEN pc' = "retryFailed" /\ UNCHANGED retrying
              ELSE pc' = "retryAccepted" /\ retrying' = retrying \ {ip}
    /\ UNCHANGED <<dbVars, protected, reachable, mailVars, phase, todo, ip, msg,
                   previous, cands, ctlVars>>

NextEntry ==
    /\ pc' = "retry"
    /\ ip' = NoIp
    /\ results' = NoResults

RetryFailed ==
    /\ pc = "retryFailed"
    /\ record_retry_attempt(ip)
    /\ retrying' = retrying \ {ip}
    /\ NextEntry
    /\ UNCHANGED <<alert, envVars, mailVars, phase, todo, msg, previous, cands,
                   ctlVars>>

RetryAccepted ==
    /\ pc = "retryAccepted"
    /\ resolve_pending_block(ip, results[ip])
    /\ NextEntry
    /\ UNCHANGED <<envVars, retrying, mailVars, phase, todo, msg, previous,
                   cands, ctlVars>>

RetryDone ==
    /\ pc = "retry" /\ todo = {}
    /\ pc' = "poll"
    /\ UNCHANGED <<dbVars, envVars, retrying, mailVars, phase, todo, ip, pipeVars,
                   ctlVars>>

RetryWorker ==
    \/ Sync \/ ListPending
    \/ \E a \in Entries : RetryNext(a)
    \/ RetryBlock \/ RetryFailed \/ RetryAccepted \/ RetryDone

PollMessage(m) ==
    /\ pc = "poll" /\ m \in fresh
    /\ fresh' = fresh \ {m}
    /\ msg' = m
    /\ pc' = "lookup"
    /\ UNCHANGED <<dbVars, envVars, retrying, toScan, phase, todo, ip, previous,
                   cands, results, ctlVars>>

\* No newer UID, or the mail server does not answer; then time.sleep.
PollDone ==
    /\ pc = "poll"
    /\ pc' = "idle"
    /\ UNCHANGED <<dbVars, envVars, retrying, mailVars, phase, todo, ip, pipeVars,
                   ctlVars>>

Monitor ==
    \/ \E m \in Alerts : ScanMessage(m) \/ ScanFetchFails(m) \/ PollMessage(m)
    \/ ScanDone \/ Pipeline \/ RetryWorker \/ PollDone

-------------------------------------------------------------------------------
(* retry_actions.retry_now, one call per dashboard thread at a time.  A paused *)
(* row, or one the worker is retrying, is retried as well.                     *)

RetryNow(o, a) ==
    /\ web[o].pc = "idle"
    /\ pending[a].queued
    /\ web' = [web EXCEPT ![o] = [pc |-> "calling", ip |-> a, result |-> "none"]]
    /\ retrying' = retrying \cup {a}
    /\ UNCHANGED <<dbVars, envVars, mailVars, monVars, faults, failures>>

RetryNowBlock(o) ==
    /\ web[o].pc = "calling"
    /\ \E r \in Results :
         /\ block_ip(web[o].ip, r)
         /\ web' = [web EXCEPT ![o].result = r,
                               ![o].pc = IF r = "failed" THEN "failed"
                                                         ELSE "accepted"]
         /\ retrying' = IF r = "failed" THEN retrying
                                        ELSE retrying \ {web[o].ip}
    /\ UNCHANGED <<dbVars, protected, reachable, mailVars, monVars, faults, failures>>

\* Mistake: no finally clause around the failure path.
RetryNowFailedUncleared(o) ==
    /\ web[o].pc = "failed"
    /\ record_retry_attempt(web[o].ip)
    /\ web' = [web EXCEPT ![o] = IdleWeb]
    /\ UNCHANGED <<alert, envVars, retrying, mailVars, monVars, faults, failures>>

RetryNowFailed(o) ==
    /\ web[o].pc = "failed"
    /\ record_retry_attempt(web[o].ip)
    /\ retrying' = retrying \ {web[o].ip}
    /\ web' = [web EXCEPT ![o] = IdleWeb]
    /\ UNCHANGED <<alert, envVars, mailVars, monVars, faults, failures>>

RetryNowAccepted(o) ==
    /\ web[o].pc = "accepted"
    /\ resolve_pending_block(web[o].ip, web[o].result)
    /\ web' = [web EXCEPT ![o] = IdleWeb]
    /\ UNCHANGED <<envVars, retrying, mailVars, monVars, faults, failures>>

RetryNowStep(o) == RetryNowBlock(o) \/ RetryNowFailed(o) \/ RetryNowAccepted(o)

-------------------------------------------------------------------------------
(* Administration from the dashboard. *)

cancel_pending_block(a) ==
    /\ pending' = [pending EXCEPT ![a] = NoRow]
    /\ alert' = [m \in Alerts |->
           IF m \in Failed(a)
             THEN [alert[m] EXCEPT !.status = "manually_resolved"]
             ELSE alert[m]]
    /\ retrying' = retrying \ {a}
    /\ failures' = [m \in Alerts |-> failures[m] \ {a}]
    /\ UNCHANGED <<envVars, mailVars, monVars, web, faults>>

stop_pending_block(a) ==
    /\ pending[a].queued /\ pending[a].active
    /\ pending' = [pending EXCEPT ![a].active = FALSE]
    /\ retrying' = retrying \ {a}
    /\ UNCHANGED <<alert, envVars, mailVars, monVars, ctlVars>>

resume_pending_block(a) ==
    /\ pending[a].queued /\ ~pending[a].active
    /\ pending' = [pending EXCEPT ![a].active = TRUE]
    /\ UNCHANGED <<alert, envVars, retrying, mailVars, monVars, ctlVars>>

\* Mistake: the queue rows of a deleted alert are deleted with it.
DeleteWithRows(D) ==
    /\ \A m \in D : alert[m].status # "absent"
    /\ alert' = [m \in Alerts |-> IF m \in D THEN Absent ELSE alert[m]]
    /\ pending' = [a \in Entries |-> IF pending[a].alert_id \in D THEN NoRow
                                                                ELSE pending[a]]
    /\ UNCHANGED <<envVars, retrying, mailVars, monVars, ctlVars>>

\* clear_table("alerts") and delete_rows_by_ids.  Queue rows keep the dead id, and
\* their failures are remembered.
DeleteAlerts(D) ==
    /\ \A m \in D : alert[m].status # "absent"
    /\ alert' = [m \in Alerts |-> IF m \in D THEN Absent ELSE alert[m]]
    /\ UNCHANGED <<pending, envVars, retrying, mailVars, monVars, ctlVars>>

Protect(a) ==
    /\ protected' = protected \cup {a}
    /\ UNCHANGED <<dbVars, inRules, reachable, retrying, mailVars, monVars, ctlVars>>

Administrator ==
    \/ \E a \in Entries : \/ cancel_pending_block(a) \/ stop_pending_block(a)
                          \/ resume_pending_block(a)
    \/ \E D \in SUBSET Alerts \ {{}} : DeleteAlerts(D)
    \/ \E a \in Protectable \ protected : Protect(a)

-------------------------------------------------------------------------------
(* The environment and what can go wrong. *)

ReachabilityChanges ==
    /\ reachable' = ~reachable
    /\ UNCHANGED <<dbVars, inRules, protected, retrying, mailVars, monVars, ctlVars>>

\* A failure the pipeline had not written to pending_blocks is known to nobody.
\* That is no loss while the alert leads back to it, because a message whose
\* alert is reprocessable or deleted is processed again when it is found, or when
\* another thread settled the alert meanwhile.
ForgetUnreserved ==
    failures' = [m \in Alerts |->
        IF m = msg /\ alert'[m].status \in Reprocessable \cup Final \cup {"absent"}
          THEN {a \in failures[m] : pending[a].queued}
          ELSE failures[m]]

\* The process dies and is started again; only SQLite and the firewall keep
\* their state, and the new startup scan covers some latest messages.
Crash ==
    /\ faults < MaxFaults
    /\ faults' = faults + 1
    /\ toScan' \in SUBSET Alerts
    /\ fresh' = fresh \ toScan'
    /\ phase' = "startup" /\ pc' = "idle"
    /\ msg' = NoAlert /\ previous' = "absent" /\ cands' = {}
    /\ todo' = {} /\ ip' = NoIp /\ results' = NoResults
    /\ retrying' = {}
    /\ web' = [o \in Operators |-> IdleWeb]
    /\ UNCHANGED <<dbVars, envVars>>
    /\ ForgetUnreserved

\* An exception nobody expects (a locked database, say) leaves the pipeline.
PipelineRaises ==
    /\ faults < MaxFaults
    /\ faults' = faults + 1
    /\ msg # NoAlert
    /\ IF phase = "startup" THEN MarkScanFailure(msg) ELSE UNCHANGED alert
    /\ LeavePipeline
    /\ ForgetUnreserved
    /\ UNCHANGED <<pending, envVars, retrying, mailVars, phase, web>>

\* The same in the retry worker: the finally clause clears the mark, where it has
\* not run yet, and run_forever starts the next cycle.
WorkerRaises ==
    /\ faults < MaxFaults
    /\ faults' = faults + 1
    /\ pc \in {"list", "retry", "retryBlock", "retryFailed", "retryAccepted"}
    /\ pc' = "idle" /\ todo' = {} /\ ip' = NoIp /\ results' = NoResults
    /\ retrying' = IF pc = "retryAccepted" THEN retrying ELSE retrying \ {ip}
    /\ UNCHANGED <<dbVars, envVars, mailVars, phase, msg, previous, cands, web,
                   failures>>

\* And in retry_now: the request ends with an error.
RetryNowRaises(o) ==
    /\ faults < MaxFaults
    /\ faults' = faults + 1
    /\ web[o].pc # "idle"
    /\ web' = [web EXCEPT ![o] = IdleWeb]
    /\ retrying' = IF web[o].pc = "accepted" THEN retrying
                                             ELSE retrying \ {web[o].ip}
    /\ UNCHANGED <<dbVars, envVars, mailVars, monVars, failures>>

-------------------------------------------------------------------------------
Next ==
    \/ Monitor
    \/ \E o \in Operators : \/ RetryNowStep(o) \/ RetryNowRaises(o)
                            \/ \E a \in Entries : RetryNow(o, a)
    \/ Administrator
    \/ ReachabilityChanges
    \/ Crash \/ PipelineRaises \/ WorkerRaises

Spec == Init /\ [][Next]_vars

\* The monitor thread never stops and a request that started gets on.
FairSpec == Spec /\ WF_vars(Monitor) /\ \A o \in Operators : WF_vars(RetryNowStep(o))

-------------------------------------------------------------------------------
(* Properties. *)

MonitorLocations ==
    {"idle", "lookup", "owned", "decide", "block", "reserve", "save",
     "reserveLast", "list", "retry", "retryBlock", "retryFailed",
     "retryAccepted", "poll"}

\* The type of every variable.
TypeOK ==
    /\ alert \in [Alerts -> AlertRow]
    /\ pending \in [Entries -> PendingRow]
    /\ inRules \subseteq Ips
    /\ protected \subseteq Entries
    /\ reachable \in BOOLEAN
    /\ retrying \subseteq Entries
    /\ toScan \subseteq Alerts
    /\ fresh \subseteq Alerts
    /\ phase \in {"startup", "live"}
    /\ pc \in MonitorLocations
    /\ msg \in Alerts \cup {NoAlert}
    /\ previous \in Statuses
    /\ cands \subseteq Ips
    /\ todo \subseteq Entries
    /\ ip \in Entries \cup {NoIp}
    /\ results \in [Entries -> Results \cup {"none"}]
    /\ web \in [Operators -> [pc : {"idle", "calling", "failed", "accepted"},
                               ip : Entries \cup {NoIp},
                               result : Results \cup {"none"}]]
    /\ faults \in 0 .. MaxFaults
    /\ failures \in [Alerts -> SUBSET Ips]

Settled(a) == a \in inRules \cup protected

\* The pipeline knows of the failure and reserves the address before it goes on.
AboutToReserve(m, a) ==
    /\ msg = m
    /\ \/ pc = "reserve" /\ ip = a
       \/ pc \in {"save", "reserveLast"} /\ cands = {a} /\ results[a] = "failed"

\* No failed block is forgotten: until the firewall accepts the address, it is
\* protected or an administrator cancels it, every candidate whose block failed
\* stays in the retry queue, whichever threads retry, resolve or pause it and
\* whichever alerts are deleted meanwhile.
\* (_process_message, resolve_pending_block, record_retry_attempt.)
NoFailureForgotten ==
    \A m \in Alerts : \A a \in failures[m] :
        Settled(a) \/ pending[a].queued \/ AboutToReserve(m, a)

\* The dashboard shows "Retrying" for an address only while some thread is
\* retrying it (mark_retrying, clear_retrying and the finally clauses).
RetryingOnlyInFlight ==
    \A a \in retrying :
        \/ ip = a /\ pc \in {"retryBlock", "retryFailed"}
        \/ \E o \in Operators : web[o].ip = a /\ web[o].pc \in {"calling", "failed"}

\* A failed alert becomes a success only when every failed candidate of it is
\* settled, not when the first one is (resolve_pending_block, "still pending"),
\* unless the pipeline is processing the alert anew at that moment.
FinalOnlyWhenSettled ==
    [][\A m \in Alerts \ {msg} :
          /\ alert[m].status = "processing_failed"
          /\ alert'[m].status \in Final \ {"manually_resolved"}
          => \A a \in failures[m] \cap alert[m].candidates : Settled(a)]_vars

\* A row leaves the queue only when the firewall has accepted the address, it is
\* protected, or an administrator removes it; whatever threads retry it at once.
LeavesQueueOnlySettled ==
    [][\A a \in Entries :
          pending[a].queued /\ ~pending'[a].queued
            => Settled(a) \/ cancel_pending_block(a)]_vars

\* No retry puts a row into the queue or resumes a paused one: rows come from
\* the first failure of a message and from the recovery step of the worker, and
\* a paused row is resumed by an administrator or by such a first failure: the
\* reservation sets active = 1, and a paused row does not keep its message from
\* being processed again.
RetriesNeverRequeue ==
    [][\A a \in Entries :
          pending'[a].active /\ ~pending[a].active
            => \/ pc \in {"reserve", "reserveLast"}
               \/ sync_pending_blocks_from_alerts
               \/ resume_pending_block(a)]_vars

NonePaused == \A a \in Entries : pending[a].queued => pending[a].active

\* Every candidate of the alert is an address or a protected name.
Blockable(m) ==
    /\ alert[m].candidates # {}
    /\ alert[m].candidates \cap Texts \subseteq protected

\* Once everything answers for good and no row stays paused, every failed alert
\* with candidates that can be blocked leaves "processing_failed", also one with
\* two candidates while dashboard threads retry, remove and delete at will, and
\* after a crash between two transactions.  (README, "Automatic retry for failed
\* blocks".)  An alert that names a host or other text there never does:
\* block_ip refuses it at every retry.
FailedAlertSettles ==
    <>[]reachable /\ <>[]NonePaused =>
        \A m \in Alerts :
            alert[m].status = "processing_failed" /\ Blockable(m)
                ~> alert[m].status # "processing_failed"

\* "so sync_pending_blocks_from_alerts() cannot resurrect it" (database.py,
\* cancel_pending_block): the recovery step puts an address into the queue only
\* for an alert with a failure that was not cancelled since.
CancelledNotResurrected ==
    [][pc = "idle" /\ pc' = "list" =>
          \A a \in Entries : pending'[a].queued /\ ~pending[a].queued
                           => \E m \in Failed(a) : a \in failures[m]]_vars
===============================================================================
