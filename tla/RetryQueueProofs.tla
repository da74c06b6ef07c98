---------------------------- MODULE RetryQueueProofs ----------------------------
(***************************************************************************)
(* Proofs about RetryQueue, for every set of addresses, alerts, endpoints  *)
(* and dashboard threads and every bound.                                  *)
(*                                                                         *)
(* Typed is inductive.  Relative to it, so are RetryingOnlyInFlight and    *)
(* LeadsBack, and relative to both NoFailureForgotten; the action          *)
(* properties follow from the invariants that hold before the step.        *)
(***************************************************************************)
EXTENDS RetryQueue, FiniteSetTheorems, TLAPS

USE RetryQueueAssumption
    DEF dbVars, envVars, mailVars, pipeVars, monVars, ctlVars, vars

-------------------------------------------------------------------------------
(* The inductive invariant. *)

PipelineLocations ==
    {"lookup", "owned", "decide", "block", "reserve", "save", "reserveLast"}

\* What the local variables of the monitor and of the dashboard threads mean at
\* each place: a message is in the pipeline exactly while the monitor is there,
\* the addresses still to try are candidates, an address at hand is a real one,
\* and one about to be resolved has been accepted and is settled.
Threads ==
    /\ pc \in PipelineLocations <=> msg # NoAlert
    /\ pc \in {"block", "reserve"} => todo \subseteq cands
    /\ pc \in {"reserve", "retryBlock", "retryFailed", "retryAccepted"} => ip \in Entries
    /\ pc = "retryAccepted" => results[ip] \in Accepting /\ Settled(ip)
    /\ \A o \in Operators :
         /\ web[o].pc # "idle" => web[o].ip \in Entries
         /\ web[o].pc = "accepted" => /\ web[o].result \in Accepting
                                      /\ Settled(web[o].ip)

Typed == TypeOK /\ Threads

-------------------------------------------------------------------------------
(* Rows keep their type when one column is updated. *)

LEMMA TriedTyped ==
  ASSUME NEW r \in PendingRow
  PROVE  [r EXCEPT !.tried = TRUE] \in PendingRow
BY DEF PendingRow

LEMMA ActiveTyped ==
  ASSUME NEW r \in PendingRow, NEW b \in BOOLEAN
  PROVE  [r EXCEPT !.active = b] \in PendingRow
BY DEF PendingRow

LEMMA StatusTyped ==
  ASSUME NEW r \in AlertRow, NEW s \in Statuses
  PROVE  [r EXCEPT !.status = s] \in AlertRow
BY DEF AlertRow

LEMMA RecordAttemptTyped ==
  ASSUME pending \in [Entries -> PendingRow], NEW a \in Entries, record_retry_attempt(a)
  PROVE  pending' \in [Entries -> PendingRow]
<1>1. [pending[a] EXCEPT !.tried = TRUE] \in PendingRow
  BY TriedTyped
<1> QED BY <1>1 DEF record_retry_attempt

LEMMA ScanFailureTyped ==
  ASSUME alert \in [Alerts -> AlertRow], NEW m \in Alerts, MarkScanFailure(m)
  PROVE  alert' \in [Alerts -> AlertRow]
<1>1. [alert[m] EXCEPT !.status = "processing_failed"] \in AlertRow
  BY StatusTyped DEF Statuses, Reprocessable
<1> QED BY <1>1 DEF MarkScanFailure

\* With at most one candidate, any candidate is the only one.
LEMMA LoneCandidate ==
  ASSUME TypeOK, ~TwoCandidates, NEW a \in cands
  PROVE  cands = {a}
<1>1. IsFiniteSet(cands) /\ Cardinality(cands) \in Nat
  BY FS_Subset, FS_CardinalityType DEF TypeOK
<1>2. Cardinality(cands) # 0
  BY <1>1, FS_EmptySet
<1>3. Cardinality(cands) = 1
  BY <1>1, <1>2 DEF TwoCandidates
<1> QED BY <1>1, <1>3, FS_Singleton

-------------------------------------------------------------------------------
(* Types. *)

LEMMA InitTyped == Init => Typed
BY DEF Init, Typed, TypeOK, Threads, AlertRow, PendingRow, Absent, NoRow,
       Statuses, Final, Reprocessable, MonitorLocations, PipelineLocations,
       NoResults, IdleWeb

LEMMA TypeStep == ASSUME TypeOK, Threads, Next PROVE TypeOK'
<1> USE DEF TypeOK
<1>1. CASE LookUp
  BY <1>1 DEF LookUp, TypeOK, Threads, PipelineLocations, MonitorLocations,
    AlertRow, PendingRow, Statuses, Final, Reprocessable, Results, Accepting,
    NoResults
<1>2. CASE Skip
  BY <1>2 DEF Skip, LeavePipeline, TypeOK, Threads, PipelineLocations,
    MonitorLocations, AlertRow, PendingRow, Statuses, Final, Reprocessable,
    Results, Accepting, NoResults
<1>3. CASE Record
  <2>1. msg \in Alerts
    BY <1>3 DEF Record, Threads, PipelineLocations
  <2>2. alert' \in [Alerts -> AlertRow]
    BY <1>3, <2>1 DEF Record, AlertRow, Statuses, Reprocessable
  <2>3. pending' \in [Entries -> PendingRow]
    <3>1. \A a \in Entries : [pending[a] EXCEPT !.alert_id = NoAlert] \in PendingRow
      BY DEF PendingRow
    <3> QED BY <1>3, <3>1 DEF Record
  <2> QED BY <1>3, <2>2, <2>3 DEF Record, MonitorLocations
<1>4. CASE Filter
  BY <1>4 DEF Filter, LeavePipeline, update_alert, TypeOK, Threads,
    PipelineLocations, MonitorLocations, AlertRow, PendingRow, Statuses,
    Final, Reprocessable, Results, Accepting, NoResults
<1>5. CASE RegistryUnavailable
  BY <1>5 DEF RegistryUnavailable, LeavePipeline, update_alert, TypeOK,
    Threads, PipelineLocations, MonitorLocations, AlertRow, PendingRow,
    Statuses, Final, Reprocessable, Results, Accepting, NoResults
<1>6. CASE Reject
  BY <1>6 DEF Reject, LeavePipeline, update_alert, Candidates, TypeOK,
    Threads, PipelineLocations, MonitorLocations, AlertRow, PendingRow,
    Statuses, Final, Reprocessable, Results, Accepting, NoResults
<1>7. CASE Approve
  <2>1. Candidates(msg) \subseteq Ips
    BY <1>7 DEF Approve, Candidates, Threads, PipelineLocations
  <2> QED BY <1>7, <2>1 DEF Approve, MonitorLocations, Entries
<1>8. ASSUME NEW a \in Ips, Block(a) PROVE TypeOK'
  BY <1>8 DEF Block, block_ip, TwoCandidates, TypeOK, Threads,
    PipelineLocations, MonitorLocations, AlertRow, PendingRow, Statuses,
    Final, Reprocessable, Results, Accepting, NoResults
<1>9. CASE ReserveCandidate
  BY <1>9 DEF ReserveCandidate, reserve_pending_block, NoRow, TypeOK,
    Threads, PipelineLocations, MonitorLocations, AlertRow, PendingRow,
    Statuses, Final, Reprocessable, Results, Accepting, NoResults
<1>10. CASE Save
  <2>1. [status |-> AggregateStatus, candidates |-> cands] \in AlertRow
    BY DEF AggregateStatus, AlertRow, Statuses, Final, Reprocessable, Entries
  <2>2. alert' \in [Alerts -> AlertRow]
    BY <1>10, <2>1 DEF Save, update_alert
  <2> QED BY <1>10, <2>2
    DEF Save, LeavePipeline, MonitorLocations, NoResults, Statuses
<1>11. CASE ReserveLast
  <2>1. PICK a \in Entries : reserve_pending_block(a, msg)
    BY <1>11 DEF ReserveLast, Entries
  <2>2. msg \in Alerts
    BY <1>11 DEF ReserveLast, Threads, PipelineLocations
  <2>3. pending' \in [Entries -> PendingRow]
    BY <2>1, <2>2 DEF reserve_pending_block, PendingRow
  <2> QED BY <1>11, <2>3
    DEF ReserveLast, LeavePipeline, MonitorLocations, NoResults, Statuses
<1>12. ASSUME NEW m \in Alerts, ScanMessage(m) PROVE TypeOK'
  BY <1>12 DEF ScanMessage, TypeOK, Threads, PipelineLocations,
    MonitorLocations, AlertRow, PendingRow, Statuses, Final, Reprocessable,
    Results, Accepting, NoResults
<1>13. ASSUME NEW m \in Alerts, ScanFetchFails(m) PROVE TypeOK'
  <2>1. alert' \in [Alerts -> AlertRow]
    BY <1>13, ScanFailureTyped DEF ScanFetchFails
  <2> QED BY <1>13, <2>1 DEF ScanFetchFails
<1>14. CASE ScanDone
  BY <1>14 DEF ScanDone, TypeOK, Threads, PipelineLocations, MonitorLocations,
    AlertRow, PendingRow, Statuses, Final, Reprocessable, Results, Accepting,
    NoResults
<1>15. CASE Sync
  BY <1>15 DEF Sync, sync_pending_blocks_from_alerts, Failed, TypeOK, Threads,
    PipelineLocations, MonitorLocations, AlertRow, PendingRow, Statuses,
    Final, Reprocessable, Results, Accepting, NoResults
<1>16. CASE ListPending
  BY <1>16 DEF ListPending, TypeOK, Threads, PipelineLocations,
    MonitorLocations, AlertRow, PendingRow, Statuses, Final, Reprocessable,
    Results, Accepting, NoResults
<1>17. ASSUME NEW a \in Entries, RetryNext(a) PROVE TypeOK'
  BY <1>17 DEF RetryNext, TypeOK, Threads, PipelineLocations,
    MonitorLocations, AlertRow, PendingRow, Statuses, Final, Reprocessable,
    Results, Accepting, NoResults
<1>18. CASE RetryBlock
  BY <1>18 DEF RetryBlock, block_ip, TypeOK, Threads, PipelineLocations,
    MonitorLocations, AlertRow, PendingRow, Statuses, Final, Reprocessable,
    Results, Accepting, NoResults
<1>19. CASE RetryFailed
  <2>1. pending' \in [Entries -> PendingRow]
    BY <1>19, RecordAttemptTyped DEF RetryFailed, Threads
  <2> QED BY <1>19, <2>1 DEF RetryFailed, NextEntry, MonitorLocations, NoResults
<1>20. CASE RetryAccepted
  <2>1. ip \in Entries /\ StatusOf(results[ip]) \in Statuses
    BY <1>20 DEF RetryAccepted, Threads, StatusOf, Accepting, Statuses, Final
  <2>2. pending' \in [Entries -> PendingRow]
    BY <1>20, <2>1 DEF RetryAccepted, resolve_pending_block, NoRow, PendingRow
  <2>3. alert' \in [Alerts -> AlertRow]
    BY <1>20, <2>1, StatusTyped DEF RetryAccepted, resolve_pending_block
  <2> QED BY <1>20, <2>2, <2>3
    DEF RetryAccepted, NextEntry, MonitorLocations, NoResults
<1>21. CASE RetryDone
  BY <1>21 DEF RetryDone, TypeOK, Threads, PipelineLocations,
    MonitorLocations, AlertRow, PendingRow, Statuses, Final, Reprocessable,
    Results, Accepting, NoResults
<1>22. ASSUME NEW m \in Alerts, PollMessage(m) PROVE TypeOK'
  BY <1>22 DEF PollMessage, TypeOK, Threads, PipelineLocations,
    MonitorLocations, AlertRow, PendingRow, Statuses, Final, Reprocessable,
    Results, Accepting, NoResults
<1>23. CASE PollDone
  BY <1>23 DEF PollDone, TypeOK, Threads, PipelineLocations, MonitorLocations,
    AlertRow, PendingRow, Statuses, Final, Reprocessable, Results, Accepting,
    NoResults
<1>24. ASSUME NEW o \in Operators, NEW a \in Entries, RetryNow(o, a) PROVE TypeOK'
  BY <1>24 DEF RetryNow, TypeOK, Threads, PipelineLocations, MonitorLocations,
    AlertRow, PendingRow, Statuses, Final, Reprocessable, Results, Accepting,
    NoResults
<1>25. ASSUME NEW o \in Operators, RetryNowBlock(o) PROVE TypeOK'
  BY <1>25 DEF RetryNowBlock, block_ip, TypeOK, Threads, PipelineLocations,
    MonitorLocations, AlertRow, PendingRow, Statuses, Final, Reprocessable,
    Results, Accepting, NoResults
<1>26. ASSUME NEW o \in Operators, RetryNowFailed(o) PROVE TypeOK'
  <2>1. pending' \in [Entries -> PendingRow]
    BY <1>26, RecordAttemptTyped DEF RetryNowFailed, Threads
  <2> QED BY <1>26, <2>1 DEF RetryNowFailed, IdleWeb
<1>27. ASSUME NEW o \in Operators, RetryNowAccepted(o) PROVE TypeOK'
  <2>1. web[o].ip \in Entries /\ StatusOf(web[o].result) \in Statuses
    BY <1>27 DEF RetryNowAccepted, Threads, StatusOf, Accepting, Statuses, Final
  <2>2. pending' \in [Entries -> PendingRow]
    BY <1>27, <2>1 DEF RetryNowAccepted, resolve_pending_block, NoRow, PendingRow
  <2>3. alert' \in [Alerts -> AlertRow]
    BY <1>27, <2>1, StatusTyped DEF RetryNowAccepted, resolve_pending_block
  <2> QED BY <1>27, <2>2, <2>3 DEF RetryNowAccepted, IdleWeb
<1>28. ASSUME NEW a \in Entries, cancel_pending_block(a) PROVE TypeOK'
  BY <1>28 DEF cancel_pending_block, Failed, NoRow, TypeOK, Threads,
    PipelineLocations, MonitorLocations, AlertRow, PendingRow, Statuses,
    Final, Reprocessable, Results, Accepting, NoResults
<1>29. ASSUME NEW a \in Entries, stop_pending_block(a) PROVE TypeOK'
  BY <1>29, ActiveTyped DEF stop_pending_block
<1>30. ASSUME NEW a \in Entries, resume_pending_block(a) PROVE TypeOK'
  BY <1>30, ActiveTyped DEF resume_pending_block
<1>31. ASSUME NEW D \in SUBSET Alerts, DeleteAlerts(D) PROVE TypeOK'
  BY <1>31 DEF DeleteAlerts, Absent, TypeOK, Threads, PipelineLocations,
    MonitorLocations, AlertRow, PendingRow, Statuses, Final, Reprocessable,
    Results, Accepting, NoResults
<1>32. ASSUME NEW a \in Entries, Protect(a) PROVE TypeOK'
  BY <1>32 DEF Protect, TypeOK, Threads, PipelineLocations, MonitorLocations,
    AlertRow, PendingRow, Statuses, Final, Reprocessable, Results, Accepting,
    NoResults
<1>33. CASE ReachabilityChanges
  BY <1>33 DEF ReachabilityChanges, TypeOK, Threads, PipelineLocations,
    MonitorLocations, AlertRow, PendingRow, Statuses, Final, Reprocessable,
    Results, Accepting, NoResults
<1>34. CASE Crash
  BY <1>34 DEF Crash, ForgetUnreserved, IdleWeb, TypeOK, Threads,
    PipelineLocations, MonitorLocations, AlertRow, PendingRow, Statuses,
    Final, Reprocessable, Results, Accepting, NoResults
<1>35. CASE PipelineRaises
  <2>1. msg \in Alerts
    BY <1>35 DEF PipelineRaises
  <2>2. alert' \in [Alerts -> AlertRow]
    BY <1>35, <2>1, ScanFailureTyped DEF PipelineRaises
  <2>3. failures' \in [Alerts -> SUBSET Ips]
    BY <1>35 DEF PipelineRaises, ForgetUnreserved
  <2> QED BY <1>35, <2>2, <2>3
    DEF PipelineRaises, LeavePipeline, MonitorLocations, Statuses, NoResults
<1>36. CASE WorkerRaises
  BY <1>36 DEF WorkerRaises, TypeOK, Threads, PipelineLocations,
    MonitorLocations, AlertRow, PendingRow, Statuses, Final, Reprocessable,
    Results, Accepting, NoResults
<1>37. ASSUME NEW o \in Operators, RetryNowRaises(o) PROVE TypeOK'
  BY <1>37 DEF RetryNowRaises, IdleWeb, TypeOK, Threads, PipelineLocations,
    MonitorLocations, AlertRow, PendingRow, Statuses, Final, Reprocessable,
    Results, Accepting, NoResults
<1> QED BY <1>1, <1>2, <1>3, <1>4, <1>5, <1>6, <1>7, <1>8, <1>9, <1>10, <1>11,
    <1>12, <1>13, <1>14, <1>15, <1>16, <1>17, <1>18, <1>19, <1>20, <1>21, <1>22,
    <1>23, <1>24, <1>25, <1>26, <1>27, <1>28, <1>29, <1>30, <1>31, <1>32, <1>33,
    <1>34, <1>35, <1>36, <1>37
  DEF Next, Monitor, Pipeline, RetryWorker, RetryNowStep, Administrator

LEMMA ThreadsStep == ASSUME TypeOK, Threads, Next PROVE Threads'
<1>1. CASE LookUp
  BY <1>1 DEF LookUp, TypeOK, Threads, PipelineLocations, Results, Accepting,
    Settled
<1>2. CASE Skip
  BY <1>2 DEF Skip, LeavePipeline, TypeOK, Threads, PipelineLocations,
    Results, Accepting, Settled
<1>3. CASE Record
  BY <1>3 DEF Record, has_active_retry_for_alert, TypeOK, Threads,
    PipelineLocations, Results, Accepting, Settled
<1>4. CASE Filter
  BY <1>4 DEF Filter, LeavePipeline, update_alert, TypeOK, Threads,
    PipelineLocations, Results, Accepting, Settled
<1>5. CASE RegistryUnavailable
  BY <1>5 DEF RegistryUnavailable, LeavePipeline, update_alert, TypeOK,
    Threads, PipelineLocations, Results, Accepting, Settled
<1>6. CASE Reject
  BY <1>6 DEF Reject, LeavePipeline, update_alert, Candidates, TypeOK,
    Threads, PipelineLocations, Results, Accepting, Settled
<1>7. CASE Approve
  BY <1>7 DEF Approve, Candidates, TypeOK, Threads, PipelineLocations,
    Results, Accepting, Settled
<1>8. ASSUME NEW a \in Ips, Block(a) PROVE Threads'
  BY <1>8 DEF Block, block_ip, TwoCandidates, TypeOK, Threads,
    PipelineLocations, Results, Accepting, Settled
<1>9. CASE ReserveCandidate
  BY <1>9 DEF ReserveCandidate, reserve_pending_block, NoRow, TypeOK,
    Threads, PipelineLocations, Results, Accepting, Settled
<1>10. CASE Save
  BY <1>10 DEF Save, LeavePipeline, update_alert, AggregateStatus, Outcomes,
    TwoCandidates, TypeOK, Threads, PipelineLocations, Results, Accepting,
    Settled
<1>11. CASE ReserveLast
  BY <1>11 DEF ReserveLast, LeavePipeline, reserve_pending_block, TypeOK,
    Threads, PipelineLocations, Results, Accepting, Settled
<1>12. ASSUME NEW m \in Alerts, ScanMessage(m) PROVE Threads'
  BY <1>12 DEF ScanMessage, TypeOK, Threads, PipelineLocations, Results,
    Accepting, Settled
<1>13. ASSUME NEW m \in Alerts, ScanFetchFails(m) PROVE Threads'
  BY <1>13 DEF ScanFetchFails, MarkScanFailure, TypeOK, Threads,
    PipelineLocations, Results, Accepting, Settled
<1>14. CASE ScanDone
  BY <1>14 DEF ScanDone, TypeOK, Threads, PipelineLocations, Results,
    Accepting, Settled
<1>15. CASE Sync
  BY <1>15 DEF Sync, sync_pending_blocks_from_alerts, Failed, TypeOK, Threads,
    PipelineLocations, Results, Accepting, Settled
<1>16. CASE ListPending
  BY <1>16 DEF ListPending, TypeOK, Threads, PipelineLocations, Results,
    Accepting, Settled
<1>17. ASSUME NEW a \in Entries, RetryNext(a) PROVE Threads'
  BY <1>17 DEF RetryNext, TypeOK, Threads, PipelineLocations, Results,
    Accepting, Settled
<1>18. CASE RetryBlock
  BY <1>18 DEF RetryBlock, block_ip, TypeOK, Threads, PipelineLocations,
    Results, Accepting, Settled
<1>19. CASE RetryFailed
  BY <1>19 DEF RetryFailed, record_retry_attempt, NextEntry, TypeOK,
    Threads, PipelineLocations, Results, Accepting, Settled
<1>20. CASE RetryAccepted
  BY <1>20 DEF RetryAccepted, resolve_pending_block, NextEntry, Failed,
    StatusOf, NoRow, TypeOK, Threads, PipelineLocations, Results, Accepting,
    Settled
<1>21. CASE RetryDone
  BY <1>21 DEF RetryDone, TypeOK, Threads, PipelineLocations, Results,
    Accepting, Settled
<1>22. ASSUME NEW m \in Alerts, PollMessage(m) PROVE Threads'
  BY <1>22 DEF PollMessage, TypeOK, Threads, PipelineLocations, Results,
    Accepting, Settled
<1>23. CASE PollDone
  BY <1>23 DEF PollDone, TypeOK, Threads, PipelineLocations, Results,
    Accepting, Settled
<1>24. ASSUME NEW o \in Operators, NEW a \in Entries, RetryNow(o, a) PROVE Threads'
  BY <1>24 DEF RetryNow, TypeOK, Threads, PipelineLocations, Results,
    Accepting, Settled
<1>25. ASSUME NEW o \in Operators, RetryNowBlock(o) PROVE Threads'
  BY <1>25 DEF RetryNowBlock, block_ip, TypeOK, Threads, PipelineLocations,
    Results, Accepting, Settled
<1>26. ASSUME NEW o \in Operators, RetryNowFailed(o) PROVE Threads'
  BY <1>26 DEF RetryNowFailed, record_retry_attempt, IdleWeb, TypeOK,
    Threads, PipelineLocations, Results, Accepting, Settled
<1>27. ASSUME NEW o \in Operators, RetryNowAccepted(o) PROVE Threads'
  BY <1>27 DEF RetryNowAccepted, resolve_pending_block, Failed, StatusOf,
    NoRow, IdleWeb, TypeOK, Threads, PipelineLocations, Results, Accepting,
    Settled
<1>28. ASSUME NEW a \in Entries, cancel_pending_block(a) PROVE Threads'
  BY <1>28 DEF cancel_pending_block, Failed, NoRow, TypeOK, Threads,
    PipelineLocations, Results, Accepting, Settled
<1>29. ASSUME NEW a \in Entries, stop_pending_block(a) PROVE Threads'
  BY <1>29 DEF stop_pending_block, TypeOK, Threads, PipelineLocations,
    Results, Accepting, Settled
<1>30. ASSUME NEW a \in Entries, resume_pending_block(a) PROVE Threads'
  BY <1>30 DEF resume_pending_block, TypeOK, Threads, PipelineLocations,
    Results, Accepting, Settled
<1>31. ASSUME NEW D \in SUBSET Alerts, DeleteAlerts(D) PROVE Threads'
  BY <1>31 DEF DeleteAlerts, Absent, TypeOK, Threads, PipelineLocations,
    Results, Accepting, Settled
<1>32. ASSUME NEW a \in Entries, Protect(a) PROVE Threads'
  BY <1>32 DEF Protect, TypeOK, Threads, PipelineLocations, Results,
    Accepting, Settled
<1>33. CASE ReachabilityChanges
  BY <1>33 DEF ReachabilityChanges, TypeOK, Threads, PipelineLocations,
    Results, Accepting, Settled
<1>34. CASE Crash
  BY <1>34 DEF Crash, ForgetUnreserved, IdleWeb, TypeOK, Threads,
    PipelineLocations, Results, Accepting, Settled
<1>35. CASE PipelineRaises
  BY <1>35 DEF PipelineRaises, LeavePipeline, ForgetUnreserved,
    MarkScanFailure, TypeOK, Threads, PipelineLocations, Results, Accepting,
    Settled
<1>36. CASE WorkerRaises
  BY <1>36 DEF WorkerRaises, TypeOK, Threads, PipelineLocations, Results,
    Accepting, Settled
<1>37. ASSUME NEW o \in Operators, RetryNowRaises(o) PROVE Threads'
  BY <1>37 DEF RetryNowRaises, IdleWeb, TypeOK, Threads, PipelineLocations,
    Results,
    Accepting, Settled
<1> QED BY <1>1, <1>2, <1>3, <1>4, <1>5, <1>6, <1>7, <1>8, <1>9, <1>10, <1>11,
    <1>12, <1>13, <1>14, <1>15, <1>16, <1>17, <1>18, <1>19, <1>20, <1>21, <1>22,
    <1>23, <1>24, <1>25, <1>26, <1>27, <1>28, <1>29, <1>30, <1>31, <1>32, <1>33,
    <1>34, <1>35, <1>36, <1>37
  DEF Next, Monitor, Pipeline, RetryWorker, RetryNowStep, Administrator

\* No step of any thread, of the administrator or of a fault makes a variable
\* lose its type or a thread's local variables their meaning.
THEOREM TypedAlways == Spec => []Typed
<1>1. Typed /\ [Next]_vars => Typed'
  <2> SUFFICES ASSUME TypeOK, Threads, [Next]_vars PROVE Typed'
    BY DEF Typed
  <2>1. CASE Next
    BY <2>1, TypeStep, ThreadsStep DEF Typed
  <2>2. CASE UNCHANGED vars
    BY <2>2 DEF Typed, TypeOK, Threads, Settled
  <2> QED BY <2>1, <2>2
<1> QED BY <1>1, InitTyped, PTL DEF Spec

\* Every variable of the retry queue has its type in every reachable state.
THEOREM TypeCorrect == Spec => []TypeOK
<1>1. Typed => TypeOK
  BY DEF Typed
<1> QED BY <1>1, TypedAlways, PTL

-------------------------------------------------------------------------------
(* The set behind the dashboard's "Retrying". *)

LEMMA RetryingStep ==
  ASSUME TypeOK, Threads, RetryingOnlyInFlight, Next
  PROVE  RetryingOnlyInFlight'
<1> USE DEF TypeOK
<1>1. CASE LookUp
  BY <1>1 DEF LookUp, RetryingOnlyInFlight
<1>2. CASE Skip
  BY <1>2 DEF Skip, LeavePipeline, RetryingOnlyInFlight
<1>3. CASE Record
  BY <1>3 DEF Record, has_active_retry_for_alert, RetryingOnlyInFlight
<1>4. CASE Filter
  BY <1>4 DEF Filter, LeavePipeline, update_alert, RetryingOnlyInFlight
<1>5. CASE RegistryUnavailable
  BY <1>5 DEF RegistryUnavailable, LeavePipeline, update_alert,
    RetryingOnlyInFlight
<1>6. CASE Reject
  BY <1>6 DEF Reject, LeavePipeline, update_alert, Candidates,
    RetryingOnlyInFlight
<1>7. CASE Approve
  BY <1>7 DEF Approve, Candidates, RetryingOnlyInFlight
<1>8. ASSUME NEW a \in Ips, Block(a) PROVE RetryingOnlyInFlight'
  BY <1>8 DEF Block, block_ip, TwoCandidates, RetryingOnlyInFlight
<1>9. CASE ReserveCandidate
  BY <1>9 DEF ReserveCandidate, reserve_pending_block, NoRow,
    RetryingOnlyInFlight
<1>10. CASE Save
  BY <1>10 DEF Save, LeavePipeline, update_alert, AggregateStatus, Outcomes,
    TwoCandidates, RetryingOnlyInFlight
<1>11. CASE ReserveLast
  BY <1>11 DEF ReserveLast, LeavePipeline, reserve_pending_block,
    RetryingOnlyInFlight
<1>12. ASSUME NEW m \in Alerts, ScanMessage(m) PROVE RetryingOnlyInFlight'
  BY <1>12 DEF ScanMessage, RetryingOnlyInFlight
<1>13. ASSUME NEW m \in Alerts, ScanFetchFails(m) PROVE RetryingOnlyInFlight'
  BY <1>13 DEF ScanFetchFails, MarkScanFailure, RetryingOnlyInFlight
<1>14. CASE ScanDone
  BY <1>14 DEF ScanDone, RetryingOnlyInFlight
<1>15. CASE Sync
  BY <1>15 DEF Sync, sync_pending_blocks_from_alerts, Failed,
    RetryingOnlyInFlight
<1>16. CASE ListPending
  BY <1>16 DEF ListPending, RetryingOnlyInFlight
<1>17. ASSUME NEW a \in Entries, RetryNext(a) PROVE RetryingOnlyInFlight'
  BY <1>17 DEF RetryNext, RetryingOnlyInFlight
<1>18. CASE RetryBlock
  BY <1>18 DEF RetryBlock, block_ip, RetryingOnlyInFlight
<1>19. CASE RetryFailed
  BY <1>19 DEF RetryFailed, record_retry_attempt, NextEntry,
    RetryingOnlyInFlight
<1>20. CASE RetryAccepted
  BY <1>20 DEF RetryAccepted, resolve_pending_block, NextEntry, Failed,
    StatusOf, NoRow, RetryingOnlyInFlight
<1>21. CASE RetryDone
  BY <1>21 DEF RetryDone, RetryingOnlyInFlight
<1>22. ASSUME NEW m \in Alerts, PollMessage(m) PROVE RetryingOnlyInFlight'
  BY <1>22 DEF PollMessage, RetryingOnlyInFlight
<1>23. CASE PollDone
  BY <1>23 DEF PollDone, RetryingOnlyInFlight
<1>24. ASSUME NEW o \in Operators, NEW a \in Entries, RetryNow(o, a)
      PROVE  RetryingOnlyInFlight'
  BY <1>24 DEF RetryNow, RetryingOnlyInFlight
<1>25. ASSUME NEW o \in Operators, RetryNowBlock(o) PROVE RetryingOnlyInFlight'
  BY <1>25 DEF RetryNowBlock, block_ip, RetryingOnlyInFlight
<1>26. ASSUME NEW o \in Operators, RetryNowFailed(o) PROVE RetryingOnlyInFlight'
  BY <1>26 DEF RetryNowFailed, record_retry_attempt, IdleWeb,
    RetryingOnlyInFlight
<1>27. ASSUME NEW o \in Operators, RetryNowAccepted(o) PROVE RetryingOnlyInFlight'
  BY <1>27 DEF RetryNowAccepted, resolve_pending_block, Failed, StatusOf,
    NoRow, IdleWeb, RetryingOnlyInFlight
<1>28. ASSUME NEW a \in Entries, cancel_pending_block(a) PROVE RetryingOnlyInFlight'
  BY <1>28 DEF cancel_pending_block, Failed, NoRow, RetryingOnlyInFlight
<1>29. ASSUME NEW a \in Entries, stop_pending_block(a) PROVE RetryingOnlyInFlight'
  BY <1>29 DEF stop_pending_block, RetryingOnlyInFlight
<1>30. ASSUME NEW a \in Entries, resume_pending_block(a) PROVE RetryingOnlyInFlight'
  BY <1>30 DEF resume_pending_block, RetryingOnlyInFlight
<1>31. ASSUME NEW D \in SUBSET Alerts, DeleteAlerts(D) PROVE RetryingOnlyInFlight'
  BY <1>31 DEF DeleteAlerts, Absent, RetryingOnlyInFlight
<1>32. ASSUME NEW a \in Entries, Protect(a) PROVE RetryingOnlyInFlight'
  BY <1>32 DEF Protect, RetryingOnlyInFlight
<1>33. CASE ReachabilityChanges
  BY <1>33 DEF ReachabilityChanges, RetryingOnlyInFlight
<1>34. CASE Crash
  BY <1>34 DEF Crash, ForgetUnreserved, IdleWeb, RetryingOnlyInFlight
<1>35. CASE PipelineRaises
  BY <1>35 DEF PipelineRaises, LeavePipeline, RetryingOnlyInFlight, Threads,
    PipelineLocations
<1>36. CASE WorkerRaises
  BY <1>36 DEF WorkerRaises, RetryingOnlyInFlight
<1>37. ASSUME NEW o \in Operators, RetryNowRaises(o) PROVE RetryingOnlyInFlight'
  BY <1>37 DEF RetryNowRaises, IdleWeb, RetryingOnlyInFlight
<1> QED BY <1>1, <1>2, <1>3, <1>4, <1>5, <1>6, <1>7, <1>8, <1>9, <1>10, <1>11,
    <1>12, <1>13, <1>14, <1>15, <1>16, <1>17, <1>18, <1>19, <1>20, <1>21, <1>22,
    <1>23, <1>24, <1>25, <1>26, <1>27, <1>28, <1>29, <1>30, <1>31, <1>32, <1>33,
    <1>34, <1>35, <1>36, <1>37
  DEF Next, Monitor, Pipeline, RetryWorker, RetryNowStep, Administrator

\* An address is shown as "Retrying" only while some thread is retrying it,
\* however many threads retry, cancel or pause it and whatever raises.
THEOREM RetryingShown == Spec => []RetryingOnlyInFlight
<1>1. Init => RetryingOnlyInFlight
  BY DEF Init, RetryingOnlyInFlight
<1>2. Typed /\ RetryingOnlyInFlight /\ [Next]_vars => RetryingOnlyInFlight'
  <2> SUFFICES ASSUME TypeOK, Threads, RetryingOnlyInFlight, [Next]_vars
               PROVE  RetryingOnlyInFlight'
    BY DEF Typed
  <2>1. CASE Next
    BY <2>1, RetryingStep
  <2>2. CASE UNCHANGED vars
    BY <2>2 DEF RetryingOnlyInFlight
  <2> QED BY <2>1, <2>2
<1> QED BY <1>1, <1>2, TypedAlways, PTL DEF Spec

-------------------------------------------------------------------------------
(* Failed blocks stay in the queue. *)

Processing == {"decide", "block", "reserve", "save", "reserveLast"}

\* The alert the pipeline works on is never one that no start processes again,
\* so a stop between a failed block and its reservation loses no failure.
LeadsBack ==
    /\ pc \in Processing => alert[msg].status # "rejected"
    /\ pc = "owned" /\ previous \in Reprocessable => alert[msg].status # "rejected"

\* Only the pipeline, in its decision, rejects an alert.
LEMMA OnlyTheDecisionRejects ==
  ASSUME TypeOK, Threads, Next, NEW m \in Alerts, alert'[m].status = "rejected"
  PROVE  alert[m].status = "rejected" \/ (pc = "decide" /\ pc' \in {"idle", "poll"})
<1> USE DEF TypeOK
<1>1. CASE Pipeline
  <2>1. CASE Save
    BY <2>1 DEF Save, update_alert, AggregateStatus, LeavePipeline
  <2>2. CASE Record
    BY <2>2 DEF Record
  <2>3. CASE Filter
    BY <2>3 DEF Filter, LeavePipeline
  <2>4. CASE RegistryUnavailable
    BY <2>4 DEF RegistryUnavailable, LeavePipeline
  <2>5. CASE Reject
    BY <2>5 DEF Reject, LeavePipeline
  <2> QED BY <1>1, <2>1, <2>2, <2>3, <2>4, <2>5
      DEF Pipeline, LookUp, Skip, Approve, Block, ReserveCandidate, ReserveLast
<1>2. CASE RetryWorker
  <2>1. CASE RetryAccepted
    BY <2>1 DEF RetryAccepted, resolve_pending_block, Threads, StatusOf,
      Accepting
  <2> QED BY <1>2, <2>1
      DEF RetryWorker, Sync, ListPending, RetryNext, RetryBlock, RetryFailed,
        RetryDone
<1>3. ASSUME NEW n \in Alerts, ScanMessage(n) \/ PollMessage(n)
      PROVE  alert[m].status = "rejected"
  BY <1>3 DEF ScanMessage, PollMessage
<1>4. ASSUME NEW n \in Alerts, ScanFetchFails(n) PROVE alert[m].status = "rejected"
  BY <1>4 DEF ScanFetchFails, MarkScanFailure
<1>5. CASE ScanDone \/ PollDone \/ ReachabilityChanges \/ Crash \/ WorkerRaises
  BY <1>5 DEF ScanDone, PollDone, ReachabilityChanges, Crash, WorkerRaises
<1>6. CASE PipelineRaises
  <2>1. alert' = alert \/ MarkScanFailure(msg)
    BY <1>6 DEF PipelineRaises
  <2>2. CASE m = msg
    BY <2>1, <2>2 DEF MarkScanFailure, AlertRow
  <2>3. CASE m # msg
    BY <2>1, <2>3 DEF MarkScanFailure
  <2> QED BY <2>2, <2>3
<1>7. ASSUME NEW o \in Operators, RetryNowAccepted(o) PROVE alert[m].status = "rejected"
  BY <1>7 DEF RetryNowAccepted, resolve_pending_block, Threads, StatusOf,
    Accepting
<1>8. ASSUME NEW o \in Operators,
             \/ RetryNowBlock(o) \/ RetryNowFailed(o) \/ RetryNowRaises(o)
             \/ \E a \in Entries : RetryNow(o, a)
      PROVE  alert[m].status = "rejected"
  BY <1>8 DEF RetryNowBlock, RetryNowFailed, RetryNowRaises, RetryNow
<1>9. CASE Administrator
  <2>1. ASSUME NEW a \in Entries, cancel_pending_block(a)
        PROVE  alert[m].status = "rejected"
    BY <2>1 DEF cancel_pending_block
  <2>2. ASSUME NEW D \in SUBSET Alerts, DeleteAlerts(D)
        PROVE  alert[m].status = "rejected"
    BY <2>2 DEF DeleteAlerts, Absent
  <2> QED BY <1>9, <2>1, <2>2
      DEF Administrator, stop_pending_block, resume_pending_block, Protect
<1> QED BY <1>1, <1>2, <1>3, <1>4, <1>5, <1>6, <1>7, <1>8, <1>9
    DEF Next, Monitor, RetryNowStep

\* How the monitor gets to a place where it works on an alert.
LEMMA IntoProcessing ==
  ASSUME TypeOK, Threads, Next
  PROVE  /\ pc' \in Processing => /\ msg' = msg /\ msg \in Alerts
                                  /\ pc \in Processing \/ Record
         /\ pc' = "owned" => /\ msg' = msg /\ msg \in Alerts
                             /\ LookUp \/ (pc = "owned" /\ previous' = previous)
<1> USE DEF TypeOK, Processing
<1>1. CASE Pipeline
  BY <1>1 DEF Pipeline, LookUp, Skip, Record, Filter, RegistryUnavailable,
    Reject,
     Approve, Block, ReserveCandidate, Save, ReserveLast, LeavePipeline, Threads,
     PipelineLocations
<1>2. CASE RetryWorker
  BY <1>2 DEF RetryWorker, Sync, ListPending, RetryNext, RetryBlock,
    RetryFailed,
     RetryAccepted, RetryDone, NextEntry
<1>3. ASSUME NEW m \in Alerts, ScanMessage(m) \/ ScanFetchFails(m) \/ PollMessage(m)
      PROVE  pc' \notin Processing \cup {"owned"}
  BY <1>3 DEF ScanMessage, ScanFetchFails, PollMessage
<1>4. CASE ScanDone \/ PollDone \/ Crash \/ PipelineRaises \/ WorkerRaises
  BY <1>4 DEF ScanDone, PollDone, Crash, PipelineRaises, WorkerRaises,
    LeavePipeline
<1>5. CASE /\ UNCHANGED <<pc, msg, previous>>
  BY <1>5 DEF Threads, PipelineLocations
<1>6. ASSUME NEW o \in Operators,
             \/ RetryNowStep(o) \/ RetryNowRaises(o)
             \/ \E a \in Entries : RetryNow(o, a)
      PROVE  UNCHANGED <<pc, msg, previous>>
  BY <1>6 DEF RetryNowStep, RetryNowBlock, RetryNowFailed, RetryNowAccepted,
     RetryNowRaises, RetryNow
<1>7. ASSUME Administrator \/ ReachabilityChanges
      PROVE  UNCHANGED <<pc, msg, previous>>
  BY <1>7 DEF Administrator, cancel_pending_block, stop_pending_block,
     resume_pending_block, DeleteAlerts, Protect, ReachabilityChanges
<1> QED BY <1>1, <1>2, <1>3, <1>4, <1>5, <1>6, <1>7 DEF Next, Monitor

LEMMA LeadsBackStep == ASSUME TypeOK, Threads, LeadsBack, Next PROVE LeadsBack'
<1>1. ASSUME pc' \in Processing PROVE alert'[msg].status # "rejected"
  <2>1. msg \in Alerts /\ (pc \in Processing \/ Record)
    BY <1>1, IntoProcessing
  <2>2. CASE Record
    BY <2>1, <2>2 DEF Record, LeadsBack, TypeOK
  <2>3. CASE pc \in Processing
    BY <1>1, <2>1, <2>3, OnlyTheDecisionRejects DEF LeadsBack, Processing
  <2> QED BY <2>1, <2>2, <2>3
<1>2. ASSUME pc' = "owned", previous' \in Reprocessable
      PROVE  alert'[msg].status # "rejected"
  <2>1. msg \in Alerts /\ (LookUp \/ (pc = "owned" /\ previous' = previous))
    BY <1>2, IntoProcessing
  <2>2. CASE LookUp
    BY <1>2, <2>2 DEF LookUp, Reprocessable
  <2>3. CASE pc = "owned" /\ previous' = previous
    BY <1>2, <2>1, <2>3, OnlyTheDecisionRejects DEF LeadsBack
  <2> QED BY <2>1, <2>2, <2>3
<1> QED BY <1>1, <1>2, IntoProcessing DEF LeadsBack

\* A message in the pipeline has an alert that a later start processes again, or
\* that another thread settled or deleted (_process_message, Skip).
THEOREM AlwaysLeadsBack == Spec => []LeadsBack
<1>1. Init => LeadsBack
  BY DEF Init, LeadsBack, Processing
<1>2. Typed /\ LeadsBack /\ [Next]_vars => LeadsBack'
  BY LeadsBackStep DEF Typed, LeadsBack
<1> QED BY <1>1, <1>2, TypedAlways, PTL DEF Spec

LEMMA ForgottenStep ==
  ASSUME TypeOK, Threads, LeadsBack, NoFailureForgotten, Next
  PROVE  NoFailureForgotten'
<1> USE DEF TypeOK
<1>1. CASE LookUp
  BY <1>1 DEF LookUp, NoFailureForgotten, AboutToReserve, Settled, Threads,
    PipelineLocations
<1>2. CASE Skip
  BY <1>2 DEF Skip, LeavePipeline, NoFailureForgotten, AboutToReserve,
    Settled, Threads, PipelineLocations
<1>3. CASE Record
  <2>1. \A a \in Entries : pending'[a].queued = pending[a].queued
    BY <1>3 DEF Record, PendingRow
  <2> QED BY <1>3, <2>1 DEF Record, NoFailureForgotten, AboutToReserve, Settled, Entries
<1>4. CASE Filter
  BY <1>4 DEF Filter, LeavePipeline, update_alert, NoFailureForgotten,
    AboutToReserve, Settled, Threads, PipelineLocations
<1>5. CASE RegistryUnavailable
  BY <1>5 DEF RegistryUnavailable, LeavePipeline, update_alert,
    NoFailureForgotten, AboutToReserve, Settled, Threads, PipelineLocations
<1>6. CASE Reject
  BY <1>6 DEF Reject, LeavePipeline, update_alert, Candidates,
    NoFailureForgotten, AboutToReserve, Settled, Threads, PipelineLocations
<1>7. CASE Approve
  BY <1>7 DEF Approve, Candidates, NoFailureForgotten, AboutToReserve,
    Settled, Threads, PipelineLocations
<1>8. ASSUME NEW a \in Ips, Block(a) PROVE NoFailureForgotten'
  <2> SUFFICES ASSUME NEW m \in Alerts, NEW b \in failures'[m]
               PROVE  Settled(b)' \/ pending'[b].queued \/ AboutToReserve(m, b)'
    BY DEF NoFailureForgotten
  <2>1. CASE b \in failures[m]
    BY <1>8, <2>1 DEF Block, block_ip, Settled, AboutToReserve,
                      NoFailureForgotten
  <2>2. CASE b \notin failures[m]
    <3>0. PICK r \in Results :
            /\ results' = [results EXCEPT ![a] = r]
            /\ failures' = IF r = "failed" /\ msg \in Remembered
                             THEN [failures EXCEPT ![msg] = @ \cup {a}]
                             ELSE failures
      BY <1>8 DEF Block
    <3>1. /\ m = msg /\ b = a
          /\ results' = [results EXCEPT ![a] = "failed"]
      <4>1. r = "failed"
        BY <2>2, <3>0
      <4> QED BY <2>2, <3>0, <4>1
    <3>2. CASE TwoCandidates
      BY <1>8, <3>1, <3>2, <2>2 DEF Block, AboutToReserve
    <3>3. CASE ~TwoCandidates
      <4>1. cands = {a} /\ todo = {a}
        BY <1>8, <3>3, LoneCandidate DEF Block, Threads
      <4>2. pc' = "save" /\ cands' = {a} /\ msg' = m /\ results'[a] = "failed"
        BY <1>8, <3>1, <3>3, <4>1, <2>2 DEF Block
      <4> QED BY <3>1, <4>2 DEF AboutToReserve
    <3> QED BY <3>2, <3>3
  <2> QED BY <2>1, <2>2
<1>9. CASE ReserveCandidate
  BY <1>9 DEF ReserveCandidate, reserve_pending_block, NoRow,
    NoFailureForgotten, AboutToReserve, Settled, Threads, PipelineLocations
<1>10. CASE Save
  <2>1. ASSUME NEW m \in Alerts, NEW a \in failures[m], AboutToReserve(m, a)
        PROVE  AboutToReserve(m, a)'
    <3>1. "failed" \in Outcomes /\ ~TwoCandidates
      <4>1. cands = {a} /\ results[a] = "failed"
        BY <1>10, <2>1 DEF Save, AboutToReserve
      <4>2. Cardinality(cands) = 1
        BY <4>1, FS_Singleton
      <4> QED BY <4>1, <4>2 DEF Outcomes, TwoCandidates
    <3> QED BY <1>10, <2>1, <3>1 DEF Save, AboutToReserve
  <2> QED BY <1>10, <2>1 DEF Save, LeavePipeline, Settled, AboutToReserve,
    NoFailureForgotten
<1>11. CASE ReserveLast
  <2>1. PICK a \in cands : reserve_pending_block(a, msg)
    BY <1>11 DEF ReserveLast
  <2>2. pending'[a].queued
    BY <2>1 DEF reserve_pending_block, Entries
  <2>3. \A b \in Entries : pending[b].queued => pending'[b].queued
    BY <2>1, <2>2 DEF reserve_pending_block
  <2>4. ASSUME NEW m \in Alerts, NEW b \in failures[m], AboutToReserve(m, b)
        PROVE  b = a
    BY <1>11, <2>1, <2>4 DEF ReserveLast, AboutToReserve
  <2> QED BY <1>11, <2>2, <2>3, <2>4
    DEF ReserveLast, NoFailureForgotten, Settled, Entries
<1>12. ASSUME NEW m \in Alerts, ScanMessage(m) PROVE NoFailureForgotten'
  BY <1>12 DEF ScanMessage, NoFailureForgotten, AboutToReserve, Settled,
    Threads, PipelineLocations
<1>13. ASSUME NEW m \in Alerts, ScanFetchFails(m) PROVE NoFailureForgotten'
  BY <1>13 DEF ScanFetchFails, MarkScanFailure, NoFailureForgotten,
    AboutToReserve, Settled, Threads, PipelineLocations
<1>14. CASE ScanDone
  BY <1>14 DEF ScanDone, NoFailureForgotten, AboutToReserve, Settled, Threads,
    PipelineLocations
<1>15. CASE Sync
  <2>1. \A a \in Entries : pending[a].queued => pending'[a].queued
    BY <1>15 DEF Sync, sync_pending_blocks_from_alerts
  <2> QED BY <1>15, <2>1 DEF Sync, NoFailureForgotten, AboutToReserve, Settled, Entries
<1>16. CASE ListPending
  BY <1>16 DEF ListPending, NoFailureForgotten, AboutToReserve, Settled,
    Threads, PipelineLocations
<1>17. ASSUME NEW a \in Entries, RetryNext(a) PROVE NoFailureForgotten'
  BY <1>17 DEF RetryNext, NoFailureForgotten, AboutToReserve, Settled,
    Threads, PipelineLocations
<1>18. CASE RetryBlock
  BY <1>18 DEF RetryBlock, block_ip, NoFailureForgotten, AboutToReserve,
    Settled, Threads, PipelineLocations
<1>19. CASE RetryFailed
  BY <1>19 DEF RetryFailed, record_retry_attempt, NextEntry,
    NoFailureForgotten, AboutToReserve, Settled, Threads, PipelineLocations
<1>20. CASE RetryAccepted
  BY <1>20 DEF RetryAccepted, resolve_pending_block, NextEntry, Failed,
    StatusOf, NoRow, NoFailureForgotten, AboutToReserve, Settled, Threads,
    PipelineLocations
<1>21. CASE RetryDone
  BY <1>21 DEF RetryDone, NoFailureForgotten, AboutToReserve, Settled,
    Threads, PipelineLocations
<1>22. ASSUME NEW m \in Alerts, PollMessage(m) PROVE NoFailureForgotten'
  BY <1>22 DEF PollMessage, NoFailureForgotten, AboutToReserve, Settled,
    Threads, PipelineLocations
<1>23. CASE PollDone
  BY <1>23 DEF PollDone, NoFailureForgotten, AboutToReserve, Settled, Threads,
    PipelineLocations
<1>24. ASSUME NEW o \in Operators, NEW a \in Entries, RetryNow(o, a)
      PROVE  NoFailureForgotten'
  BY <1>24 DEF RetryNow, NoFailureForgotten, AboutToReserve, Settled, Threads,
    PipelineLocations
<1>25. ASSUME NEW o \in Operators, RetryNowBlock(o) PROVE NoFailureForgotten'
  BY <1>25 DEF RetryNowBlock, block_ip, NoFailureForgotten, AboutToReserve,
    Settled, Threads, PipelineLocations
<1>26. ASSUME NEW o \in Operators, RetryNowFailed(o) PROVE NoFailureForgotten'
  BY <1>26 DEF RetryNowFailed, record_retry_attempt, IdleWeb,
    NoFailureForgotten, AboutToReserve, Settled, Threads, PipelineLocations
<1>27. ASSUME NEW o \in Operators, RetryNowAccepted(o) PROVE NoFailureForgotten'
  BY <1>27 DEF RetryNowAccepted, resolve_pending_block, Failed, StatusOf,
    NoRow, IdleWeb, NoFailureForgotten, AboutToReserve, Settled, Threads,
    PipelineLocations
<1>28. ASSUME NEW a \in Entries, cancel_pending_block(a) PROVE NoFailureForgotten'
  BY <1>28 DEF cancel_pending_block, Failed, NoRow, NoFailureForgotten,
    AboutToReserve, Settled, Threads, PipelineLocations
<1>29. ASSUME NEW a \in Entries, stop_pending_block(a) PROVE NoFailureForgotten'
  BY <1>29 DEF stop_pending_block, NoFailureForgotten, AboutToReserve,
    Settled, Threads, PipelineLocations
<1>30. ASSUME NEW a \in Entries, resume_pending_block(a) PROVE NoFailureForgotten'
  BY <1>30 DEF resume_pending_block, NoFailureForgotten, AboutToReserve,
    Settled, Threads, PipelineLocations
<1>31. ASSUME NEW D \in SUBSET Alerts, DeleteAlerts(D) PROVE NoFailureForgotten'
  BY <1>31 DEF DeleteAlerts, Settled, AboutToReserve, NoFailureForgotten
<1>32. ASSUME NEW a \in Entries, Protect(a) PROVE NoFailureForgotten'
  BY <1>32 DEF Protect, NoFailureForgotten, AboutToReserve, Settled, Threads,
    PipelineLocations
<1>33. CASE ReachabilityChanges
  BY <1>33 DEF ReachabilityChanges, NoFailureForgotten, AboutToReserve,
    Settled, Threads, PipelineLocations
<1>34. CASE Crash
  <2> SUFFICES ASSUME NEW m \in Alerts, NEW a \in failures'[m]
               PROVE  Settled(a)' \/ pending'[a].queued
    BY DEF NoFailureForgotten
  <2>1. a \in failures[m] /\ (~pending[a].queued => ~AboutToReserve(m, a))
    BY <1>34 DEF Crash, ForgetUnreserved, AboutToReserve, LeadsBack, Processing,
                 AlertRow, Statuses
  <2> QED BY <1>34, <2>1 DEF Crash, NoFailureForgotten, Settled
<1>35. CASE PipelineRaises
  <2> SUFFICES ASSUME NEW m \in Alerts, NEW a \in failures'[m]
               PROVE  Settled(a)' \/ pending'[a].queued
    BY DEF NoFailureForgotten
  <2>1. msg \in Alerts /\ a \in failures[m]
    BY <1>35 DEF PipelineRaises, ForgetUnreserved
  <2>2. AboutToReserve(m, a) =>
          alert'[m].status \in Reprocessable \cup Final \cup {"absent"}
    BY <1>35, <2>1 DEF PipelineRaises, MarkScanFailure, AboutToReserve,
      LeadsBack,
                       Processing, AlertRow, Statuses, Reprocessable
  <2>3. ~pending[a].queued => ~AboutToReserve(m, a)
    BY <1>35, <2>1, <2>2 DEF PipelineRaises, ForgetUnreserved, AboutToReserve
  <2> QED BY <1>35, <2>1, <2>3 DEF PipelineRaises, NoFailureForgotten, Settled
<1>36. CASE WorkerRaises
  BY <1>36 DEF WorkerRaises, NoFailureForgotten, AboutToReserve, Settled,
    Threads, PipelineLocations
<1>37. ASSUME NEW o \in Operators, RetryNowRaises(o) PROVE NoFailureForgotten'
  BY <1>37 DEF RetryNowRaises, IdleWeb, NoFailureForgotten, AboutToReserve,
    Settled,
    Threads, PipelineLocations
<1> QED BY <1>1, <1>2, <1>3, <1>4, <1>5, <1>6, <1>7, <1>8, <1>9, <1>10, <1>11,
    <1>12, <1>13, <1>14, <1>15, <1>16, <1>17, <1>18, <1>19, <1>20, <1>21, <1>22,
    <1>23, <1>24, <1>25, <1>26, <1>27, <1>28, <1>29, <1>30, <1>31, <1>32, <1>33,
    <1>34, <1>35, <1>36, <1>37
  DEF Next, Monitor, Pipeline, RetryWorker, RetryNowStep, Administrator

\* A candidate whose block failed stays in the queue, or is just about to enter
\* it, until the firewall accepts the address, it is protected or an
\* administrator cancels it.
THEOREM NothingForgotten == Spec => []NoFailureForgotten
<1>1. Init => NoFailureForgotten
  BY DEF Init, NoFailureForgotten
<1>2. Typed /\ LeadsBack /\ NoFailureForgotten /\ [Next]_vars => NoFailureForgotten'
  <2> SUFFICES ASSUME TypeOK, Threads, LeadsBack, NoFailureForgotten, [Next]_vars
               PROVE  NoFailureForgotten'
    BY DEF Typed
  <2>1. CASE Next
    BY <2>1, ForgottenStep
  <2>2. CASE UNCHANGED vars
    BY <2>2 DEF NoFailureForgotten, Settled, AboutToReserve
  <2> QED BY <2>1, <2>2
<1> QED BY <1>1, <1>2, TypedAlways, AlwaysLeadsBack, PTL DEF Spec

-------------------------------------------------------------------------------
(* Rows leave the queue, and alerts become final, only when they may. *)

QueueStep ==
    \A a \in Entries : pending[a].queued /\ ~pending'[a].queued
                     => Settled(a) \/ cancel_pending_block(a)

FinalStep ==
    \A m \in Alerts \ {msg} :
        /\ alert[m].status = "processing_failed"
        /\ alert'[m].status \in Final \ {"manually_resolved"}
        => \A a \in failures[m] \cap alert[m].candidates : Settled(a)

LEMMA QueueStepHolds == ASSUME TypeOK, Threads, Next PROVE QueueStep
<1>1. CASE LookUp
  BY <1>1 DEF LookUp, TypeOK, PendingRow, QueueStep, Settled, Threads
<1>2. CASE Skip
  BY <1>2 DEF Skip, LeavePipeline, TypeOK, PendingRow, QueueStep, Settled,
    Threads
<1>3. CASE Record
  BY <1>3 DEF Record, has_active_retry_for_alert, TypeOK, PendingRow,
    QueueStep, Settled, Threads
<1>4. CASE Filter
  BY <1>4 DEF Filter, LeavePipeline, update_alert, TypeOK, PendingRow,
    QueueStep, Settled, Threads
<1>5. CASE RegistryUnavailable
  BY <1>5 DEF RegistryUnavailable, LeavePipeline, update_alert, TypeOK,
    PendingRow, QueueStep, Settled, Threads
<1>6. CASE Reject
  BY <1>6 DEF Reject, LeavePipeline, update_alert, Candidates, TypeOK,
    PendingRow, QueueStep, Settled, Threads
<1>7. CASE Approve
  BY <1>7 DEF Approve, Candidates, TypeOK, PendingRow, QueueStep, Settled,
    Threads
<1>8. ASSUME NEW a \in Ips, Block(a) PROVE QueueStep
  BY <1>8 DEF Block, block_ip, TwoCandidates, TypeOK, PendingRow, QueueStep,
    Settled, Threads
<1>9. CASE ReserveCandidate
  BY <1>9 DEF ReserveCandidate, reserve_pending_block, NoRow, TypeOK,
    PendingRow, QueueStep, Settled, Threads
<1>10. CASE Save
  BY <1>10 DEF Save, LeavePipeline, update_alert, AggregateStatus, Outcomes,
    TwoCandidates, TypeOK, PendingRow, QueueStep, Settled, Threads
<1>11. CASE ReserveLast
  BY <1>11 DEF ReserveLast, LeavePipeline, reserve_pending_block, TypeOK,
    PendingRow, QueueStep, Settled, Threads
<1>12. ASSUME NEW m \in Alerts, ScanMessage(m) PROVE QueueStep
  BY <1>12 DEF ScanMessage, TypeOK, PendingRow, QueueStep, Settled, Threads
<1>13. ASSUME NEW m \in Alerts, ScanFetchFails(m) PROVE QueueStep
  BY <1>13 DEF ScanFetchFails, MarkScanFailure, TypeOK, PendingRow, QueueStep,
    Settled, Threads
<1>14. CASE ScanDone
  BY <1>14 DEF ScanDone, TypeOK, PendingRow, QueueStep, Settled, Threads
<1>15. CASE Sync
  BY <1>15 DEF Sync, sync_pending_blocks_from_alerts, Failed, TypeOK,
    PendingRow, QueueStep, Settled, Threads
<1>16. CASE ListPending
  BY <1>16 DEF ListPending, TypeOK, PendingRow, QueueStep, Settled, Threads
<1>17. ASSUME NEW a \in Entries, RetryNext(a) PROVE QueueStep
  BY <1>17 DEF RetryNext, TypeOK, PendingRow, QueueStep, Settled, Threads
<1>18. CASE RetryBlock
  BY <1>18 DEF RetryBlock, block_ip, TypeOK, PendingRow, QueueStep, Settled,
    Threads
<1>19. CASE RetryFailed
  BY <1>19 DEF RetryFailed, record_retry_attempt, NextEntry, TypeOK,
    PendingRow, QueueStep, Settled, Threads
<1>20. CASE RetryAccepted
  BY <1>20 DEF RetryAccepted, resolve_pending_block, NextEntry, Failed,
    StatusOf, NoRow, TypeOK, PendingRow, QueueStep, Settled, Threads
<1>21. CASE RetryDone
  BY <1>21 DEF RetryDone, TypeOK, PendingRow, QueueStep, Settled, Threads
<1>22. ASSUME NEW m \in Alerts, PollMessage(m) PROVE QueueStep
  BY <1>22 DEF PollMessage, TypeOK, PendingRow, QueueStep, Settled, Threads
<1>23. CASE PollDone
  BY <1>23 DEF PollDone, TypeOK, PendingRow, QueueStep, Settled, Threads
<1>24. ASSUME NEW o \in Operators, NEW a \in Entries, RetryNow(o, a) PROVE QueueStep
  BY <1>24 DEF RetryNow, TypeOK, PendingRow, QueueStep, Settled, Threads
<1>25. ASSUME NEW o \in Operators, RetryNowBlock(o) PROVE QueueStep
  BY <1>25 DEF RetryNowBlock, block_ip, TypeOK, PendingRow, QueueStep,
    Settled, Threads
<1>26. ASSUME NEW o \in Operators, RetryNowFailed(o) PROVE QueueStep
  BY <1>26 DEF RetryNowFailed, record_retry_attempt, IdleWeb, TypeOK,
    PendingRow, QueueStep, Settled, Threads
<1>27. ASSUME NEW o \in Operators, RetryNowAccepted(o) PROVE QueueStep
  BY <1>27 DEF RetryNowAccepted, resolve_pending_block, Failed, StatusOf,
    NoRow, IdleWeb, TypeOK, PendingRow, QueueStep, Settled, Threads
<1>28. ASSUME NEW a \in Entries, cancel_pending_block(a) PROVE QueueStep
  <2>1. ASSUME NEW b \in Entries, b # a PROVE pending'[b] = pending[b]
    BY <1>28, <2>1 DEF cancel_pending_block
  <2> QED BY <1>28, <2>1 DEF QueueStep
<1>29. ASSUME NEW a \in Entries, stop_pending_block(a) PROVE QueueStep
  BY <1>29 DEF stop_pending_block, TypeOK, PendingRow, QueueStep, Settled,
    Threads
<1>30. ASSUME NEW a \in Entries, resume_pending_block(a) PROVE QueueStep
  BY <1>30 DEF resume_pending_block, TypeOK, PendingRow, QueueStep, Settled,
    Threads
<1>31. ASSUME NEW D \in SUBSET Alerts, DeleteAlerts(D) PROVE QueueStep
  BY <1>31 DEF DeleteAlerts, Absent, TypeOK, PendingRow, QueueStep, Settled,
    Threads
<1>32. ASSUME NEW a \in Entries, Protect(a) PROVE QueueStep
  BY <1>32 DEF Protect, TypeOK, PendingRow, QueueStep, Settled, Threads
<1>33. CASE ReachabilityChanges
  BY <1>33 DEF ReachabilityChanges, TypeOK, PendingRow, QueueStep, Settled,
    Threads
<1>34. CASE Crash
  BY <1>34 DEF Crash, ForgetUnreserved, IdleWeb, TypeOK, PendingRow,
    QueueStep, Settled, Threads
<1>35. CASE PipelineRaises
  BY <1>35 DEF PipelineRaises, LeavePipeline, ForgetUnreserved,
    MarkScanFailure, TypeOK, PendingRow, QueueStep, Settled, Threads
<1>36. CASE WorkerRaises
  BY <1>36 DEF WorkerRaises, TypeOK, PendingRow, QueueStep, Settled, Threads
<1>37. ASSUME NEW o \in Operators, RetryNowRaises(o) PROVE QueueStep
  BY <1>37 DEF RetryNowRaises, IdleWeb, TypeOK, PendingRow, QueueStep, Settled,
    Threads
<1> QED BY <1>1, <1>2, <1>3, <1>4, <1>5, <1>6, <1>7, <1>8, <1>9, <1>10, <1>11,
    <1>12, <1>13, <1>14, <1>15, <1>16, <1>17, <1>18, <1>19, <1>20, <1>21, <1>22,
    <1>23, <1>24, <1>25, <1>26, <1>27, <1>28, <1>29, <1>30, <1>31, <1>32, <1>33,
    <1>34, <1>35, <1>36, <1>37
  DEF Next, Monitor, Pipeline, RetryWorker, RetryNowStep, Administrator

LEMMA FinalStepHolds ==
  ASSUME TypeOK, Threads, NoFailureForgotten, Next
  PROVE  FinalStep
<1>1. CASE LookUp
  BY <1>1 DEF LookUp, TypeOK, AlertRow, FinalStep, Settled, Threads,
    AboutToReserve, NoFailureForgotten, Final
<1>2. CASE Skip
  BY <1>2 DEF Skip, LeavePipeline, TypeOK, AlertRow, FinalStep, Settled,
    Threads, AboutToReserve, NoFailureForgotten, Final
<1>3. CASE Record
  BY <1>3 DEF Record, has_active_retry_for_alert, TypeOK, AlertRow, FinalStep,
    Settled, Threads, AboutToReserve, NoFailureForgotten, Final
<1>4. CASE Filter
  BY <1>4 DEF Filter, LeavePipeline, update_alert, TypeOK, AlertRow,
    FinalStep, Settled, Threads, AboutToReserve, NoFailureForgotten, Final
<1>5. CASE RegistryUnavailable
  BY <1>5 DEF RegistryUnavailable, LeavePipeline, update_alert, TypeOK,
    AlertRow, FinalStep, Settled, Threads, AboutToReserve, NoFailureForgotten,
    Final
<1>6. CASE Reject
  BY <1>6 DEF Reject, LeavePipeline, update_alert, Candidates, TypeOK,
    AlertRow, FinalStep, Settled, Threads, AboutToReserve, NoFailureForgotten,
    Final
<1>7. CASE Approve
  BY <1>7 DEF Approve, Candidates, TypeOK, AlertRow, FinalStep, Settled,
    Threads, AboutToReserve, NoFailureForgotten, Final
<1>8. ASSUME NEW a \in Ips, Block(a) PROVE FinalStep
  BY <1>8 DEF Block, block_ip, TwoCandidates, TypeOK, AlertRow, FinalStep,
    Settled, Threads, AboutToReserve, NoFailureForgotten, Final
<1>9. CASE ReserveCandidate
  BY <1>9 DEF ReserveCandidate, reserve_pending_block, NoRow, TypeOK,
    AlertRow, FinalStep, Settled, Threads, AboutToReserve, NoFailureForgotten,
    Final
<1>10. CASE Save
  BY <1>10 DEF Save, LeavePipeline, update_alert, AggregateStatus, Outcomes,
    TwoCandidates, TypeOK, AlertRow, FinalStep, Settled, Threads,
    AboutToReserve, NoFailureForgotten, Final
<1>11. CASE ReserveLast
  BY <1>11 DEF ReserveLast, LeavePipeline, reserve_pending_block, TypeOK,
    AlertRow, FinalStep, Settled, Threads, AboutToReserve,
    NoFailureForgotten, Final
<1>12. ASSUME NEW m \in Alerts, ScanMessage(m) PROVE FinalStep
  BY <1>12 DEF ScanMessage, TypeOK, AlertRow, FinalStep, Settled, Threads,
    AboutToReserve, NoFailureForgotten, Final
<1>13. ASSUME NEW m \in Alerts, ScanFetchFails(m) PROVE FinalStep
  BY <1>13 DEF ScanFetchFails, MarkScanFailure, TypeOK, AlertRow, FinalStep,
    Settled, Threads, AboutToReserve, NoFailureForgotten, Final
<1>14. CASE ScanDone
  BY <1>14 DEF ScanDone, TypeOK, AlertRow, FinalStep, Settled, Threads,
    AboutToReserve, NoFailureForgotten, Final
<1>15. CASE Sync
  BY <1>15 DEF Sync, sync_pending_blocks_from_alerts, Failed, TypeOK,
    AlertRow, FinalStep, Settled, Threads, AboutToReserve, NoFailureForgotten,
    Final
<1>16. CASE ListPending
  BY <1>16 DEF ListPending, TypeOK, AlertRow, FinalStep, Settled, Threads,
    AboutToReserve, NoFailureForgotten, Final
<1>17. ASSUME NEW a \in Entries, RetryNext(a) PROVE FinalStep
  BY <1>17 DEF RetryNext, TypeOK, AlertRow, FinalStep, Settled, Threads,
    AboutToReserve, NoFailureForgotten, Final
<1>18. CASE RetryBlock
  BY <1>18 DEF RetryBlock, block_ip, TypeOK, AlertRow, FinalStep, Settled,
    Threads, AboutToReserve, NoFailureForgotten, Final
<1>19. CASE RetryFailed
  BY <1>19 DEF RetryFailed, record_retry_attempt, NextEntry, TypeOK,
    AlertRow, FinalStep, Settled, Threads, AboutToReserve, NoFailureForgotten,
    Final
<1>20. CASE RetryAccepted
  BY <1>20 DEF RetryAccepted, resolve_pending_block, NextEntry, Failed,
    StatusOf, NoRow, TypeOK, AlertRow, FinalStep, Settled, Threads,
    AboutToReserve, NoFailureForgotten, Final
<1>21. CASE RetryDone
  BY <1>21 DEF RetryDone, TypeOK, AlertRow, FinalStep, Settled, Threads,
    AboutToReserve, NoFailureForgotten, Final
<1>22. ASSUME NEW m \in Alerts, PollMessage(m) PROVE FinalStep
  BY <1>22 DEF PollMessage, TypeOK, AlertRow, FinalStep, Settled, Threads,
    AboutToReserve, NoFailureForgotten, Final
<1>23. CASE PollDone
  BY <1>23 DEF PollDone, TypeOK, AlertRow, FinalStep, Settled, Threads,
    AboutToReserve, NoFailureForgotten, Final
<1>24. ASSUME NEW o \in Operators, NEW a \in Entries, RetryNow(o, a) PROVE FinalStep
  BY <1>24 DEF RetryNow, TypeOK, AlertRow, FinalStep, Settled, Threads,
    AboutToReserve, NoFailureForgotten, Final
<1>25. ASSUME NEW o \in Operators, RetryNowBlock(o) PROVE FinalStep
  BY <1>25 DEF RetryNowBlock, block_ip, TypeOK, AlertRow, FinalStep, Settled,
    Threads, AboutToReserve, NoFailureForgotten, Final
<1>26. ASSUME NEW o \in Operators, RetryNowFailed(o) PROVE FinalStep
  BY <1>26 DEF RetryNowFailed, record_retry_attempt, IdleWeb, TypeOK,
    AlertRow, FinalStep, Settled, Threads, AboutToReserve, NoFailureForgotten,
    Final
<1>27. ASSUME NEW o \in Operators, RetryNowAccepted(o) PROVE FinalStep
  <2> DEFINE b == web[o].ip
  <2>1. b \in Entries /\ Settled(b)
    BY <1>27 DEF RetryNowAccepted, Threads
  <2> SUFFICES ASSUME NEW m \in Alerts \ {msg},
                      alert[m].status = "processing_failed",
                      alert'[m].status # "processing_failed",
                      NEW a \in failures[m] \cap alert[m].candidates
               PROVE  Settled(a)
    BY DEF FinalStep, Final
  <2>2. CASE a = b
    BY <2>1, <2>2
  <2>3. CASE a # b
    <3>1. ~pending[a].queued
      BY <1>27, <2>3 DEF RetryNowAccepted, resolve_pending_block, Failed
    <3> QED BY <3>1 DEF NoFailureForgotten, AboutToReserve
  <2> QED BY <2>2, <2>3
<1>28. ASSUME NEW a \in Entries, cancel_pending_block(a) PROVE FinalStep
  BY <1>28 DEF cancel_pending_block, Failed, NoRow, TypeOK, AlertRow,
    FinalStep, Settled, Threads, AboutToReserve, NoFailureForgotten, Final
<1>29. ASSUME NEW a \in Entries, stop_pending_block(a) PROVE FinalStep
  BY <1>29 DEF stop_pending_block, TypeOK, AlertRow, FinalStep, Settled,
    Threads, AboutToReserve, NoFailureForgotten, Final
<1>30. ASSUME NEW a \in Entries, resume_pending_block(a) PROVE FinalStep
  BY <1>30 DEF resume_pending_block, TypeOK, AlertRow, FinalStep, Settled,
    Threads, AboutToReserve, NoFailureForgotten, Final
<1>31. ASSUME NEW D \in SUBSET Alerts, DeleteAlerts(D) PROVE FinalStep
  BY <1>31 DEF DeleteAlerts, Absent, TypeOK, AlertRow, FinalStep, Settled,
    Threads, AboutToReserve, NoFailureForgotten, Final
<1>32. ASSUME NEW a \in Entries, Protect(a) PROVE FinalStep
  BY <1>32 DEF Protect, TypeOK, AlertRow, FinalStep, Settled, Threads,
    AboutToReserve, NoFailureForgotten, Final
<1>33. CASE ReachabilityChanges
  BY <1>33 DEF ReachabilityChanges, TypeOK, AlertRow, FinalStep, Settled,
    Threads, AboutToReserve, NoFailureForgotten, Final
<1>34. CASE Crash
  BY <1>34 DEF Crash, ForgetUnreserved, IdleWeb, TypeOK, AlertRow, FinalStep,
    Settled, Threads, AboutToReserve, NoFailureForgotten, Final
<1>35. CASE PipelineRaises
  BY <1>35 DEF PipelineRaises, LeavePipeline, ForgetUnreserved,
    MarkScanFailure, TypeOK, AlertRow, FinalStep, Settled, Threads,
    AboutToReserve, NoFailureForgotten, Final
<1>36. CASE WorkerRaises
  BY <1>36 DEF WorkerRaises, TypeOK, AlertRow, FinalStep, Settled, Threads,
    AboutToReserve, NoFailureForgotten, Final
<1>37. ASSUME NEW o \in Operators, RetryNowRaises(o) PROVE FinalStep
  BY <1>37 DEF RetryNowRaises, IdleWeb, TypeOK, AlertRow, FinalStep, Settled,
    Threads,
    AboutToReserve, NoFailureForgotten, Final
<1> QED BY <1>1, <1>2, <1>3, <1>4, <1>5, <1>6, <1>7, <1>8, <1>9, <1>10, <1>11,
    <1>12, <1>13, <1>14, <1>15, <1>16, <1>17, <1>18, <1>19, <1>20, <1>21, <1>22,
    <1>23, <1>24, <1>25, <1>26, <1>27, <1>28, <1>29, <1>30, <1>31, <1>32, <1>33,
    <1>34, <1>35, <1>36, <1>37
  DEF Next, Monitor, Pipeline, RetryWorker, RetryNowStep, Administrator

\* A row leaves the queue only when its address is settled or an administrator
\* removes it, also when a retry that succeeded races another thread's.
THEOREM LeavesSettled == Spec => LeavesQueueOnlySettled
<1>1. Typed /\ [Next]_vars => [QueueStep]_vars
  BY QueueStepHolds DEF Typed
<1> QED BY <1>1, TypedAlways, PTL DEF Spec, LeavesQueueOnlySettled, QueueStep

\* A failed alert becomes a success only when all its failed candidates are
\* settled.
THEOREM FinalSettled == Spec => FinalOnlyWhenSettled
<1>1. Typed /\ NoFailureForgotten /\ [Next]_vars => [FinalStep]_vars
  BY FinalStepHolds DEF Typed
<1> QED BY <1>1, TypedAlways, NothingForgotten, PTL
        DEF Spec, FinalOnlyWhenSettled, FinalStep

-------------------------------------------------------------------------------
(* No retry puts a row into the queue or resumes a paused one. *)

RequeueStep ==
    \A a \in Entries : pending'[a].active /\ ~pending[a].active
                     => \/ pc \in {"reserve", "reserveLast"}
                        \/ sync_pending_blocks_from_alerts
                        \/ resume_pending_block(a)

\* All that a step can do to the queue: the two reservations and the recovery step
\* may fill it, record_retry_attempt counts, a new alert row takes ids away, and
\* the others clear one row, pause one or resume one.
LEMMA QueueChanges ==
  ASSUME Next
  PROVE  \/ pending' = pending
         \/ pc \in {"reserve", "reserveLast"}
         \/ sync_pending_blocks_from_alerts
         \/ Record
         \/ \E a : record_retry_attempt(a)
         \/ \E a : pending' = [pending EXCEPT ![a] = NoRow]
         \/ \E a \in Entries : stop_pending_block(a) \/ resume_pending_block(a)
<1>1. CASE Pipeline
  BY <1>1 DEF Pipeline, LookUp, Skip, Filter, RegistryUnavailable, Reject,
    Approve,
     Block, ReserveCandidate, Save, ReserveLast, dbVars
<1>2. CASE RetryWorker
  <2>1. CASE RetryAccepted
    BY <2>1 DEF RetryAccepted, resolve_pending_block
  <2>2. CASE RetryFailed
    BY <2>2 DEF RetryFailed
  <2>3. CASE Sync
    BY <2>3 DEF Sync
  <2> QED BY <1>2, <2>1, <2>2, <2>3
      DEF RetryWorker, ListPending, RetryNext, RetryBlock, RetryDone, dbVars
<1>3. ASSUME NEW m \in Alerts, ScanMessage(m) \/ ScanFetchFails(m) \/ PollMessage(m)
      PROVE  pending' = pending
  BY <1>3 DEF ScanMessage, ScanFetchFails, PollMessage, dbVars
<1>4. CASE ScanDone \/ PollDone \/ ReachabilityChanges \/ Crash \/ PipelineRaises
             \/ WorkerRaises
  BY <1>4 DEF ScanDone, PollDone, ReachabilityChanges, Crash, PipelineRaises,
     WorkerRaises, dbVars
<1>5. ASSUME NEW o \in Operators,
             RetryNowStep(o) \/ RetryNowRaises(o) \/ \E a \in Entries : RetryNow(o, a)
      PROVE  \/ pending' = pending
             \/ record_retry_attempt(web[o].ip)
             \/ pending' = [pending EXCEPT ![web[o].ip] = NoRow]
  BY <1>5 DEF RetryNow, RetryNowStep, RetryNowBlock, RetryNowFailed,
     RetryNowAccepted, RetryNowRaises, resolve_pending_block, dbVars
<1>6. CASE Administrator
  BY <1>6 DEF Administrator, cancel_pending_block, DeleteAlerts, Protect, dbVars
<1> QED BY <1>1, <1>2, <1>3, <1>4, <1>5, <1>6 DEF Next, Monitor

LEMMA RequeueStepHolds == ASSUME TypeOK, Next PROVE RequeueStep
<1> SUFFICES ASSUME NEW a \in Entries, pending'[a].active, ~pending[a].active
             PROVE  \/ pc \in {"reserve", "reserveLast"}
                    \/ sync_pending_blocks_from_alerts
                    \/ resume_pending_block(a)
  BY DEF RequeueStep
<1>0. pending \in [Entries -> PendingRow]
  BY DEF TypeOK
<1>1. CASE pending' = pending
  BY <1>1
<1>2. CASE Record
  BY <1>0, <1>2 DEF Record, PendingRow
<1>3. ASSUME NEW b, record_retry_attempt(b) PROVE FALSE
  BY <1>0, <1>3 DEF record_retry_attempt, PendingRow
<1>4. ASSUME NEW b, pending' = [pending EXCEPT ![b] = NoRow] PROVE FALSE
  BY <1>0, <1>4 DEF NoRow, PendingRow
<1>5. ASSUME NEW b \in Entries, stop_pending_block(b) PROVE FALSE
  BY <1>0, <1>5 DEF stop_pending_block, PendingRow
<1>6. ASSUME NEW b \in Entries, resume_pending_block(b) PROVE b = a
  BY <1>0, <1>6 DEF resume_pending_block, PendingRow
<1> QED BY <1>1, <1>2, <1>3, <1>4, <1>5, <1>6, QueueChanges

\* A retry, of the worker or of a dashboard thread, never puts a row back that an
\* administrator removed meanwhile and never resumes one that was paused.
THEOREM RetriesLeaveQueue == Spec => RetriesNeverRequeue
<1>1. TypeOK /\ [Next]_vars => [RequeueStep]_vars
  BY RequeueStepHolds
<1> QED BY <1>1, TypeCorrect, PTL DEF Spec, RetriesNeverRequeue, RequeueStep
===============================================================================
