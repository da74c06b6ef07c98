------------------------------- MODULE EmailIngest -------------------------------
(***************************************************************************)
(* How email_monitor.py gets mail: the startup scan over the latest        *)
(* messages of every folder, then polling by UID with a durable checkpoint *)
(* per folder.  A message is its UID in a UIDVALIDITY generation of its    *)
(* folder.  What _process_message does with it is in RetryQueue; here it   *)
(* is one step, which the message has had whether it raises or not.        *)
(*                                                                         *)
(* Database writes are one step each, and so is each exchange with the     *)
(* mail server; the process may die between any two of them.               *)
(***************************************************************************)
EXTENDS Integers, Sequences, FiniteSets

CONSTANTS
    FolderNames,  \* IMAP_FOLDERS, in order and without duplicates
    Limit,        \* IMAP_STARTUP_EMAIL_LIMIT
    Refused,      \* messages the server lists and never hands out
    MaxUid,       \* messages of one generation of a folder
    Volume,       \* messages of one generation of each folder
    Renewed,      \* folders that may get a new generation
    MaxValidity,  \* generations of such a folder
    MaxFaults     \* crashes

Folders  == {FolderNames[i] : i \in DOMAIN FolderNames}
Uids     == 1 .. MaxUid
Messages == [folder : Folders, validity : 1 .. MaxValidity, uid : Uids]

ASSUME EmailIngestAssumption ==
    /\ FolderNames \in Seq(Folders) /\ FolderNames # <<>>
    /\ \A i, j \in DOMAIN FolderNames : FolderNames[i] = FolderNames[j] => i = j
    /\ Limit \in Nat \ {0}
    /\ Refused \subseteq Messages /\ Renewed \subseteq Folders
    /\ Volume \in [Folders -> 0 .. MaxUid]
    /\ MaxUid \in Nat /\ MaxValidity \in Nat \ {0} /\ MaxFaults \in Nat

VARIABLES
    box,         \* the mail server: generation and highest UID of each folder
    up,          \* the mail server answers
    checkpoint,  \* imap_uid_checkpoints; validity = 0: no row
    stored,      \* stored_emails: messages whose raw bytes are in the database
    phase,       \* "startup" (run_startup_scan) or "live" (run_forever)
    pc,          \* where the monitor thread is
    at,          \* index of the folder at hand
    session,     \* UIDVALIDITY the server gave when the folder was selected
    todo,        \* UIDs selected and not fetched yet
    uid,         \* the message at hand; after the scan, the highest observed UID
    leftOut,     \* history: messages the latest-N rule left out
    unread,      \* history: messages the startup scan failed to fetch
    processed,   \* history: messages _process_message returned or raised for
    cut,         \* history: messages at hand between checkpoint and
                 \* _process_message when the process died
    faults       \* crashes so far

boxVars  == <<box, up>>
dbVars   == <<checkpoint, stored>>
monVars  == <<phase, pc, at, session, todo, uid>>
fateVars == <<leftOut, unread, processed>>
histVars == <<fateVars, cut>>
vars     == <<boxVars, dbVars, monVars, histVars, faults>>

Folder == FolderNames[at]

Message(u) == [folder |-> Folder, validity |-> session, uid |-> u]

\* The loops take the UIDs in ascending order.
First(u) == \A v \in todo : u <= v

\* numeric_uids[-limit:]
Latest(S) == {u \in S : Cardinality({v \in S : v > u}) < Limit}

Init ==
    /\ box = [f \in Folders |-> [validity |-> 1, size |-> 0]]
    /\ up \in BOOLEAN
    /\ checkpoint = [f \in Folders |-> [validity |-> 0, uid |-> 0]]
    /\ stored = {}
    /\ phase = "startup" /\ pc = "connect" /\ at = 1
    /\ session = 0 /\ todo = {} /\ uid = 0
    /\ leftOut = {} /\ unread = {} /\ processed = {} /\ cut = {}
    /\ faults = 0

-------------------------------------------------------------------------------
(* Transactions of database.py. *)

reset_uid_checkpoint(f, validity) ==
    checkpoint' = [checkpoint EXCEPT ![f] = [validity |-> validity, uid |-> 0]]

advance_uid_checkpoint(f, validity, u) ==
    checkpoint' = [checkpoint EXCEPT ![f] =
        [validity |-> validity,
         uid      |-> IF @.validity = validity /\ @.uid > u THEN @.uid ELSE u]]

store_fetched_email(m) == stored' = stored \cup {m}

-------------------------------------------------------------------------------
(* Exchanges with the mail server (email_client.py). *)

\* "UID n:*" names the highest message also when its UID is below n.
search_uids_since(first) ==
    {u \in 1 .. box[Folder].size : u >= first \/ u = box[Folder].size}

\* fetch_message_peek returns the message's bytes.
Fetched(u) == up /\ Message(u) \notin Refused

-------------------------------------------------------------------------------
(* run_startup_scan *)

Connect ==
    /\ pc = "connect"
    /\ IF up THEN pc' = "select" /\ UNCHANGED phase
             ELSE \* no scan at all, or no poll in this cycle
                  /\ pc' = IF phase = "startup" THEN "connect" ELSE "sleep"
                  /\ phase' = "live"
    /\ UNCHANGED <<boxVars, dbVars, at, session, todo, uid, histVars, faults>>

\* Mistake: the index runs past the last folder.
FolderDoneTooFar ==
    /\ at' = at + 1
    /\ IF at < Len(FolderNames) THEN pc' = "select" /\ UNCHANGED phase
                                ELSE pc' = "connect" /\ phase' = "live"
    /\ session' = 0 /\ todo' = {} /\ uid' = 0

\* Mistake: only the first folder is polled.
FolderDoneFirstOnly ==
    /\ at' = 1 /\ phase' = "live"
    /\ pc' = IF phase = "startup" THEN "connect" ELSE "sleep"
    /\ session' = 0 /\ todo' = {} /\ uid' = 0

\* The folder at hand is done with: the next one, or the end of the scan or of
\* the polling cycle.
FolderDone ==
    /\ IF at < Len(FolderNames)
         THEN at' = at + 1 /\ pc' = "select" /\ UNCHANGED phase
         ELSE /\ at' = 1 /\ phase' = "live"
              /\ pc' = IF phase = "startup" THEN "connect" ELSE "sleep"
    /\ session' = 0 /\ todo' = {} /\ uid' = 0

\* select_folder and search_uids_since(1)
ScanSelect ==
    /\ phase = "startup" /\ pc = "select"
    /\ IF up
         THEN LET observed == search_uids_since(1)
              IN  /\ session' = box[Folder].validity
                  /\ todo' = Latest(observed)
                  /\ uid' = box[Folder].size
                  /\ pc' = "scan"
                  /\ leftOut' = leftOut \cup
                       {[folder |-> Folder, validity |-> box[Folder].validity,
                         uid |-> u] : u \in observed \ Latest(observed)}
                  /\ UNCHANGED <<phase, at>>
         ELSE FolderDone /\ UNCHANGED leftOut
    /\ UNCHANGED <<boxVars, dbVars, unread, processed, cut, faults>>

\* Fetch and store; a message that cannot be fetched is passed over.
ScanFetch ==
    /\ phase = "startup" /\ pc = "scan"
    /\ \E u \in todo :
          /\ First(u)
          /\ IF Fetched(u)
               THEN /\ store_fetched_email(Message(u))
                    /\ pc' = "handle"
                    /\ UNCHANGED <<todo, unread>>
               ELSE /\ unread' = unread \cup {Message(u)}
                    /\ todo' = todo \ {u}
                    /\ UNCHANGED <<stored, pc>>
    /\ UNCHANGED <<boxVars, checkpoint, phase, at, session, uid,
                   leftOut, processed, cut, faults>>

\* _process_message of the message stored last, or its except clause; neither
\* touches mail or checkpoint.  A copy of a message seen in this scan is skipped.
ScanProcess ==
    /\ phase = "startup" /\ pc = "handle"
    /\ \E u \in todo :
          /\ First(u)
          /\ processed' = processed \cup {Message(u)}
          /\ todo' = todo \ {u}
    /\ pc' = "scan"
    /\ UNCHANGED <<boxVars, dbVars, phase, at, session, uid, leftOut, unread,
                   cut, faults>>

ScanReset ==
    /\ phase = "startup" /\ pc = "scan" /\ todo = {}
    /\ reset_uid_checkpoint(Folder, session)
    /\ pc' = "advance"
    /\ UNCHANGED <<boxVars, stored, phase, at, session, todo, uid, histVars, faults>>

ScanAdvance ==
    /\ phase = "startup" /\ pc = "advance"
    /\ IF uid > 0 THEN advance_uid_checkpoint(Folder, session, uid)
                  ELSE UNCHANGED checkpoint
    /\ FolderDone
    /\ UNCHANGED <<boxVars, stored, histVars, faults>>

-------------------------------------------------------------------------------
(* run_once and _poll_folder.  Any mail error ends the whole cycle. *)

Raise ==
    /\ pc' = "sleep" /\ at' = 1 /\ session' = 0 /\ todo' = {} /\ uid' = 0
    /\ UNCHANGED phase

\* No checkpoint, or a new generation: start over.
NoCheckpoint(f, validity) == checkpoint[f].validity # validity

\* select_folder and get_uid_checkpoint
PollSelect ==
    /\ phase = "live" /\ pc = "select"
    /\ IF up
         THEN /\ session' = box[Folder].validity
              /\ IF NoCheckpoint(Folder, box[Folder].validity)
                   THEN reset_uid_checkpoint(Folder, box[Folder].validity)
                   ELSE UNCHANGED checkpoint
              /\ pc' = "search"
              /\ UNCHANGED <<phase, at, todo, uid>>
         ELSE Raise /\ UNCHANGED checkpoint
    /\ UNCHANGED <<boxVars, stored, histVars, faults>>

\* Mistake: the server's answer is taken as it is.
PollSearchUnfiltered ==
    /\ phase = "live" /\ pc = "search"
    /\ IF up
         THEN LET last  == checkpoint[Folder].uid
                  newer == search_uids_since(last + 1)
                  taken == IF last = 0 THEN Latest(newer) ELSE newer
              IN  /\ todo' = taken
                  /\ leftOut' = leftOut \cup {Message(u) : u \in newer \ taken}
                  /\ pc' = "fetch"
                  /\ UNCHANGED <<phase, at, session, uid>>
         ELSE Raise /\ UNCHANGED leftOut
    /\ UNCHANGED <<boxVars, dbVars, unread, processed, cut, faults>>

\* The strictly newer UIDs; after a reset (and whenever the checkpoint is 0) only
\* the latest ones.
PollSearch ==
    /\ phase = "live" /\ pc = "search"
    /\ IF up
         THEN LET last  == checkpoint[Folder].uid
                  newer == {u \in search_uids_since(last + 1) : u > last}
                  taken == IF last = 0 THEN Latest(newer) ELSE newer
              IN  /\ todo' = taken
                  /\ leftOut' = leftOut \cup {Message(u) : u \in newer \ taken}
                  /\ pc' = "fetch"
                  /\ UNCHANGED <<phase, at, session, uid>>
         ELSE Raise /\ UNCHANGED leftOut
    /\ UNCHANGED <<boxVars, dbVars, unread, processed, cut, faults>>

\* Mistake: the checkpoint moves as soon as the message has a turn.
FetchAfterAdvance ==
    /\ phase = "live" /\ pc = "fetch"
    /\ \E u \in todo :
          /\ First(u)
          /\ IF up
             THEN /\ store_fetched_email(Message(u))
                  /\ todo' = todo \ {u} /\ uid' = u /\ pc' = "process"
                  /\ advance_uid_checkpoint(Folder, session, u)
                  /\ UNCHANGED <<phase, at, session>>
             ELSE /\ advance_uid_checkpoint(Folder, session, u)
                  /\ Raise /\ UNCHANGED stored
    /\ UNCHANGED <<boxVars, histVars, faults>>

PollFetch ==
    /\ phase = "live" /\ pc = "fetch"
    /\ \E u \in todo :
          /\ First(u)
          /\ IF Fetched(u)
             THEN /\ store_fetched_email(Message(u))
                  /\ todo' = todo \ {u} /\ uid' = u /\ pc' = "advance"
                  /\ UNCHANGED <<phase, at, session>>
             ELSE Raise /\ UNCHANGED stored
    /\ UNCHANGED <<boxVars, checkpoint, histVars, faults>>

\* Mistake: messages are processed when the folder's batch is stored.
PollAdvanceBatch ==
    /\ phase = "live" /\ pc = "advance"
    /\ advance_uid_checkpoint(Folder, session, uid)
    /\ pc' = IF todo = {} THEN "process" ELSE "fetch"
    /\ UNCHANGED <<boxVars, stored, phase, at, session, todo, uid, histVars, faults>>

PollAdvance ==
    /\ phase = "live" /\ pc = "advance"
    /\ advance_uid_checkpoint(Folder, session, uid)
    /\ pc' = "process"
    /\ UNCHANGED <<boxVars, stored, phase, at, session, todo, uid, histVars, faults>>

\* _process_message: whether it raises or not, the loop goes on.
PollProcess ==
    /\ phase = "live" /\ pc = "process"
    /\ processed' = processed \cup {Message(uid)}
    /\ pc' = "fetch" /\ uid' = 0
    /\ UNCHANGED <<boxVars, dbVars, phase, at, session, todo, leftOut, unread, cut,
                   faults>>

PollFolderDone ==
    /\ phase = "live" /\ pc = "fetch" /\ todo = {}
    /\ FolderDone
    /\ UNCHANGED <<boxVars, dbVars, histVars, faults>>

\* time.sleep(poll_interval), then the next cycle.
Sleep ==
    /\ pc = "sleep"
    /\ pc' = "connect"
    /\ UNCHANGED <<boxVars, dbVars, phase, at, session, todo, uid, histVars, faults>>

Monitor ==
    \/ Connect
    \/ ScanSelect \/ ScanFetch \/ ScanProcess \/ ScanReset \/ ScanAdvance
    \/ PollSelect \/ PollSearch \/ PollFetch \/ PollAdvance \/ PollProcess
    \/ PollFolderDone \/ Sleep

-------------------------------------------------------------------------------
(* The mail server, and crashes. *)

Arrive(f) ==
    /\ box[f].size < Volume[f]
    /\ box' = [box EXCEPT ![f].size = @ + 1]
    /\ UNCHANGED <<up, dbVars, monVars, histVars, faults>>

UpOrDown ==
    /\ up' = ~up
    /\ UNCHANGED <<box, dbVars, monVars, histVars, faults>>

\* A new generation: the folder is made anew, perhaps with less in it.  UIDs
\* stay what they are while a session has the folder selected.
NewGeneration(f) ==
    /\ f \in Renewed /\ box[f].validity < MaxValidity
    /\ ~(session # 0 /\ Folder = f)
    /\ \E n \in 0 .. box[f].size :
         box' = [box EXCEPT ![f] = [validity |-> @.validity + 1, size |-> n]]
    /\ UNCHANGED <<up, dbVars, monVars, histVars, faults>>

\* The message whose checkpoint has moved and that is not processed yet.
AtHand == IF phase = "live" /\ pc = "process" THEN {Message(uid)} ELSE {}

Crash ==
    /\ faults < MaxFaults
    /\ faults' = faults + 1
    /\ phase' = "startup" /\ pc' = "connect" /\ at' = 1
    /\ session' = 0 /\ todo' = {} /\ uid' = 0
    /\ cut' = cut \cup AtHand
    /\ UNCHANGED <<boxVars, dbVars, fateVars>>

Next ==
    \/ Monitor
    \/ \E f \in Folders : Arrive(f) \/ NewGeneration(f)
    \/ UpOrDown \/ Crash

Spec == Init /\ [][Next]_vars

\* run_forever never ends and sleeps for a bounded time.
FairSpec == Spec /\ WF_vars(Monitor)

-------------------------------------------------------------------------------
(* Properties. *)

\* The type of every variable.
TypeOK ==
    /\ box \in [Folders -> [validity : 1 .. MaxValidity, size : 0 .. MaxUid]]
    /\ up \in BOOLEAN
    /\ checkpoint \in [Folders -> [validity : 0 .. MaxValidity, uid : 0 .. MaxUid]]
    /\ stored \subseteq Messages
    /\ phase \in {"startup", "live"}
    /\ pc \in {"connect", "select", "scan", "handle", "advance", "search", "fetch",
               "process", "sleep"}
    /\ at \in DOMAIN FolderNames
    /\ session \in 0 .. MaxValidity
    /\ todo \subseteq Uids
    /\ uid \in 0 .. MaxUid
    /\ leftOut \subseteq Messages
    /\ unread \subseteq Messages
    /\ processed \subseteq Messages
    /\ cut \subseteq Messages
    /\ faults \in 0 .. MaxFaults

Below(f) ==
    {[folder |-> f, validity |-> checkpoint[f].validity, uid |-> u] :
        u \in 1 .. checkpoint[f].uid}

\* No message is passed over for good: whatever is at or below the checkpoint of
\* a folder is in stored_emails, unless the latest-N rule left it out or the
\* startup scan could not read it; also across crashes, server failures in the
\* middle of a folder and new generations.  (_poll_folder, run_startup_scan.)
CheckpointCovers ==
    \A f \in Folders : Below(f) \subseteq stored \cup leftOut \cup unread

\* Nobody reads stored_emails again, so what is below the checkpoint and was not
\* processed stays so: apart from the messages passed over on purpose this is, at
\* most, the one message that was at hand when a process died, never a batch.
\* (_poll_folder: the checkpoint moves message by message.)
CutShortAtMost ==
    \A f \in Folders :
        Below(f) \subseteq processed \cup leftOut \cup unread \cup cut \cup AtHand

\* A poll never hands a message to _process_message that lies below the checkpoint,
\* though servers answer "n:*" with the last message when there is no newer one.
\* ("runtime monitoring processes only strictly newer UIDs", _poll_folder.)
PollsOnlyNewer ==
    [][phase = "live" /\ pc = "fetch" /\ pc' = "advance"
         => Message(uid') \notin Below(Folder)]_vars

\* r is fetched before m in a polling cycle, or is m.
NotAfter(r, m) ==
    \E i, j \in DOMAIN FolderNames :
        /\ FolderNames[i] = r.folder /\ FolderNames[j] = m.folder
        /\ \/ i < j
           \/ i = j /\ r.validity = m.validity /\ r.uid <= m.uid

\* Once the mail server stays up, every message is processed in the end, over new
\* generations, crashes and errors in other folders, unless it was passed over, cut
\* short, or the folder starts a new generation.  A message that is never handed
\* out ends every cycle, so nothing is promised of it and of what comes after it.
MailIsProcessed ==
    <>[]up => \A m \in {n \in Messages : ~\E r \in Refused : NotAfter(r, n)} :
        box[m.folder].validity = m.validity /\ box[m.folder].size >= m.uid
            ~> \/ m \in processed \cup leftOut \cup unread \cup cut
               \/ box[m.folder].validity # m.validity
===============================================================================
