---------------------------- MODULE EmailIngestProofs ----------------------------
(***************************************************************************)
(* Type correctness, CheckpointCovers, CutShortAtMost and PollsOnlyNewer,  *)
(* for every list of folders, every limit, every set of messages the       *)
(* server refuses and every number of messages, generations and crashes.   *)
(***************************************************************************)
EXTENDS EmailIngest, TLAPS

USE DEF boxVars, dbVars, monVars, fateVars, histVars, vars

Covered(f, v, u) ==
    [folder |-> f, validity |-> v, uid |-> u] \in stored \cup leftOut \cup unread

\* What the monitor's local variables mean while it has a folder selected: in the
\* scan, whatever it observed is covered or still to fetch; in a poll, so is
\* whatever is older than a message still to fetch, and the checkpoint is of the
\* session's generation; the message at hand and all before it are covered.
Progress ==
    /\ pc \in {"scan", "handle", "advance", "search", "fetch", "process"}
         => session \in 1 .. MaxValidity
    /\ pc = "advance" => \A u \in 1 .. uid : Covered(Folder, session, u)
    /\ phase = "startup" /\ pc \in {"scan", "handle"}
         => \A u \in 1 .. uid : u \in todo \/ Covered(Folder, session, u)
    /\ pc = "handle" => \A u \in todo : First(u) => Covered(Folder, session, u)
    /\ phase = "live" /\ pc \in {"search", "fetch", "advance", "process"}
         => checkpoint[Folder].validity = session
    /\ phase = "live" /\ pc \in {"advance", "process"} => uid \in Uids
    /\ phase = "live" /\ pc \in {"fetch", "advance", "process"}
         => \A t \in todo, u \in Uids :
              u < t => u \in todo \/ Covered(Folder, session, u)

CoversAll ==
    \A f \in Folders : \A u \in 1 .. checkpoint[f].uid :
        Covered(f, checkpoint[f].validity, u)

Passed(f, v, u) ==
    [folder |-> f, validity |-> v, uid |-> u] \in processed \cup leftOut \cup unread \cup cut

\* The same of _process_message: what is older than the message at hand has been
\* passed to it or was passed over, and the UIDs still to fetch are newer than the
\* checkpoint and than the message at hand.
Handling ==
    /\ phase = "startup" /\ pc \in {"scan", "handle"}
         => \A u \in 1 .. uid : u \in todo \/ Passed(Folder, session, u)
    /\ phase = "startup" /\ pc = "advance"
         => \A u \in 1 .. uid : Passed(Folder, session, u)
    /\ phase = "live" /\ pc \in {"advance", "process"}
         => /\ \A u \in 1 .. uid : u = uid \/ Passed(Folder, session, u)
            /\ \A t \in todo : t > uid
    /\ phase = "live" /\ pc \in {"fetch", "advance", "process"}
         => /\ \A t \in todo : t > checkpoint[Folder].uid
            /\ \A t \in todo, u \in Uids :
                 u < t => \/ u \in todo
                          \/ Passed(Folder, session, u)
                          \/ pc # "fetch" /\ u = uid

PassedAll ==
    \A f \in Folders : \A u \in 1 .. checkpoint[f].uid :
        \/ Passed(f, checkpoint[f].validity, u)
        \/ phase = "live" /\ pc = "process" /\ f = Folder /\ u = uid

Inv == TypeOK /\ Progress /\ CoversAll /\ Handling /\ PassedAll

\* The bounds, apart from what is said of the list of folders.
LEMMA Bounds ==
  /\ MaxUid \in Nat /\ MaxValidity \in Nat \ {0} /\ MaxFaults \in Nat
  /\ Volume \in [Folders -> 0 .. MaxUid]
BY EmailIngestAssumption

LEMMA FirstFolder == 1 \in DOMAIN FolderNames
BY EmailIngestAssumption

LEMMA NextFolder ==
  ASSUME NEW i \in DOMAIN FolderNames, i < Len(FolderNames)
  PROVE  i + 1 \in DOMAIN FolderNames
BY EmailIngestAssumption

LEMMA FolderTyped == TypeOK => Folder \in Folders
BY DEF TypeOK, Folder, Folders

LEMMA CoversIsCheckpointCovers == CoversAll <=> CheckpointCovers
BY DEF CoversAll, CheckpointCovers, Covered, Below

LEMMA InitInv == Init => Inv
<1>1. Init => TypeOK
  BY Bounds, FirstFolder DEF Init, TypeOK, Folders, Messages, Uids
<1>2. Init => Progress /\ CoversAll
  BY DEF Init, Progress, CoversAll
<1>3. Init => Handling /\ PassedAll
  BY DEF Init, Handling, PassedAll
<1> QED BY <1>1, <1>2, <1>3 DEF Inv

\* What the server's answers come to.
LEMMA SearchAll == TypeOK => search_uids_since(1) = 1 .. box[Folder].size
BY FolderTyped DEF search_uids_since, TypeOK

LEMMA SearchNewer ==
  ASSUME TypeOK
  PROVE  {u \in search_uids_since(checkpoint[Folder].uid + 1) : u > checkpoint[Folder].uid}
           = (checkpoint[Folder].uid + 1) .. box[Folder].size
BY FolderTyped DEF search_uids_since, TypeOK

LEMMA AtHandTyped == ASSUME TypeOK, Progress PROVE AtHand \subseteq Messages
BY FolderTyped DEF AtHand, TypeOK, Progress, Message, Messages

\* Moving on to another folder or to the end of the scan or cycle.
LEMMA FolderDoneTyped ==
  ASSUME TypeOK, FolderDone
  PROVE  /\ at' \in DOMAIN FolderNames /\ phase' \in {"startup", "live"}
         /\ pc' \in {"connect", "select", "sleep"}
         /\ session' = 0 /\ todo' = {} /\ uid' = 0
BY FirstFolder, NextFolder DEF TypeOK, FolderDone

LEMMA TypeStep == ASSUME TypeOK, Progress, Next PROVE TypeOK'
<1> USE FolderTyped, Bounds, FirstFolder DEF TypeOK
<1>1. CASE Connect
  BY <1>1 DEF Connect
<1>2. CASE ScanSelect
  <2>1. CASE up
    <3>1. Latest(1 .. box[Folder].size) \subseteq Uids /\ box[Folder].size \in 0 .. MaxUid
      BY DEF Latest, Uids
    <3>2. box[Folder].validity \in 1 .. MaxValidity
      OBVIOUS
    <3>3. /\ session' = box[Folder].validity /\ uid' = box[Folder].size /\ pc' = "scan"
          /\ todo' = Latest(1 .. box[Folder].size)
          /\ leftOut' = leftOut \cup
               {[folder |-> Folder, validity |-> box[Folder].validity, uid |-> u] :
                    u \in (1 .. box[Folder].size) \ Latest(1 .. box[Folder].size)}
      BY <1>2, <2>1, SearchAll DEF ScanSelect
    <3>4. leftOut' \subseteq Messages
      <4>1. \A u \in 1 .. box[Folder].size :
               [folder |-> Folder, validity |-> box[Folder].validity, uid |-> u] \in Messages
        BY <3>2 DEF Messages, Uids
      <4> QED BY <3>3, <4>1
    <3> QED BY <1>2, <2>1, <3>1, <3>2, <3>3, <3>4 DEF ScanSelect
  <2>2. CASE ~up
    BY <1>2, <2>2, FolderDoneTyped DEF ScanSelect
  <2> QED BY <2>1, <2>2
<1>3. CASE ScanFetch
  <2>1. PICK u \in todo :
          /\ stored' \subseteq stored \cup {Message(u)}
          /\ unread' \subseteq unread \cup {Message(u)}
          /\ todo' \subseteq todo /\ pc' \in {"scan", "handle"}
    BY <1>3 DEF ScanFetch, store_fetched_email
  <2>2. Message(u) \in Messages
    BY <1>3 DEF ScanFetch, Message, Messages, Progress
  <2> QED BY <1>3, <2>1, <2>2 DEF ScanFetch
<1>17. CASE ScanProcess
  BY <1>17 DEF ScanProcess, Message, Messages, Progress, Uids
<1>4. CASE ScanReset
  BY <1>4 DEF ScanReset, reset_uid_checkpoint, Progress
<1>5. CASE ScanAdvance
  <2>1. /\ at' \in DOMAIN FolderNames /\ phase' \in {"startup", "live"}
        /\ pc' \in {"connect", "select", "sleep"}
        /\ session' = 0 /\ todo' = {} /\ uid' = 0
    BY <1>5, FolderDoneTyped DEF ScanAdvance
  <2>2. checkpoint' \in [Folders -> [validity : 0 .. MaxValidity, uid : 0 .. MaxUid]]
    BY <1>5 DEF ScanAdvance, advance_uid_checkpoint, Progress
  <2> QED BY <1>5, <2>1, <2>2 DEF ScanAdvance
<1>6. CASE PollSelect
  BY <1>6 DEF PollSelect, reset_uid_checkpoint, Raise
<1>7. CASE PollSearch
  <2>1. CASE up
    <3> DEFINE newer == (checkpoint[Folder].uid + 1) .. box[Folder].size
    <3>1. newer \subseteq Uids /\ Latest(newer) \subseteq newer
      BY DEF Latest, Uids
    <3>2. \A u \in newer : Message(u) \in Messages
      BY <1>7, <3>1 DEF PollSearch, Message, Messages, Progress
    <3>3. /\ todo' \subseteq newer
          /\ leftOut' \subseteq leftOut \cup {Message(u) : u \in newer}
      <4>1. \E taken \in SUBSET newer :
               /\ todo' = taken
               /\ leftOut' = leftOut \cup {Message(u) : u \in newer \ taken}
        BY <1>7, <2>1, <3>1, SearchNewer DEF PollSearch
      <4> QED BY <4>1
    <3>4. todo' \subseteq Uids /\ leftOut' \subseteq Messages
      BY <3>1, <3>2, <3>3
    <3> QED BY <1>7, <2>1, <3>4 DEF PollSearch
  <2>2. CASE ~up
    BY <1>7, <2>2 DEF PollSearch, Raise
  <2> QED BY <2>1, <2>2
<1>8. CASE PollFetch
  <2>1. CASE pc' = "advance"
    <3>1. PICK u \in todo : /\ First(u) /\ stored' = stored \cup {Message(u)}
                            /\ todo' = todo \ {u} /\ uid' = u /\ pc' = "advance"
                            /\ UNCHANGED <<phase, at, session>>
      BY <1>8, <2>1 DEF PollFetch, store_fetched_email, Raise
    <3>2. Message(u) \in Messages
      BY <1>8 DEF PollFetch, Message, Messages, Progress
    <3>3. uid' \in 0 .. MaxUid
      BY <3>1 DEF Uids
    <3> QED BY <1>8, <3>1, <3>2, <3>3 DEF PollFetch
  <2>2. CASE pc' # "advance"
    BY <1>8, <2>2 DEF PollFetch, Raise
  <2> QED BY <2>1, <2>2
<1>9. CASE PollAdvance
  BY <1>9 DEF PollAdvance, advance_uid_checkpoint, Progress
<1>10. CASE PollProcess
  BY <1>10 DEF PollProcess, Message, Messages, Progress
<1>11. CASE PollFolderDone
  BY <1>11, FolderDoneTyped DEF PollFolderDone
<1>12. CASE Sleep
  BY <1>12 DEF Sleep
<1>13. ASSUME NEW f \in Folders, Arrive(f) PROVE TypeOK'
  BY <1>13 DEF Arrive
<1>14. ASSUME NEW f \in Folders, NewGeneration(f) PROVE TypeOK'
  BY <1>14 DEF NewGeneration
<1>15. CASE UpOrDown
  BY <1>15 DEF UpOrDown
<1>16. CASE Crash
  BY <1>16, AtHandTyped DEF Crash
<1> QED BY <1>1, <1>2, <1>3, <1>4, <1>5, <1>6, <1>7, <1>8, <1>9, <1>10, <1>11,
           <1>12, <1>13, <1>14, <1>15, <1>16, <1>17 DEF Next, Monitor

LEMMA ProgressKept ==
  ASSUME Progress, UNCHANGED <<dbVars, monVars, histVars>>
  PROVE  Progress'
BY DEF Progress, Covered, Folder, First

LEMMA ProgressStep == ASSUME TypeOK, TypeOK', Progress, CoversAll, Next PROVE Progress'
<1> USE FolderTyped, Bounds DEF TypeOK, Progress, Covered, Folder
<1>1. CASE Connect
  BY <1>1 DEF Connect
<1>2. CASE ScanSelect
  <2>1. CASE up
    <3>1. Folder' = Folder /\ session' = box[Folder].validity
          /\ uid' = box[Folder].size /\ todo' = Latest(1 .. box[Folder].size)
      BY <1>2, <2>1, SearchAll DEF ScanSelect
    <3>2. \A u \in 1 .. uid' : u \in todo' \/ Covered(Folder, session, u)'
      BY <1>2, <2>1, <3>1, SearchAll DEF ScanSelect
    <3> QED BY <1>2, <2>1, <3>1, <3>2 DEF ScanSelect
  <2>2. CASE ~up
    BY <1>2, <2>2, FolderDoneTyped DEF ScanSelect
  <2> QED BY <2>1, <2>2
<1>3. CASE ScanFetch
  <2>1. PICK t \in todo :
          /\ First(t)
          /\ \/ stored' = stored \cup {Message(t)} /\ pc' = "handle"
                /\ UNCHANGED <<todo, unread>>
             \/ unread' = unread \cup {Message(t)} /\ todo' = todo \ {t}
                /\ UNCHANGED <<stored, pc>>
    BY <1>3 DEF ScanFetch, store_fetched_email
  <2>2. Covered(Folder, session, t)'
    BY <1>3, <2>1 DEF ScanFetch, Message
  <2>3. \A u \in todo : First(u) => u = t
    BY <2>1 DEF First, Uids
  <2>4. phase = "startup" /\ phase' = phase /\ at' = at /\ session' = session
        /\ uid' = uid /\ leftOut' = leftOut /\ checkpoint' = checkpoint
    BY <1>3 DEF ScanFetch
  <2>5. \A u \in 1 .. uid' : u \in todo' \/ Covered(Folder, session, u)'
    BY <1>3, <2>1, <2>2, <2>4 DEF ScanFetch
  <2>6. pc' = "handle" => \A u \in todo' : First(u)' => Covered(Folder, session, u)'
    BY <1>3, <2>1, <2>2, <2>3 DEF ScanFetch, First
  <2> QED BY <1>3, <2>1, <2>4, <2>5, <2>6 DEF ScanFetch
<1>17. CASE ScanProcess
  BY <1>17 DEF ScanProcess
<1>4. CASE ScanReset
  BY <1>4 DEF ScanReset, reset_uid_checkpoint
<1>5. CASE ScanAdvance
  BY <1>5, FolderDoneTyped DEF ScanAdvance
<1>6. CASE PollSelect
  <2>1. CASE up
    <3>1. checkpoint'[Folder].validity = box[Folder].validity
      BY <1>6, <2>1 DEF PollSelect, reset_uid_checkpoint, NoCheckpoint
    <3> QED BY <1>6, <2>1, <3>1 DEF PollSelect
  <2>2. CASE ~up
    BY <1>6, <2>2 DEF PollSelect, Raise
  <2> QED BY <2>1, <2>2
<1>7. CASE PollSearch
  <2>1. CASE up
    <3> DEFINE last == checkpoint[Folder].uid
               newer == (last + 1) .. box[Folder].size
    <3>1. /\ todo' \subseteq newer
          /\ leftOut' = leftOut \cup {Message(u) : u \in newer \ todo'}
          /\ pc' = "fetch" /\ UNCHANGED <<phase, at, session, checkpoint, stored, unread>>
      BY <1>7, <2>1, SearchNewer DEF PollSearch, Latest
    <3>2. ASSUME NEW t \in todo', NEW u \in Uids, u < t
          PROVE  u \in todo' \/ Covered(Folder, session, u)'
      <4>1. t \in newer
        BY <3>1
      <4>2. CASE u <= last
        <5>1. Covered(Folder, session, u)
          <6>1. u \in 1 .. checkpoint[Folder].uid
            BY <4>2 DEF Uids
          <6>2. checkpoint[Folder].validity = session
            BY <1>7 DEF PollSearch
          <6>3. FolderNames[at] \in Folders
            BY FolderTyped
          <6> QED BY <6>1, <6>2, <6>3 DEF CoversAll
        <5> QED BY <3>1, <5>1
      <4>3. CASE u > last
        <5>1. u \in newer
          BY <4>1, <4>3, <3>2 DEF Uids
        <5> QED BY <3>1, <5>1 DEF Message
      <4> QED BY <4>2, <4>3 DEF Uids
    <3> QED BY <1>7, <3>1, <3>2 DEF PollSearch
  <2>2. CASE ~up
    BY <1>7, <2>2 DEF PollSearch, Raise
  <2> QED BY <2>1, <2>2
<1>8. CASE PollFetch
  <2>1. CASE pc' = "advance"
    <3>1. PICK t \in todo :
            /\ First(t) /\ stored' = stored \cup {Message(t)}
            /\ todo' = todo \ {t} /\ uid' = t /\ pc' = "advance"
            /\ UNCHANGED <<phase, at, session, checkpoint, leftOut, unread>>
      BY <1>8, <2>1 DEF PollFetch, store_fetched_email, Raise
    <3>2. ASSUME NEW u \in Uids, u <= t
          PROVE  Covered(Folder, session, u)'
      <4>1. CASE u = t
        BY <3>1, <4>1 DEF Message
      <4>2. CASE u # t
        <5>1. u < t
          BY <3>2, <4>2 DEF Uids
        <5>2. u \notin todo
          BY <3>1, <5>1 DEF First, Uids
        <5>3. Covered(Folder, session, u)
          BY <1>8, <5>1, <5>2 DEF PollFetch
        <5> QED BY <3>1, <5>3
      <4> QED BY <4>1, <4>2
    <3>3. \A u \in 1 .. uid' : Covered(Folder, session, u)'
      BY <3>1, <3>2 DEF Uids
    <3>4. ASSUME NEW s \in todo', NEW u \in Uids, u < s
          PROVE  u \in todo' \/ Covered(Folder, session, u)'
      <4>1. u \in todo \/ Covered(Folder, session, u)
        BY <1>8, <3>1, <3>4 DEF PollFetch
      <4> QED BY <3>1, <3>2, <4>1 DEF Uids
    <3> QED BY <1>8, <3>1, <3>3, <3>4 DEF PollFetch
  <2>2. CASE pc' # "advance"
    BY <1>8, <2>2 DEF PollFetch, Raise
  <2> QED BY <2>1, <2>2
<1>9. CASE PollAdvance
  BY <1>9 DEF PollAdvance, advance_uid_checkpoint
<1>10. CASE PollProcess
  BY <1>10 DEF PollProcess
<1>11. CASE PollFolderDone
  BY <1>11, FolderDoneTyped DEF PollFolderDone
<1>12. CASE Sleep
  BY <1>12 DEF Sleep
<1>13. ASSUME NEW f \in Folders, Arrive(f) PROVE Progress'
  BY <1>13, ProgressKept DEF Arrive
<1>14. ASSUME NEW f \in Folders, NewGeneration(f) PROVE Progress'
  BY <1>14, ProgressKept DEF NewGeneration
<1>15. CASE UpOrDown
  BY <1>15, ProgressKept DEF UpOrDown
<1>16. CASE Crash
  BY <1>16 DEF Crash
<1> QED BY <1>1, <1>2, <1>3, <1>4, <1>5, <1>6, <1>7, <1>8, <1>9, <1>10, <1>11,
           <1>12, <1>13, <1>14, <1>15, <1>16, <1>17 DEF Next, Monitor

LEMMA CoversKept ==
  ASSUME CoversAll, UNCHANGED <<checkpoint, stored, leftOut, unread>>
  PROVE  CoversAll'
BY DEF CoversAll, Covered

LEMMA CoversStep == ASSUME TypeOK, TypeOK', Progress, CoversAll, Next PROVE CoversAll'
<1>1. CASE Connect
  BY <1>1 DEF Connect, CoversAll, Covered
<1>2. CASE ScanSelect
  BY <1>2 DEF ScanSelect, CoversAll, Covered
<1>3. CASE ScanFetch
  BY <1>3 DEF ScanFetch, store_fetched_email, CoversAll, Covered
<1>17. CASE ScanProcess
  BY <1>17 DEF ScanProcess, CoversAll, Covered
<1>4. CASE ScanReset
  BY <1>4, FolderTyped DEF ScanReset, reset_uid_checkpoint, TypeOK, Progress, Folder, CoversAll, Covered
<1>5. CASE ScanAdvance
  BY <1>5, FolderTyped DEF ScanAdvance, advance_uid_checkpoint, TypeOK, Progress, Folder, CoversAll, Covered
<1>6. CASE PollSelect
  BY <1>6, FolderTyped DEF PollSelect, reset_uid_checkpoint, TypeOK, Progress, Folder, CoversAll, Covered
<1>7. CASE PollSearch
  BY <1>7 DEF PollSearch, CoversAll, Covered
<1>8. CASE PollFetch
  BY <1>8 DEF PollFetch, store_fetched_email, CoversAll, Covered
<1>9. CASE PollAdvance
  BY <1>9, FolderTyped DEF PollAdvance, advance_uid_checkpoint, TypeOK, Progress, Folder, CoversAll, Covered
<1>10. CASE PollProcess
  BY <1>10 DEF PollProcess, CoversAll, Covered
<1>11. CASE PollFolderDone
  BY <1>11 DEF PollFolderDone, CoversAll, Covered
<1>12. CASE Sleep
  BY <1>12 DEF Sleep, CoversAll, Covered
<1>13. ASSUME NEW f \in Folders, Arrive(f) PROVE CoversAll'
  BY <1>13, CoversKept DEF Arrive
<1>14. ASSUME NEW f \in Folders, NewGeneration(f) PROVE CoversAll'
  BY <1>14, CoversKept DEF NewGeneration
<1>15. CASE UpOrDown
  BY <1>15, CoversKept DEF UpOrDown
<1>16. CASE Crash
  BY <1>16 DEF Crash, CoversAll, Covered
<1> QED BY <1>1, <1>2, <1>3, <1>4, <1>5, <1>6, <1>7, <1>8, <1>9, <1>10, <1>11,
           <1>12, <1>13, <1>14, <1>15, <1>16, <1>17 DEF Next, Monitor

LEMMA HandlingKept ==
  ASSUME Handling, UNCHANGED <<dbVars, monVars, histVars>>
  PROVE  Handling'
BY DEF Handling, Passed, Folder

LEMMA HandlingStep ==
  ASSUME TypeOK, TypeOK', Progress, Progress', Handling, PassedAll, Next
  PROVE  Handling'
<1> USE FolderTyped, Bounds DEF Handling, Passed, Folder
<1>1. CASE Connect
  BY <1>1 DEF Connect
<1>2. CASE ScanSelect
  <2>1. CASE up
    <3>1. /\ session' = box[Folder].validity /\ at' = at /\ phase' = "startup" /\ pc' = "scan"
          /\ uid' = box[Folder].size /\ todo' \subseteq 1 .. box[Folder].size
          /\ leftOut' = leftOut \cup
               {[folder |-> Folder, validity |-> box[Folder].validity, uid |-> u] :
                    u \in (1 .. box[Folder].size) \ todo'}
      BY <1>2, <2>1, SearchAll DEF ScanSelect, Latest
    <3>2. \A u \in 1 .. uid' : u \in todo' \/ Passed(Folder, session, u)'
      BY <3>1
    <3> QED BY <3>1, <3>2
  <2>2. CASE ~up
    BY <1>2, <2>2, FolderDoneTyped DEF ScanSelect
  <2> QED BY <2>1, <2>2
<1>3. CASE ScanFetch
  <2>1. PICK t \in todo :
          \/ todo' = todo /\ unread' = unread
          \/ unread' = unread \cup {Message(t)} /\ todo' = todo \ {t}
    BY <1>3 DEF ScanFetch
  <2>2. phase' = "startup" /\ pc' \in {"scan", "handle"} /\ pc = "scan" /\ phase = "startup"
        /\ UNCHANGED <<at, session, uid, leftOut, processed, cut>>
    BY <1>3 DEF ScanFetch
  <2>3. \A u \in 1 .. uid' : u \in todo' \/ Passed(Folder, session, u)'
    BY <2>1, <2>2 DEF Message
  <2> QED BY <2>2, <2>3
<1>4. CASE ScanProcess
  <2>1. PICK t \in todo :
          processed' = processed \cup {Message(t)} /\ todo' = todo \ {t}
    BY <1>4 DEF ScanProcess
  <2>2. phase' = "startup" /\ pc' = "scan" /\ pc = "handle" /\ phase = "startup"
        /\ UNCHANGED <<at, session, uid, leftOut, unread, cut>>
    BY <1>4 DEF ScanProcess
  <2>3. \A u \in 1 .. uid' : u \in todo' \/ Passed(Folder, session, u)'
    BY <2>1, <2>2 DEF Message
  <2> QED BY <2>2, <2>3
<1>5. CASE ScanReset
  BY <1>5 DEF ScanReset
<1>6. CASE ScanAdvance
  BY <1>6, FolderDoneTyped DEF ScanAdvance
<1>7. CASE PollSelect
  BY <1>7 DEF PollSelect, Raise
<1>8. CASE PollSearch
  <2>1. CASE up
    <3> DEFINE last == checkpoint[Folder].uid
               newer == (last + 1) .. box[Folder].size
    <3>1. /\ todo' \subseteq newer
          /\ leftOut' = leftOut \cup {Message(u) : u \in newer \ todo'}
          /\ phase = "live" /\ phase' = "live" /\ pc = "search" /\ pc' = "fetch"
          /\ UNCHANGED <<at, session, checkpoint, processed, unread, cut>>
      BY <1>8, <2>1, SearchNewer DEF PollSearch, Latest
    <3>2. checkpoint[Folder].validity = session /\ Folder \in Folders
      BY <3>1 DEF Progress
    <3>3. last \in 0 .. MaxUid
      BY <3>2 DEF TypeOK
    <3>4. \A t \in todo' : t > checkpoint'[Folder].uid
      BY <3>1, <3>3
    <3>5. ASSUME NEW t \in todo', NEW u \in Uids, u < t
          PROVE  u \in todo' \/ Passed(Folder, session, u)'
      <4>1. CASE u <= last
        <5>1. Passed(Folder, session, u)
          BY <3>1, <3>2, <3>3, <4>1 DEF PassedAll, Uids
        <5> QED BY <3>1, <5>1
      <4>2. CASE u > last
        <5>1. u \in newer
          <6>1. t \in newer /\ last \in Nat /\ u \in Nat /\ box[Folder].size \in Nat
            BY <3>1, <3>2, <3>3 DEF TypeOK, Uids
          <6> QED BY <3>5, <4>2, <6>1
        <5> QED BY <3>1, <5>1 DEF Message
      <4> QED BY <3>3, <4>1, <4>2 DEF Uids
    <3> QED BY <3>1, <3>4, <3>5
  <2>2. CASE ~up
    BY <1>8, <2>2 DEF PollSearch, Raise
  <2> QED BY <2>1, <2>2
<1>9. CASE PollFetch
  <2>1. CASE pc' = "advance"
    <3>1. PICK t \in todo : First(t) /\ todo' = todo \ {t} /\ uid' = t
      BY <1>9, <2>1 DEF PollFetch, Raise
    <3>2. /\ phase = "live" /\ phase' = "live" /\ pc = "fetch"
          /\ UNCHANGED <<at, session, checkpoint, leftOut, processed, unread, cut>>
      BY <1>9, <2>1 DEF PollFetch, Raise
    <3>3. todo \subseteq Nat /\ t \in Uids
      BY DEF TypeOK, Uids
    <3>4. \A s \in todo' : s > uid' /\ s > checkpoint'[Folder].uid
      BY <3>1, <3>2, <3>3 DEF First
    <3>5. \A u \in 1 .. uid' : u = uid' \/ Passed(Folder, session, u)'
      <4>1. ASSUME NEW u \in 1 .. t, u # t PROVE Passed(Folder, session, u)
        <5>1. u \in Uids /\ u < t
          BY <3>3, <4>1 DEF Uids
        <5>2. u \notin todo
          BY <3>1, <3>3, <5>1 DEF First, Uids
        <5> QED BY <3>2, <5>1, <5>2
      <4> QED BY <3>1, <3>2, <4>1
    <3>6. \A s \in todo', u \in Uids :
            u < s => u \in todo' \/ Passed(Folder, session, u)' \/ u = uid'
      BY <3>1, <3>2
    <3> QED BY <2>1, <3>2, <3>4, <3>5, <3>6
  <2>2. CASE pc' # "advance"
    BY <1>9, <2>2 DEF PollFetch, Raise
  <2> QED BY <2>1, <2>2
<1>10. CASE PollAdvance
  <2>1. /\ phase = "live" /\ phase' = "live" /\ pc = "advance" /\ pc' = "process"
        /\ UNCHANGED <<at, session, todo, uid, leftOut, processed, unread, cut>>
    BY <1>10 DEF PollAdvance
  <2>2. checkpoint'[Folder].uid \in {checkpoint[Folder].uid, uid}
    BY <1>10 DEF PollAdvance, advance_uid_checkpoint, TypeOK
  <2>3. \A t \in todo' : t > checkpoint'[Folder].uid
    BY <2>1, <2>2
  <2> QED BY <2>1, <2>3
<1>11. CASE PollProcess
  <2>1. /\ phase = "live" /\ phase' = "live" /\ pc = "process" /\ pc' = "fetch"
        /\ processed' = processed \cup {Message(uid)}
        /\ UNCHANGED <<at, session, todo, checkpoint, leftOut, unread, cut>>
    BY <1>11 DEF PollProcess
  <2>2. \A t \in todo', u \in Uids :
          u < t => u \in todo' \/ Passed(Folder, session, u)'
    BY <2>1 DEF Message
  <2> QED BY <2>1, <2>2
<1>12. CASE PollFolderDone
  BY <1>12, FolderDoneTyped DEF PollFolderDone
<1>13. CASE Sleep
  BY <1>13 DEF Sleep
<1>14. ASSUME NEW f \in Folders, Arrive(f) \/ NewGeneration(f) PROVE Handling'
  BY <1>14, HandlingKept DEF Arrive, NewGeneration
<1>15. CASE UpOrDown
  BY <1>15, HandlingKept DEF UpOrDown
<1>16. CASE Crash
  BY <1>16 DEF Crash
<1> QED BY <1>1, <1>2, <1>3, <1>4, <1>5, <1>6, <1>7, <1>8, <1>9, <1>10, <1>11,
           <1>12, <1>13, <1>14, <1>15, <1>16 DEF Next, Monitor

\* PassedAll while the checkpoint stays and the monitor has no message at hand.
LEMMA PassedKept ==
  ASSUME PassedAll, UNCHANGED checkpoint, ~(phase = "live" /\ pc = "process"),
         leftOut \subseteq leftOut', unread \subseteq unread',
         processed \subseteq processed', cut \subseteq cut'
  PROVE  PassedAll'
BY DEF PassedAll, Passed

LEMMA PassedStep ==
  ASSUME TypeOK, TypeOK', Progress, Handling, PassedAll, Next
  PROVE  PassedAll'
<1>1. CASE Connect
  BY <1>1, PassedKept DEF Connect
<1>2. CASE ScanSelect
  BY <1>2, PassedKept DEF ScanSelect
<1>3. CASE ScanFetch
  BY <1>3, PassedKept DEF ScanFetch
<1>4. CASE ScanProcess
  BY <1>4, PassedKept DEF ScanProcess
<1>5. CASE ScanReset
  BY <1>5, FolderTyped DEF ScanReset, reset_uid_checkpoint, PassedAll, Passed, TypeOK
<1>6. CASE ScanAdvance
  <2>1. /\ phase = "startup" /\ pc = "advance" /\ uid \in 0 .. MaxUid
        /\ UNCHANGED <<leftOut, unread, processed, cut>>
    BY <1>6 DEF ScanAdvance, TypeOK
  <2>2. \A u \in 1 .. uid : Passed(Folder, session, u)
    BY <2>1 DEF Handling
  <2>3. ASSUME NEW f \in Folders, NEW u \in 1 .. checkpoint'[f].uid
        PROVE  Passed(f, checkpoint'[f].validity, u)
    <3>1. CASE checkpoint'[f] = checkpoint[f]
      BY <2>1, <2>3, <3>1 DEF PassedAll
    <3>2. CASE checkpoint'[f] # checkpoint[f]
      <4>1. /\ f = Folder
            /\ checkpoint'[f] = [validity |-> session,
                 uid |-> IF checkpoint[f].validity = session /\ checkpoint[f].uid > uid
                           THEN checkpoint[f].uid ELSE uid]
        BY <1>6, <2>3, <3>2 DEF ScanAdvance, advance_uid_checkpoint, TypeOK
      <4>2. CASE checkpoint[f].validity = session /\ checkpoint[f].uid > uid
        BY <2>1, <2>3, <4>1, <4>2 DEF PassedAll
      <4>3. CASE ~(checkpoint[f].validity = session /\ checkpoint[f].uid > uid)
        BY <2>2, <2>3, <4>1, <4>3
      <4> QED BY <4>2, <4>3
    <3> QED BY <3>1, <3>2
  <2> QED BY <2>1, <2>3 DEF PassedAll, Passed
<1>7. CASE PollSelect
  BY <1>7, FolderTyped DEF PollSelect, Raise, reset_uid_checkpoint, PassedAll, Passed, TypeOK
<1>8. CASE PollSearch
  BY <1>8, PassedKept DEF PollSearch
<1>9. CASE PollFetch
  BY <1>9, PassedKept DEF PollFetch
<1>10. CASE PollAdvance
  <2>1. /\ phase' = "live" /\ pc = "advance" /\ pc' = "process" /\ phase = "live"
        /\ uid \in Uids
        /\ UNCHANGED <<at, uid, leftOut, unread, processed, cut>>
    BY <1>10 DEF PollAdvance, Progress
  <2>2. \A u \in 1 .. uid : u = uid \/ Passed(Folder, session, u)
    BY <2>1 DEF Handling
  <2>3. ASSUME NEW f \in Folders, NEW u \in 1 .. checkpoint'[f].uid,
               ~(f = Folder /\ u = uid)
        PROVE  Passed(f, checkpoint'[f].validity, u)
    <3>1. CASE checkpoint'[f] = checkpoint[f]
      <4>1. Passed(f, checkpoint[f].validity, u)
        BY <2>1, <2>3, <3>1 DEF PassedAll
      <4> QED BY <3>1, <4>1
    <3>2. CASE checkpoint'[f] # checkpoint[f]
      <4>1. /\ f = Folder
            /\ checkpoint'[f] = [validity |-> session,
                 uid |-> IF checkpoint[f].validity = session /\ checkpoint[f].uid > uid
                           THEN checkpoint[f].uid ELSE uid]
        BY <1>10, <2>3, <3>2 DEF PollAdvance, advance_uid_checkpoint, TypeOK
      <4>2. CASE checkpoint[f].validity = session /\ checkpoint[f].uid > uid
        <5>1. Passed(f, checkpoint[f].validity, u)
          BY <2>1, <2>3, <4>1, <4>2 DEF PassedAll
        <5> QED BY <4>1, <4>2, <5>1
      <4>3. CASE ~(checkpoint[f].validity = session /\ checkpoint[f].uid > uid)
        <5>1. u \in 1 .. uid /\ checkpoint'[f].validity = session
          BY <2>3, <4>1, <4>3
        <5> QED BY <2>2, <2>3, <4>1, <5>1
      <4> QED BY <4>2, <4>3
    <3> QED BY <3>1, <3>2
  <2> QED BY <2>1, <2>3 DEF PassedAll, Passed, Folder
<1>11. CASE PollProcess
  <2>1. /\ phase = "live" /\ pc = "process"
        /\ processed' = processed \cup {Message(uid)}
        /\ UNCHANGED <<checkpoint, leftOut, unread, cut>>
    BY <1>11 DEF PollProcess
  <2>2. checkpoint[Folder].validity = session
    BY <2>1 DEF Progress
  <2> QED BY <2>1, <2>2 DEF PassedAll, Passed, Message
<1>12. CASE PollFolderDone
  BY <1>12, PassedKept DEF PollFolderDone
<1>13. CASE Sleep
  BY <1>13, PassedKept DEF Sleep
<1>14. ASSUME NEW f \in Folders, Arrive(f) \/ NewGeneration(f) PROVE PassedAll'
  BY <1>14 DEF Arrive, NewGeneration, PassedAll, Passed, Folder
<1>15. CASE UpOrDown
  BY <1>15 DEF UpOrDown, PassedAll, Passed, Folder
<1>16. CASE Crash
  <2>1. /\ cut' = cut \cup AtHand
        /\ UNCHANGED <<checkpoint, leftOut, unread, processed>>
    BY <1>16 DEF Crash
  <2>2. phase = "live" /\ pc = "process" => checkpoint[Folder].validity = session
    BY DEF Progress
  <2> QED BY <2>1, <2>2 DEF PassedAll, Passed, AtHand, Message
<1> QED BY <1>1, <1>2, <1>3, <1>4, <1>5, <1>6, <1>7, <1>8, <1>9, <1>10, <1>11,
           <1>12, <1>13, <1>14, <1>15, <1>16 DEF Next, Monitor

LEMMA InvStep == Inv /\ [Next]_vars => Inv'
<1> SUFFICES ASSUME Inv, [Next]_vars PROVE Inv'
  OBVIOUS
<1>1. CASE Next
  <2>1. TypeOK' /\ Progress' /\ CoversAll'
    BY <1>1, TypeStep, ProgressStep, CoversStep DEF Inv
  <2>2. Handling' /\ PassedAll'
    BY <1>1, <2>1, HandlingStep, PassedStep DEF Inv
  <2> QED BY <2>1, <2>2 DEF Inv
<1>2. CASE UNCHANGED vars
  <2>1. TypeOK'
    BY <1>2 DEF Inv, TypeOK
  <2>2. Progress'
    BY <1>2 DEF Inv, Progress, Covered, Folder, First
  <2>3. CoversAll' /\ Handling'
    BY <1>2, CoversKept, HandlingKept DEF Inv
  <2>4. PassedAll'
    BY <1>2 DEF Inv, PassedAll, Passed, Folder
  <2> QED BY <2>1, <2>2, <2>3, <2>4 DEF Inv
<1> QED BY <1>1, <1>2

LEMMA InvAlways == Spec => []Inv
BY InitInv, InvStep, PTL DEF Spec

\* Every variable keeps its type: folders, checkpoints and messages at hand are
\* ones there are.
THEOREM TypeCorrect == Spec => []TypeOK
<1>1. Inv => TypeOK
  BY DEF Inv
<1> QED BY <1>1, InvAlways, PTL

\* Every message at or below a folder's checkpoint is in the database, or the
\* latest-N rule or the startup scan passed it over, wherever the process dies.
THEOREM CheckpointNeverAhead == Spec => []CheckpointCovers
<1>1. Inv => CheckpointCovers
  BY CoversIsCheckpointCovers DEF Inv
<1> QED BY <1>1, InvAlways, PTL

\* A message at or below a checkpoint that was neither processed nor passed over
\* was the one at hand when the process died, or still is at hand.
THEOREM OnlyTheCutIsLost == Spec => []CutShortAtMost
<1>1. Inv => CutShortAtMost
  <2> SUFFICES ASSUME Inv, NEW f \in Folders, NEW u \in 1 .. checkpoint[f].uid
               PROVE  [folder |-> f, validity |-> checkpoint[f].validity, uid |-> u]
                        \in processed \cup leftOut \cup unread \cup cut \cup AtHand
    BY DEF CutShortAtMost, Below
  <2>1. CASE Passed(f, checkpoint[f].validity, u)
    BY <2>1 DEF Passed
  <2>2. CASE phase = "live" /\ pc = "process" /\ f = Folder /\ u = uid
    <3>1. checkpoint[Folder].validity = session
      BY <2>2 DEF Inv, Progress
    <3> QED BY <2>2, <3>1 DEF AtHand, Message
  <2> QED BY <2>1, <2>2 DEF Inv, PassedAll
<1> QED BY <1>1, InvAlways, PTL

\* A poll fetches only messages above the checkpoint.
THEOREM OnlyNewerPolled == Spec => PollsOnlyNewer
<1>1. Inv /\ [Next]_vars =>
        [phase = "live" /\ pc = "fetch" /\ pc' = "advance"
           => Message(uid') \notin Below(Folder)]_vars
  <2> SUFFICES ASSUME Inv, Next, phase = "live", pc = "fetch", pc' = "advance"
               PROVE  Message(uid') \notin Below(Folder)
    OBVIOUS
  <2>1. PollFetch
    BY DEF Next, Monitor, Connect, ScanSelect, ScanFetch, ScanProcess, ScanReset,
           ScanAdvance, PollSelect, PollSearch, PollAdvance, PollProcess,
           PollFolderDone, FolderDone, Sleep, Arrive, NewGeneration, UpOrDown, Crash
  <2>2. uid' \in todo
    BY <2>1 DEF PollFetch, Raise
  <2>3. uid' > checkpoint[Folder].uid
    BY <2>2 DEF Inv, Handling
  <2>4. uid' \in Nat /\ checkpoint[Folder].uid \in Nat
    BY <2>2, Bounds, FolderTyped DEF Inv, TypeOK, Uids
  <2>5. ASSUME NEW u \in 1 .. checkpoint[Folder].uid PROVE Message(uid').uid # u
    BY <2>3, <2>4 DEF Message
  <2> QED BY <2>5 DEF Below
<1> QED BY <1>1, InvAlways, PTL DEF Spec, PollsOnlyNewer
===============================================================================
