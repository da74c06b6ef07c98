--------------------------- MODULE ProtectedEndpoints ---------------------------
(***************************************************************************)
(* The registry of protected endpoints: its table and audit trail          *)
(* (core/database.py), the one-time import of the legacy sources at start  *)
(* (core/legacy_endpoint_migration.py), the dashboard's requests           *)
(* (web/routes/allowed_ips.py), which run in several threads and check     *)
(* and write in separate transactions, and the threads that classify an    *)
(* endpoint (core/endpoint_registry.py) and leave an audit row of the      *)
(* entry it matched.                                                       *)
(*                                                                         *)
(* A value is normalized.  The audit rows modelled are those that name an  *)
(* entry: of a change (ADDED, EDITED, ENABLED, DISABLED, DELETED, and the  *)
(* MIGRATED one of an entry taken over from the table of an earlier        *)
(* version, which is dropped with it) and of a classification.  Rows that  *)
(* name none (summaries of imports, exports and migrations) are left out.  *)
(***************************************************************************)
EXTENDS Integers, Sequences, FiniteSets

CONSTANTS
    Values,      \* normalized values of endpoints
    Categories,  \* CENTURY_OWNED, EXTERNAL_ALLOWLIST
    NoValue,     \* a value the normalization refuses; no row
    Bodies,      \* rows administrators enter
    Files,       \* files administrators import
    Legacy,      \* the legacy sources' values with their categories, in order
    Old,         \* rows an earlier version may have left in the table
    Handlers,    \* dashboard threads
    Classifiers, \* threads that classify endpoints
    MaxId,       \* ids the table gives out
    MaxChanges,  \* audit rows of one entry that record changes
    MaxMatches,  \* and those that record classifications
    MaxFaults    \* crashes

Row   == [value : Values, category : Categories, active : BOOLEAN]
NoRow == [value |-> NoValue, category |-> NoValue, active |-> FALSE]
Ids   == 1 .. MaxId

FileRow == [value : Values \cup {NoValue}, category : Categories, active : BOOLEAN]

ASSUME ProtectedEndpointsAssumption ==
    /\ NoValue \notin Values
    /\ Bodies \subseteq Row /\ Old \subseteq Row
    /\ Files \subseteq Seq(FileRow)
    /\ Legacy \in Seq([value : Values \cup {NoValue}, category : Categories])
    /\ MaxId \in Nat \ {0} /\ MaxChanges \in Nat \ {0}
    /\ MaxMatches \in Nat /\ MaxFaults \in Nat

VARIABLES
    row,      \* protected_endpoints: the row of each id, or NoRow
    nextId,   \* AUTOINCREMENT: ids are never given out twice
    audit,    \* protected_endpoint_audit: the audit rows of each id, in order
    applied,  \* app_migrations has the row of the import
    running,  \* main: "stopped", "migrating" or "serving"
    next,     \* index of the legacy value at hand
    req,      \* what each dashboard thread is doing
    matched,  \* the entry each classification matched and has yet to record, or 0
    faults    \* crashes so far

tableVars == <<row, nextId, audit>>
mainVars  == <<applied, running, next>>
vars      == <<tableVars, mainVars, req, matched, faults>>

\* The new data of a classification is no row of the table: matched_value and
\* matched_type.
AuditRow == [action : {"CHANGED", "CLASSIFIED"},
             previous : Row \cup {NoRow}, current : Row \cup {NoRow}]

Changed(old, new) == [action |-> "CHANGED", previous |-> old, current |-> new]
Classified        == [action |-> "CLASSIFIED", previous |-> NoRow, current |-> NoRow]

RowsOf(action, i) == {k \in DOMAIN audit[i] : audit[i][k].action = action}
Changes(i)        == RowsOf("CHANGED", i)

Requests ==
    [pc : {"idle", "add", "conflict", "edit", "import", "importAdd"},
     id : Ids \cup {0}, body : FileRow \cup {NoRow}, rest : Seq(FileRow)]

Request(pc, id, body, rest) == [pc |-> pc, id |-> id, body |-> body, rest |-> rest]
Idle == Request("idle", 0, NoRow, <<>>)

Init ==
    /\ \E r \in Old \cup {NoRow} :
         /\ row = [i \in Ids |-> IF i = 1 THEN r ELSE NoRow]
         /\ nextId = IF r = NoRow THEN 1 ELSE 2
         /\ audit = [i \in Ids |-> IF i = 1 /\ r # NoRow
                                     THEN <<Changed(NoRow, r)>>
                                     ELSE <<>>]
    /\ applied = FALSE
    /\ running = "stopped"
    /\ next = 1
    /\ req = [h \in Handlers |-> Idle]
    /\ matched = [c \in Classifiers |-> 0]
    /\ faults = 0

-------------------------------------------------------------------------------
(* Transactions of database.py. *)

Listed(v) == \E i \in Ids : row[i].value = v

\* One transaction: the row and the audit row of it.
Write(i, new) ==
    /\ Cardinality(Changes(i)) < MaxChanges
    /\ row' = [row EXCEPT ![i] = new]
    /\ audit' = [audit EXCEPT ![i] = Append(@, Changed(row[i], new))]

\* Mistake: relying on the handler's check for conflicts.
AddUnchecked(r) ==
    /\ nextId <= MaxId
    /\ Write(nextId, r)
    /\ nextId' = nextId + 1

\* The UNIQUE constraint refuses a second row with the value.
add_protected_endpoint(r) ==
    IF Listed(r.value)
      THEN UNCHANGED tableVars
      ELSE /\ nextId <= MaxId
           /\ Write(nextId, r)
           /\ nextId' = nextId + 1

\* The row may be gone, or another may have taken the value.
update_protected_endpoint(i, r) ==
    /\ IF row[i] = NoRow \/ \E j \in Ids \ {i} : row[j].value = r.value
         THEN UNCHANGED <<row, audit>>
         ELSE Write(i, r)
    /\ UNCHANGED nextId

\* Mistake: reading the old row for the audit after the update.
SetActiveReadLate(i, active) ==
    LET new == [row[i] EXCEPT !.active = active]
    IN  /\ row[i] # NoRow
        /\ Cardinality(Changes(i)) < MaxChanges
        /\ row' = [row EXCEPT ![i] = new]
        /\ audit' = [audit EXCEPT ![i] = Append(@, Changed(new, new))]
        /\ UNCHANGED nextId

set_protected_endpoint_active(i, active) ==
    /\ row[i] # NoRow
    /\ Write(i, [row[i] EXCEPT !.active = active])
    /\ UNCHANGED nextId

delete_protected_endpoint(i) ==
    /\ row[i] # NoRow
    /\ Write(i, NoRow)
    /\ UNCHANGED nextId

-------------------------------------------------------------------------------
(* main and run_legacy_endpoint_migration.  Nothing else runs until it is done. *)

\* Mistake: importing at every start.
StartAnew ==
    /\ running = "stopped"
    /\ running' = "migrating" /\ next' = 1
    /\ UNCHANGED <<tableVars, applied, req, matched, faults>>

Start ==
    /\ running = "stopped"
    /\ running' = IF applied THEN "serving" ELSE "migrating"
    /\ next' = 1
    /\ UNCHANGED <<tableVars, applied, req, matched, faults>>

\* Mistake: a value that is there already ends the import.
MigrateUntilListed ==
    /\ running = "migrating" /\ next <= Len(Legacy)
    /\ LET v == Legacy[next].value
       IN  IF v = NoValue \/ Listed(v)
             THEN UNCHANGED tableVars /\ next' = Len(Legacy) + 1
             ELSE /\ add_protected_endpoint([value |-> v, active |-> TRUE,
                                             category |-> Legacy[next].category])
                  /\ next' = next + 1
    /\ UNCHANGED <<applied, running, req, matched, faults>>

\* Invalid values, and those that are there already, are passed over.
Migrate ==
    /\ running = "migrating" /\ next <= Len(Legacy)
    /\ LET v == Legacy[next].value
       IN  IF v = NoValue \/ Listed(v)
             THEN UNCHANGED tableVars
             ELSE add_protected_endpoint([value |-> v, active |-> TRUE,
                                          category |-> Legacy[next].category])
    /\ next' = next + 1
    /\ UNCHANGED <<applied, running, req, matched, faults>>

finish_migration ==
    /\ running = "migrating" /\ next > Len(Legacy)
    /\ applied' = TRUE
    /\ running' = "serving"
    /\ UNCHANGED <<tableVars, next, req, matched, faults>>

Crash ==
    /\ running # "stopped"
    /\ faults < MaxFaults
    /\ faults' = faults + 1
    /\ running' = "stopped" /\ next' = 1
    /\ req' = [h \in Handlers |-> Idle]
    /\ matched' = [c \in Classifiers |-> 0]
    /\ UNCHANGED <<tableVars, applied>>

-------------------------------------------------------------------------------
(* Requests from the dashboard. *)

Begin(h, r) ==
    /\ running = "serving"
    /\ req[h] = Idle
    /\ req' = [req EXCEPT ![h] = r]
    /\ UNCHANGED <<tableVars, mainVars, matched, faults>>

Continue(h, r) ==
    /\ req' = [req EXCEPT ![h] = r]
    /\ UNCHANGED <<mainVars, matched, faults>>

\* POST: _conflict, then the insert.
AddRequest(h, b) == ~Listed(b.value) /\ Begin(h, Request("add", 0, b, <<>>))

Add(h) ==
    /\ req[h].pc = "add"
    /\ add_protected_endpoint(req[h].body)
    /\ Continue(h, Idle)

\* PUT: the entry exists; _conflict; the update.
EditRequest(h, i, b) == row[i] # NoRow /\ Begin(h, Request("conflict", i, b, <<>>))

CheckConflict(h) ==
    /\ req[h].pc = "conflict"
    /\ Continue(h, IF \E j \in Ids \ {req[h].id} : row[j].value = req[h].body.value
                     THEN Idle
                     ELSE [req[h] EXCEPT !.pc = "edit"])
    /\ UNCHANGED tableVars

Edit(h) ==
    /\ req[h].pc = "edit"
    /\ update_protected_endpoint(req[h].id, req[h].body)
    /\ Continue(h, Idle)

\* PATCH and DELETE are one transaction each.
SetActive(i, active) ==
    /\ running = "serving"
    /\ set_protected_endpoint_active(i, active)
    /\ UNCHANGED <<mainVars, req, matched, faults>>

Delete(i) ==
    /\ running = "serving"
    /\ delete_protected_endpoint(i)
    /\ UNCHANGED <<mainVars, req, matched, faults>>

ImportRequest(h, f) == Begin(h, Request("import", 0, NoRow, f))

\* Mistake: the rows of a file that are not active are passed over.
ImportActiveOnly(h) ==
    LET rest == req[h].rest
    IN  /\ req[h].pc = "import" /\ rest # <<>>
        /\ Continue(h, IF Head(rest).value = NoValue \/ ~Head(rest).active
                          \/ Listed(Head(rest).value)
                         THEN Request("import", 0, NoRow, Tail(rest))
                         ELSE Request("importAdd", 0, Head(rest), rest))
        /\ UNCHANGED tableVars

\* Look a row of the file up; invalid and existing ones are only counted.
ImportCheck(h) ==
    LET rest == req[h].rest
    IN  /\ req[h].pc = "import" /\ rest # <<>>
        /\ Continue(h, IF Head(rest).value = NoValue \/ Listed(Head(rest).value)
                         THEN Request("import", 0, NoRow, Tail(rest))
                         ELSE Request("importAdd", 0, Head(rest), rest))
        /\ UNCHANGED tableVars

ImportAdd(h) ==
    /\ req[h].pc = "importAdd"
    /\ add_protected_endpoint(req[h].body)
    /\ Continue(h, Request("import", 0, NoRow, Tail(req[h].rest)))

ImportDone(h) ==
    /\ req[h].pc = "import" /\ req[h].rest = <<>>
    /\ Continue(h, Idle)
    /\ UNCHANGED tableVars

\* A transaction raises (the database is locked, say): the request ends.
RequestFails(h) ==
    /\ req[h] # Idle
    /\ Continue(h, Idle)
    /\ UNCHANGED tableVars

Dashboard(h) ==
    \/ \E b \in Bodies : AddRequest(h, b) \/ \E i \in Ids : EditRequest(h, i, b)
    \/ \E f \in Files : ImportRequest(h, f)
    \/ Add(h) \/ CheckConflict(h) \/ Edit(h)
    \/ ImportCheck(h) \/ ImportAdd(h) \/ ImportDone(h)
    \/ RequestFails(h)

-------------------------------------------------------------------------------
(* classify_endpoint, of a thread that decides about an alert or blocks.       *)

\* match_endpoint reads the table; the entry may change or go before it is named
\* in the audit row.
match_endpoint(c, i) ==
    /\ running = "serving"
    /\ matched[c] = 0
    /\ row[i].active
    /\ matched' = [matched EXCEPT ![c] = i]
    /\ UNCHANGED <<tableVars, mainVars, req, faults>>

record_endpoint_audit(c) ==
    LET i == matched[c]
    IN  /\ i # 0
        /\ Cardinality(RowsOf("CLASSIFIED", i)) < MaxMatches
        /\ audit' = [audit EXCEPT ![i] = Append(@, Classified)]
        /\ matched' = [matched EXCEPT ![c] = 0]
        /\ UNCHANGED <<row, nextId, mainVars, req, faults>>

\* An audit row that cannot be written is given up.
AuditFails(c) ==
    /\ matched[c] # 0
    /\ matched' = [matched EXCEPT ![c] = 0]
    /\ UNCHANGED <<tableVars, mainVars, req, faults>>

Classify(c) ==
    \/ \E i \in Ids : match_endpoint(c, i)
    \/ record_endpoint_audit(c) \/ AuditFails(c)

-------------------------------------------------------------------------------
Next ==
    \/ Start \/ Migrate \/ finish_migration \/ Crash
    \/ \E h \in Handlers : Dashboard(h)
    \/ \E c \in Classifiers : Classify(c)
    \/ \E i \in Ids : Delete(i) \/ \E active \in BOOLEAN : SetActive(i, active)

Spec == Init /\ [][Next]_vars

-------------------------------------------------------------------------------
(* Properties. *)

UniqueValues ==
    \A i, j \in Ids : row[i] # NoRow /\ row[i].value = row[j].value => i = j

\* The type of every variable; the values of the table are unique.
TypeOK ==
    /\ row \in [Ids -> Row \cup {NoRow}]
    /\ UniqueValues
    /\ nextId \in 1 .. MaxId + 1
    /\ audit \in [Ids -> Seq(AuditRow)]
    /\ applied \in BOOLEAN
    /\ running \in {"stopped", "migrating", "serving"}
    /\ next \in 1 .. Len(Legacy) + 1
    /\ req \in [Handlers -> Requests]
    /\ matched \in [Classifiers -> Ids \cup {0}]
    /\ faults \in 0 .. MaxFaults

Follows(i, k, j) == j < k /\ \A l \in Changes(i) : ~(j < l /\ l < k)

\* Every entry can be reconstructed from the audit rows of its changes: the first
\* starts from no row, each later one from what the one before it left, and the
\* last one shows the entry as it is, or its deletion, whatever requests race and
\* however many classifications are recorded in between.  (_audit_conn in each
\* transaction that changes an entry.)
TrailExplainsRow ==
    \A i \in Ids :
        /\ Changes(i) = {} => row[i] = NoRow
        /\ \A k \in Changes(i) :
             /\ (\A l \in Changes(i) : k <= l) => audit[i][k].previous = NoRow
             /\ \A j \in Changes(i) :
                  Follows(i, k, j) => audit[i][k].previous = audit[i][j].current
             /\ (\A l \in Changes(i) : l <= k) => row[i] = audit[i][k].current

\* When the import of the legacy sources is recorded as done, each of their valid
\* values is in the table, also when crashes cut earlier attempts short; in the
\* category of its first source, unless an earlier version left a row for it.
MigrationIsComplete ==
    [][~applied /\ applied' =>
          \A k \in DOMAIN Legacy : Legacy[k].value # NoValue =>
             \E i \in Ids :
                /\ row[i].value = Legacy[k].value
                /\ \/ row[i] \in Old
                   \/ \E j \in 1 .. k : /\ Legacy[j] = [value    |-> row[i].value,
                                                        category |-> row[i].category]
                                        /\ \A n \in 1 .. j - 1 :
                                             Legacy[n].value # Legacy[j].value]_vars

\* What an administrator deletes or edits away stays out of the registry until a
\* request puts it back; no restart brings it back from the legacy sources.
\* (migration_applied, finish_migration.)
RemovedStaysRemoved ==
    [][\A v \in Values :
          /\ \E i \in Ids : \E k \in DOMAIN audit[i] :
               audit[i][k].previous.value = v /\ audit[i][k].current.value # v
          /\ ~Listed(v) /\ Listed(v)'
          => running = "serving"]_vars

\* An import goes on to the next row of its file only when the value of the row at
\* hand is in the table, whether its entry is active or not, or is invalid, although
\* other requests add and delete between its check and its insert.
\* (api_import_endpoints.)
ImportPassesOverNothing ==
    [][\A h \in Handlers :
          /\ req[h].pc \in {"import", "importAdd"} /\ req[h].rest # <<>>
          /\ req'[h].pc = "import" /\ req'[h].rest # req[h].rest
          => LET v == Head(req[h].rest).value
             IN  v = NoValue \/ \E i \in Ids : row'[i].value = v]_vars
===============================================================================
