------------------------ MODULE ProtectedEndpointsProofs ------------------------
(***************************************************************************)
(* Proofs about ProtectedEndpoints, for all files and legacy sources and   *)
(* any number of values, threads, ids, audit rows and crashes.             *)
(***************************************************************************)
EXTENDS ProtectedEndpoints, TLAPS

\* Ids not given out yet have no row.
FreshIds == \A i \in Ids : i >= nextId => row[i] = NoRow

Table ==
    /\ row \in [Ids -> Row \cup {NoRow}]
    /\ UniqueValues
    /\ nextId \in 1 .. MaxId + 1
    /\ audit \in [Ids -> Seq(AuditRow)]
    /\ TrailExplainsRow
    /\ FreshIds

\* The import runs before it is recorded, requests and classifications only
\* afterwards.
Control ==
    /\ applied \in BOOLEAN
    /\ running \in {"stopped", "migrating", "serving"}
    /\ next \in 1 .. Len(Legacy) + 1
    /\ faults \in 0 .. MaxFaults
    /\ running = "serving" => applied
    /\ running = "migrating" => ~applied
    /\ running # "serving" => \A h \in Handlers : req[h] = Idle
    /\ matched \in [Classifiers -> Ids \cup {0}]
    /\ running # "serving" => \A c \in Classifiers : matched[c] = 0

\* What a request's local variables mean at each of its locations.
WellFormed(q) ==
    /\ q \in Requests
    /\ q.pc \in {"add", "conflict", "edit", "importAdd"} => q.body \in Row
    /\ q.pc \in {"conflict", "edit"} => q.id \in Ids
    /\ q.pc = "importAdd" => q.rest # <<>> /\ q.body = Head(q.rest)

RequestsOK ==
    /\ req \in [Handlers -> Requests]
    /\ \A h \in Handlers : WellFormed(req[h])

FromSource(r) ==
    \/ r \in Old
    \/ \E j \in DOMAIN Legacy :
         /\ Legacy[j] = [value |-> r.value, category |-> r.category]
         /\ \A n \in 1 .. j - 1 : Legacy[n].value # Legacy[j].value

\* Until the import is recorded rows come from the sources alone, and none goes.
OnlySources ==
    ~applied =>
        \A i \in Ids :
            /\ row[i] # NoRow => FromSource(row[i])
            /\ \A k \in DOMAIN audit[i] : audit[i][k].previous = NoRow

\* The import has handled the values before the one at hand.
Progress ==
    running = "migrating" =>
        \A k \in 1 .. next - 1 : Legacy[k].value # NoValue => Listed(Legacy[k].value)

Inv == Table /\ Control /\ RequestsOK /\ OnlySources /\ Progress

-------------------------------------------------------------------------------
(* The transactions. *)

LEMMA ElementType ==
    ASSUME NEW S, NEW s \in Seq(S), NEW k \in 1 .. Len(s)
    PROVE  s[k] \in S
OBVIOUS

\* A row is no NoRow, since its value is valid.
LEMMA RowsAreRows == NoRow \notin Row /\ NoRow.value = NoValue /\ NoValue \notin Values
BY ProtectedEndpointsAssumption DEF Row, NoRow

\* What TrailExplainsRow says of the audit rows of one entry.
ChangesIn(s) == {k \in DOMAIN s : s[k].action = "CHANGED"}

Explains(s, r) ==
    /\ ChangesIn(s) = {} => r = NoRow
    /\ \A k \in ChangesIn(s) :
         /\ (\A l \in ChangesIn(s) : k <= l) => s[k].previous = NoRow
         /\ \A j \in ChangesIn(s) :
              j < k /\ (\A l \in ChangesIn(s) : ~(j < l /\ l < k))
              => s[k].previous = s[j].current
         /\ (\A l \in ChangesIn(s) : l <= k) => r = s[k].current

LEMMA TrailsExplain == TrailExplainsRow <=> \A i \in Ids : Explains(audit[i], row[i])
BY DEF TrailExplainsRow, Explains, ChangesIn, Changes, RowsOf, Follows

\* The rows of a longer trail.
LEMMA Longer ==
    ASSUME NEW s \in Seq(AuditRow), NEW a \in AuditRow
    PROVE  LET u == Append(s, a)
           IN  /\ u \in Seq(AuditRow)
               /\ Len(s) \in Nat
               /\ DOMAIN s = 1 .. Len(s)
               /\ DOMAIN u = 1 .. Len(s) + 1
               /\ u[Len(s) + 1] = a
               /\ \A k \in 1 .. Len(s) : u[k] = s[k]
OBVIOUS

\* A change appended to a trail explains the new row.
LEMMA ChangeAppended ==
    ASSUME NEW s \in Seq(AuditRow), NEW r \in Row \cup {NoRow},
           NEW new \in Row \cup {NoRow}, Explains(s, r)
    PROVE  /\ Changed(r, new) \in AuditRow
           /\ Explains(Append(s, Changed(r, new)), new)
<1> DEFINE a == Changed(r, new)
           u == Append(s, a)
           n == Len(s) + 1
<1>1. /\ a \in AuditRow
      /\ a.action = "CHANGED" /\ a.previous = r /\ a.current = new
  BY DEF AuditRow, Changed
<1> HIDE DEF a
<1>2. /\ Len(s) \in Nat /\ DOMAIN s = 1 .. Len(s)
      /\ DOMAIN u = 1 .. n /\ u[n] = a
      /\ \A k \in 1 .. Len(s) : u[k] = s[k]
  BY <1>1, Longer
<1> HIDE DEF u
<1>3. /\ ChangesIn(u) = ChangesIn(s) \cup {n}
      /\ \A k \in ChangesIn(s) : k \in 1 .. Len(s) /\ k < n /\ u[k] = s[k]
      /\ n \in Nat /\ \A k \in ChangesIn(s) : k \in Nat
  BY <1>1, <1>2 DEF ChangesIn
<1> HIDE DEF n
<1>4. ASSUME NEW k \in ChangesIn(u), \A l \in ChangesIn(u) : k <= l
      PROVE  u[k].previous = NoRow
  <2>1. CASE k = n
    <3>1. ASSUME NEW l \in ChangesIn(s) PROVE FALSE
      <4>1. l \in ChangesIn(u) /\ l \in Nat /\ l < n /\ n <= l
        BY <1>3, <1>4, <2>1
      <4> QED
        BY <4>1, <1>3
    <3> QED
      BY <1>1, <1>2, <2>1, <3>1 DEF Explains
  <2>2. CASE k \in ChangesIn(s)
    BY <1>3, <1>4, <2>2 DEF Explains
  <2> QED
    BY <1>3, <2>1, <2>2
<1>5. ASSUME NEW k \in ChangesIn(u), NEW j \in ChangesIn(u), j < k,
             \A l \in ChangesIn(u) : ~(j < l /\ l < k)
      PROVE  u[k].previous = u[j].current
  <2>1. j \in ChangesIn(s)
    BY <1>3, <1>5
  <2>2. CASE k = n
    <3>1. \A l \in ChangesIn(s) : l <= j
      BY <1>3, <1>5, <2>1, <2>2
    <3>2. r = s[j].current
      BY <2>1, <3>1 DEF Explains
    <3> QED
      BY <1>1, <1>2, <1>3, <2>1, <2>2, <3>2
  <2>3. CASE k \in ChangesIn(s)
    BY <1>3, <1>5, <2>1, <2>3 DEF Explains
  <2> QED
    BY <1>3, <2>2, <2>3
<1>6. ASSUME NEW k \in ChangesIn(u), \A l \in ChangesIn(u) : l <= k
      PROVE  new = u[k].current
  <2>1. k = n
    BY <1>3, <1>6
  <2> QED
    BY <1>1, <1>2, <2>1
<1>7. ChangesIn(u) # {}
  BY <1>3
<1>8. Explains(u, new)
  BY <1>4, <1>5, <1>6, <1>7 DEF Explains
<1> QED
  BY <1>1, <1>8 DEF a, u

\* Any other audit row leaves what a trail explains as it is.
LEMMA OtherAppended ==
    ASSUME NEW s \in Seq(AuditRow), NEW r, NEW a \in AuditRow,
           a.action # "CHANGED", Explains(s, r)
    PROVE  Explains(Append(s, a), r)
<1> DEFINE u == Append(s, a)
<1>1. /\ Len(s) \in Nat /\ DOMAIN s = 1 .. Len(s)
      /\ DOMAIN u = 1 .. Len(s) + 1 /\ u[Len(s) + 1] = a
      /\ \A k \in 1 .. Len(s) : u[k] = s[k]
  BY Longer
<1> HIDE DEF u
<1>2. ChangesIn(u) = ChangesIn(s) /\ \A k \in ChangesIn(s) : u[k] = s[k]
  BY <1>1 DEF ChangesIn
<1>3. Explains(u, r)
  BY <1>2 DEF Explains
<1> QED
  BY <1>3 DEF u

\* Writing a row and its audit row keeps the trail, and touches no other entry.
LEMMA WriteTrail ==
    ASSUME Table, NEW i \in Ids, NEW new \in Row \cup {NoRow}, Write(i, new)
    PROVE  /\ row' \in [Ids -> Row \cup {NoRow}]
           /\ audit' \in [Ids -> Seq(AuditRow)]
           /\ TrailExplainsRow'
           /\ row'[i] = new
           /\ audit'[i] = Append(audit[i], Changed(row[i], new))
           /\ \A j \in Ids \ {i} : row'[j] = row[j] /\ audit'[j] = audit[j]
<1> DEFINE a == Changed(row[i], new)
<1>1. /\ row[i] \in Row \cup {NoRow} /\ audit[i] \in Seq(AuditRow)
      /\ \A j \in Ids : Explains(audit[j], row[j])
  BY TrailsExplain DEF Table
<1>2. a \in AuditRow /\ Explains(Append(audit[i], a), new)
  BY <1>1, ChangeAppended
<1>3. /\ row' \in [Ids -> Row \cup {NoRow}]
      /\ row'[i] = new
      /\ \A j \in Ids \ {i} : row'[j] = row[j]
  BY DEF Table, Write
<1>4. audit' = [audit EXCEPT ![i] = Append(audit[i], a)]
  BY DEF Write
<1> HIDE DEF a
<1>5. Append(audit[i], a) \in Seq(AuditRow)
  BY <1>1, <1>2
<1>6. /\ audit' \in [Ids -> Seq(AuditRow)]
      /\ audit'[i] = Append(audit[i], a)
      /\ \A j \in Ids \ {i} : audit'[j] = audit[j]
  BY <1>4, <1>5 DEF Table
<1>7. \A j \in Ids : Explains(audit'[j], row'[j])
  BY <1>1, <1>2, <1>3, <1>6
<1>8. TrailExplainsRow'
  BY <1>7 DEF TrailExplainsRow, Explains, ChangesIn, Changes, RowsOf, Follows
<1> QED
  BY <1>3, <1>6, <1>8 DEF a

\* So does recording a classification.
LEMMA ClassifiedTable ==
    ASSUME Table, NEW i \in Ids, UNCHANGED <<row, nextId>>,
           audit' = [audit EXCEPT ![i] = Append(@, Classified)]
    PROVE  Table'
<1>1. /\ audit[i] \in Seq(AuditRow)
      /\ \A j \in Ids : Explains(audit[j], row[j])
  BY TrailsExplain DEF Table
<1>2. Classified \in AuditRow /\ Classified.action # "CHANGED"
  BY DEF Classified, AuditRow
<1>3. /\ Append(audit[i], Classified) \in Seq(AuditRow)
      /\ Explains(Append(audit[i], Classified), row[i])
  BY <1>1, <1>2, OtherAppended
<1>4. audit' \in [Ids -> Seq(AuditRow)]
  BY <1>3 DEF Table
<1>5. \A j \in Ids : Explains(audit'[j], row'[j])
  BY <1>1, <1>3 DEF Table
<1>6. TrailExplainsRow'
  BY <1>5 DEF TrailExplainsRow, Explains, ChangesIn, Changes, RowsOf, Follows
<1> QED
  BY <1>4, <1>6 DEF Table, UniqueValues, FreshIds

\* Adding a row: its value is listed afterwards, and no other row is touched.
LEMMA AddTable ==
    ASSUME Table, NEW r \in Row, add_protected_endpoint(r)
    PROVE  /\ Table'
           /\ \E i \in Ids : row'[i].value = r.value
           /\ \A i \in Ids : row'[i] # row[i] =>
                row[i] = NoRow /\ row'[i] = r /\ ~Listed(r.value)
           /\ \A i \in Ids : audit'[i] # audit[i] =>
                audit'[i] = Append(audit[i], Changed(NoRow, r))
<1>1. CASE Listed(r.value)
  <2>1. UNCHANGED tableVars
    BY <1>1 DEF add_protected_endpoint
  <2> QED
    BY <1>1, <2>1 DEF tableVars, Table, UniqueValues, TrailExplainsRow, Changes, RowsOf, Follows,
             FreshIds, Listed
<1>2. CASE ~Listed(r.value)
  <2>1. /\ nextId <= MaxId
        /\ Write(nextId, r)
        /\ nextId' = nextId + 1
    BY <1>2 DEF add_protected_endpoint
  <2>2. nextId \in Ids /\ MaxId \in Nat
    BY <2>1, ProtectedEndpointsAssumption DEF Table, Ids
  <2>3. row[nextId] = NoRow
    BY <2>2 DEF Table, FreshIds, Ids
  <2>4. /\ row' \in [Ids -> Row \cup {NoRow}]
        /\ audit' \in [Ids -> Seq(AuditRow)]
        /\ TrailExplainsRow'
        /\ row'[nextId] = r
        /\ audit'[nextId] = Append(audit[nextId], Changed(NoRow, r))
        /\ \A j \in Ids \ {nextId} : row'[j] = row[j] /\ audit'[j] = audit[j]
    BY <2>1, <2>2, <2>3, WriteTrail
  <2>5. UniqueValues'
    BY <1>2, <2>2, <2>4 DEF Table, UniqueValues, Listed
  <2>6. FreshIds' /\ nextId' \in 1 .. MaxId + 1
    BY <2>1, <2>2, <2>4 DEF Table, FreshIds, Ids
  <2> QED
    BY <1>2, <2>2, <2>3, <2>4, <2>5, <2>6 DEF Table
<1> QED
  BY <1>1, <1>2

\* The other transactions keep the table and its trails.
LEMMA UpdateTable ==
    ASSUME Table, NEW i \in Ids, NEW r \in Row, update_protected_endpoint(i, r)
    PROVE  Table'
<1>1. CASE row[i] = NoRow \/ \E j \in Ids \ {i} : row[j].value = r.value
  <2>1. UNCHANGED <<row, audit, nextId>>
    BY <1>1 DEF update_protected_endpoint
  <2> QED
    BY <2>1 DEF Table, UniqueValues, TrailExplainsRow, Changes, RowsOf, Follows, FreshIds
<1>2. CASE ~(row[i] = NoRow \/ \E j \in Ids \ {i} : row[j].value = r.value)
  <2>1. Write(i, r) /\ nextId' = nextId
    BY <1>2 DEF update_protected_endpoint
  <2>2. /\ row' \in [Ids -> Row \cup {NoRow}]
        /\ audit' \in [Ids -> Seq(AuditRow)]
        /\ TrailExplainsRow'
        /\ row'[i] = r
        /\ \A j \in Ids \ {i} : row'[j] = row[j]
    BY <2>1, WriteTrail
  <2>3. UniqueValues'
    BY <1>2, <2>2 DEF Table, UniqueValues
  <2>4. FreshIds'
    BY <1>2, <2>1, <2>2 DEF Table, FreshIds
  <2> QED
    BY <2>1, <2>2, <2>3, <2>4 DEF Table
<1> QED
  BY <1>1, <1>2

LEMMA ActiveTable ==
    ASSUME Table, NEW i \in Ids, NEW active \in BOOLEAN,
           set_protected_endpoint_active(i, active)
    PROVE  Table'
<1> DEFINE new == [row[i] EXCEPT !.active = active]
<1>1. row[i] \in Row /\ Write(i, new) /\ nextId' = nextId
  BY DEF set_protected_endpoint_active, Table
<1>2. new \in Row /\ new.value = row[i].value
  BY <1>1 DEF Row
<1>3. /\ row' \in [Ids -> Row \cup {NoRow}]
      /\ audit' \in [Ids -> Seq(AuditRow)]
      /\ TrailExplainsRow'
      /\ row'[i] = new
      /\ \A j \in Ids \ {i} : row'[j] = row[j]
  BY <1>1, <1>2, WriteTrail
<1>4. UniqueValues'
  <2>1. row[i] # NoRow /\ \A j \in Ids : row'[j].value = row[j].value
    BY <1>1, <1>2, <1>3, RowsAreRows
  <2>2. \A j \in Ids : row'[j] # NoRow => row[j] # NoRow
    BY <1>3, <2>1
  <2> QED
    BY <2>1, <2>2 DEF Table, UniqueValues
<1>5. FreshIds'
  BY <1>1, <1>3, RowsAreRows DEF Table, FreshIds
<1> QED
  BY <1>1, <1>3, <1>4, <1>5 DEF Table

LEMMA DeleteTable ==
    ASSUME Table, NEW i \in Ids, delete_protected_endpoint(i)
    PROVE  Table'
<1>1. Write(i, NoRow) /\ nextId' = nextId
  BY DEF delete_protected_endpoint
<1>2. /\ row' \in [Ids -> Row \cup {NoRow}]
      /\ audit' \in [Ids -> Seq(AuditRow)]
      /\ TrailExplainsRow'
      /\ row'[i] = NoRow
      /\ \A j \in Ids \ {i} : row'[j] = row[j]
  BY <1>1, WriteTrail
<1>3. UniqueValues'
  <2> SUFFICES ASSUME NEW j \in Ids, NEW k \in Ids,
                      row'[j] # NoRow, row'[j].value = row'[k].value
               PROVE  j = k
    BY DEF UniqueValues
  <2>1. j # i /\ row'[j] = row[j] /\ row[j] \in Row
    BY <1>2 DEF Table
  <2>2. row[j].value \in Values
    BY <2>1 DEF Row
  <2>3. k # i
    BY <1>2, <2>1, <2>2, RowsAreRows
  <2> QED
    BY <1>2, <2>1, <2>3 DEF Table, UniqueValues
<1>4. FreshIds'
  BY <1>1, <1>2 DEF Table, FreshIds
<1> QED
  BY <1>1, <1>2, <1>3, <1>4 DEF Table

-------------------------------------------------------------------------------
(* The initial state, and the steps. *)

LEMMA IdleOK == WellFormed(Idle)
BY DEF WellFormed, Idle, Request, Requests

LEMMA InitInv == Init => Inv
<1> SUFFICES ASSUME Init PROVE Inv
  OBVIOUS
<1>1. PICK r \in Old \cup {NoRow} :
        /\ row = [i \in Ids |-> IF i = 1 THEN r ELSE NoRow]
        /\ nextId = IF r = NoRow THEN 1 ELSE 2
        /\ audit = [i \in Ids |-> IF i = 1 /\ r # NoRow
                                    THEN <<Changed(NoRow, r)>>
                                    ELSE <<>>]
  BY DEF Init
<1>2. MaxId \in Nat \ {0} /\ MaxFaults \in Nat /\ r \in Row \cup {NoRow}
  BY ProtectedEndpointsAssumption
<1>3. Changed(NoRow, r) \in AuditRow
  BY <1>2 DEF AuditRow, Changed
<1>4. audit \in [Ids -> Seq(AuditRow)]
  BY <1>1, <1>3
<1>5. TrailExplainsRow
  <2>1. Explains(<<>>, NoRow)
    BY DEF Explains, ChangesIn
  <2>2. r # NoRow => Explains(<<Changed(NoRow, r)>>, r)
    BY DEF Explains, ChangesIn, Changed
  <2>3. \A i \in Ids : Explains(audit[i], row[i])
    BY <1>1, <2>1, <2>2
  <2> QED
    BY <2>3, TrailsExplain
<1>6. UniqueValues
  <2>1. r # NoRow => r.value # NoRow.value
    BY <1>2, RowsAreRows DEF Row
  <2> QED
    BY <1>1, <2>1 DEF UniqueValues
<1>7. Table
  BY <1>1, <1>2, <1>4, <1>5, <1>6 DEF Table, FreshIds, Ids
<1>8. Len(Legacy) \in Nat
  BY ProtectedEndpointsAssumption
<1>9. Control
  <2>1. /\ applied = FALSE /\ running = "stopped" /\ next = 1 /\ faults = 0
        /\ \A h \in Handlers : req[h] = Idle
        /\ matched = [c \in Classifiers |-> 0]
    BY DEF Init
  <2>2. 1 \in 1 .. Len(Legacy) + 1 /\ 0 \in 0 .. MaxFaults
    BY <1>2, <1>8
  <2> QED
    BY <2>1, <2>2 DEF Control
<1>10. RequestsOK
  BY IdleOK DEF Init, RequestsOK, WellFormed
<1>11. OnlySources
  BY <1>1 DEF OnlySources, FromSource, Changed
<1>12. Progress
  BY DEF Init, Progress
<1> QED
  BY <1>7, <1>9, <1>10, <1>11, <1>12 DEF Inv

\* A step of a request keeps the invariant when it keeps the table.
LEMMA RequestInv ==
    ASSUME Inv, running = "serving", NEW h \in Handlers, NEW q, WellFormed(q),
           Table', req' = [req EXCEPT ![h] = q], UNCHANGED <<mainVars, matched, faults>>
    PROVE  Inv'
<1>1. Control'
  BY DEF Inv, Control, mainVars
<1>2. q \in Requests
  BY DEF WellFormed
<1>3. RequestsOK'
  BY <1>2 DEF Inv, RequestsOK, WellFormed
<1>4. OnlySources'
  BY DEF Inv, Control, OnlySources, mainVars
<1>5. Progress'
  BY DEF Inv, Control, Progress, mainVars
<1> QED
  BY <1>1, <1>3, <1>4, <1>5 DEF Inv

LEMMA SameTable == Table /\ UNCHANGED tableVars => Table'
BY DEF tableVars, Table, UniqueValues, TrailExplainsRow, Changes, RowsOf, Follows, FreshIds

\* A row of a file that is valid is a row of the table.
LEMMA ValidRow ==
    ASSUME NEW r \in FileRow, r.value # NoValue
    PROVE  r \in Row
BY DEF FileRow, Row

LEMMA DashboardInv ==
    ASSUME Inv, NEW h \in Handlers, Dashboard(h)
    PROVE  Inv'
<1>1. WellFormed(req[h]) /\ req[h] \in Requests
  BY DEF Inv, RequestsOK
<1>2. Table
  BY DEF Inv
<1>3. req[h] # Idle => running = "serving"
  BY DEF Inv, Control
<1>4. Idle.pc = "idle"
  BY DEF Idle, Request
<1>5. ASSUME NEW b \in Bodies, AddRequest(h, b) PROVE Inv'
  <2>1. b \in Row /\ b \in FileRow
    BY ProtectedEndpointsAssumption DEF Row, FileRow
  <2>2. WellFormed(Request("add", 0, b, <<>>))
    BY <2>1 DEF WellFormed, Request, Requests
  <2> QED
    BY <1>2, <1>5, <2>2, RequestInv, SameTable DEF AddRequest, Begin
<1>6. ASSUME NEW b \in Bodies, NEW i \in Ids, EditRequest(h, i, b) PROVE Inv'
  <2>1. b \in Row /\ b \in FileRow
    BY ProtectedEndpointsAssumption DEF Row, FileRow
  <2>2. WellFormed(Request("conflict", i, b, <<>>))
    BY <2>1 DEF WellFormed, Request, Requests
  <2> QED
    BY <1>2, <1>6, <2>2, RequestInv, SameTable DEF EditRequest, Begin
<1>7. ASSUME NEW f \in Files, ImportRequest(h, f) PROVE Inv'
  <2>1. f \in Seq(FileRow)
    BY ProtectedEndpointsAssumption
  <2>2. WellFormed(Request("import", 0, NoRow, f))
    BY <2>1 DEF WellFormed, Request, Requests
  <2> QED
    BY <1>2, <1>7, <2>2, RequestInv, SameTable DEF ImportRequest, Begin
<1>8. CASE Add(h)
  <2>1. Table'
    BY <1>1, <1>2, <1>8, AddTable DEF Add, WellFormed
  <2> QED
    BY <1>3, <1>4, <1>8, <2>1, IdleOK, RequestInv DEF Add, Continue
<1>9. CASE CheckConflict(h)
  <2>1. WellFormed([req[h] EXCEPT !.pc = "edit"])
    BY <1>1, <1>9 DEF CheckConflict, WellFormed, Requests
  <2> QED
    BY <1>2, <1>3, <1>4, <1>9, <2>1, IdleOK, RequestInv, SameTable
       DEF CheckConflict, Continue
<1>10. CASE Edit(h)
  <2>1. Table'
    BY <1>1, <1>2, <1>10, UpdateTable DEF Edit, WellFormed
  <2> QED
    BY <1>3, <1>4, <1>10, <2>1, IdleOK, RequestInv DEF Edit, Continue
<1>11. CASE ImportCheck(h)
  <2> DEFINE rest == req[h].rest
  <2>1. rest \in Seq(FileRow) /\ rest # <<>>
    BY <1>1, <1>11 DEF ImportCheck, Requests
  <2>2. Head(rest) \in FileRow /\ Tail(rest) \in Seq(FileRow)
    BY <2>1
  <2>3. WellFormed(Request("import", 0, NoRow, Tail(rest)))
    BY <2>2 DEF WellFormed, Request, Requests
  <2>4. Head(rest).value # NoValue => Head(rest) \in Row
    BY <2>2, ValidRow
  <2>5. Head(rest).value # NoValue => WellFormed(Request("importAdd", 0, Head(rest), rest))
    BY <2>1, <2>2, <2>4 DEF WellFormed, Request, Requests
  <2> QED
    BY <1>2, <1>3, <1>4, <1>11, <2>3, <2>5, RequestInv, SameTable
       DEF ImportCheck, Continue
<1>12. CASE ImportAdd(h)
  <2> DEFINE rest == req[h].rest
  <2>1. rest \in Seq(FileRow) /\ rest # <<>> /\ req[h].body \in Row
    BY <1>1, <1>12 DEF ImportAdd, WellFormed, Requests
  <2>2. WellFormed(Request("import", 0, NoRow, Tail(rest)))
    BY <2>1 DEF WellFormed, Request, Requests
  <2>3. Table'
    BY <1>2, <1>12, <2>1, AddTable DEF ImportAdd
  <2> QED
    BY <1>3, <1>4, <1>12, <2>2, <2>3, RequestInv DEF ImportAdd, Continue
<1>13. CASE ImportDone(h) \/ RequestFails(h)
  BY <1>2, <1>3, <1>4, <1>13, IdleOK, RequestInv, SameTable
     DEF ImportDone, RequestFails, Continue
<1> QED
  BY <1>5, <1>6, <1>7, <1>8, <1>9, <1>10, <1>11, <1>12, <1>13 DEF Dashboard

\* PATCH and DELETE change the table alone, and only while the process serves.
LEMMA TableInv ==
    ASSUME Inv, running = "serving", Table', UNCHANGED <<mainVars, req, matched, faults>>
    PROVE  Inv'
BY DEF Inv, Control, RequestsOK, OnlySources, Progress, mainVars

LEMMA MigrateInv ==
    ASSUME Inv, Migrate
    PROVE  Inv'
<1> DEFINE v == Legacy[next].value
           r == [value |-> v, active |-> TRUE, category |-> Legacy[next].category]
<1>1. /\ running = "migrating" /\ ~applied /\ Table
      /\ Len(Legacy) \in Nat /\ next \in 1 .. Len(Legacy)
      /\ DOMAIN Legacy = 1 .. Len(Legacy)
      /\ \A k \in DOMAIN Legacy :
           Legacy[k] \in [value : Values \cup {NoValue}, category : Categories]
  <2>1. running = "migrating" /\ next <= Len(Legacy)
    BY DEF Migrate
  <2>2. ~applied /\ Table /\ next \in 1 .. Len(Legacy) + 1
    BY <2>1 DEF Inv, Control
  <2>3. Legacy \in Seq([value : Values \cup {NoValue}, category : Categories])
    BY ProtectedEndpointsAssumption
  <2>4. Len(Legacy) \in Nat /\ DOMAIN Legacy = 1 .. Len(Legacy)
    BY <2>3
  <2>5. \A k \in DOMAIN Legacy :
           Legacy[k] \in [value : Values \cup {NoValue}, category : Categories]
    BY <2>3, <2>4, ElementType
  <2>6. next \in 1 .. Len(Legacy)
    BY <2>1, <2>2, <2>4
  <2> QED
    BY <2>1, <2>2, <2>4, <2>5, <2>6
<1>2. next' = next + 1 /\ UNCHANGED <<applied, running, req, matched, faults>>
  BY DEF Migrate
<1>3. Control' /\ RequestsOK'
  BY <1>1, <1>2 DEF Inv, Control, RequestsOK, WellFormed
<1>4. CASE v = NoValue \/ Listed(v)
  <2>1. UNCHANGED tableVars
    BY <1>4 DEF Migrate
  <2>2. Table'
    BY <1>1, <2>1, SameTable
  <2>3. OnlySources'
    BY <1>2, <2>1 DEF Inv, OnlySources, tableVars
  <2>4. Progress'
    <3> SUFFICES ASSUME NEW k \in 1 .. next, Legacy[k].value # NoValue
                 PROVE  Listed(Legacy[k].value)
      BY <1>1, <1>2, <2>1 DEF Progress, Listed, tableVars
    <3>1. CASE k = next
      BY <1>4, <3>1
    <3>2. CASE k \in 1 .. next - 1
      BY <1>1, <3>2 DEF Inv, Progress
    <3> QED
      BY <1>1, <3>1, <3>2
  <2> QED
    BY <1>3, <2>2, <2>3, <2>4 DEF Inv
<1>5. CASE ~(v = NoValue \/ Listed(v))
  <2>1. add_protected_endpoint(r)
    BY <1>5 DEF Migrate
  <2>2. v \in Values /\ r \in Row
    BY <1>1, <1>5 DEF Row
  <2>3. /\ Table'
        /\ \E i \in Ids : row'[i].value = v
        /\ \A i \in Ids : row'[i] # row[i] => row[i] = NoRow /\ row'[i] = r
        /\ \A i \in Ids : audit'[i] # audit[i] =>
             audit'[i] = Append(audit[i], Changed(NoRow, r))
    BY <1>1, <2>1, <2>2, AddTable
  <2>4. \A k \in 1 .. next - 1 : Legacy[k].value # v
    BY <1>5, <1>1 DEF Inv, Progress
  <2>5. FromSource(r)
    BY <1>1, <2>4 DEF FromSource
  <2>6. OnlySources'
    <3> SUFFICES ASSUME NEW i \in Ids
                 PROVE  /\ row'[i] # NoRow => FromSource(row'[i])
                        /\ \A k \in DOMAIN audit'[i] : audit'[i][k].previous = NoRow
      BY DEF OnlySources, FromSource
    <3>1. row'[i] # NoRow => FromSource(row'[i])
      BY <1>1, <2>3, <2>5 DEF Inv, OnlySources
    <3>2. \A k \in DOMAIN audit[i] : audit[i][k].previous = NoRow
      BY <1>1 DEF Inv, OnlySources
    <3>3. audit[i] \in Seq(AuditRow) /\ audit'[i] \in Seq(AuditRow)
      BY <1>1, <2>3 DEF Table
    <3>4. CASE audit'[i] = audit[i]
      BY <3>1, <3>2, <3>4
    <3>5. CASE audit'[i] = Append(audit[i], Changed(NoRow, r))
      <4>1. r \in Row \cup {NoRow} /\ Changed(NoRow, r) \in AuditRow
        BY <2>2 DEF AuditRow, Changed
      <4> QED
        BY <3>1, <3>2, <3>3, <3>5, <4>1 DEF Changed
    <3> QED
      BY <2>3, <3>4, <3>5
  <2>7. Progress'
    <3> SUFFICES ASSUME NEW k \in 1 .. next, Legacy[k].value # NoValue
                 PROVE  \E i \in Ids : row'[i].value = Legacy[k].value
      BY <1>1, <1>2 DEF Progress, Listed
    <3>1. CASE k = next
      BY <2>3, <3>1
    <3>2. CASE k \in 1 .. next - 1
      <4>1. PICK i \in Ids : row[i].value = Legacy[k].value
        BY <1>1, <3>2 DEF Inv, Progress, Listed
      <4>2. row[i] # NoRow
        BY <4>1, RowsAreRows
      <4> QED
        BY <2>3, <4>1, <4>2
    <3> QED
      BY <1>1, <3>1, <3>2
  <2> QED
    BY <1>3, <2>3, <2>6, <2>7 DEF Inv
<1> QED
  BY <1>4, <1>5

\* A classification changes the trail of the entry it matched, and only while the
\* process serves.
LEMMA ClassifyInv ==
    ASSUME Inv, NEW c \in Classifiers, Classify(c)
    PROVE  Inv'
<1>1. /\ Table /\ matched \in [Classifiers -> Ids \cup {0}]
      /\ matched[c] # 0 => running = "serving"
  BY DEF Inv, Control
<1>2. running = "serving" /\ UNCHANGED <<mainVars, req, faults>>
  BY <1>1 DEF Classify, match_endpoint, record_endpoint_audit, AuditFails
<1>3. Table'
  <2>1. CASE record_endpoint_audit(c)
    <3>1. matched[c] \in Ids
      BY <1>1, <2>1 DEF record_endpoint_audit
    <3> QED
      BY <1>1, <2>1, <3>1, ClassifiedTable DEF record_endpoint_audit
  <2>2. CASE ~record_endpoint_audit(c)
    BY <1>1, <2>2, SameTable DEF Classify, match_endpoint, AuditFails
  <2> QED
    BY <2>1, <2>2
<1>4. matched' \in [Classifiers -> Ids \cup {0}]
  BY <1>1 DEF Classify, match_endpoint, record_endpoint_audit, AuditFails
<1> QED
  BY <1>2, <1>3, <1>4 DEF Inv, Control, RequestsOK, OnlySources, Progress, mainVars

LEMMA NextInv == Inv /\ [Next]_vars => Inv'
<1> SUFFICES ASSUME Inv, [Next]_vars PROVE Inv'
  OBVIOUS
<1> USE DEF mainVars, tableVars
<1>1. Len(Legacy) \in Nat /\ MaxFaults \in Nat
  BY ProtectedEndpointsAssumption
<1>2. CASE Start
  <2>1. Table'
    BY <1>2, SameTable DEF Start, Inv
  <2>2. Control' /\ RequestsOK' /\ OnlySources'
    BY <1>1, <1>2 DEF Start, Inv, Control, RequestsOK, OnlySources
  <2>3. Progress'
    BY <1>2 DEF Start, Progress
  <2> QED
    BY <2>1, <2>2, <2>3 DEF Inv
<1>3. CASE Migrate
  BY <1>3, MigrateInv
<1>4. CASE finish_migration
  <2>1. Table'
    BY <1>4, SameTable DEF finish_migration, Inv
  <2>2. Control' /\ RequestsOK'
    BY <1>4 DEF finish_migration, Inv, Control, RequestsOK
  <2>3. OnlySources' /\ Progress'
    BY <1>4 DEF finish_migration, OnlySources, Progress
  <2> QED
    BY <2>1, <2>2, <2>3 DEF Inv
<1>5. CASE Crash
  <2>1. Table'
    BY <1>5, SameTable DEF Crash, Inv
  <2>2. Control' /\ OnlySources' /\ Progress'
    BY <1>1, <1>5 DEF Crash, Inv, Control, OnlySources, Progress
  <2>3. RequestsOK'
    <3>1. Idle \in Requests
      BY IdleOK DEF WellFormed
    <3> QED
      BY <1>5, <3>1, IdleOK DEF Crash, RequestsOK, WellFormed
  <2> QED
    BY <2>1, <2>2, <2>3 DEF Inv
<1>6. ASSUME NEW h \in Handlers, Dashboard(h) PROVE Inv'
  BY <1>6, DashboardInv
<1>7. ASSUME NEW i \in Ids, Delete(i) PROVE Inv'
  BY <1>7, DeleteTable, TableInv DEF Delete, Inv
<1>8. ASSUME NEW i \in Ids, NEW active \in BOOLEAN, SetActive(i, active) PROVE Inv'
  BY <1>8, ActiveTable, TableInv DEF SetActive, Inv
<1>9. CASE UNCHANGED vars
  <2>1. Table'
    BY <1>9, SameTable DEF vars, Inv
  <2> QED
    BY <1>9, <2>1 DEF vars, Inv, Control, RequestsOK, OnlySources, Progress, Listed
<1>10. ASSUME NEW c \in Classifiers, Classify(c) PROVE Inv'
  BY <1>10, ClassifyInv
<1> QED
  BY <1>2, <1>3, <1>4, <1>5, <1>6, <1>7, <1>8, <1>9, <1>10 DEF Next

LEMMA Always == Spec => []Inv
BY InitInv, NextInv, PTL DEF Spec

-------------------------------------------------------------------------------
(* What a single step may do. *)

\* The import adds what the table lacks; everything else adds while it serves.
LEMMA NewValues ==
    ASSUME Inv, [Next]_vars, NEW v \in Values, ~Listed(v), Listed(v)'
    PROVE  running = "serving" \/ ~applied
<1> USE DEF mainVars, tableVars
<1>1. ~UNCHANGED row
  BY DEF Listed
<1>2. CASE Start \/ finish_migration \/ Crash \/ UNCHANGED vars
  BY <1>1, <1>2 DEF Start, finish_migration, Crash, vars
<1>3. CASE Migrate
  BY <1>3 DEF Migrate, Inv, Control
<1>4. ASSUME NEW h \in Handlers, Dashboard(h) PROVE running = "serving"
  <2>1. req[h] # Idle => running = "serving"
    BY DEF Inv, Control
  <2>2. Idle.pc = "idle"
    BY DEF Idle, Request
  <2> QED
    BY <1>4, <2>1, <2>2
       DEF Dashboard, AddRequest, EditRequest, ImportRequest, Begin, Add, CheckConflict,
           Edit, ImportCheck, ImportAdd, ImportDone, RequestFails
<1>5. ASSUME NEW i \in Ids, Delete(i) PROVE running = "serving"
  BY <1>5 DEF Delete
<1>6. ASSUME NEW i \in Ids, NEW active \in BOOLEAN, SetActive(i, active)
      PROVE  running = "serving"
  BY <1>6 DEF SetActive
<1>7. ASSUME NEW c \in Classifiers, Classify(c) PROVE FALSE
  BY <1>1, <1>7 DEF Classify, match_endpoint, record_endpoint_audit, AuditFails
<1> QED
  BY <1>2, <1>3, <1>4, <1>5, <1>6, <1>7 DEF Next

\* Once the import is recorded a value comes back through a request alone.
LEMMA RemovedStep ==
    ASSUME Inv, [Next]_vars, NEW v \in Values,
           NEW i \in Ids, NEW k \in DOMAIN audit[i], audit[i][k].previous.value = v,
           ~Listed(v), Listed(v)'
    PROVE  running = "serving"
<1>1. audit[i][k].previous # NoRow
  BY RowsAreRows
<1>2. applied
  BY <1>1 DEF Inv, Control, OnlySources
<1> QED
  BY <1>2, NewValues

\* The step that records the import finds every source's value in the table.
LEMMA MigrationStep ==
    ASSUME Inv, [Next]_vars, ~applied, applied',
           NEW k \in DOMAIN Legacy, Legacy[k].value # NoValue
    PROVE  \E i \in Ids :
              /\ row[i].value = Legacy[k].value
              /\ \/ row[i] \in Old
                 \/ \E j \in 1 .. k : /\ Legacy[j] = [value    |-> row[i].value,
                                                      category |-> row[i].category]
                                      /\ \A n \in 1 .. j - 1 :
                                           Legacy[n].value # Legacy[j].value
<1>1. finish_migration
  <2> USE DEF mainVars
  <2>1. ASSUME NEW h \in Handlers, Dashboard(h) PROVE UNCHANGED applied
    BY <2>1 DEF Dashboard, AddRequest, EditRequest, ImportRequest, Begin, Add,
           CheckConflict, Edit, ImportCheck, ImportAdd, ImportDone, RequestFails, Continue
  <2>2. ASSUME NEW c \in Classifiers, Classify(c) PROVE UNCHANGED applied
    BY <2>2 DEF Classify, match_endpoint, record_endpoint_audit, AuditFails
  <2> QED
    BY <2>1, <2>2 DEF Next, Start, Migrate, Crash, Delete, SetActive, vars
<1>2. /\ Legacy \in Seq([value : Values \cup {NoValue}, category : Categories])
      /\ Len(Legacy) \in Nat /\ DOMAIN Legacy = 1 .. Len(Legacy)
  BY ProtectedEndpointsAssumption
<1>3. running = "migrating" /\ next \in 1 .. Len(Legacy) + 1 /\ next > Len(Legacy)
  BY <1>1 DEF finish_migration, Inv, Control
<1>4. k \in 1 .. next - 1
  BY <1>2, <1>3
<1>5. PICK i \in Ids : row[i].value = Legacy[k].value
  BY <1>3, <1>4 DEF Inv, Progress, Listed
<1>6. row[i] # NoRow
  BY <1>5, RowsAreRows
<1>7. FromSource(row[i])
  BY <1>6 DEF Inv, OnlySources
<1>8. CASE row[i] \in Old
  BY <1>5, <1>8
<1>9. ASSUME NEW j \in DOMAIN Legacy,
             Legacy[j] = [value |-> row[i].value, category |-> row[i].category],
             \A n \in 1 .. j - 1 : Legacy[n].value # row[i].value
      PROVE  \E m \in 1 .. k : /\ Legacy[m] = [value    |-> row[i].value,
                                              category |-> row[i].category]
                              /\ \A n \in 1 .. m - 1 :
                                   Legacy[n].value # Legacy[m].value
  <2>1. Legacy[j].value = row[i].value
    BY <1>9
  <2>2. j \in 1 .. k
    BY <1>2, <1>5, <1>9
  <2> QED
    BY <1>9, <2>1, <2>2
<1>10. CASE row[i] \notin Old
  BY <1>5, <1>7, <1>9, <1>10 DEF FromSource
<1> QED
  BY <1>8, <1>10

\* An import passes a row only when its value is listed, or is invalid.
LEMMA ImportStep ==
    ASSUME Inv, [Next]_vars, NEW h \in Handlers,
           req[h].pc \in {"import", "importAdd"}, req[h].rest # <<>>,
           req'[h].pc = "import", req'[h].rest # req[h].rest
    PROVE  \/ Head(req[h].rest).value = NoValue
           \/ \E i \in Ids : row'[i].value = Head(req[h].rest).value
<1> DEFINE Goal == \/ Head(req[h].rest).value = NoValue
                   \/ \E i \in Ids : row'[i].value = Head(req[h].rest).value
<1>1. /\ Table /\ req \in [Handlers -> Requests] /\ WellFormed(req[h])
      /\ Idle.pc = "idle" /\ req[h] # Idle
  BY DEF Inv, RequestsOK, Idle, Request
<1>2. ASSUME UNCHANGED req PROVE FALSE
  BY <1>2
<1>3. ASSUME NEW g \in Handlers, Dashboard(g) PROVE Goal
  <2>1. CASE g = h
    <3>1. ASSUME req' = [req EXCEPT ![h] = Idle] PROVE FALSE
      BY <1>1, <3>1
    <3>2. ASSUME NEW q, Begin(h, q) PROVE FALSE
      BY <1>1, <3>2 DEF Begin
    <3>3. CASE CheckConflict(h) \/ Add(h) \/ Edit(h) \/ ImportDone(h) \/ RequestFails(h)
      BY <3>1, <3>3 DEF CheckConflict, Add, Edit, ImportDone, RequestFails, Continue
    <3>4. CASE ImportCheck(h)
      <4>1. Request("importAdd", 0, Head(req[h].rest), req[h].rest).rest = req[h].rest
        BY DEF Request
      <4>2. Head(req[h].rest).value = NoValue \/ Listed(Head(req[h].rest).value)
        BY <1>1, <3>4, <4>1 DEF ImportCheck, Continue
      <4> QED
        BY <3>4, <4>2 DEF ImportCheck, tableVars, Listed
    <3>5. CASE ImportAdd(h)
      <4>1. req[h].body \in Row /\ req[h].body = Head(req[h].rest)
        BY <1>1, <3>5 DEF ImportAdd, WellFormed
      <4> QED
        BY <1>1, <3>5, <4>1, AddTable DEF ImportAdd
    <3> QED
      BY <1>3, <2>1, <3>2, <3>3, <3>4, <3>5
         DEF Dashboard, AddRequest, EditRequest, ImportRequest
  <2>2. CASE g # h
    <3>1. req'[h] = req[h]
      BY <1>1, <1>3, <2>2
         DEF Dashboard, AddRequest, EditRequest, ImportRequest, Begin, Add, CheckConflict,
             Edit, ImportCheck, ImportAdd, ImportDone, RequestFails, Continue
    <3> QED
      BY <3>1
  <2> QED
    BY <2>1, <2>2
<1>4. ASSUME Crash PROVE FALSE
  BY <1>1, <1>4 DEF Crash
<1>5. CASE Start \/ Migrate \/ finish_migration \/ UNCHANGED vars
  BY <1>2, <1>5 DEF Start, Migrate, finish_migration, vars
<1>6. ASSUME NEW i \in Ids, Delete(i) \/ \E active \in BOOLEAN : SetActive(i, active)
      PROVE  FALSE
  BY <1>2, <1>6 DEF Delete, SetActive
<1>7. ASSUME NEW c \in Classifiers, Classify(c) PROVE FALSE
  BY <1>2, <1>7 DEF Classify, match_endpoint, record_endpoint_audit, AuditFails
<1> QED
  BY <1>3, <1>4, <1>5, <1>6, <1>7 DEF Next

-------------------------------------------------------------------------------
(* The theorems. *)

\* Whatever requests race, every variable keeps its type and no two entries have the
\* same value.  (database.py, allowed_ips.py.)
THEOREM TypeCorrect == Spec => []TypeOK
<1>1. Inv => TypeOK
  BY DEF Inv, Table, Control, RequestsOK, TypeOK
<1> QED
  BY <1>1, Always, PTL

\* The changes in the audit trail of every entry explain its row, at all times,
\* however many classifications are recorded among them.  (_audit_conn.)
THEOREM TrailExplains == Spec => []TrailExplainsRow
<1>1. Inv => TrailExplainsRow
  BY DEF Inv, Table
<1> QED
  BY <1>1, Always, PTL

\* No legacy value is missing, or has another source's category, once the import is
\* recorded, however often it was cut short.  (run_legacy_endpoint_migration.)
THEOREM MigrationCompletes == Spec => MigrationIsComplete
<1> DEFINE Step ==
      ~applied /\ applied' =>
          \A k \in DOMAIN Legacy : Legacy[k].value # NoValue =>
             \E i \in Ids :
                /\ row[i].value = Legacy[k].value
                /\ \/ row[i] \in Old
                   \/ \E j \in 1 .. k : /\ Legacy[j] = [value    |-> row[i].value,
                                                        category |-> row[i].category]
                                        /\ \A n \in 1 .. j - 1 :
                                             Legacy[n].value # Legacy[j].value
<1>1. Inv /\ [Next]_vars => [Step]_vars
  BY MigrationStep
<1> QED
  BY <1>1, Always, PTL DEF Spec, MigrationIsComplete

\* No restart brings a removed value back; only requests do.  (migration_applied.)
THEOREM RemovedStays == Spec => RemovedStaysRemoved
<1> DEFINE Step ==
      \A v \in Values :
          /\ \E i \in Ids : \E k \in DOMAIN audit[i] :
               audit[i][k].previous.value = v /\ audit[i][k].current.value # v
          /\ ~Listed(v) /\ Listed(v)'
          => running = "serving"
<1>1. Inv /\ [Next]_vars => [Step]_vars
  BY RemovedStep
<1> QED
  BY <1>1, Always, PTL DEF Spec, RemovedStaysRemoved

\* No valid row of an imported file is passed over.  (api_import_endpoints.)
THEOREM ImportPasses == Spec => ImportPassesOverNothing
<1> DEFINE Step ==
      \A h \in Handlers :
          /\ req[h].pc \in {"import", "importAdd"} /\ req[h].rest # <<>>
          /\ req'[h].pc = "import" /\ req'[h].rest # req[h].rest
          => LET v == Head(req[h].rest).value
             IN  v = NoValue \/ \E i \in Ids : row'[i].value = v
<1>1. Inv /\ [Next]_vars => [Step]_vars
  BY ImportStep
<1> QED
  BY <1>1, Always, PTL DEF Spec, ImportPassesOverNothing
===============================================================================
