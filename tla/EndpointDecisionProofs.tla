------------------------- MODULE EndpointDecisionProofs -------------------------
(***************************************************************************)
(* Proofs about EndpointDecision, for all registries, fields and changes   *)
(* of the registry between the two classifications.                        *)
(***************************************************************************)
EXTENDS EndpointDecision, TLAPS

\* A classification that makes its endpoint a block target.
Blockable(c) == c.type = "IP" /\ ~c.trusted

\* What the two reads of the registry leave behind: a classification speaks of its
\* field, and of a registry that has been there since the decision began.
Faithful(f, c) ==
    /\ c \in Classifications
    /\ f.form = "address" <=> c.type = "IP"
    /\ c.type = "IP" => c.value = f.ip
    /\ Blockable(c) => c.value \in openAt
    /\ c.type = "IP" /\ c.trusted => c.value \in coveredAt

HistoryCovers ==
    pc \in {"origin", "impacted"} =>
        Covered(active) \subseteq coveredAt /\ Open(active, readable) \subseteq openAt

OriginFaithful == pc = "impacted" => Faithful(field["origin"], origin)

NothingDecided == pc # "decided" => decision = Unavailable

Inv == TypeOK /\ HistoryCovers /\ OriginFaithful /\ NothingDecided
       /\ TargetsWereOpen /\ OpenAreTargets /\ ApprovalIsUsable

-------------------------------------------------------------------------------
(* The registry and the classifier. *)

\* What an entry is there for is what the classifier matches.
LEMMA MatchIsCover ==
    ASSUME NEW entries, entries \subseteq Entries, NEW v \in Ips \cup Names
    PROVE  match_endpoint(v, entries) <=> v \in Covered(entries)
BY EndpointDecisionAssumption, SMTT(30) DEF match_endpoint, Covered

\* What entries cover are addresses and names.
LEMMA CoverType ==
    ASSUME NEW entries, entries \subseteq Entries
    PROVE  Covered(entries) \subseteq Ips \cup Names
BY EndpointDecisionAssumption DEF Covered

\* A classification with the registry at hand is faithful.
LEMMA ClassifyFaithful ==
    ASSUME TypeOK, HistoryCovers, pc \in {"origin", "impacted"},
           NEW f \in Fields, ~RegistryUnavailable(f)
    PROVE  Faithful(f, classify_endpoint(f))
<1> DEFINE c == classify_endpoint(f)
<1>1. CASE f.form = "address"
  <2>1. f.ip \in Ips
    BY <1>1 DEF Fields
  <2>2. c = Endpoint("IP", f.ip)
    BY <1>1 DEF classify_endpoint
  <2>3. Available(active, readable)
    BY <1>1 DEF RegistryUnavailable, ReadsRegistry
  <2>4. match_endpoint(f.ip, active) <=> f.ip \in Covered(active)
    BY <2>1, MatchIsCover DEF TypeOK
  <2>5. f.ip \in Covered(active) => f.ip \in coveredAt
    BY DEF HistoryCovers
  <2>6. f.ip \notin Covered(active) => f.ip \in openAt
    BY <2>1, <2>3 DEF HistoryCovers, Open
  <2>7. match_endpoint(f.ip, active) \in BOOLEAN
    BY DEF match_endpoint
  <2> QED
    BY <1>1, <2>1, <2>2, <2>4, <2>5, <2>6, <2>7
       DEF Faithful, Blockable, Endpoint, Classifications, Types
<1>2. CASE f.form = "name"
  <2>1. f.name \in Names
    BY <1>2 DEF Fields
  <2>2. c = Plain("INVALID") \/ c = Endpoint("HOSTNAME", f.name)
    BY <1>2 DEF classify_endpoint
  <2>3. match_endpoint(f.name, active) \in BOOLEAN
    BY DEF match_endpoint
  <2>4. /\ Plain("INVALID") \in Classifications
        /\ Plain("INVALID").type # "IP"
    BY DEF Plain, Classifications, Types
  <2>5. /\ Endpoint("HOSTNAME", f.name) \in Classifications
        /\ Endpoint("HOSTNAME", f.name).type # "IP"
    BY <2>1, <2>3 DEF Endpoint, Classifications, Types
  <2>6. c \in Classifications /\ c.type # "IP"
    BY <2>2, <2>4, <2>5
  <2> QED
    BY <1>2, <2>6 DEF Faithful, Blockable
<1>3. CASE f.form \in {"blank", "masked", "malformed", "range", "several"}
  <2>1. \E t \in Types \ {"IP"} : c = Plain(t)
    BY <1>3 DEF classify_endpoint, Types
  <2> QED
    BY <1>3, <2>1 DEF Faithful, Blockable, Plain, Classifications
<1> QED
  BY <1>1, <1>2, <1>3 DEF Fields

-------------------------------------------------------------------------------
(* The decision table. *)

\* Only an untrusted address has the category of block targets.
LEMMA CategoryOfTargets ==
    ASSUME NEW c \in Classifications
    PROVE  /\ category(c) \in Categories
           /\ category(c) = "untrusted_ip" <=> Blockable(c)
BY DEF category, Categories, Blockable, Classifications, Types

\* The table blocks exactly the sides of that category.
LEMMA TableBlocksTargets ==
    ASSUME NEW o \in Categories, NEW i \in Categories
    PROVE  /\ DECISION_TABLE(o, i).status \in Statuses \ {"protected_registry_unavailable"}
           /\ DECISION_TABLE(o, i).sides
                = {s \in Sides : (IF s = "origin" THEN o ELSE i) = "untrusted_ip"}
           /\ DECISION_TABLE(o, i).status = "approved_for_blocking"
                <=> (o = "untrusted_ip" \/ i = "untrusted_ip")
BY DEF DECISION_TABLE, Categories, Statuses, Sides

\* The candidates are the block targets of the two sides, each once.
LEMMA DecideRight ==
    ASSUME NEW o \in Classifications, NEW i \in Classifications
    PROVE  /\ decide(o, i).status \in Statuses \ {"protected_registry_unavailable"}
           /\ decide(o, i).status = "approved_for_blocking"
                <=> Blockable(o) \/ Blockable(i)
           /\ decide(o, i).candidates
                = CASE Blockable(o) /\ Blockable(i) /\ o.value # i.value
                                                   -> <<o.value, i.value>>
                    [] Blockable(o) /\ ~(Blockable(i) /\ o.value # i.value)
                                                   -> <<o.value>>
                    [] ~Blockable(o) /\ Blockable(i) -> <<i.value>>
                    [] OTHER                       -> <<>>
           /\ decide(o, i).review \subseteq Sides
           /\ "origin" \in decide(o, i).review => ~Blockable(o)
           /\ "impacted" \in decide(o, i).review => ~Blockable(i)
<1> DEFINE row == DECISION_TABLE(category(o), category(i))
<1>1. /\ category(o) \in Categories /\ category(i) \in Categories
      /\ category(o) = "untrusted_ip" <=> Blockable(o)
      /\ category(i) = "untrusted_ip" <=> Blockable(i)
  BY CategoryOfTargets
<1>2. /\ row.status \in Statuses \ {"protected_registry_unavailable"}
      /\ row.sides = {s \in Sides : IF s = "origin" THEN Blockable(o) ELSE Blockable(i)}
      /\ row.status = "approved_for_blocking" <=> Blockable(o) \/ Blockable(i)
  BY <1>1, TableBlocksTargets
<1>3. /\ row.sides = Sides <=> Blockable(o) /\ Blockable(i)
      /\ row.sides = {"origin"} <=> Blockable(o) /\ ~Blockable(i)
      /\ row.sides = {"impacted"} <=> ~Blockable(o) /\ Blockable(i)
  BY <1>2 DEF Sides
<1>4. candidates(o, i, row.sides)
        = CASE Blockable(o) /\ Blockable(i) /\ o.value # i.value
                                           -> <<o.value, i.value>>
            [] Blockable(o) /\ ~(Blockable(i) /\ o.value # i.value)
                                           -> <<o.value>>
            [] ~Blockable(o) /\ Blockable(i) -> <<i.value>>
            [] OTHER                       -> <<>>
  BY <1>3, "origin" # "impacted" DEF candidates, Sides
<1>5. /\ review_sides(o, i) \subseteq Sides
      /\ "origin" \in review_sides(o, i) => ~Blockable(o)
      /\ "impacted" \in review_sides(o, i) => ~Blockable(i)
  BY <1>1 DEF review_sides, Sides
<1> QED
  BY <1>2, <1>4, <1>5 DEF decide

LEMMA ShortSequences ==
    ASSUME NEW S
    PROVE  /\ <<>> \in Seq(S)
           /\ \A x \in S : <<x>> \in Seq(S)
           /\ \A x, y \in S : <<x, y>> \in Seq(S)
OBVIOUS

\* A decision made of two faithful classifications is right.
LEMMA DecisionRight ==
    ASSUME NEW o, NEW i, field \in [Sides -> Fields],
           Faithful(field["origin"], o), Faithful(field["impacted"], i),
           decision' = decide(o, i), UNCHANGED <<field, openAt, coveredAt>>
    PROVE  /\ decision' \in [status : Statuses, candidates : Seq(Ips),
                             review : SUBSET Sides]
           /\ TargetsWereOpen' /\ OpenAreTargets' /\ ApprovalIsUsable'
<1> DEFINE d == decide(o, i)
<1>1. o \in Classifications /\ i \in Classifications
  BY DEF Faithful
<1>2. /\ d.status \in Statuses \ {"protected_registry_unavailable"}
      /\ d.status = "approved_for_blocking" <=> Blockable(o) \/ Blockable(i)
      /\ d.review \subseteq Sides
      /\ "origin" \in d.review => ~Blockable(o)
      /\ "impacted" \in d.review => ~Blockable(i)
  BY <1>1, DecideRight
<1>3. /\ Blockable(o) /\ Blockable(i) /\ o.value # i.value
           => d.candidates = <<o.value, i.value>>
      /\ Blockable(o) /\ ~(Blockable(i) /\ o.value # i.value)
           => d.candidates = <<o.value>>
      /\ ~Blockable(o) /\ Blockable(i) => d.candidates = <<i.value>>
      /\ ~Blockable(o) /\ ~Blockable(i) => d.candidates = <<>>
  BY <1>1, DecideRight
<1>4. /\ Blockable(o) => /\ Single("origin", o.value)
                         /\ o.value \in Ips /\ o.value \in openAt
      /\ Blockable(i) => /\ Single("impacted", i.value)
                         /\ i.value \in Ips /\ i.value \in openAt
  BY DEF Faithful, Blockable, Single, Fields, Sides
<1>5. d = [status |-> d.status, candidates |-> d.candidates, review |-> d.review]
  BY DEF decide
<1>6. d.candidates \in Seq(Ips)
  BY <1>3, <1>4, ShortSequences, Zenon
<1>7. decision' \in [status : Statuses, candidates : Seq(Ips), review : SUBSET Sides]
  BY <1>2, <1>5, <1>6
<1>8. /\ Targets' = {d.candidates[k] : k \in DOMAIN d.candidates}
      /\ \A s, a : Single(s, a)' <=> Single(s, a)
  BY DEF Targets, Single
<1>9. Targets' = {v \in {o.value} : Blockable(o)} \cup {v \in {i.value} : Blockable(i)}
  <2>1. CASE Blockable(o) /\ Blockable(i) /\ o.value # i.value
    BY <2>1, <1>3, <1>8
  <2>2. CASE Blockable(o) /\ ~(Blockable(i) /\ o.value # i.value)
    BY <2>2, <1>3, <1>8
  <2>3. CASE ~Blockable(o) /\ Blockable(i)
    BY <2>3, <1>3, <1>8
  <2>4. CASE ~Blockable(o) /\ ~Blockable(i)
    BY <2>4, <1>3, <1>8
  <2> QED
    BY <2>1, <2>2, <2>3, <2>4
<1>10. TargetsWereOpen'
  BY <1>4, <1>8, <1>9 DEF TargetsWereOpen, Sides
<1>11. OpenAreTargets'
  <2>1. \A a \in Ips \ coveredAt :
           /\ Single("origin", a) => Blockable(o) /\ o.value = a
           /\ Single("impacted", a) => Blockable(i) /\ i.value = a
    BY DEF Single, Faithful, Blockable
  <2> QED
    BY <2>1, <1>8, <1>9 DEF OpenAreTargets, Sides
<1>12. ApprovalIsUsable'
  <2>1. d.status = "approved_for_blocking" <=> d.candidates # <<>>
    BY <1>2, <1>3
  <2>2. \A j, k \in DOMAIN d.candidates : d.candidates[j] = d.candidates[k] => j = k
    BY <1>3
  <2>3. d.status = "approved_for_blocking" => \A s, t \in d.review : s = t
    BY <1>2 DEF Sides
  <2> QED
    BY <2>1, <2>2, <2>3 DEF ApprovalIsUsable
<1> QED
  BY <1>7, <1>10, <1>11, <1>12

-------------------------------------------------------------------------------
(* The invariant. *)

\* Without a decision there is nothing to be wrong.
LEMMA NoDecision ==
    ASSUME decision = Unavailable
    PROVE  /\ decision \in [status : Statuses, candidates : Seq(Ips),
                            review : SUBSET Sides]
           /\ TargetsWereOpen /\ OpenAreTargets /\ ApprovalIsUsable
BY DEF Unavailable, Statuses, Sides, Targets, TargetsWereOpen, OpenAreTargets,
       ApprovalIsUsable

LEMMA InitInv == Init => Inv
<1> SUFFICES ASSUME Init PROVE Inv
  OBVIOUS
<1>1. TypeOK
  BY NoDecision DEF Init, TypeOK, NoField, Fields, Sides, Plain, Classifications, Types
<1>2. TargetsWereOpen /\ OpenAreTargets /\ ApprovalIsUsable
  BY NoDecision DEF Init
<1> QED
  BY <1>1, <1>2 DEF Init, Inv, HistoryCovers, OriginFaithful, NothingDecided

\* Receiving an alert starts the history anew.
LEMMA ReceiveInv ==
    ASSUME Inv, NEW o \in Fields, NEW i \in Fields, Receive(o, i) PROVE Inv'
<1> USE DEF Inv, Receive
<1>1. Covered(active) \subseteq Ips \cup Names
  BY CoverType DEF TypeOK
<1>2. decision' = Unavailable
  BY DEF NothingDecided
<1>3. TypeOK'
  BY <1>1 DEF TypeOK, Sides, Open
<1>4. (TargetsWereOpen /\ OpenAreTargets /\ ApprovalIsUsable)'
  BY <1>2 DEF Unavailable, Targets, TargetsWereOpen, OpenAreTargets, ApprovalIsUsable
<1> QED
  BY <1>2, <1>3, <1>4 DEF HistoryCovers, OriginFaithful, NothingDecided

LEMMA ClassifyOriginInv == ASSUME Inv, ClassifyOrigin PROVE Inv'
<1> USE DEF Inv, ClassifyOrigin
<1>1. field["origin"] \in Fields
  BY DEF TypeOK, Sides
<1>2. decision' = Unavailable
  BY DEF NothingDecided, Abort
<1>3. (TargetsWereOpen /\ OpenAreTargets /\ ApprovalIsUsable)'
  BY <1>2 DEF Unavailable, Targets, TargetsWereOpen, OpenAreTargets, ApprovalIsUsable
<1>4. CASE RegistryUnavailable(field["origin"])
  <2>1. TypeOK'
    BY <1>2, <1>4, NoDecision DEF TypeOK, Abort, Unavailable, Statuses
  <2> QED
    BY <1>3, <1>4, <2>1 DEF Abort, HistoryCovers, OriginFaithful, NothingDecided
<1>5. CASE ~RegistryUnavailable(field["origin"])
  <2>1. Faithful(field["origin"], origin')
    BY <1>1, <1>5, ClassifyFaithful
  <2>2. Faithful(field["origin"], origin)'
    BY <2>1 DEF Faithful
  <2>3. TypeOK'
    BY <1>5, <2>1 DEF TypeOK, Faithful
  <2> QED
    BY <1>2, <1>3, <1>5, <2>2, <2>3 DEF HistoryCovers, OriginFaithful, NothingDecided
<1> QED
  BY <1>4, <1>5

LEMMA ClassifyImpactedInv == ASSUME Inv, ClassifyImpacted PROVE Inv'
<1> USE DEF Inv, ClassifyImpacted
<1>1. field["impacted"] \in Fields
  BY DEF TypeOK, Sides
<1>2. HistoryCovers' /\ OriginFaithful' /\ NothingDecided'
  BY DEF HistoryCovers, OriginFaithful, NothingDecided, Abort
<1>3. CASE RegistryUnavailable(field["impacted"])
  <2>1. decision' = Unavailable
    BY <1>3 DEF Abort
  <2>2. (TargetsWereOpen /\ OpenAreTargets /\ ApprovalIsUsable)'
    BY <2>1 DEF Unavailable, Targets, TargetsWereOpen, OpenAreTargets, ApprovalIsUsable
  <2>3. TypeOK'
    BY <1>3, <2>1 DEF TypeOK, Abort, Unavailable, Statuses
  <2> QED
    BY <1>2, <2>2, <2>3
<1>4. CASE ~RegistryUnavailable(field["impacted"])
  <2> DEFINE i == classify_endpoint(field["impacted"])
  <2>1. Faithful(field["impacted"], i)
    BY <1>1, <1>4, ClassifyFaithful
  <2>2. Faithful(field["origin"], origin)
    BY DEF OriginFaithful
  <2>3. decision' = decide(origin, i) /\ UNCHANGED <<field, openAt, coveredAt>>
    BY <1>4
  <2>4. /\ decision' \in [status : Statuses, candidates : Seq(Ips),
                          review : SUBSET Sides]
        /\ TargetsWereOpen' /\ OpenAreTargets' /\ ApprovalIsUsable'
    BY <2>1, <2>2, <2>3, DecisionRight DEF TypeOK
  <2>5. TypeOK'
    BY <1>4, <2>4 DEF TypeOK
  <2> QED
    BY <1>2, <2>4, <2>5
<1> QED
  BY <1>3, <1>4

LEMMA DoneInv == ASSUME Inv, Done PROVE Inv'
<1> USE DEF Inv, Done
<1>1. decision' = Unavailable
  OBVIOUS
<1>2. (TargetsWereOpen /\ OpenAreTargets /\ ApprovalIsUsable)'
  BY <1>1 DEF Unavailable, Targets, TargetsWereOpen, OpenAreTargets, ApprovalIsUsable
<1>3. TypeOK'
  BY <1>1 DEF TypeOK, NoField, Fields, Sides, Plain, Classifications, Types,
              Unavailable, Statuses
<1> QED
  BY <1>1, <1>2, <1>3 DEF HistoryCovers, OriginFaithful, NothingDecided

\* A change of the registry is recorded, and forgets nothing.
LEMMA RecordInv ==
    ASSUME Inv, NEW entries, entries \subseteq Entries, NEW answers \in BOOLEAN,
           Record(entries, answers)
    PROVE  Inv'
<1> USE DEF Inv, Record
<1>1. Covered(entries) \subseteq Ips \cup Names
  BY CoverType
<1>2. TypeOK'
  BY <1>1 DEF TypeOK, Open
<1>3. openAt \subseteq openAt' /\ coveredAt \subseteq coveredAt'
  OBVIOUS
<1>4. HistoryCovers'
  BY DEF HistoryCovers
<1>5. OriginFaithful'
  BY <1>3 DEF OriginFaithful, Faithful
<1>6. NothingDecided'
  BY DEF NothingDecided
<1>7. TargetsWereOpen'
  BY <1>3 DEF TargetsWereOpen, Targets, Single
<1>8. OpenAreTargets'
  BY <1>3 DEF OpenAreTargets, Targets, Single
<1>9. ApprovalIsUsable'
  BY DEF ApprovalIsUsable
<1> QED
  BY <1>2, <1>4, <1>5, <1>6, <1>7, <1>8, <1>9

LEMMA NextInv == Inv /\ [Next]_vars => Inv'
<1> SUFFICES ASSUME Inv, [Next]_vars PROVE Inv'
  OBVIOUS
<1>1. ASSUME NEW o \in Fields, NEW i \in Fields, Receive(o, i) PROVE Inv'
  BY <1>1, ReceiveInv
<1>2. CASE ClassifyOrigin
  BY <1>2, ClassifyOriginInv
<1>3. CASE ClassifyImpacted
  BY <1>3, ClassifyImpactedInv
<1>4. CASE Done
  BY <1>4, DoneInv
<1>5. ASSUME NEW e \in Entries, ProtectedEndpointsChange(e) PROVE Inv'
  <2>1. readable \in BOOLEAN /\ active \subseteq Entries
    BY DEF Inv, TypeOK
  <2> QED
    BY <1>5, <2>1, RecordInv DEF ProtectedEndpointsChange
<1>6. CASE DatabaseChanges
  <2>1. readable \in BOOLEAN /\ active \subseteq Entries
    BY DEF Inv, TypeOK
  <2> QED
    BY <1>6, <2>1, RecordInv DEF DatabaseChanges
<1>7. CASE UNCHANGED vars
  BY <1>7 DEF vars, Inv, TypeOK, HistoryCovers, OriginFaithful, Faithful,
              NothingDecided, TargetsWereOpen, OpenAreTargets, ApprovalIsUsable,
              Targets, Single
<1> QED
  BY <1>1, <1>2, <1>3, <1>4, <1>5, <1>6, <1>7 DEF Next

LEMMA Always == Spec => []Inv
BY InitInv, NextInv, PTL DEF Spec

\* Whatever the registry becomes while an alert is decided, its variables keep their
\* types: only addresses are block targets.  (decide_endpoints.)
THEOREM TypeCorrect == Spec => []TypeOK
BY Always, PTL DEF Inv

\* A protected address is never a block target, nor is any without a registry.
\* (decide_endpoints, classify_endpoint, match_endpoint.)
THEOREM TargetsOpen == Spec => []TargetsWereOpen
BY Always, PTL DEF Inv

\* An address no registry of the decision covered is always a block target.
\* (decide_endpoints, _DECISION_TABLE.)
THEOREM OpenTargeted == Spec => []OpenAreTargets
BY Always, PTL DEF Inv

\* An approval names at least one target, each once, and one side for review at
\* most.  (decide_endpoints, _process_message.)
THEOREM ApprovalUsable == Spec => []ApprovalIsUsable
BY Always, PTL DEF Inv
===============================================================================
