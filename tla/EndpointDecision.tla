---------------------------- MODULE EndpointDecision ----------------------------
(***************************************************************************)
(* endpoint_registry.decide_endpoints: which of an alert's two endpoints   *)
(* the pipeline sends to the firewall.  The two sides are classified one   *)
(* after the other, and each classification reads the registry of          *)
(* protected endpoints anew, while administrators change it.               *)
(*                                                                         *)
(* A field of an alert is what the classifier's tests see of its text.     *)
(***************************************************************************)
EXTENDS Sequences

CONSTANTS
    Ips,        \* addresses
    Names,      \* host names, normalized
    HexNames,   \* those written with hexadecimal digits, dots and colons alone
    Networks,   \* CIDR ranges
    Members,    \* the addresses of each range
    Entries,    \* entries administrators may make active: a type and a value
    NoValue     \* classification of a field without endpoint

ASSUME EndpointDecisionAssumption ==
    /\ HexNames \subseteq Names
    /\ Members \in [Networks -> SUBSET Ips]
    /\ Entries \subseteq ([type : {"IP"}, value : Ips]
                          \cup [type : {"CIDR"}, value : Networks]
                          \cup [type : {"HOSTNAME"}, value : Names])
    /\ Ips \cap Names = {}
    /\ NoValue \notin Ips \cup Names

\* "address": an address alone, or one embedded in other text, perhaps repeated;
\* "several": text with more than one.
Fields == [form : {"blank", "masked", "malformed", "range", "several"}]
          \cup [form : {"name"}, name : Names]
          \cup [form : {"address"}, ip : Ips]

Types      == {"MISSING", "MASKED", "INVALID", "IP", "CIDR", "HOSTNAME"}
Categories == {"trusted", "untrusted_ip", "untrusted_nonip", "invalid"}
Sides      == {"origin", "impacted"}
Statuses   == {"approved_for_blocking", "both_trusted", "both_untrusted",
               "untrusted_target_not_ip", "incomplete_or_invalid_endpoint",
               "protected_registry_unavailable"}

VARIABLES
    active,     \* the active entries of the registry
    readable,   \* the database answers
    pc,         \* "idle", "origin", "impacted" (side to classify), "decided"
    field,      \* the two fields of the alert at hand
    origin,     \* classification of the origin
    decision,   \* the outcome
    coveredAt,  \* history: endpoints some registry of this decision covered
    openAt      \* history: endpoints some available one did not cover

vars == <<active, readable, pc, field, origin, decision, coveredAt, openAt>>

-------------------------------------------------------------------------------
(* The registry. *)

Available(entries, answers) == answers /\ entries # {}

\* Mistake: ranges match only themselves.
MatchExact(v, entries) == \E e \in entries : e.type # "CIDR" /\ e.value = v

match_endpoint(v, entries) ==
    \E e \in entries :
        \/ v \in Ips   /\ e.type = "IP" /\ e.value = v
        \/ v \in Ips   /\ e.type = "CIDR" /\ v \in Members[e.value]
        \/ v \in Names /\ e.type = "HOSTNAME" /\ e.value = v

-------------------------------------------------------------------------------
(* Classification of one field.  Those without endpoint never read the registry. *)

Plain(type) == [type |-> type, value |-> NoValue, trusted |-> FALSE]

Endpoint(type, v) ==
    [type |-> type, value |-> v, trusted |-> match_endpoint(v, active)]

ReadsRegistry(f) ==
    \/ f.form = "address"
    \/ f.form = "name" /\ f.name \notin HexNames

RegistryUnavailable(f) == ReadsRegistry(f) /\ ~Available(active, readable)

\* A hexadecimal name counts as malformed.
classify_endpoint(f) ==
    CASE f.form = "blank"     -> Plain("MISSING")
      [] f.form = "masked"    -> Plain("MASKED")
      [] f.form \in {"malformed", "several"} -> Plain("INVALID")
      [] f.form = "range"     -> Plain("CIDR")
      [] f.form = "name"      -> IF f.name \in HexNames THEN Plain("INVALID")
                                 ELSE Endpoint("HOSTNAME", f.name)
      [] f.form = "address"   -> Endpoint("IP", f.ip)

category(c) ==
    CASE c.trusted                                      -> "trusted"
      [] ~c.trusted /\ c.type = "IP"                    -> "untrusted_ip"
      [] ~c.trusted /\ c.type \in {"HOSTNAME", "CIDR"}  -> "untrusted_nonip"
      [] OTHER                                          -> "invalid"

-------------------------------------------------------------------------------
(* The decision. *)

\* Mistake: an untrusted host name beside a trusted endpoint is a target.
TableBlocksNames(o, i) ==
    LET targets == {s \in Sides :
                      IF s = "origin" THEN o = "untrusted_ip"
                                           \/ (o = "untrusted_nonip" /\ i = "trusted")
                                      ELSE i = "untrusted_ip"}
    IN  [status |-> IF targets = {} THEN "incomplete_or_invalid_endpoint"
                                    ELSE "approved_for_blocking",
         sides  |-> targets]

\* Mistake: an invalid side suppresses the other one.
TableNeedsBoth(o, i) ==
    CASE {o, i} = {"trusted", "untrusted_ip"} \/ {o, i} = {"untrusted_ip"} ->
            [status |-> "approved_for_blocking",
             sides  |-> {s \in Sides : IF s = "origin" THEN o = "untrusted_ip"
                                                       ELSE i = "untrusted_ip"}]
      [] OTHER -> [status |-> "incomplete_or_invalid_endpoint", sides |-> {}]

DECISION_TABLE(o, i) ==
    LET T == "trusted"  I == "untrusted_ip"  N == "untrusted_nonip"  X == "invalid"
    IN  CASE <<o, i>> \in {<<T, I>>, <<N, I>>, <<X, I>>} ->
                [status |-> "approved_for_blocking", sides |-> {"impacted"}]
          [] <<o, i>> \in {<<I, T>>, <<I, N>>, <<I, X>>} ->
                [status |-> "approved_for_blocking", sides |-> {"origin"}]
          [] <<o, i>> = <<I, I>> ->
                [status |-> "approved_for_blocking", sides |-> Sides]
          [] <<o, i>> = <<T, T>> -> [status |-> "both_trusted", sides |-> {}]
          [] <<o, i>> = <<N, N>> -> [status |-> "both_untrusted", sides |-> {}]
          [] <<o, i>> \in {<<T, N>>, <<N, T>>} ->
                [status |-> "untrusted_target_not_ip", sides |-> {}]
          [] OTHER ->
                [status |-> "incomplete_or_invalid_endpoint", sides |-> {}]

\* Mistake: equal addresses on both sides are two targets.
CandidatesOfSides(o, i, sides) ==
    CASE sides = Sides -> <<o.value, i.value>>
      [] sides = {"origin"} -> <<o.value>>
      [] sides = {"impacted"} -> <<i.value>>
      [] OTHER -> <<>>

\* In order, each address once.
candidates(o, i, sides) ==
    CASE sides = Sides /\ o.value # i.value -> <<o.value, i.value>>
      [] sides = Sides /\ o.value = i.value -> <<o.value>>
      [] sides = {"origin"}                 -> <<o.value>>
      [] sides = {"impacted"}               -> <<i.value>>
      [] OTHER                              -> <<>>

review_sides(o, i) ==
    {s \in Sides : category(IF s = "origin" THEN o ELSE i) = "untrusted_nonip"}

decide(o, i) ==
    LET row == DECISION_TABLE(category(o), category(i))
    IN  [status     |-> row.status,
         candidates |-> candidates(o, i, row.sides),
         review     |-> review_sides(o, i)]

Unavailable == [status |-> "protected_registry_unavailable", candidates |-> <<>>,
                review |-> {}]

-------------------------------------------------------------------------------
\* History: what the entries are there for.
Covered(entries) ==
    UNION {IF e.type = "CIDR" THEN Members[e.value] ELSE {e.value} : e \in entries}

\* Addresses and names the registry, if it can be had, leaves open.
Open(entries, answers) ==
    IF Available(entries, answers) THEN (Ips \cup Names) \ Covered(entries) ELSE {}

NoField == [s \in Sides |-> [form |-> "blank"]]

Init ==
    /\ active \in SUBSET Entries
    /\ readable = TRUE
    /\ pc = "idle"
    /\ field = NoField
    /\ origin = Plain("MISSING")
    /\ decision = Unavailable
    /\ coveredAt = {} /\ openAt = {}

\* An alert passed the sender and content checks.
Receive(o, i) ==
    /\ pc = "idle"
    /\ pc' = "origin"
    /\ field' = [s \in Sides |-> IF s = "origin" THEN o ELSE i]
    /\ coveredAt' = Covered(active)
    /\ openAt' = Open(active, readable)
    /\ UNCHANGED <<active, readable, origin, decision>>

\* The pipeline reports the missing registry and blocks nothing.
Abort ==
    /\ pc' = "decided"
    /\ decision' = Unavailable
    /\ UNCHANGED origin

ClassifyOrigin ==
    /\ pc = "origin"
    /\ IF RegistryUnavailable(field["origin"])
         THEN Abort
         ELSE /\ origin' = classify_endpoint(field["origin"])
              /\ pc' = "impacted"
              /\ UNCHANGED decision
    /\ UNCHANGED <<active, readable, field, coveredAt, openAt>>

ClassifyImpacted ==
    /\ pc = "impacted"
    /\ IF RegistryUnavailable(field["impacted"])
         THEN Abort
         ELSE /\ decision' = decide(origin, classify_endpoint(field["impacted"]))
              /\ pc' = "decided"
              /\ UNCHANGED origin
    /\ UNCHANGED <<active, readable, field, coveredAt, openAt>>

\* The rest of the pipeline has no more use of the decision.
Done ==
    /\ pc = "decided"
    /\ pc' = "idle"
    /\ field' = NoField
    /\ origin' = Plain("MISSING")
    /\ decision' = Unavailable
    /\ coveredAt' = {} /\ openAt' = {}
    /\ UNCHANGED <<active, readable>>

Record(entries, answers) ==
    /\ active' = entries /\ readable' = answers
    /\ IF pc \in {"origin", "impacted"}
         THEN /\ coveredAt' = coveredAt \cup Covered(entries)
              /\ openAt' = openAt \cup Open(entries, answers)
         ELSE UNCHANGED <<coveredAt, openAt>>
    /\ UNCHANGED <<pc, field, origin, decision>>

\* Administrators add, enable, edit, disable and delete entries.
ProtectedEndpointsChange(e) ==
    Record(IF e \in active THEN active \ {e} ELSE active \cup {e}, readable)

\* The database locks up, or answers again.
DatabaseChanges == Record(active, ~readable)

Next ==
    \/ \E o, i \in Fields : Receive(o, i)
    \/ ClassifyOrigin \/ ClassifyImpacted \/ Done
    \/ \E e \in Entries : ProtectedEndpointsChange(e)
    \/ DatabaseChanges

Spec == Init /\ [][Next]_vars

-------------------------------------------------------------------------------
(* Properties. *)

Classifications ==
    [type : Types, value : Ips \cup Names \cup {NoValue}, trusted : BOOLEAN]

\* The type of every variable: in particular, nothing but addresses is ever a
\* block target.
TypeOK ==
    /\ active \subseteq Entries
    /\ readable \in BOOLEAN
    /\ pc \in {"idle", "origin", "impacted", "decided"}
    /\ field \in [Sides -> Fields]
    /\ origin \in Classifications
    /\ decision \in [status : Statuses, candidates : Seq(Ips), review : SUBSET Sides]
    /\ coveredAt \subseteq Ips \cup Names
    /\ openAt \subseteq Ips \cup Names

Targets == {decision.candidates[k] : k \in DOMAIN decision.candidates}

\* The address of a side that holds one.
Single(s, a) == field[s].form = "address" /\ field[s].ip = a

\* A block target is an address of one of the two sides that the registry left
\* open at some moment of the decision: one that is protected all the time, by
\* whatever entries, is never a target, nor is any while the registry is empty
\* or cannot be read.  (decide_endpoints, "always TRUSTED and never blocked".)
TargetsWereOpen ==
    Targets \subseteq {a \in openAt : \E s \in Sides : Single(s, a)}

\* A decision made with the registry at hand misses no target: an address that no
\* registry of the decision covered is blocked, whatever stands on the other
\* side.  (decide_endpoints, tests/test_trust_policy.py rows 2 to 11.)
OpenAreTargets ==
    pc = "decided" /\ decision.status # "protected_registry_unavailable" =>
        \A s \in Sides, a \in Ips \ coveredAt : Single(s, a) => a \in Targets

\* What the pipeline relies on: an approval names at least one target, no other
\* outcome names any, no address is named twice (each would be blocked, reserved
\* and reported twice), and at most one side is left for review, the only one the
\* notification mentions.  (_process_message, decision.review_sides[0].)
ApprovalIsUsable ==
    /\ decision.status = "approved_for_blocking" <=> decision.candidates # <<>>
    /\ \A j, k \in DOMAIN decision.candidates :
          decision.candidates[j] = decision.candidates[k] => j = k
    /\ decision.status = "approved_for_blocking" =>
          \A s, t \in decision.review : s = t

===============================================================================
