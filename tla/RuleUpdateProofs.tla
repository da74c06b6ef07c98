---------------------------- MODULE RuleUpdateProofs ----------------------------
(***************************************************************************)
(* Theorems about RuleUpdate, for any number of callers, rules, addresses  *)
(* and removals by hand: its invariants first, then that its calls         *)
(* implement BlockService.                                                 *)
(***************************************************************************)
EXTENDS RuleUpdate, SequenceTheorems, TLAPS

-------------------------------------------------------------------------------
(* The inductive invariant. *)

CallType == [pc : Locations, ip : Ips, next : DOMAIN RuleNames, copy : Seq(Entries),
             hostDone : BOOLEAN, outcomes : [Rules -> Outcomes], result : Results,
             before : BOOLEAN, added : SUBSET Ips, taken : SUBSET Ips]

Unique(s) == \A i, j \in DOMAIN s : s[i].ip = s[j].ip => i = j

Refers(s, hs) == \A i \in DOMAIN s : s[i].raw \/ s[i].ip \in hs

\* The rules a call has dealt with, and what it may say of them.
OutcomesHold(k, rs) ==
    /\ \A i \in DOMAIN RuleNames : i < k.next <=> k.outcomes[RuleNames[i]] # "none"
    /\ \A r \in Rules : k.outcomes[r] \in {"present", "appended"}
                            => ip_in_rule(k.ip, rs[r]) \/ k.ip \in k.taken

\* The copy of the rule at hand: it lacks the address, and the rule has gained only
\* what the call knows of.
CopyHolds(k, rs, hs) ==
    /\ Unique(k.copy)
    /\ Refers(k.copy, hs)
    /\ k.pc \in {"host", "upload"} =>
          /\ k.ip \notin Addresses(k.copy)
          /\ Addresses(rs[RuleNames[k.next]]) \subseteq Addresses(k.copy) \cup k.added

HostHolds(k, hs) == k.hostDone \/ k.pc = "upload" => k.ip \in hs

CallHolds(k, rs, hs) ==
    /\ k \in CallType
    /\ CopyHolds(k, rs, hs)
    /\ HostHolds(k, hs)
    /\ k.pc # "idle" => OutcomesHold(k, rs)

RulesHold(rs, hs) ==
    /\ rs \in [Rules -> Seq(Entries)]
    /\ \A r \in Rules : Unique(rs[r]) /\ Refers(rs[r], hs)

IInv ==
    /\ RulesHold(rules, hosts)
    /\ hosts \subseteq Ips
    /\ removals \in 0 .. MaxRemovals
    /\ call \in [Callers -> CallType]
    /\ \A c \in Callers : CallHolds(call[c], rules, hosts)

-------------------------------------------------------------------------------
(* Entries. *)

\* A sequence's addresses, by index.
LEMMA AddressesByIndex ==
    ASSUME NEW s \in Seq(Entries)
    PROVE  /\ Addresses(s) = {s[i].ip : i \in DOMAIN s}
           /\ Addresses(s) \subseteq Ips
           /\ \A a : ip_in_rule(a, s) <=> a \in Addresses(s)
  <1>1. \A i \in DOMAIN s : s[i] \in Entries
    BY ElementOfSeq, LenProperties
  <1>2. Addresses(s) = {s[i].ip : i \in DOMAIN s}
    BY DEF Addresses, ToSet
  <1>3. Addresses(s) \subseteq Ips
    BY <1>1, <1>2 DEF Entries
  <1>4. \A a : ip_in_rule(a, s) <=> a \in Addresses(s)
    BY DEF ip_in_rule, Addresses
  <1>5. QED
    BY <1>2, <1>3, <1>4

\* Appending the host object of an address that is not listed.
LEMMA Appended ==
    ASSUME NEW s \in Seq(Entries), NEW a \in Ips, NEW hs,
           a \notin Addresses(s), Unique(s), Refers(s, hs), a \in hs
    PROVE  LET t == append_ip_to_rule(a, s)
           IN  /\ t \in Seq(Entries)
               /\ Unique(t) /\ Refers(t, hs)
               /\ Addresses(t) = Addresses(s) \cup {a}
  <1> DEFINE t == Append(s, Host(a))
  <1>1. append_ip_to_rule(a, s) = t
    BY DEF append_ip_to_rule, Addresses, Host, ToSet
  <1>2. /\ Host(a) \in Entries
        /\ Host(a).ip = a
    BY DEF Host, Entries
  <1>3. /\ t \in Seq(Entries)
        /\ Len(t) = Len(s) + 1
        /\ \A i \in 1 .. Len(s) : t[i] = s[i]
        /\ t[Len(s) + 1] = Host(a)
    BY <1>2, AppendProperties
  <1>4. /\ DOMAIN t = 1 .. Len(s) + 1
        /\ DOMAIN s = 1 .. Len(s)
        /\ Len(s) \in Nat
    BY <1>3, LenProperties
  <1>5. \A i \in DOMAIN s : s[i].ip # a
    BY AddressesByIndex
  <1>6. Unique(t)
    BY <1>2, <1>3, <1>4, <1>5 DEF Unique
  <1>7. Refers(t, hs)
    BY <1>2, <1>3, <1>4 DEF Refers
  <1>8. Addresses(t) = Addresses(s) \cup {a}
    <2> HIDE DEF t
    <2>1. /\ Addresses(t) = {t[i].ip : i \in DOMAIN t}
          /\ Addresses(s) = {s[i].ip : i \in DOMAIN s}
      BY <1>3, AddressesByIndex
    <2>2. QED
      BY <2>1, <1>2, <1>3, <1>4
  <1>9. QED
    BY <1>1, <1>3, <1>6, <1>7, <1>8

\* Taking an entry out.
LEMMA Removed ==
    ASSUME NEW s \in Seq(Entries), NEW i \in DOMAIN s, NEW hs, Unique(s), Refers(s, hs)
    PROVE  /\ RemoveAt(s, i) \in Seq(Entries)
           /\ Unique(RemoveAt(s, i))
           /\ Refers(RemoveAt(s, i), hs)
           /\ Addresses(RemoveAt(s, i)) = Addresses(s) \ {s[i].ip}
  <1> DEFINE front == SubSeq(s, 1, i - 1)
             back  == SubSeq(s, i + 1, Len(s))
             t     == front \o back
  <1>1. DOMAIN s = 1 .. Len(s) /\ Len(s) \in Nat
    BY LenProperties
  <1>2. /\ front \in Seq(Entries)
        /\ Len(front) = i - 1
        /\ \A j \in 1 .. i - 1 : front[j] = s[j]
    BY <1>1, SubSeqProperties
  <1>3. /\ back \in Seq(Entries)
        /\ Len(back) = Len(s) - i
        /\ \A j \in 1 .. Len(s) - i : back[j] = s[i + j]
    BY <1>1, SubSeqProperties
  <1>4. /\ t \in Seq(Entries)
        /\ Len(t) = Len(s) - 1
        /\ DOMAIN t = 1 .. Len(s) - 1
        /\ \A j \in 1 .. Len(s) - 1 : t[j] = IF j < i THEN s[j] ELSE s[j + 1]
    <2> HIDE DEF front, back
    <2>1. /\ t \in Seq(Entries)
          /\ Len(t) = Len(front) + Len(back)
          /\ \A j \in 1 .. Len(front) + Len(back) :
                t[j] = IF j <= Len(front) THEN front[j] ELSE back[j - Len(front)]
      BY <1>2, <1>3, ConcatProperties
    <2>2. DOMAIN t = 1 .. Len(t)
      BY <2>1, LenProperties
    <2>3. Len(t) = Len(s) - 1
      BY <2>1, <1>1, <1>2, <1>3
    <2>4. ASSUME NEW j \in 1 .. Len(s) - 1
          PROVE  t[j] = IF j < i THEN s[j] ELSE s[j + 1]
      <3>1. CASE j < i
        BY <3>1, <2>1, <2>3, <1>1, <1>2
      <3>2. CASE ~(j < i)
        <4>1. t[j] = back[j - (i - 1)]
          BY <3>2, <2>1, <2>3, <1>1, <1>2
        <4>2. j - (i - 1) \in 1 .. Len(s) - i
          BY <3>2, <1>1
        <4>3. back[j - (i - 1)] = s[i + (j - (i - 1))]
          BY <4>2, <1>3
        <4>4. i + (j - (i - 1)) = j + 1
          BY <1>1
        <4>5. QED
          BY <3>2, <4>1, <4>3, <4>4
      <3>3. QED
        BY <3>1, <3>2
    <2>5. QED
      BY <2>1, <2>2, <2>3, <2>4
  <1>5. Unique(t) /\ Refers(t, hs)
    <2> HIDE DEF t
    <2> DEFINE from(j) == IF j < i THEN j ELSE j + 1
    <2>1. \A j \in DOMAIN t : from(j) \in DOMAIN s /\ t[j] = s[from(j)]
      BY <1>4, <1>1
    <2>2. \A j, l \in DOMAIN t : from(j) = from(l) => j = l
      BY <1>4, <1>1
    <2> HIDE DEF from
    <2>3. Unique(t)
      BY <2>1, <2>2 DEF Unique
    <2>4. Refers(t, hs)
      BY <2>1 DEF Refers
    <2>5. QED
      BY <2>3, <2>4
  <1>6. Addresses(t) = Addresses(s) \ {s[i].ip}
    <2> HIDE DEF t
    <2>1. /\ Addresses(t) = {t[j].ip : j \in DOMAIN t}
          /\ Addresses(s) = {s[j].ip : j \in DOMAIN s}
      BY <1>4, AddressesByIndex
    <2>2. ASSUME NEW j \in DOMAIN t
          PROVE  t[j].ip \in Addresses(s) \ {s[i].ip}
      <3>1. PICK l \in DOMAIN s : t[j] = s[l] /\ l # i
        BY <1>1, <1>4
      <3>2. QED
        BY <2>1, <3>1 DEF Unique
    <2>3. ASSUME NEW l \in DOMAIN s, s[l].ip # s[i].ip
          PROVE  s[l].ip \in Addresses(t)
      <3>1. CASE l < i
        <4>1. l \in DOMAIN t /\ t[l] = s[l]
          BY <1>1, <1>4, <3>1
        <4>2. QED
          BY <2>1, <4>1
      <3>2. CASE l > i
        <4>1. l - 1 \in DOMAIN t /\ t[l - 1] = s[l]
          BY <1>1, <1>4, <3>2
        <4>2. QED
          BY <2>1, <4>1
      <3>3. QED
        BY <1>1, <2>3, <3>1, <3>2
    <2>4. QED
      BY <2>1, <2>2, <2>3
  <1>7. QED
    BY <1>4, <1>5, <1>6 DEF RemoveAt
-------------------------------------------------------------------------------
(* Calls. *)

\* The indices of the rules.
LEMMA RuleIndices ==
    /\ DOMAIN RuleNames = 1 .. Len(RuleNames)
    /\ Len(RuleNames) \in Nat
    /\ 1 \in DOMAIN RuleNames
    /\ \A i \in DOMAIN RuleNames : RuleNames[i] \in Rules
  <1>1. /\ DOMAIN RuleNames = 1 .. Len(RuleNames)
        /\ Len(RuleNames) \in Nat
    BY RuleUpdateAssumption, LenProperties
  <1>2. Len(RuleNames) # 0
    BY RuleUpdateAssumption, EmptySeq
  <1>3. QED
    BY <1>1, <1>2 DEF Rules

\* A sequence without entries.
LEMMA NoEntries ==
    ASSUME NEW hs
    PROVE  <<>> \in Seq(Entries) /\ Unique(<<>>) /\ Refers(<<>>, hs)
  BY DEF Unique, Refers

\* A call that has ended.
LEMMA ReturnedCall ==
    ASSUME NEW a \in Ips, NEW result \in Results
    PROVE  Returned(a, result).pc = "idle" /\ Returned(a, result).result = result
  BY DEF Returned, NewCall

\* A call that starts, and one that has ended.
LEMMA FreshCall ==
    ASSUME NEW a \in Ips, NEW result \in Results, NEW rs, NEW hs
    PROVE  /\ CallHolds(NewCall(a), rs, hs)
           /\ CallHolds(Returned(a, result), rs, hs)
           /\ Returned(a, result).pc = "idle"
           /\ Returned(a, result).result = result
  <1>1. NewCall(a) \in CallType
    BY RuleIndices, NoEntries DEF NewCall, CallType, Locations, Outcomes, Results
  <1>2. /\ Returned(a, result) \in CallType
        /\ Returned(a, result).pc = "idle"
        /\ Returned(a, result).result = result
        /\ Returned(a, result).copy = <<>>
        /\ Returned(a, result).hostDone = FALSE
    BY <1>1 DEF Returned, NewCall, CallType, Locations
  <1>3. CallHolds(Returned(a, result), rs, hs)
    BY <1>2, NoEntries DEF CallHolds, CopyHolds, HostHolds
  <1>4. OutcomesHold(NewCall(a), rs)
    BY RuleIndices DEF OutcomesHold, NewCall
  <1>5. CallHolds(NewCall(a), rs, hs)
    BY <1>1, <1>4, NoEntries DEF CallHolds, CopyHolds, HostHolds, NewCall
  <1>6. QED
    BY <1>2, <1>3, <1>5

\* Going on after a rule keeps what a call may say.
LEMMA AfterRule ==
    ASSUME NEW c \in Callers, NEW rs, NEW hs, NEW outcome \in Outcomes \ {"none"},
           call[c] \in CallType, OutcomesHold(call[c], rs), HostHolds(call[c], hs),
           outcome \in {"present", "appended"}
              => ip_in_rule(call[c].ip, rs[Rule(c)]) \/ call[c].ip \in call[c].taken
    PROVE  CallHolds(RuleDone(c, outcome), rs, hs)
  <1> DEFINE k        == call[c]
             outcomes == [k.outcomes EXCEPT ![RuleNames[k.next]] = outcome]
             after    == [k EXCEPT !.pc = "fetch", !.next = k.next + 1,
                                   !.copy = <<>>, !.outcomes = outcomes]
  <1>1. CASE k.next < Len(RuleNames)
    <2>1. RuleDone(c, outcome) = after
      BY <1>1 DEF RuleDone
    <2>2. k.next + 1 \in DOMAIN RuleNames
      BY <1>1, RuleIndices DEF CallType
    <2>3. outcomes \in [Rules -> Outcomes]
      BY RuleIndices DEF CallType
    <2>4. after \in CallType
      BY <2>2, <2>3, NoEntries DEF CallType, Locations
    <2>5. /\ after.pc = "fetch" /\ after.next = k.next + 1 /\ after.copy = <<>>
          /\ after.outcomes = outcomes /\ after.ip = k.ip /\ after.taken = k.taken
          /\ after.hostDone = k.hostDone
      BY DEF CallType
    <2>6. OutcomesHold(after, rs)
      <3> HIDE DEF after
      <3>1. \A i \in DOMAIN RuleNames : i < k.next + 1 <=> outcomes[RuleNames[i]] # "none"
        <4> SUFFICES ASSUME NEW i \in DOMAIN RuleNames
                     PROVE  i < k.next + 1 <=> outcomes[RuleNames[i]] # "none"
          OBVIOUS
        <4>1. k.next \in DOMAIN RuleNames /\ k.outcomes \in [Rules -> Outcomes]
          BY DEF CallType
        <4>2. CASE i = k.next
          BY <4>1, <4>2, RuleIndices
        <4>3. CASE i # k.next
          <5>1. RuleNames[i] # RuleNames[k.next]
            BY <4>1, <4>3, RuleUpdateAssumption
          <5>2. outcomes[RuleNames[i]] = k.outcomes[RuleNames[i]]
            BY <4>1, <5>1, RuleIndices
          <5>3. i < k.next <=> k.outcomes[RuleNames[i]] # "none"
            BY DEF OutcomesHold
          <5>4. i < k.next + 1 <=> i < k.next
            BY <4>1, <4>3, RuleIndices
          <5>5. QED
            BY <5>2, <5>3, <5>4
        <4>4. QED
          BY <4>2, <4>3
      <3>2. ASSUME NEW r \in Rules, outcomes[r] \in {"present", "appended"}
            PROVE  ip_in_rule(k.ip, rs[r]) \/ k.ip \in k.taken
        <4>1. k.outcomes \in [Rules -> Outcomes]
          BY DEF CallType
        <4>2. CASE r = RuleNames[k.next]
          BY <3>2, <4>1, <4>2 DEF Rule
        <4>3. CASE r # RuleNames[k.next]
          BY <3>2, <4>1, <4>3 DEF OutcomesHold
        <4>4. QED
          BY <4>2, <4>3
      <3>3. QED
        BY <3>1, <3>2, <2>5 DEF OutcomesHold
    <2>7. QED
      <3> HIDE DEF after
      <3>1. QED
        BY <2>1, <2>4, <2>5, <2>6, NoEntries DEF CallHolds, CopyHolds, HostHolds
  <1>2. CASE ~(k.next < Len(RuleNames))
    <2>1. RuleDone(c, outcome) = Returned(k.ip, RollUp(outcomes))
      BY <1>2 DEF RuleDone
    <2>2. RollUp(outcomes) \in Results
      BY DEF RollUp, Results
    <2>3. QED
      BY <2>1, <2>2, FreshCall DEF CallType
  <1>3. QED
    BY <1>1, <1>2
\* The results that say the address is in every rule are honest.
LEMMA HonestResult ==
    ASSUME NEW c \in Callers, NEW rs, NEW outcome \in Outcomes \ {"none"},
           call[c] \in CallType, OutcomesHold(call[c], rs),
           outcome \in {"present", "appended"}
              => ip_in_rule(call[c].ip, rs[Rule(c)]) \/ call[c].ip \in call[c].taken,
           RuleDone(c, outcome).pc = "idle",
           RuleDone(c, outcome).result \in {"blocked", "duplicate"}
    PROVE  \/ \A r \in Rules : ip_in_rule(call[c].ip, rs[r])
           \/ call[c].ip \in call[c].taken
  <1> DEFINE k        == call[c]
             outcomes == [k.outcomes EXCEPT ![RuleNames[k.next]] = outcome]
  <1>1. /\ k.next \in DOMAIN RuleNames
        /\ k.outcomes \in [Rules -> Outcomes]
        /\ k.ip \in Ips
        /\ outcomes \in [Rules -> Outcomes]
    BY RuleIndices DEF CallType
  <1>2. ~(k.next < Len(RuleNames))
    <2>1. SUFFICES ASSUME k.next < Len(RuleNames) PROVE FALSE
      OBVIOUS
    <2>2. RuleDone(c, outcome).pc = "fetch"
      BY <2>1 DEF RuleDone, CallType
    <2>3. QED
      BY <2>2
  <1>3. RuleDone(c, outcome) = Returned(k.ip, RollUp(outcomes))
    BY <1>2 DEF RuleDone
  <1>4. RollUp(outcomes) \in {"blocked", "duplicate"}
    <2>1. RollUp(outcomes) \in Results
      BY DEF RollUp, Results
    <2>2. QED
      BY <1>1, <1>3, <2>1, ReturnedCall
  <1>5. \A r \in Rules : outcomes[r] # "failed"
    BY <1>4 DEF RollUp
  <1>6. ASSUME NEW r \in Rules
        PROVE  ip_in_rule(k.ip, rs[r]) \/ k.ip \in k.taken
    <2>1. CASE r = RuleNames[k.next]
      <3>1. outcome \in {"present", "appended"}
        BY <1>1, <1>5, <2>1 DEF Outcomes
      <3>2. QED
        BY <2>1, <3>1 DEF Rule
    <2>2. CASE r # RuleNames[k.next]
      <3>1. PICK i \in DOMAIN RuleNames : r = RuleNames[i]
        BY DEF Rules
      <3>2. i < k.next
        BY <1>1, <1>2, <2>2, <3>1, RuleIndices
      <3>3. k.outcomes[r] # "none" /\ k.outcomes[r] # "failed"
        BY <1>1, <1>5, <2>2, <3>1, <3>2 DEF OutcomesHold
      <3>4. k.outcomes[r] \in {"present", "appended"}
        BY <1>1, <3>3 DEF Outcomes
      <3>5. QED
        BY <3>4 DEF OutcomesHold
    <2>3. QED
      BY <2>1, <2>2
  <1>7. QED
    BY <1>6

-------------------------------------------------------------------------------
(* Steps. *)

\* More host objects do no harm.
LEMMA MoreHosts ==
    ASSUME NEW k, NEW rs, NEW hs, NEW more, hs \subseteq more, CallHolds(k, rs, hs)
    PROVE  CallHolds(k, rs, more)
  BY DEF CallHolds, CopyHolds, HostHolds, Refers

\* A step of one call that changes no rule.
LEMMA RulesStay ==
    ASSUME IInv, NEW c \in Callers, NEW k,
           rules' = rules, removals' = removals,
           hosts \subseteq hosts', hosts' \subseteq Ips,
           call' = [call EXCEPT ![c] = k], CallHolds(k, rules, hosts')
    PROVE  IInv'
  <1>1. call' \in [Callers -> CallType]
    BY DEF IInv, CallHolds
  <1>2. \A d \in Callers : CallHolds(call[d], rules, hosts')
    BY MoreHosts DEF IInv
  <1>3. \A d \in Callers : CallHolds(call'[d], rules, hosts')
    BY <1>2 DEF IInv
  <1>4. RulesHold(rules, hosts')
    BY DEF IInv, RulesHold, Refers
  <1>5. QED
    BY <1>1, <1>3, <1>4 DEF IInv

\* Every call knows what a replaced rule gained and lost.
LEMMA NoticedHolds ==
    ASSUME IInv, NEW r \in Rules, NEW entries \in Seq(Entries), NEW c \in Callers
    PROVE  CallHolds(Noticed(r, entries)[c], [rules EXCEPT ![r] = entries], hosts)
  <1> DEFINE k   == call[c]
             old == Addresses(rules[r])
             new == Addresses(entries)
             rs  == [rules EXCEPT ![r] = entries]
             m   == [k EXCEPT !.added = @ \cup (new \ old),
                              !.taken = @ \cup (old \ new)]
  <1>1. /\ k \in CallType
        /\ CallHolds(k, rules, hosts)
        /\ rules \in [Rules -> Seq(Entries)]
    BY DEF IInv, RulesHold
  <1>2. CASE k.pc = "idle"
    <2>1. Noticed(r, entries)[c] = k
      BY <1>2 DEF Noticed
    <2>2. QED
      BY <1>1, <1>2, <2>1 DEF CallHolds, CopyHolds
  <1>3. CASE k.pc # "idle"
    <2>1. Noticed(r, entries)[c] = m
      BY <1>3 DEF Noticed
    <2>2. old \subseteq Ips /\ new \subseteq Ips
      BY <1>1, AddressesByIndex
    <2>3. /\ m \in CallType
          /\ m.pc = k.pc /\ m.ip = k.ip /\ m.next = k.next /\ m.copy = k.copy
          /\ m.hostDone = k.hostDone /\ m.outcomes = k.outcomes
          /\ m.added = k.added \cup (new \ old)
          /\ m.taken = k.taken \cup (old \ new)
      BY <1>1, <2>2 DEF CallType
    <2> HIDE DEF m
    <2>4. \A q \in Rules : Addresses(rs[q]) \subseteq Addresses(rules[q]) \cup (new \ old)
      BY <1>1
    <2>5. \A q \in Rules : Addresses(rules[q]) \subseteq Addresses(rs[q]) \cup (old \ new)
      BY <1>1
    <2>6. CopyHolds(m, rs, hosts)
      <3>1. RuleNames[k.next] \in Rules
        BY <1>1, RuleIndices DEF CallType
      <3>2. QED
        BY <1>1, <2>3, <2>4, <3>1 DEF CallHolds, CopyHolds
    <2>7. HostHolds(m, hosts)
      BY <1>1, <2>3 DEF CallHolds, HostHolds
    <2>8. OutcomesHold(m, rs)
      <3>1. ASSUME NEW q \in Rules, ip_in_rule(k.ip, rules[q])
            PROVE  ip_in_rule(k.ip, rs[q]) \/ k.ip \in old \ new
        BY <3>1, <2>5, <1>1, AddressesByIndex
      <3>2. OutcomesHold(k, rules)
        BY <1>1, <1>3 DEF CallHolds
      <3>3. QED
        BY <2>3, <3>1, <3>2 DEF OutcomesHold
    <2>9. QED
      BY <2>1, <2>3, <2>6, <2>7, <2>8 DEF CallHolds
  <1>4. QED
    BY <1>2, <1>3

\* A step that replaces a rule.
LEMMA RuleReplaced ==
    ASSUME IInv, NEW r \in Rules, NEW entries \in Seq(Entries),
           Unique(entries), Refers(entries, hosts),
           rules' = [rules EXCEPT ![r] = entries], hosts' = hosts,
           removals' \in 0 .. MaxRemovals,
           call' \in [Callers -> CallType],
           \A c \in Callers : CallHolds(call'[c], rules', hosts)
    PROVE  IInv'
  BY DEF IInv, RulesHold
LEMMA InitHolds == Init => IInv
  <1> SUFFICES ASSUME Init PROVE IInv
    OBVIOUS
  <1>1. ASSUME NEW r \in Rules
        PROVE  rules[r] \in Seq(Entries) /\ Unique(rules[r]) /\ Refers(rules[r], hosts)
    <2>1. rules[r] \in Initial
      BY DEF Init
    <2>2. rules[r] \in Seq(Entries) /\ Unique(rules[r])
      BY <2>1, RuleUpdateAssumption DEF Unique
    <2>3. ASSUME NEW i \in DOMAIN rules[r]
          PROVE  rules[r][i].raw \/ rules[r][i].ip \in hosts
      <3>1. rules[r][i] \in Entries
        BY <2>2, ElementOfSeq, LenProperties
      <3>2. rules[r][i] \in UNION {ToSet(s) : s \in Initial}
        BY <2>1 DEF ToSet
      <3>3. QED
        BY <3>1, <3>2 DEF Init, Entries
    <2>4. QED
      BY <2>2, <2>3 DEF Refers
  <1>2. RulesHold(rules, hosts)
    BY <1>1 DEF RulesHold, Init
  <1>3. hosts \subseteq Ips
    <2>1. ASSUME NEW s \in Initial, NEW e \in ToSet(s)
          PROVE  e.ip \in Ips
      <3>1. e \in Entries
        BY <2>1, RuleUpdateAssumption, ElementOfSeq, LenProperties DEF ToSet
      <3>2. QED
        BY <3>1 DEF Entries
    <2>2. QED
      BY <2>1 DEF Init
  <1>4. ASSUME NEW c \in Callers
        PROVE  call[c] \in CallType /\ CallHolds(call[c], rules, hosts)
    <2>1. PICK a \in Ips : call[c] = Returned(a, "none")
      BY DEF Init
    <2>2. CallHolds(call[c], rules, hosts)
      BY <2>1, FreshCall DEF Results
    <2>3. QED
      BY <2>2 DEF CallHolds
  <1>5. call \in [Callers -> CallType]
    BY <1>4 DEF Init
  <1>6. QED
    BY <1>2, <1>3, <1>4, <1>5, RuleUpdateAssumption DEF IInv, Init

\* What the invariant says of a call under way.
LEMMA Underway ==
    ASSUME IInv, NEW c \in Callers
    PROVE  /\ call[c] \in CallType
           /\ CallHolds(call[c], rules, hosts)
           /\ Rule(c) \in Rules
           /\ rules[Rule(c)] \in Seq(Entries)
           /\ Unique(rules[Rule(c)])
           /\ Refers(rules[Rule(c)], hosts)
           /\ HostHolds(call[c], hosts)
           /\ call[c].pc # "idle" => OutcomesHold(call[c], rules)
  BY RuleIndices DEF IInv, CallHolds, RulesHold, Rule, CallType

LEMMA CallStep ==
    ASSUME IInv, NEW c \in Callers, NEW a \in Ips, Call(c, a) PROVE IInv'
  <1>1. CallHolds(NewCall(a), rules, hosts)
    BY FreshCall DEF Results
  <1>2. hosts' = hosts /\ hosts \subseteq Ips
    BY DEF Call, IInv
  <1>3. QED
    BY <1>1, <1>2, RulesStay DEF Call

\* A call that ends without a word on the rules.
LEMMA FinishStep ==
    ASSUME IInv, NEW c \in Callers, NEW result \in Results, Finish(c, result),
           UNCHANGED <<rules, hosts, removals>>
    PROVE  IInv'
  <1>1. call[c].ip \in Ips
    BY Underway DEF CallType
  <1>2. CallHolds(Returned(call[c].ip, result), rules, hosts)
    BY <1>1, FreshCall
  <1>3. call' = [call EXCEPT ![c] = Returned(call[c].ip, result)]
    BY DEF Finish, IInv
  <1>4. QED
    BY <1>2, <1>3, RulesStay DEF IInv

\* A call that goes on to a place where it holds no copy to rely on.
LEMMA GoOn ==
    ASSUME IInv, NEW c \in Callers, call[c].pc # "idle",
           NEW l \in {"login", "fetch", "verify"}, NEW rs, NEW hs,
           OutcomesHold(call[c], rs), hosts \subseteq hs
    PROVE  CallHolds([call[c] EXCEPT !.pc = l], rs, hs)
  <1> DEFINE k == call[c]
             m == [k EXCEPT !.pc = l]
  <1>1. /\ m \in CallType /\ m.pc = l /\ m.copy = k.copy /\ m.next = k.next
        /\ m.ip = k.ip /\ m.taken = k.taken /\ m.hostDone = k.hostDone
        /\ m.outcomes = k.outcomes
    BY Underway DEF CallType, Locations
  <1> HIDE DEF m
  <1>2. CopyHolds(m, rs, hs)
    BY <1>1, Underway DEF CallHolds, CopyHolds, Refers
  <1>3. HostHolds(m, hs)
    BY <1>1, Underway DEF HostHolds
  <1>4. OutcomesHold(m, rs)
    BY <1>1 DEF OutcomesHold
  <1>5. CallHolds(m, rs, hs)
    BY <1>1, <1>2, <1>3, <1>4 DEF CallHolds
  <1>6. QED
    BY <1>5 DEF m

LEMMA GuardStep ==
    ASSUME IInv, NEW c \in Callers, Guard(c) PROVE IInv'
  <1>1. CASE Finish(c, "failed")
    BY <1>1, FinishStep DEF Guard, Results
  <1>2. CASE Finish(c, "allowed")
    BY <1>2, FinishStep DEF Guard, Results
  <1>3. CASE call' = [call EXCEPT ![c].pc = "login"]
    <2>1. CallHolds([call[c] EXCEPT !.pc = "login"], rules, hosts)
      BY GoOn, Underway DEF Guard
    <2>2. QED
      BY <1>3, <2>1, RulesStay DEF Guard, IInv
  <1>4. QED
    BY <1>1, <1>2, <1>3 DEF Guard

LEMMA AuthenticateStep ==
    ASSUME IInv, NEW c \in Callers, Authenticate(c) PROVE IInv'
  <1>1. CASE Finish(c, "failed")
    BY <1>1, FinishStep DEF Authenticate, Results
  <1>2. CASE call' = [call EXCEPT ![c].pc = "fetch"]
    <2>1. CallHolds([call[c] EXCEPT !.pc = "fetch"], rules, hosts)
      BY GoOn, Underway DEF Authenticate
    <2>2. QED
      BY <1>2, <2>1, RulesStay DEF Authenticate, IInv
  <1>3. QED
    BY <1>1, <1>2 DEF Authenticate

LEMMA FetchStep ==
    ASSUME IInv, NEW c \in Callers, Fetch(c) PROVE IInv'
  <1> DEFINE k == call[c]
             m == [k EXCEPT !.pc = IF k.hostDone THEN "upload" ELSE "host",
                            !.copy = rules[Rule(c)]]
  <1>1. /\ k \in CallType /\ HostHolds(k, hosts) /\ OutcomesHold(k, rules)
        /\ UNCHANGED <<rules, hosts, removals>>
        /\ hosts \subseteq Ips
    BY Underway DEF Fetch, IInv
  <1>2. CASE ip_in_rule(k.ip, rules[Rule(c)])
    <2>1. CallHolds(RuleDone(c, "present"), rules, hosts)
      BY <1>1, <1>2, AfterRule DEF Outcomes
    <2>2. call' = [call EXCEPT ![c] = RuleDone(c, "present")]
      BY <1>2 DEF Fetch, IInv
    <2>3. QED
      BY <1>1, <2>1, <2>2, RulesStay
  <1>3. CASE ~ip_in_rule(k.ip, rules[Rule(c)])
    <2>1. call' = [call EXCEPT ![c] = m]
      BY <1>3 DEF Fetch, IInv
    <2>2. /\ m \in CallType /\ m.copy = rules[Rule(c)] /\ m.next = k.next
          /\ m.ip = k.ip /\ m.taken = k.taken /\ m.hostDone = k.hostDone
          /\ m.outcomes = k.outcomes /\ m.added = k.added
          /\ m.pc = IF k.hostDone THEN "upload" ELSE "host"
      BY <1>1, Underway DEF CallType, Locations
    <2> HIDE DEF m
    <2>3. CopyHolds(m, rules, hosts)
      <3>1. Addresses(m.copy) = Addresses(rules[RuleNames[m.next]])
        BY <2>2 DEF Rule
      <3>2. m.ip \notin Addresses(m.copy)
        BY <1>3, <2>2, Underway, AddressesByIndex
      <3>3. QED
        BY <2>2, <3>1, <3>2, Underway DEF CopyHolds
    <2>4. HostHolds(m, hosts)
      BY <1>1, <2>2 DEF HostHolds
    <2>5. OutcomesHold(m, rules)
      BY <1>1, <2>2 DEF OutcomesHold
    <2>6. CallHolds(m, rules, hosts)
      BY <2>2, <2>3, <2>4, <2>5 DEF CallHolds
    <2>7. QED
      BY <1>1, <2>1, <2>6, RulesStay
  <1>4. QED
    BY <1>2, <1>3

LEMMA EnsureHostStep ==
    ASSUME IInv, NEW c \in Callers, EnsureHost(c) PROVE IInv'
  <1> DEFINE k == call[c]
             m == [k EXCEPT !.pc = "upload", !.hostDone = TRUE]
  <1>1. /\ k \in CallType /\ CallHolds(k, rules, hosts) /\ OutcomesHold(k, rules)
        /\ k.pc = "host" /\ UNCHANGED <<rules, removals>>
        /\ hosts' = hosts \cup {k.ip} /\ hosts' \subseteq Ips
    BY Underway DEF EnsureHost, IInv, CallType
  <1>2. call' = [call EXCEPT ![c] = m]
    BY DEF EnsureHost, IInv
  <1>3. /\ m \in CallType /\ m.copy = k.copy /\ m.next = k.next
        /\ m.ip = k.ip /\ m.taken = k.taken /\ m.hostDone = TRUE
        /\ m.outcomes = k.outcomes /\ m.added = k.added /\ m.pc = "upload"
    BY <1>1 DEF CallType, Locations
  <1> HIDE DEF m
  <1>4. CopyHolds(m, rules, hosts')
    BY <1>1, <1>3 DEF CallHolds, CopyHolds, Refers
  <1>5. HostHolds(m, hosts')
    BY <1>1, <1>3 DEF HostHolds
  <1>6. OutcomesHold(m, rules)
    BY <1>1, <1>3 DEF OutcomesHold
  <1>7. CallHolds(m, rules, hosts')
    BY <1>3, <1>4, <1>5, <1>6 DEF CallHolds
  <1>8. QED
    BY <1>1, <1>2, <1>7, RulesStay
\* The upload, whichever of the two contents the rule has afterwards and whatever
\* the call makes of the answer.
LEMMA UploadStep ==
    ASSUME IInv, NEW c \in Callers, Upload(c)
    PROVE  /\ IInv'
           /\ \A r \in Rules : Addresses(rules[r]) \subseteq
                                Addresses(rules'[r]) \cup call[c].added
           /\ call'[c] = RuleDone(c, "failed") \/ call'[c].pc = "verify"
  <1> DEFINE k == call[c]
             r == Rule(c)
  <1>1. /\ k \in CallType /\ CallHolds(k, rules, hosts) /\ OutcomesHold(k, rules)
        /\ k.pc = "upload" /\ k.ip \in hosts /\ r \in Rules
        /\ HostHolds(k, hosts)
        /\ UNCHANGED <<hosts, removals>>
    BY Underway DEF Upload, HostHolds
  <1>2. PICK entries \in {append_ip_to_rule(k.ip, k.copy), rules[r]},
             after \in {[k EXCEPT !.pc = "verify"], RuleDone(c, "failed")} :
          /\ rules' = [rules EXCEPT ![r] = entries]
          /\ call' = [Noticed(r, entries) EXCEPT ![c] = after]
    BY DEF Upload
  <1>3. /\ entries \in Seq(Entries) /\ Unique(entries) /\ Refers(entries, hosts)
        /\ Addresses(rules[r]) \subseteq Addresses(entries) \cup k.added
    <2>1. CASE entries = rules[r]
      BY <2>1, Underway
    <2>2. CASE entries = append_ip_to_rule(k.ip, k.copy)
      <3>1. /\ k.copy \in Seq(Entries) /\ Unique(k.copy) /\ Refers(k.copy, hosts)
            /\ k.ip \notin Addresses(k.copy) /\ k.ip \in Ips
            /\ Addresses(rules[r]) \subseteq Addresses(k.copy) \cup k.added
        BY <1>1 DEF CallHolds, CopyHolds, CallType, Rule
      <3>2. QED
        BY <1>1, <2>2, <3>1, Appended
    <2>3. QED
      BY <1>2, <2>1, <2>2
  <1>4. rules \in [Rules -> Seq(Entries)]
    BY DEF IInv, RulesHold
  <1>5. OutcomesHold(k, rules')
    <2>1. \A q \in Rules : q # r => rules'[q] = rules[q]
      BY <1>2, <1>4
    <2>2. k.outcomes[r] = "none"
      BY <1>1, RuleIndices DEF OutcomesHold, Rule, CallType
    <2>3. QED
      BY <1>1, <2>1, <2>2 DEF OutcomesHold
  <1>6. CallHolds(after, rules', hosts)
    <2>1. CASE after = RuleDone(c, "failed")
      BY <1>1, <1>5, <2>1, AfterRule DEF Outcomes
    <2>2. CASE after = [k EXCEPT !.pc = "verify"]
      BY <1>1, <1>5, <2>2, GoOn
    <2>3. QED
      BY <1>2, <2>1, <2>2
  <1>7. ASSUME NEW d \in Callers PROVE CallHolds(call'[d], rules', hosts)
    <2>1. CASE d = c
      BY <1>2, <1>6, <2>1 DEF Noticed
    <2>2. CASE d # c
      <3>1. call'[d] = Noticed(r, entries)[d]
        BY <1>2, <2>2 DEF Noticed
      <3>2. QED
        BY <1>1, <1>2, <1>3, <3>1, NoticedHolds
    <2>3. QED
      BY <2>1, <2>2
  <1>8. call' \in [Callers -> CallType]
    <2>1. \A d \in Callers : call'[d] \in CallType
      BY <1>7 DEF CallHolds
    <2>2. call' = [d \in Callers |-> call'[d]]
      BY <1>2 DEF Noticed
    <2>3. QED
      BY <2>1, <2>2
  <1>9. removals' \in 0 .. MaxRemovals
    BY <1>1 DEF IInv
  <1>10. IInv'
    BY <1>1, <1>2, <1>3, <1>7, <1>8, <1>9, RuleReplaced
  <1>11. \A q \in Rules : Addresses(rules[q]) \subseteq Addresses(rules'[q]) \cup k.added
    BY <1>2, <1>3, <1>4
  <1>12. call'[c] = RuleDone(c, "failed") \/ call'[c].pc = "verify"
    <2>1. call'[c] = after
      BY <1>2 DEF Noticed
    <2>2. CASE after = [k EXCEPT !.pc = "verify"]
      BY <1>1, <2>1, <2>2 DEF CallType
    <2>3. QED
      BY <1>2, <2>1, <2>2
  <1>13. QED
    BY <1>10, <1>11, <1>12

LEMMA VerifyStep ==
    ASSUME IInv, NEW c \in Callers, Verify(c) PROVE IInv'
  <1> DEFINE outcome == IF ip_in_rule(call[c].ip, rules[Rule(c)])
                          THEN "appended" ELSE "failed"
  <1>1. /\ call[c] \in CallType /\ HostHolds(call[c], hosts)
        /\ OutcomesHold(call[c], rules) /\ UNCHANGED <<rules, hosts, removals>>
        /\ hosts \subseteq Ips
    BY Underway DEF Verify, IInv
  <1>2. call' = [call EXCEPT ![c] = RuleDone(c, outcome)]
    BY DEF Verify, IInv
  <1>3. outcome \in Outcomes \ {"none"}
    BY DEF Outcomes
  <1>4. outcome \in {"present", "appended"} => ip_in_rule(call[c].ip, rules[Rule(c)])
    OBVIOUS
  <1> HIDE DEF outcome
  <1>5. CallHolds(RuleDone(c, outcome), rules, hosts)
    BY <1>1, <1>3, <1>4, AfterRule
  <1>6. QED
    BY <1>1, <1>2, <1>5, RulesStay

LEMMA RequestFailsStep ==
    ASSUME IInv, NEW c \in Callers, RequestFails(c) PROVE IInv'
  <1>1. /\ call[c] \in CallType /\ HostHolds(call[c], hosts)
        /\ OutcomesHold(call[c], rules) /\ UNCHANGED <<rules, removals>>
        /\ hosts \subseteq hosts' /\ hosts' \subseteq Ips
    BY Underway DEF RequestFails, IInv, CallType
  <1>2. call' = [call EXCEPT ![c] = RuleDone(c, "failed")]
    BY DEF RequestFails
  <1>3. CallHolds(RuleDone(c, "failed"), rules, hosts')
    BY <1>1, AfterRule DEF Outcomes, HostHolds
  <1>4. QED
    BY <1>1, <1>2, <1>3, RulesStay

LEMMA RemoveStep ==
    ASSUME IInv, NEW r \in Rules, NEW i \in DOMAIN rules[r], RemoveByHand(r, i)
    PROVE  IInv'
  <1> DEFINE entries == RemoveAt(rules[r], i)
  <1>1. /\ rules[r] \in Seq(Entries) /\ Unique(rules[r]) /\ Refers(rules[r], hosts)
        /\ rules \in [Rules -> Seq(Entries)]
    BY DEF IInv, RulesHold
  <1>2. entries \in Seq(Entries) /\ Unique(entries) /\ Refers(entries, hosts)
    BY <1>1, Removed
  <1>3. /\ rules' = [rules EXCEPT ![r] = entries]
        /\ call' = Noticed(r, entries)
        /\ hosts' = hosts
    BY DEF RemoveByHand
  <1>4. removals' \in 0 .. MaxRemovals
    BY RuleUpdateAssumption DEF RemoveByHand, IInv
  <1> HIDE DEF entries
  <1>5. \A d \in Callers : CallHolds(call'[d], rules', hosts)
    BY <1>2, <1>3, NoticedHolds
  <1>6. call' \in [Callers -> CallType]
    <2>1. \A d \in Callers : call'[d] \in CallType
      BY <1>5 DEF CallHolds
    <2>2. call' = [d \in Callers |-> call'[d]]
      BY <1>3 DEF Noticed
    <2>3. QED
      BY <2>1, <2>2
  <1>7. QED
    BY <1>2, <1>3, <1>4, <1>5, <1>6, RuleReplaced

\* A step of one call leaves the others where they are.
LEMMA OthersStay ==
    ASSUME IInv, NEW c \in Callers, NEW d \in Callers, d # c, Step(d)
    PROVE  call'[c].pc = call[c].pc
  <1>1. call \in [Callers -> CallType] /\ call[c] \in CallType
    BY DEF IInv
  <1>2. CASE Upload(d)
    <2>1. PICK entries, after : call' = [Noticed(Rule(d), entries) EXCEPT ![d] = after]
      BY <1>2 DEF Upload
    <2>2. call'[c] = Noticed(Rule(d), entries)[c]
      BY <2>1 DEF Noticed
    <2>3. QED
      BY <1>1, <2>2 DEF Noticed, CallType
  <1>3. CASE ~Upload(d)
    <2>1. PICK k : call' = [call EXCEPT ![d] = k]
      <3>1. CASE Guard(d) \/ Authenticate(d)
        BY <1>1, <3>1 DEF Guard, Authenticate, Finish
      <3>2. CASE Fetch(d)
        BY <1>1, <3>2 DEF Fetch
      <3>3. CASE EnsureHost(d)
        BY <1>1, <3>3 DEF EnsureHost
      <3>4. CASE Verify(d) \/ RequestFails(d)
        BY <1>1, <3>4 DEF Verify, RequestFails
      <3>5. QED
        BY <1>3, <3>1, <3>2, <3>3, <3>4 DEF Step
    <2>2. QED
      BY <1>1, <2>1
  <1>4. QED
    BY <1>2, <1>3

LEMMA NextHolds == IInv /\ [Next]_vars => IInv'
  <1> SUFFICES ASSUME IInv, [Next]_vars PROVE IInv'
    OBVIOUS
  <1>1. ASSUME NEW c \in Callers, Step(c) PROVE IInv'
    BY <1>1, GuardStep, AuthenticateStep, FetchStep, EnsureHostStep, UploadStep,
       VerifyStep, RequestFailsStep DEF Step
  <1>2. ASSUME NEW c \in Callers, NEW a \in Ips, Call(c, a) PROVE IInv'
    BY <1>2, CallStep
  <1>3. ASSUME NEW r \in Rules, NEW i \in DOMAIN rules[r], RemoveByHand(r, i)
        PROVE  IInv'
    BY <1>3, RemoveStep
  <1>4. CASE UNCHANGED vars
    <2>1. UNCHANGED <<rules, hosts, call, removals>>
      BY <1>4 DEF vars
    <2>2. QED
      BY <2>1 DEF IInv
  <1>5. QED
    BY <1>1, <1>2, <1>3, <1>4 DEF Next

-------------------------------------------------------------------------------
(* The theorems. *)

\* The strengthened invariant holds in every reachable state.
THEOREM InvariantHolds == Spec => []IInv
  BY InitHolds, NextHolds, PTL DEF Spec

\* Every variable keeps its type, in any installation.
THEOREM TypeCorrect == Spec => []TypeOK
  <1>1. IInv => TypeOK
    BY DEF IInv, RulesHold, TypeOK, CallType
  <1>2. QED
    BY <1>1, InvariantHolds, PTL

\* No rule ever lists an address twice, whatever calls and administrators interleave.
THEOREM NeverTwice == Spec => []NeverListedTwice
  <1>1. IInv => NeverListedTwice
    BY DEF IInv, RulesHold, Unique, NeverListedTwice
  <1>2. QED
    BY <1>1, InvariantHolds, PTL

\* No rule ever names a host object that does not exist.
THEOREM NoDanglingReference == Spec => []ReferencesExist
  <1>1. IInv => ReferencesExist
    BY DEF IInv, RulesHold, Refers, ReferencesExist, ToSet
  <1>2. QED
    BY <1>1, InvariantHolds, PTL

\* A call that succeeds has left its address in every rule, unless others took it out.
THEOREM SuccessIsHonest == Spec => SuccessMeansEveryRule
  <1> DEFINE Honest(c) == /\ call[c].pc # "idle" /\ call'[c].pc = "idle"
                          /\ call'[c].result \in {"blocked", "duplicate"}
                          => \/ \A r \in Rules : ip_in_rule(call[c].ip, rules'[r])
                             \/ call[c].ip \in call[c].taken
  <1>1. ASSUME IInv, NEW c \in Callers, NEW outcome \in Outcomes \ {"none"},
               call'[c] = RuleDone(c, outcome), call[c].pc # "idle", rules' = rules,
               outcome \in {"present", "appended"}
                  => ip_in_rule(call[c].ip, rules[Rule(c)])
        PROVE  Honest(c)
    BY <1>1, HonestResult, Underway
  <1>2. ASSUME IInv, NEW c \in Callers, NEW d \in Callers, Step(d)
        PROVE  Honest(c)
    <2>1. CASE d # c
      BY <1>2, <2>1, OthersStay
    <2>2. CASE d = c
      <3>1. call \in [Callers -> CallType] /\ call[c] \in CallType
        BY <1>2 DEF IInv
      <3>2. ASSUME NEW result \in Results \ {"blocked", "duplicate"}, Finish(c, result)
            PROVE  Honest(c)
        BY <3>1, <3>2, ReturnedCall DEF Finish, CallType
      <3>3. ASSUME NEW l, call' = [call EXCEPT ![c].pc = l], l # "idle"
            PROVE  Honest(c)
        BY <3>1, <3>3 DEF CallType
      <3>4. CASE Guard(c)
        BY <3>2, <3>3, <3>4 DEF Guard, Results
      <3>5. CASE Authenticate(c)
        BY <3>2, <3>3, <3>5 DEF Authenticate, Results
      <3>6. CASE Fetch(c)
        <4>1. CASE ip_in_rule(call[c].ip, rules[Rule(c)])
          BY <1>1, <1>2, <3>1, <3>6, <4>1 DEF Fetch, Outcomes
        <4>2. CASE ~ip_in_rule(call[c].ip, rules[Rule(c)])
          BY <3>1, <3>6, <4>2 DEF Fetch, CallType
        <4>3. QED
          BY <4>1, <4>2
      <3>7. CASE EnsureHost(c)
        BY <3>1, <3>7 DEF EnsureHost, CallType
      <3>8. CASE Upload(c)
        <4>1. CASE call'[c] = RuleDone(c, "failed")
          <5>1. CASE call[c].next < Len(RuleNames)
            BY <3>1, <4>1, <5>1 DEF RuleDone, CallType
          <5>2. CASE ~(call[c].next < Len(RuleNames))
            <6>1. RuleNames[call[c].next] \in Rules
              BY <3>1, RuleIndices DEF CallType
            <6>2. call'[c] = Returned(call[c].ip, "failed")
              BY <3>1, <4>1, <5>2, <6>1 DEF RuleDone, RollUp, CallType
            <6>3. QED
              BY <3>1, <6>2, ReturnedCall DEF CallType, Results
          <5>3. QED
            BY <5>1, <5>2
        <4>2. CASE call'[c].pc = "verify"
          BY <4>2
        <4>3. QED
          BY <1>2, <3>8, <4>1, <4>2, UploadStep
      <3>9. CASE Verify(c)
        <4>1. call'[c] = RuleDone(c, IF ip_in_rule(call[c].ip, rules[Rule(c)])
                                       THEN "appended" ELSE "failed")
          BY <3>1, <3>9 DEF Verify
        <4>2. QED
          BY <1>1, <1>2, <3>9, <4>1 DEF Verify, Outcomes
      <3>10. CASE RequestFails(c)
        BY <1>1, <1>2, <3>1, <3>10 DEF RequestFails, Outcomes
      <3>11. QED
        BY <1>2, <2>2, <3>4, <3>5, <3>6, <3>7, <3>8, <3>9, <3>10 DEF Step
    <2>3. QED
      BY <2>1, <2>2
  <1>3. ASSUME IInv, NEW c \in Callers, NEW d \in Callers, NEW a \in Ips, Call(d, a)
        PROVE  Honest(c)
    BY <1>3 DEF Call, IInv
  <1>4. ASSUME IInv, NEW c \in Callers, NEW r, NEW i, RemoveByHand(r, i)
        PROVE  Honest(c)
    BY <1>4 DEF RemoveByHand, Noticed, IInv, CallType
  <1>5. ASSUME IInv, [Next]_vars
        PROVE  [\A c \in Callers : Honest(c)]_vars
    BY <1>2, <1>3, <1>4, <1>5 DEF Next
  <1>6. QED
    BY <1>5, InvariantHolds, PTL DEF Spec, SuccessMeansEveryRule

\* Entries are lost only where calls overlap.
THEOREM LossNeedsOverlap == Spec => OnlyOverlapLoses
  <1> DEFINE Kept(c) == call[c].pc = "upload" /\ call'[c].pc # "upload"
                => \A r \in Rules : Addresses(rules[r]) \subseteq
                                     Addresses(rules'[r]) \cup call[c].added
  <1>1. ASSUME IInv, NEW c \in Callers, NEW d \in Callers, Step(d)
        PROVE  Kept(c)
    <2>1. CASE d # c
      BY <1>1, <2>1, OthersStay
    <2>2. CASE d = c
      <3>1. call[c].pc = "upload" => Upload(c)
        BY <1>1, <2>2 DEF Step, Guard, Authenticate, Fetch, EnsureHost, Verify,
           RequestFails
      <3>2. QED
        BY <1>1, <3>1, UploadStep
    <2>3. QED
      BY <2>1, <2>2
  <1>2. ASSUME IInv, NEW c \in Callers, NEW d \in Callers, NEW a \in Ips, Call(d, a)
        PROVE  Kept(c)
    BY <1>2 DEF Call, IInv
  <1>3. ASSUME IInv, NEW c \in Callers, NEW r, NEW i, RemoveByHand(r, i)
        PROVE  Kept(c)
    BY <1>3 DEF RemoveByHand, Noticed, IInv, CallType
  <1>4. ASSUME IInv, [Next]_vars
        PROVE  [\A c \in Callers : Kept(c)]_vars
    BY <1>1, <1>2, <1>3, <1>4 DEF Next
  <1>5. QED
    BY <1>4, InvariantHolds, PTL DEF Spec, OnlyOverlapLoses

-------------------------------------------------------------------------------
(* The refinement.  Its invariant: what the history of a call says of its   *)
(* address.                                                                 *)

InAll(a, rs) == \A r \in Rules : ip_in_rule(a, rs[r])

Meddled(k) == k.ip \in k.added \/ k.ip \in k.taken

\* The address was not everywhere when the call began, or others took it out since.
Needed(k) == ~k.before \/ k.ip \in k.taken

\* Some rule is not, or will not be, found to have the address already.
Lacking(k, rs) ==
    \E r \in Rules :
        /\ k.outcomes[r] # "present"
        /\ k.outcomes[r] = "none" =>
              \/ ~ip_in_rule(k.ip, rs[r])
              \/ r = RuleNames[k.next] /\ k.pc \in {"host", "upload", "verify"}

\* What holds wherever the call is.
HistoryHolds(k, rs) ==
    /\ k.before => InAll(k.ip, rs) \/ k.ip \in k.taken
    /\ \A r \in Rules : k.outcomes[r] = "appended" => Needed(k)
    /\ k.before \/ k.ip \in k.added \/ Lacking(k, rs)

\* What holds at some locations.
PlaceHolds(k, rs) ==
    /\ k.pc = "guard" => (InAll(k.ip, rs) <=> k.before) \/ Meddled(k)
    /\ k.pc \in {"host", "upload", "verify"} => Needed(k)
    /\ k.pc \in {"host", "upload"} =>
          Addresses(k.copy) \subseteq Addresses(rs[RuleNames[k.next]]) \cup k.taken

GhostHolds(k, rs) == k.pc # "idle" => HistoryHolds(k, rs) /\ PlaceHolds(k, rs)

GInv == IInv /\ \A c \in Callers : GhostHolds(call[c], rules)

-------------------------------------------------------------------------------
(* Calls. *)

LEMMA FreshGhost ==
    ASSUME NEW a \in Ips, NEW result \in Results, NEW rs
    PROVE  GhostHolds(NewCall(a), rules) /\ GhostHolds(Returned(a, result), rs)
  <1>1. GhostHolds(Returned(a, result), rs)
    BY FreshCall DEF GhostHolds
  <1>2. HistoryHolds(NewCall(a), rules)
    BY DEF HistoryHolds, NewCall, InAll, Lacking
  <1>3. PlaceHolds(NewCall(a), rules)
    BY DEF PlaceHolds, NewCall, InAll
  <1>4. QED
    BY <1>1, <1>2, <1>3 DEF GhostHolds

\* The rule at hand has no outcome yet, and the rules after it neither.
LEMMA Outstanding ==
    ASSUME NEW k \in CallType, NEW rs, OutcomesHold(k, rs)
    PROVE  /\ RuleNames[k.next] \in Rules
           /\ k.outcomes[RuleNames[k.next]] = "none"
           /\ ~(k.next < Len(RuleNames)) =>
                 \A r \in Rules : r # RuleNames[k.next] => k.outcomes[r] # "none"
  <1>1. /\ k.next \in DOMAIN RuleNames /\ RuleNames[k.next] \in Rules
        /\ \A i \in DOMAIN RuleNames : i < k.next <=> k.outcomes[RuleNames[i]] # "none"
    BY RuleIndices DEF CallType, OutcomesHold
  <1>2. k.outcomes[RuleNames[k.next]] = "none"
    BY <1>1, RuleIndices
  <1>3. ASSUME ~(k.next < Len(RuleNames)), NEW r \in Rules, r # RuleNames[k.next]
        PROVE  k.outcomes[r] # "none"
    <2>1. PICK i \in DOMAIN RuleNames : r = RuleNames[i]
      BY DEF Rules
    <2>2. i < k.next
      BY <1>1, <1>3, <2>1, RuleIndices
    <2>3. QED
      BY <1>1, <2>1, <2>2
  <1>4. QED
    BY <1>1, <1>2, <1>3

\* What an outcome says when a rule is done with.
Observed(k, rs, outcome) ==
    /\ outcome \in Outcomes \ {"none"}
    /\ outcome = "present" => k.pc = "fetch" /\ ip_in_rule(k.ip, rs[RuleNames[k.next]])
    /\ outcome = "appended" => Needed(k) /\ ip_in_rule(k.ip, rs[RuleNames[k.next]])

LEMMA GhostAfterRule ==
    ASSUME NEW c \in Callers, NEW rs, NEW outcome, Observed(call[c], rs, outcome),
           call[c] \in CallType, OutcomesHold(call[c], rs), HistoryHolds(call[c], rs)
    PROVE  GhostHolds(RuleDone(c, outcome), rs)
  <1> DEFINE k        == call[c]
             outcomes == [k.outcomes EXCEPT ![RuleNames[k.next]] = outcome]
             after    == [k EXCEPT !.pc = "fetch", !.next = k.next + 1,
                                   !.copy = <<>>, !.outcomes = outcomes]
  <1>1. CASE k.next < Len(RuleNames)
    <2>1. RuleDone(c, outcome) = after
      BY <1>1 DEF RuleDone
    <2>2. /\ after.pc = "fetch" /\ after.outcomes = outcomes /\ after.ip = k.ip
          /\ after.taken = k.taken /\ after.added = k.added /\ after.before = k.before
      BY DEF CallType
    <2>3. /\ outcomes[RuleNames[k.next]] = outcome
          /\ \A r \in Rules : r # RuleNames[k.next] => outcomes[r] = k.outcomes[r]
      BY Outstanding DEF CallType
    <2> HIDE DEF after, outcomes
    <2>4. \A r \in Rules : outcomes[r] = "appended" => Needed(k)
      BY <2>3 DEF HistoryHolds, Observed
    <2>5. ASSUME Lacking(k, rs) PROVE Lacking(after, rs)
      <3>1. PICK r \in Rules :
              /\ k.outcomes[r] # "present"
              /\ k.outcomes[r] = "none" =>
                    \/ ~ip_in_rule(k.ip, rs[r])
                    \/ r = RuleNames[k.next] /\ k.pc \in {"host", "upload", "verify"}
        BY <2>5 DEF Lacking
      <3>2. CASE r = RuleNames[k.next]
        <4>1. k.outcomes[r] = "none"
          BY <3>2, Outstanding
        <4>2. outcomes[r] # "present" /\ outcomes[r] # "none"
          BY <2>3, <3>1, <3>2, <4>1 DEF Observed
        <4>3. QED
          BY <2>2, <4>2 DEF Lacking
      <3>3. CASE r # RuleNames[k.next]
        BY <2>2, <2>3, <3>1, <3>3 DEF Lacking
      <3>4. QED
        BY <3>2, <3>3
    <2>6. HistoryHolds(after, rs)
      BY <2>2, <2>4, <2>5 DEF HistoryHolds, Needed
    <2>7. PlaceHolds(after, rs)
      BY <2>2 DEF PlaceHolds
    <2>8. QED
      BY <2>1, <2>6, <2>7 DEF GhostHolds
  <1>2. CASE ~(k.next < Len(RuleNames))
    <2>1. RuleDone(c, outcome) = Returned(k.ip, RollUp(outcomes))
      BY <1>2 DEF RuleDone
    <2>2. RollUp(outcomes) \in Results
      BY DEF RollUp, Results
    <2>3. QED
      BY <2>1, <2>2, FreshGhost DEF CallType
  <1>3. QED
    BY <1>1, <1>2

\* What a call says in the end is true of the rules, or somebody meddled.
LEMMA Truthful ==
    ASSUME NEW c \in Callers, NEW rs, NEW outcome, Observed(call[c], rs, outcome),
           call[c] \in CallType, OutcomesHold(call[c], rs), HistoryHolds(call[c], rs),
           ~(call[c].next < Len(RuleNames))
    PROVE  LET k      == call[c]
               result == RollUp([k.outcomes EXCEPT ![RuleNames[k.next]] = outcome])
           IN  /\ RuleDone(c, outcome) = Returned(k.ip, result)
               /\ result \in {"failed", "duplicate", "blocked"}
               /\ outcome = "failed" => result = "failed"
               /\ result = "blocked" =>
                     k.ip \in k.taken \/ (InAll(k.ip, rs) /\ ~k.before)
               /\ result = "duplicate" =>
                     /\ InAll(k.ip, rs) \/ k.ip \in k.taken
                     /\ k.before \/ k.ip \in k.added
  <1> DEFINE k        == call[c]
             outcomes == [k.outcomes EXCEPT ![RuleNames[k.next]] = outcome]
             result   == RollUp(outcomes)
  <1>1. RuleDone(c, outcome) = Returned(k.ip, result)
    BY DEF RuleDone
  <1>2. /\ outcomes[RuleNames[k.next]] = outcome
        /\ \A r \in Rules : r # RuleNames[k.next] => outcomes[r] = k.outcomes[r]
        /\ outcomes \in [Rules -> Outcomes]
    BY Outstanding DEF CallType, Observed
  <1>3. \A r \in Rules : outcomes[r] # "none"
    BY <1>2, Outstanding DEF Observed
  <1>4. result = RollUp(outcomes)
    OBVIOUS
  <1> HIDE DEF outcomes, result
  <1>5. /\ result \in {"failed", "duplicate", "blocked"}
        /\ result = "failed" <=> \E r \in Rules : outcomes[r] = "failed"
        /\ result = "duplicate" => \A r \in Rules : outcomes[r] = "present"
        /\ result = "blocked" => \E r \in Rules : outcomes[r] \notin {"failed", "present"}
    BY <1>4 DEF RollUp
  <1>6. outcome = "failed" => result = "failed"
    BY <1>2, <1>5, Outstanding
  <1>7. result \in {"blocked", "duplicate"} => InAll(k.ip, rs) \/ k.ip \in k.taken
    <2>1. result \in Results /\ k.ip \in Ips
      BY <1>5 DEF Results, CallType
    <2>2. RuleDone(c, outcome).pc = "idle" /\ RuleDone(c, outcome).result = result
      BY <1>1, <2>1, ReturnedCall
    <2>3. QED
      BY <2>2, HonestResult DEF InAll, Observed, Rule
  <1>8. ASSUME result = "blocked" PROVE ~k.before \/ k.ip \in k.taken
    <2>1. PICK r \in Rules : outcomes[r] = "appended"
      BY <1>2, <1>3, <1>5, <1>8 DEF Outcomes
    <2>2. QED
      BY <1>2, <2>1 DEF HistoryHolds, Observed, Needed
  <1>9. ASSUME result = "duplicate" PROVE k.before \/ k.ip \in k.added
    <2>1. \A r \in Rules : outcomes[r] = "present"
      BY <1>5, <1>9
    <2>2. ~Lacking(k, rs)
      <3>1. SUFFICES ASSUME NEW r \in Rules,
                            k.outcomes[r] # "present",
                            k.outcomes[r] = "none" =>
                              \/ ~ip_in_rule(k.ip, rs[r])
                              \/ r = RuleNames[k.next] /\ k.pc \in {"host", "upload", "verify"}
                     PROVE  FALSE
        BY DEF Lacking
      <3>2. r = RuleNames[k.next]
        BY <1>2, <2>1, <3>1
      <3>3. k.outcomes[r] = "none"
        BY <3>2, Outstanding
      <3>4. outcome = "present"
        BY <1>2, <2>1, <3>2
      <3>5. QED
        BY <3>1, <3>2, <3>3, <3>4 DEF Observed
    <2>3. QED
      BY <2>2 DEF HistoryHolds
  <1>10. /\ RuleDone(c, outcome) = Returned(k.ip, result)
         /\ result \in {"failed", "duplicate", "blocked"}
         /\ outcome = "failed" => result = "failed"
         /\ result = "blocked" =>
               k.ip \in k.taken \/ (InAll(k.ip, rs) /\ ~k.before)
         /\ result = "duplicate" =>
               /\ InAll(k.ip, rs) \/ k.ip \in k.taken
               /\ k.before \/ k.ip \in k.added
    BY <1>1, <1>5, <1>6, <1>7, <1>8, <1>9
  <1>11. QED
    BY <1>10 DEF outcomes, result
-------------------------------------------------------------------------------
(* What BlockService sees. *)

View(k) == [busy |-> k.pc # "idle", ip |-> k.ip, before |-> k.before,
            added |-> k.added, taken |-> k.taken, result |-> k.result]

Ghosts == \A c \in Callers : GhostHolds(call[c], rules)

Refined == Service!Next \/ UNCHANGED <<Everywhere, CallView>>

LEMMA ViewOfCalls == /\ CallView = [c \in Callers |-> View(call[c])]
                     /\ CallView' = [c \in Callers |-> View(call'[c])]
  BY DEF CallView, View

\* When the rules stay, so does what is in all of them.
LEMMA EverywhereStays == rules' = rules => Everywhere' = Everywhere
  BY DEF Everywhere, ip_in_rule

LEMMA InEverywhere == \A a \in Ips : a \in Everywhere <=> InAll(a, rules)
  BY DEF Everywhere, InAll

\* A step BlockService does not see.
LEMMA Unseen ==
    ASSUME GInv, NEW c \in Callers, NEW m, rules' = rules,
           call' = [call EXCEPT ![c] = m], View(m) = View(call[c]), GhostHolds(m, rules)
    PROVE  Ghosts' /\ Refined
  <1>1. \A d \in Callers : call'[d] = IF d = c THEN m ELSE call[d]
    BY DEF GInv, IInv
  <1>2. Ghosts'
    BY <1>1 DEF GInv, Ghosts
  <1>3. CallView' = CallView
    BY <1>1, ViewOfCalls
  <1>4. QED
    BY <1>2, <1>3, EverywhereStays DEF Refined

\* A call that ends with a justified result.
LEMMA Ended ==
    ASSUME GInv, NEW c \in Callers,
           NEW result \in {"allowed", "duplicate", "blocked", "failed"},
           call[c].pc # "idle", rules' = rules,
           call' = [call EXCEPT ![c] = Returned(call[c].ip, result)],
           Service!Justified(c, result)
    PROVE  Ghosts' /\ Refined
  <1> DEFINE m == Returned(call[c].ip, result)
  <1>1. call[c] \in CallType /\ result \in Results
    BY DEF GInv, IInv, Results
  <1>2. \A d \in Callers : call'[d] = IF d = c THEN m ELSE call[d]
    BY DEF GInv, IInv
  <1>3. GhostHolds(m, rules)
    BY <1>1, FreshGhost DEF CallType
  <1>4. Ghosts'
    <2> HIDE DEF m
    <2>1. QED
      BY <1>2, <1>3 DEF GInv, Ghosts
  <1>5. View(m) = Service!Returned(call[c].ip, result)
    BY DEF View, Returned, NewCall, Service!Returned
  <1>6. CallView' = [CallView EXCEPT ![c] = Service!Returned(CallView[c].ip, result)]
    <2> HIDE DEF m
    <2>1. CallView[c].ip = call[c].ip
      BY ViewOfCalls DEF View
    <2>2. QED
      BY <1>2, <1>5, <2>1, ViewOfCalls
  <1>7. CallView[c].busy
    BY ViewOfCalls DEF View
  <1>8. Service!Finish(c, result)
    BY <1>6, <1>7, EverywhereStays DEF Service!Finish
  <1>9. QED
    BY <1>4, <1>8 DEF Refined, Service!Next

\* A call after a rule whose outcome it has seen.
LEMMA RuleSeen ==
    ASSUME GInv, NEW c \in Callers, NEW outcome, call[c].pc # "idle", rules' = rules,
           Observed(call[c], rules, outcome),
           call' = [call EXCEPT ![c] = RuleDone(c, outcome)]
    PROVE  Ghosts' /\ Refined
  <1> DEFINE k      == call[c]
             result == RollUp([k.outcomes EXCEPT ![RuleNames[k.next]] = outcome])
  <1>1. k \in CallType /\ OutcomesHold(k, rules) /\ HistoryHolds(k, rules)
    BY Underway DEF GInv, GhostHolds
  <1>2. GhostHolds(RuleDone(c, outcome), rules)
    BY <1>1, GhostAfterRule
  <1>3. CASE k.next < Len(RuleNames)
    <2>1. RuleDone(c, outcome) =
            [k EXCEPT !.pc = "fetch", !.next = k.next + 1, !.copy = <<>>,
                !.outcomes = [k.outcomes EXCEPT ![RuleNames[k.next]] = outcome]]
      BY <1>3 DEF RuleDone
    <2>2. View(RuleDone(c, outcome)) = View(k)
      BY <1>1, <2>1 DEF View, CallType
    <2>3. QED
      BY <1>2, <2>2, Unseen
  <1>4. CASE ~(k.next < Len(RuleNames))
    <2>1. /\ RuleDone(c, outcome) = Returned(k.ip, result)
          /\ result \in {"failed", "duplicate", "blocked"}
          /\ result = "blocked" =>
                k.ip \in k.taken \/ (InAll(k.ip, rules) /\ ~k.before)
          /\ result = "duplicate" =>
                /\ InAll(k.ip, rules) \/ k.ip \in k.taken
                /\ k.before \/ k.ip \in k.added
      BY <1>1, <1>4, Truthful
    <2> HIDE DEF result
    <2>2. CallView[c] = View(k)
      BY ViewOfCalls
    <2>3. Service!Justified(c, result)
      BY <1>1, <2>1, <2>2, InEverywhere DEF Service!Justified, View, CallType
    <2>4. QED
      BY <2>1, <2>3, Ended
  <1>5. QED
    BY <1>3, <1>4

\* A failure needs no justification.
LEMMA FailureIsJustified ==
    ASSUME NEW c \in Callers PROVE Service!Justified(c, "failed")
  BY DEF Service!Justified

\* A call that goes on to a place where its history says no more than elsewhere.
LEMMA GhostGoesOn ==
    ASSUME GInv, NEW c \in Callers, call[c].pc \in {"guard", "login"},
           NEW l \in {"login", "fetch"}
    PROVE  /\ GhostHolds([call[c] EXCEPT !.pc = l], rules)
           /\ View([call[c] EXCEPT !.pc = l]) = View(call[c])
  <1> DEFINE k == call[c]
             m == [k EXCEPT !.pc = l]
  <1>1. k \in CallType /\ HistoryHolds(k, rules)
    BY Underway DEF GInv, GhostHolds
  <1>2. /\ m.pc = l /\ m.ip = k.ip /\ m.outcomes = k.outcomes /\ m.added = k.added
        /\ m.taken = k.taken /\ m.before = k.before /\ m.next = k.next
        /\ m.result = k.result
    BY <1>1 DEF CallType
  <1> HIDE DEF m
  <1>3. HistoryHolds(m, rules)
    BY <1>1, <1>2 DEF HistoryHolds, Needed, Lacking
  <1>4. PlaceHolds(m, rules)
    BY <1>2 DEF PlaceHolds
  <1>5. View(m) = View(k)
    BY <1>2 DEF View
  <1>6. GhostHolds(m, rules) /\ View(m) = View(k)
    BY <1>3, <1>4, <1>5 DEF GhostHolds
  <1>7. QED
    BY <1>6 DEF m

-------------------------------------------------------------------------------
(* Steps. *)

LEMMA CallRefines ==
    ASSUME GInv, NEW c \in Callers, NEW a \in Ips, Call(c, a)
    PROVE  Ghosts' /\ Refined
  <1>1. \A d \in Callers : call'[d] = IF d = c THEN NewCall(a) ELSE call[d]
    BY DEF Call, GInv, IInv
  <1>2. Ghosts'
    <2>1. rules' = rules /\ GhostHolds(NewCall(a), rules)
      BY FreshGhost DEF Call, Results
    <2>2. QED
      BY <1>1, <2>1 DEF GInv, Ghosts
  <1>3. View(NewCall(a)) = [busy |-> TRUE, ip |-> a, before |-> a \in Everywhere,
                            added |-> {}, taken |-> {}, result |-> "none"]
    <2> DEFINE P == \A r \in Rules : ip_in_rule(a, rules[r])
    <2>1. P <=> a \in Everywhere
      BY DEF Everywhere
    <2>2. View(NewCall(a)) = [busy |-> TRUE, ip |-> a, before |-> P,
                              added |-> {}, taken |-> {}, result |-> "none"]
      BY DEF View, NewCall
    <2>3. P \in BOOLEAN
      OBVIOUS
    <2> HIDE DEF P
    <2>4. CASE P
      BY <2>1, <2>2, <2>3, <2>4
    <2>5. CASE ~P
      BY <2>1, <2>2, <2>3, <2>5
    <2>6. QED
      BY <2>4, <2>5
  <1>4. CallView' = [CallView EXCEPT ![c] =
                       [busy |-> TRUE, ip |-> a, before |-> a \in Everywhere,
                        added |-> {}, taken |-> {}, result |-> "none"]]
    BY <1>1, <1>3, ViewOfCalls
  <1>5. ~CallView[c].busy
    BY ViewOfCalls DEF View, Call
  <1>6. Service!Begin(c, a)
    BY <1>4, <1>5, EverywhereStays DEF Service!Begin, Call
  <1>7. QED
    BY <1>2, <1>6 DEF Refined, Service!Next

LEMMA GuardRefines ==
    ASSUME GInv, NEW c \in Callers, Guard(c) PROVE Ghosts' /\ Refined
  <1>1. /\ call[c].pc = "guard" /\ rules' = rules /\ call[c] \in CallType
        /\ call \in [Callers -> CallType]
    BY DEF Guard, GInv, IInv
  <1>2. CASE Finish(c, "failed")
    BY <1>1, <1>2, Ended, FailureIsJustified DEF Finish
  <1>3. CASE Finish(c, "allowed")
    <2>1. (InAll(call[c].ip, rules) <=> call[c].before) \/ Meddled(call[c])
      BY <1>1 DEF GInv, GhostHolds, PlaceHolds
    <2>2. CallView[c] = View(call[c])
      BY ViewOfCalls
    <2>3. Service!Justified(c, "allowed")
      BY <1>1, <2>1, <2>2, InEverywhere DEF Service!Justified, View, Meddled, CallType
    <2>4. QED
      BY <1>1, <1>3, <2>3, Ended DEF Finish
  <1>4. CASE call' = [call EXCEPT ![c].pc = "login"]
    <2>1. call' = [call EXCEPT ![c] = [call[c] EXCEPT !.pc = "login"]]
      BY <1>1, <1>4
    <2>2. QED
      BY <1>1, <2>1, GhostGoesOn, Unseen
  <1>5. QED
    BY <1>2, <1>3, <1>4 DEF Guard

LEMMA AuthenticateRefines ==
    ASSUME GInv, NEW c \in Callers, Authenticate(c) PROVE Ghosts' /\ Refined
  <1>1. /\ call[c].pc = "login" /\ rules' = rules /\ call[c] \in CallType
        /\ call \in [Callers -> CallType]
    BY DEF Authenticate, GInv, IInv
  <1>2. CASE Finish(c, "failed")
    BY <1>1, <1>2, Ended, FailureIsJustified DEF Finish
  <1>3. CASE call' = [call EXCEPT ![c].pc = "fetch"]
    <2>1. call' = [call EXCEPT ![c] = [call[c] EXCEPT !.pc = "fetch"]]
      BY <1>1, <1>3
    <2>2. QED
      BY <1>1, <2>1, GhostGoesOn, Unseen
  <1>4. QED
    BY <1>2, <1>3 DEF Authenticate

LEMMA FetchRefines ==
    ASSUME GInv, NEW c \in Callers, Fetch(c) PROVE Ghosts' /\ Refined
  <1> DEFINE k == call[c]
             r == RuleNames[k.next]
             m == [k EXCEPT !.pc = IF k.hostDone THEN "upload" ELSE "host",
                            !.copy = rules[r]]
  <1>1. /\ k \in CallType /\ k.pc = "fetch" /\ OutcomesHold(k, rules)
        /\ HistoryHolds(k, rules) /\ rules' = rules /\ r \in Rules
        /\ call \in [Callers -> CallType]
    BY Underway DEF Fetch, GInv, GhostHolds, IInv, Rule
  <1>2. CASE ip_in_rule(k.ip, rules[r])
    <2>1. Observed(k, rules, "present")
      BY <1>1, <1>2 DEF Observed, Outcomes
    <2>2. call' = [call EXCEPT ![c] = RuleDone(c, "present")]
      BY <1>1, <1>2 DEF Fetch, Rule
    <2>3. QED
      BY <1>1, <2>1, <2>2, RuleSeen
  <1>3. CASE ~ip_in_rule(k.ip, rules[r])
    <2>1. call' = [call EXCEPT ![c] = m]
      BY <1>1, <1>3 DEF Fetch, Rule
    <2>2. /\ m.pc \in {"upload", "host"} /\ m.copy = rules[r] /\ m.next = k.next
          /\ m.ip = k.ip /\ m.outcomes = k.outcomes /\ m.added = k.added
          /\ m.taken = k.taken /\ m.before = k.before /\ m.result = k.result
      BY <1>1 DEF CallType
    <2> HIDE DEF m
    <2>3. Needed(k)
      BY <1>1, <1>3 DEF HistoryHolds, Needed, InAll
    <2>4. HistoryHolds(m, rules)
      BY <1>1, <2>2 DEF HistoryHolds, Needed, Lacking
    <2>5. PlaceHolds(m, rules)
      BY <2>2, <2>3 DEF PlaceHolds, Needed
    <2>6. View(m) = View(k)
      BY <1>1, <2>2 DEF View
    <2>7. QED
      BY <1>1, <2>1, <2>4, <2>5, <2>6, Unseen DEF GhostHolds
  <1>4. QED
    BY <1>2, <1>3

LEMMA EnsureHostRefines ==
    ASSUME GInv, NEW c \in Callers, EnsureHost(c) PROVE Ghosts' /\ Refined
  <1> DEFINE k == call[c]
             m == [k EXCEPT !.pc = "upload", !.hostDone = TRUE]
  <1>1. /\ k \in CallType /\ k.pc = "host" /\ HistoryHolds(k, rules)
        /\ PlaceHolds(k, rules) /\ rules' = rules /\ call \in [Callers -> CallType]
    BY DEF EnsureHost, GInv, GhostHolds, IInv
  <1>2. call' = [call EXCEPT ![c] = m]
    BY <1>1 DEF EnsureHost
  <1>3. /\ m.pc = "upload" /\ m.copy = k.copy /\ m.next = k.next
        /\ m.ip = k.ip /\ m.outcomes = k.outcomes /\ m.added = k.added
        /\ m.taken = k.taken /\ m.before = k.before /\ m.result = k.result
    BY <1>1 DEF CallType
  <1> HIDE DEF m
  <1>4. HistoryHolds(m, rules)
    BY <1>1, <1>3 DEF HistoryHolds, Needed, Lacking
  <1>5. PlaceHolds(m, rules)
    BY <1>1, <1>3 DEF PlaceHolds, Needed
  <1>6. View(m) = View(k)
    BY <1>1, <1>3 DEF View
  <1>7. QED
    BY <1>1, <1>2, <1>4, <1>5, <1>6, Unseen DEF GhostHolds
LEMMA VerifyRefines ==
    ASSUME GInv, NEW c \in Callers, Verify(c) PROVE Ghosts' /\ Refined
  <1> DEFINE k       == call[c]
             r       == RuleNames[k.next]
             outcome == IF ip_in_rule(k.ip, rules[r]) THEN "appended" ELSE "failed"
  <1>1. /\ k.pc = "verify" /\ rules' = rules /\ Needed(k)
        /\ call \in [Callers -> CallType]
    BY DEF Verify, GInv, GhostHolds, PlaceHolds, IInv
  <1>2. call' = [call EXCEPT ![c] = RuleDone(c, outcome)]
    BY <1>1 DEF Verify, Rule
  <1>3. Observed(k, rules, outcome)
    BY <1>1 DEF Observed, Outcomes
  <1> HIDE DEF outcome
  <1>4. QED
    BY <1>1, <1>2, <1>3, RuleSeen

LEMMA RequestFailsRefines ==
    ASSUME GInv, NEW c \in Callers, RequestFails(c) PROVE Ghosts' /\ Refined
  <1>1. Observed(call[c], rules, "failed")
    BY DEF Observed, Outcomes
  <1>2. QED
    BY <1>1, RuleSeen DEF RequestFails

\* What a rule gained and lost is what BlockService is told of.
LEMMA NoticedView ==
    ASSUME GInv, NEW r \in Rules, NEW entries
    PROVE  [d \in Callers |-> View(Noticed(r, entries)[d])] =
              Service!Noticed(Addresses(entries) \ Addresses(rules[r]),
                              Addresses(rules[r]) \ Addresses(entries))
  <1> DEFINE put == Addresses(entries) \ Addresses(rules[r])
             out == Addresses(rules[r]) \ Addresses(entries)
  <1> SUFFICES ASSUME NEW d \in Callers
               PROVE  View(Noticed(r, entries)[d]) = Service!Noticed(put, out)[d]
    BY DEF Service!Noticed
  <1>1. /\ call[d] \in CallType /\ CallView[d] = View(call[d])
        /\ CallView[d].busy <=> call[d].pc # "idle"
    BY ViewOfCalls DEF GInv, IInv, View
  <1>2. Service!Noticed(put, out)[d] =
           IF ~CallView[d].busy THEN CallView[d]
             ELSE [CallView[d] EXCEPT !.added = @ \cup put, !.taken = @ \cup out]
    BY DEF Service!Noticed
  <1>3. Noticed(r, entries)[d] =
           IF call[d].pc = "idle" THEN call[d]
             ELSE [call[d] EXCEPT !.added = @ \cup put, !.taken = @ \cup out]
    BY DEF Noticed
  <1> HIDE DEF put, out
  <1>4. CASE call[d].pc = "idle"
    BY <1>1, <1>2, <1>3, <1>4
  <1>5. CASE call[d].pc # "idle"
    <2> DEFINE m == [call[d] EXCEPT !.added = @ \cup put, !.taken = @ \cup out]
               w == View(call[d])
               v == [w EXCEPT !.added = @ \cup put, !.taken = @ \cup out]
    <2>1. Noticed(r, entries)[d] = m /\ Service!Noticed(put, out)[d] = v
      BY <1>1, <1>2, <1>3, <1>5
    <2>2. /\ m.pc = call[d].pc /\ m.ip = call[d].ip /\ m.before = call[d].before
          /\ m.result = call[d].result
          /\ m.added = call[d].added \cup put /\ m.taken = call[d].taken \cup out
      BY <1>1 DEF CallType
    <2> DEFINE S == [busy : BOOLEAN, ip : Ips, before : BOOLEAN,
                     added : SUBSET (Ips \cup put), taken : SUBSET (Ips \cup out),
                     result : Results]
    <2>3. /\ w \in S /\ w.busy = TRUE /\ w.ip = call[d].ip
          /\ w.before = call[d].before /\ w.result = call[d].result
          /\ w.added = call[d].added /\ w.taken = call[d].taken
      BY <1>1, <1>5 DEF View, CallType
    <2>4. /\ View(m) \in S /\ View(m).busy = TRUE /\ View(m).ip = call[d].ip
          /\ View(m).before = call[d].before /\ View(m).result = call[d].result
          /\ View(m).added = call[d].added \cup put
          /\ View(m).taken = call[d].taken \cup out
      <3> HIDE DEF m
      <3>1. QED
        BY <1>1, <1>5, <2>2 DEF View, CallType
    <2> HIDE DEF m, w
    <2>5. View(m) = v
      BY <2>3, <2>4
    <2>6. QED
      BY <2>1, <2>5
  <1>6. QED
    BY <1>4, <1>5

LEMMA ReplacedChange ==
    ASSUME GInv, NEW r \in Rules, NEW entries \in Seq(Entries),
           rules' = [rules EXCEPT ![r] = entries]
    PROVE  Service!Change(Addresses(entries) \ Addresses(rules[r]),
                          Addresses(rules[r]) \ Addresses(entries))
  <1>1. rules \in [Rules -> Seq(Entries)]
    BY DEF GInv, IInv, RulesHold
  <1>2. \A q \in Rules, a \in Ips :
           (ip_in_rule(a, rules'[q]) <=> ip_in_rule(a, rules[q]))
              \/ (q = r /\ (ip_in_rule(a, rules'[q]) <=> a \in Addresses(entries))
                        /\ (ip_in_rule(a, rules[q]) <=> a \in Addresses(rules[r])))
    BY <1>1, AddressesByIndex
  <1>3. ASSUME NEW a \in Everywhere', a \notin Everywhere
        PROVE  a \in Addresses(entries) \ Addresses(rules[r])
    BY <1>2, <1>3 DEF Everywhere
  <1>4. ASSUME NEW a \in Everywhere, a \notin Everywhere'
        PROVE  a \in Addresses(rules[r]) \ Addresses(entries)
    BY <1>2, <1>4 DEF Everywhere
  <1>5. QED
    BY <1>3, <1>4 DEF Service!Change

\* The history of every call keeps up with a replaced rule.
LEMMA GhostNoticed ==
    ASSUME GInv, NEW r \in Rules, NEW entries \in Seq(Entries), NEW c \in Callers
    PROVE  GhostHolds(Noticed(r, entries)[c], [rules EXCEPT ![r] = entries])
  <1> DEFINE k   == call[c]
             old == Addresses(rules[r])
             new == Addresses(entries)
             rs  == [rules EXCEPT ![r] = entries]
             m   == [k EXCEPT !.added = @ \cup (new \ old),
                              !.taken = @ \cup (old \ new)]
  <1>1. k \in CallType /\ rules \in [Rules -> Seq(Entries)] /\ GhostHolds(k, rules)
    BY DEF GInv, IInv, RulesHold
  <1>2. CASE k.pc = "idle"
    BY <1>2 DEF Noticed, GhostHolds
  <1>3. CASE k.pc # "idle"
    <2>1. Noticed(r, entries)[c] = m
      BY <1>3 DEF Noticed
    <2>2. /\ m.pc = k.pc /\ m.ip = k.ip /\ m.next = k.next /\ m.copy = k.copy
          /\ m.outcomes = k.outcomes /\ m.before = k.before
          /\ m.added = k.added \cup (new \ old)
          /\ m.taken = k.taken \cup (old \ new)
      BY <1>1 DEF CallType
    <2>3. HistoryHolds(k, rules) /\ PlaceHolds(k, rules)
      BY <1>1, <1>3 DEF GhostHolds
    <2>4. \A q \in Rules : /\ ip_in_rule(k.ip, rules[q]) <=> k.ip \in Addresses(rules[q])
                           /\ ip_in_rule(k.ip, rs[q]) <=> k.ip \in Addresses(rs[q])
      BY <1>1, AddressesByIndex
    <2>5. \A q \in Rules : /\ Addresses(rs[q]) \subseteq Addresses(rules[q]) \cup (new \ old)
                           /\ Addresses(rules[q]) \subseteq Addresses(rs[q]) \cup (old \ new)
      BY <1>1
    <2> HIDE DEF m, rs, old, new
    <2>6. \/ k.ip \in m.taken
          \/ InAll(k.ip, rules) => InAll(k.ip, rs)
      BY <2>2, <2>4, <2>5 DEF InAll
    <2>7. \/ k.ip \in m.added
          \/ InAll(k.ip, rs) => InAll(k.ip, rules)
      BY <2>2, <2>4, <2>5 DEF InAll
    <2>8. Needed(k) => Needed(m)
      BY <2>2 DEF Needed
    <2>9. Lacking(k, rules) => Lacking(m, rs) \/ m.ip \in m.added
      BY <2>2, <2>4, <2>5 DEF Lacking
    <2>10. HistoryHolds(m, rs)
      BY <2>2, <2>3, <2>6, <2>8, <2>9 DEF HistoryHolds
    <2>11. RuleNames[k.next] \in Rules
      BY <1>1, RuleIndices DEF CallType
    <2>12. PlaceHolds(m, rs)
      <3>1. m.pc = "guard" => (InAll(m.ip, rs) <=> m.before) \/ Meddled(m)
        BY <2>2, <2>3, <2>6, <2>7 DEF PlaceHolds, Meddled
      <3>2. m.pc \in {"host", "upload"} =>
               Addresses(m.copy) \subseteq Addresses(rs[RuleNames[m.next]]) \cup m.taken
        BY <2>2, <2>3, <2>5, <2>11 DEF PlaceHolds
      <3>3. QED
        BY <2>2, <2>3, <2>8, <3>1, <3>2 DEF PlaceHolds
    <2>13. GhostHolds(m, rs)
      BY <2>10, <2>12 DEF GhostHolds
    <2>14. QED
      BY <2>1, <2>13 DEF rs
  <1>4. QED
    BY <1>2, <1>3

LEMMA UploadRefines ==
    ASSUME GInv, NEW c \in Callers, Upload(c) PROVE Ghosts' /\ Refined
  <1> DEFINE k == call[c]
             r == Rule(c)
  <1>1. /\ k \in CallType /\ k.pc = "upload" /\ CallHolds(k, rules, hosts)
        /\ OutcomesHold(k, rules) /\ HistoryHolds(k, rules) /\ PlaceHolds(k, rules)
        /\ r \in Rules /\ r = RuleNames[k.next] /\ k.ip \in Ips /\ k.ip \in hosts
        /\ rules \in [Rules -> Seq(Entries)]
    BY Underway DEF Upload, GInv, GhostHolds, IInv, RulesHold, Rule, CallType, HostHolds
  <1>2. PICK entries \in {append_ip_to_rule(k.ip, k.copy), rules[r]},
             after \in {[k EXCEPT !.pc = "verify"], RuleDone(c, "failed")} :
          /\ rules' = [rules EXCEPT ![r] = entries]
          /\ call' = [Noticed(r, entries) EXCEPT ![c] = after]
    BY DEF Upload
  <1> DEFINE old == Addresses(rules[r])
             new == Addresses(entries)
  <1>3. /\ entries \in Seq(Entries)
        /\ new \ old \subseteq k.taken \cup {k.ip}
        /\ old \ new \subseteq k.added \ {k.ip}
    <2>1. CASE entries = rules[r]
      BY <1>1, <2>1
    <2>2. CASE entries = append_ip_to_rule(k.ip, k.copy)
      <3>1. /\ k.copy \in Seq(Entries) /\ Unique(k.copy) /\ Refers(k.copy, hosts)
            /\ k.ip \notin Addresses(k.copy)
            /\ old \subseteq Addresses(k.copy) \cup k.added
            /\ Addresses(k.copy) \subseteq old \cup k.taken
        BY <1>1 DEF CallHolds, CopyHolds, CallType, PlaceHolds
      <3>2. entries \in Seq(Entries) /\ new = Addresses(k.copy) \cup {k.ip}
        BY <1>1, <2>2, <3>1, Appended
      <3> HIDE DEF new, old
      <3>3. QED
        BY <3>1, <3>2
    <2>3. QED
      BY <1>2, <2>1, <2>2
  <1>4. HistoryHolds(k, rules')
    <2>1. \A q \in Rules : q # r => rules'[q] = rules[q]
      BY <1>1, <1>2
    <2>2. ip_in_rule(k.ip, rules[r]) => ip_in_rule(k.ip, rules'[r])
      <3>1. rules'[r] = entries
        BY <1>1, <1>2
      <3>2. QED
        BY <1>1, <1>3, <3>1, AddressesByIndex
    <2>3. InAll(k.ip, rules) => InAll(k.ip, rules')
      BY <2>1, <2>2 DEF InAll
    <2>4. Lacking(k, rules) => Lacking(k, rules')
      BY <1>1, <2>1 DEF Lacking
    <2>5. QED
      BY <1>1, <2>3, <2>4 DEF HistoryHolds
  <1>5. OutcomesHold(k, rules')
    <2>1. \A q \in Rules : q # r => rules'[q] = rules[q]
      BY <1>1, <1>2
    <2>2. k.outcomes[r] = "none"
      BY <1>1, Outstanding
    <2>3. QED
      BY <1>1, <2>1, <2>2 DEF OutcomesHold
  <1>6. Observed(k, rules', "failed")
    BY DEF Observed, Outcomes
  <1>7. GhostHolds(after, rules')
    <2>1. CASE after = RuleDone(c, "failed")
      BY <1>1, <1>4, <1>5, <1>6, <2>1, GhostAfterRule
    <2>2. CASE after = [k EXCEPT !.pc = "verify"]
      <3>1. /\ after.pc = "verify" /\ after.ip = k.ip /\ after.outcomes = k.outcomes
            /\ after.added = k.added /\ after.taken = k.taken /\ after.next = k.next
            /\ after.before = k.before
        BY <1>1, <2>2 DEF CallType
      <3>2. HistoryHolds(after, rules')
        BY <1>1, <1>4, <3>1 DEF HistoryHolds, Needed, Lacking
      <3>3. PlaceHolds(after, rules')
        BY <1>1, <3>1 DEF PlaceHolds, Needed
      <3>4. QED
        BY <3>2, <3>3 DEF GhostHolds
    <2>3. QED
      BY <1>2, <2>1, <2>2
  <1>8. \A d \in Callers :
           call'[d] = IF d = c THEN after ELSE Noticed(r, entries)[d]
    BY <1>2 DEF Noticed
  <1>9. Ghosts'
    <2>1. \A d \in Callers : GhostHolds(Noticed(r, entries)[d], rules')
      BY <1>1, <1>2, <1>3, GhostNoticed
    <2>2. QED
      BY <1>7, <1>8, <2>1 DEF Ghosts
  <1>10. View(after) \in {View(k), Service!Returned(k.ip, "failed")}
    <2>1. CASE after = [k EXCEPT !.pc = "verify"]
      BY <1>1, <2>1 DEF View, CallType
    <2>2. CASE after = RuleDone(c, "failed") /\ k.next < Len(RuleNames)
      <3>1. after = [k EXCEPT !.pc = "fetch", !.next = k.next + 1, !.copy = <<>>,
                         !.outcomes = [k.outcomes EXCEPT ![RuleNames[k.next]] = "failed"]]
        BY <2>2 DEF RuleDone
      <3>2. QED
        BY <1>1, <3>1 DEF View, CallType
    <2>3. CASE after = RuleDone(c, "failed") /\ ~(k.next < Len(RuleNames))
      <3>1. after = Returned(k.ip, "failed")
        BY <1>1, <1>4, <1>5, <1>6, <2>3, Truthful
      <3>2. QED
        BY <3>1 DEF View, Returned, NewCall, Service!Returned
    <2>4. QED
      BY <1>2, <2>1, <2>2, <2>3
  <1>11. CallView' = [Service!Noticed(new \ old, old \ new) EXCEPT ![c] = View(after)]
    <2>1. CallView' = [[d \in Callers |-> View(Noticed(r, entries)[d])]
                          EXCEPT ![c] = View(after)]
      BY <1>8, ViewOfCalls
    <2>2. QED
      BY <1>1, <2>1, NoticedView
  <1>12. Service!Change(new \ old, old \ new)
    BY <1>1, <1>2, <1>3, ReplacedChange
  <1>13. CallView[c] = View(k) /\ CallView[c].busy /\ CallView[c].ip = k.ip
         /\ CallView[c].added = k.added /\ CallView[c].taken = k.taken
    BY <1>1, ViewOfCalls DEF View
  <1> HIDE DEF old, new
  <1>14. Service!Write(c, View(after))
    BY <1>3, <1>11, <1>12, <1>13 DEF Service!Write
  <1>15. Service!Next
    <2>1. CASE View(after) = View(k)
      BY <1>13, <1>14, <2>1 DEF Service!Next
    <2>2. CASE View(after) = Service!Returned(k.ip, "failed")
      BY <1>13, <1>14, <2>2 DEF Service!Next, Service!WriteAndFail
    <2>3. QED
      BY <1>10, <2>1, <2>2
  <1>16. QED
    BY <1>9, <1>15 DEF Refined

LEMMA RemoveRefines ==
    ASSUME GInv, NEW r \in Rules, NEW i \in DOMAIN rules[r], RemoveByHand(r, i)
    PROVE  Ghosts' /\ Refined
  <1> DEFINE entries == RemoveAt(rules[r], i)
             a       == rules[r][i].ip
  <1>1. /\ rules[r] \in Seq(Entries) /\ Unique(rules[r]) /\ Refers(rules[r], hosts)
        /\ rules' = [rules EXCEPT ![r] = entries]
        /\ call' = Noticed(r, entries)
    BY DEF GInv, IInv, RulesHold, RemoveByHand
  <1>2. /\ entries \in Seq(Entries)
        /\ Addresses(entries) = Addresses(rules[r]) \ {a}
        /\ a \in Addresses(rules[r])
        /\ a \in Ips
    BY <1>1, Removed, AddressesByIndex
  <1> HIDE DEF entries, a
  <1>3. Ghosts'
    BY <1>1, <1>2, GhostNoticed DEF Ghosts
  <1>4. /\ Addresses(entries) \ Addresses(rules[r]) = {}
        /\ Addresses(rules[r]) \ Addresses(entries) = {a}
    BY <1>2
  <1>5. Service!Change({}, {a})
    BY <1>1, <1>2, <1>4, ReplacedChange
  <1>6. CallView' = Service!Noticed({}, {a})
    BY <1>1, <1>4, NoticedView, ViewOfCalls
  <1>7. Service!Remove(a)
    BY <1>5, <1>6 DEF Service!Remove
  <1>8. QED
    BY <1>2, <1>3, <1>7 DEF Refined, Service!Next

-------------------------------------------------------------------------------
(* The theorem. *)

LEMMA InitRefines == Init => Ghosts /\ Service!Init
  <1> SUFFICES ASSUME Init PROVE Ghosts /\ Service!Init
    OBVIOUS
  <1>1. ASSUME NEW c \in Callers
        PROVE  /\ GhostHolds(call[c], rules)
               /\ CallView[c] \in {Service!Returned(a, "none") : a \in Ips}
    <2>1. PICK a \in Ips : call[c] = Returned(a, "none")
      BY DEF Init
    <2>2. GhostHolds(call[c], rules)
      BY <2>1, FreshGhost DEF Results
    <2>3. View(call[c]) = Service!Returned(a, "none")
      BY <2>1 DEF View, Returned, NewCall, Service!Returned
    <2>4. QED
      BY <2>2, <2>3, ViewOfCalls
  <1>2. Everywhere \in SUBSET Ips
    BY DEF Everywhere
  <1>3. CallView \in [Callers -> {Service!Returned(a, "none") : a \in Ips}]
    BY <1>1, ViewOfCalls
  <1>4. QED
    BY <1>1, <1>2, <1>3 DEF Ghosts, Service!Init

LEMMA NextRefines == GInv /\ [Next]_vars => Ghosts' /\ Refined
  <1> SUFFICES ASSUME GInv, [Next]_vars PROVE Ghosts' /\ Refined
    OBVIOUS
  <1>1. ASSUME NEW c \in Callers, Step(c) PROVE Ghosts' /\ Refined
    BY <1>1, GuardRefines, AuthenticateRefines, FetchRefines, EnsureHostRefines,
       UploadRefines, VerifyRefines, RequestFailsRefines DEF Step
  <1>2. ASSUME NEW c \in Callers, NEW a \in Ips, Call(c, a) PROVE Ghosts' /\ Refined
    BY <1>2, CallRefines
  <1>3. ASSUME NEW r \in Rules, NEW i \in DOMAIN rules[r], RemoveByHand(r, i)
        PROVE  Ghosts' /\ Refined
    BY <1>3, RemoveRefines
  <1>4. CASE UNCHANGED vars
    <2>1. rules' = rules /\ call' = call
      BY <1>4 DEF vars
    <2>2. Ghosts'
      BY <2>1 DEF GInv, Ghosts
    <2>3. UNCHANGED <<Everywhere, CallView>>
      BY <2>1, EverywhereStays DEF CallView
    <2>4. QED
      BY <2>2, <2>3 DEF Refined
  <1>5. QED
    BY <1>1, <1>2, <1>3, <1>4 DEF Next

\* Concurrent calls of block_ip over any number of rules do what BlockService
\* promises their callers, whatever the firewall and its administrators do.
THEOREM Implements == Spec => ImplementsBlockService
  <1>1. Init => GInv /\ Service!Init
    BY InitHolds, InitRefines DEF GInv, Ghosts
  <1>2. GInv /\ [Next]_vars => GInv' /\ [Service!Next]_<<Everywhere, CallView>>
    BY NextHolds, NextRefines DEF GInv, Ghosts, Refined
  <1>3. QED
    BY <1>1, <1>2, PTL DEF Spec, ImplementsBlockService, Service!Spec
===============================================================================
