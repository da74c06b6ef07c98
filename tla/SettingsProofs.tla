---------------------------- MODULE SettingsProofs ----------------------------
(***************************************************************************)
(* Theorems about Settings, for any form, file, administrators' input,     *)
(* number of browsers, saves and crashes.                                  *)
(***************************************************************************)
EXTENDS Settings, FiniteSetTheorems, FunctionTheorems, SequenceTheorems, TLAPS

-------------------------------------------------------------------------------
(* Positions in the order of the form, and the last occurrence of a key. *)

\* The elements of a finite set of numbers have the ranks from 1 to its size, each
\* once.
LEMMA Ranks ==
  ASSUME NEW S \in SUBSET Nat, IsFiniteSet(S)
  PROVE  /\ Cardinality(S) \in Nat
         /\ \A i \in S : Rank(S, i) \in 1 .. Cardinality(S)
         /\ \A i, j \in S : Rank(S, i) = Rank(S, j) => i = j
         /\ \A n \in 1 .. Cardinality(S) : \E i \in S : Rank(S, i) = n
<1> DEFINE Below(i) == {j \in S : j <= i}
           N == Cardinality(S)
           f == [i \in S |-> Rank(S, i)]
<1>1. N \in Nat
  BY FS_CardinalityType
<1>2. ASSUME NEW i \in S
      PROVE  /\ IsFiniteSet(Below(i)) /\ Rank(S, i) = Cardinality(Below(i))
             /\ Rank(S, i) \in 1 .. N
  <2>1. Below(i) \in SUBSET S
    OBVIOUS
  <2>2. IsFiniteSet(Below(i)) /\ Cardinality(Below(i)) <= N
    BY <2>1, FS_Subset
  <2>3. Below(i) # {}
    BY <1>2
  <2>4. Cardinality(Below(i)) \in Nat /\ Cardinality(Below(i)) # 0
    BY <2>2, <2>3, FS_CardinalityType, FS_EmptySet
  <2> QED BY <1>1, <2>2, <2>4 DEF Rank
<1>3. ASSUME NEW i \in S, NEW j \in S, i < j PROVE Rank(S, i) # Rank(S, j)
  <2>0. \A x \in S : x \in Nat
    OBVIOUS
  <2>1. Below(i) \in SUBSET Below(j) /\ j \in Below(j) /\ j \notin Below(i)
    <3>1. i \in Nat /\ j \in Nat
      BY <2>0
    <3>2. ASSUME NEW x \in Below(i) PROVE x \in Below(j)
      <4>1. x \in S /\ x \in Nat /\ x <= i
        BY <2>0, <3>2
      <4> QED BY <1>3, <3>1, <4>1
    <3>3. j \in Below(j) /\ j \notin Below(i)
      BY <1>3, <3>1
    <3> QED BY <3>2, <3>3
  <2>2. Below(i) # Below(j)
    BY <2>1
  <2>3. Cardinality(Below(i)) # Cardinality(Below(j))
    BY <1>2, <2>1, <2>2, FS_Subset
  <2> QED BY <1>2, <2>3
<1>4. \A i, j \in S : Rank(S, i) = Rank(S, j) => i = j
  <2> SUFFICES ASSUME NEW i \in S, NEW j \in S, Rank(S, i) = Rank(S, j) PROVE i = j
    OBVIOUS
  <2>1. i < j \/ j < i \/ i = j
    OBVIOUS
  <2> QED BY <1>3, <2>1
<1>5. f \in Injection(S, 1 .. N)
  BY <1>2, <1>4, Fun_IsInj
<1>6. IsFiniteSet(1 .. N) /\ Cardinality(1 .. N) = N
  BY <1>1, FS_Interval
<1>7. f \in Surjection(S, 1 .. N)
  BY <1>5, <1>6, FS_Injection
<1>8. \A n \in 1 .. N : \E i \in S : f[i] = n
  BY <1>7 DEF Surjection
<1> QED BY <1>1, <1>2, <1>4, <1>8

\* A finite set of numbers that is not empty has a greatest one.
LEMMA Greatest ==
  ASSUME NEW S \in SUBSET Nat, IsFiniteSet(S), S # {}
  PROVE  \E i \in S : \A j \in S : j <= i
<1> DEFINE N == Cardinality(S)
<1>1. N \in 1 .. N
  BY FS_CardinalityType, FS_EmptySet
<1>2. PICK i \in S : Rank(S, i) = N
  BY <1>1, Ranks
<1>3. {j \in S : j <= i} = S
  BY <1>2, FS_Subset DEF Rank
<1> QED BY <1>3

\* The places where a key is assigned, and the value that counts.
LEMMA LastCounts ==
  ASSUME NEW S, NEW lines \in Seq(S), NEW k \in KeysOf(lines)
  PROVE  \E i \in Occurrences(lines, k) :
            /\ \A j \in Occurrences(lines, k) : j <= i
            /\ read_env_pairs(lines)[k] = lines[i].value
<1> DEFINE O == Occurrences(lines, k)
           last == CHOOSE i \in O : \A j \in O : j <= i
<1>1. DOMAIN lines = 1 .. Len(lines) /\ Len(lines) \in Nat
  BY LenProperties
<1>2. O \in SUBSET Nat /\ O # {}
  BY <1>1 DEF Occurrences, KeysOf
<1>3. O \in SUBSET (1 .. Len(lines))
  BY <1>1 DEF Occurrences
<1>4. IsFiniteSet(O)
  <2>1. IsFiniteSet(1 .. Len(lines))
    BY <1>1, FS_Interval
  <2> QED BY <1>3, <2>1, FS_Subset
<1>5. \E i \in O : \A j \in O : j <= i
  BY <1>2, <1>4, Greatest
<1>6. last \in O /\ \A j \in O : j <= last
  BY <1>5
<1>7. read_env_pairs(lines)[k] = lines[last].value
  BY DEF read_env_pairs
<1> QED BY <1>6, <1>7

-------------------------------------------------------------------------------
(* write_env_pairs *)

\* NewKeys lists the updated keys that the file does not have.
LEMMA NewKeysListed ==
  ASSUME NEW lines, NEW updates
  PROVE  LET new == NewKeys(lines, updates)
         IN  /\ DOMAIN new = 1 .. Len(new) /\ Len(new) \in Nat
             /\ new \in Seq(Fields)
             /\ \A n \in DOMAIN new : new[n] \in DOMAIN updates \ KeysOf(lines)
             /\ \A k \in (DOMAIN updates \cap Fields) \ KeysOf(lines) :
                   \E n \in DOMAIN new : new[n] = k
<1> DEFINE M == Missing(lines, updates)
           N == Cardinality(M)
           place(n) == CHOOSE i \in M : Rank(M, i) = n
           new == NewKeys(lines, updates)
<1>1. /\ FieldList \in Seq(Fields) /\ DOMAIN FieldList = 1 .. Len(FieldList)
      /\ Len(FieldList) \in Nat
  BY SettingsAssumption, LenProperties
<1>2. M \in SUBSET (1 .. Len(FieldList)) /\ M \in SUBSET Nat
  BY <1>1 DEF Missing
<1>3. IsFiniteSet(M)
  <2>1. IsFiniteSet(1 .. Len(FieldList))
    BY <1>1, FS_Interval
  <2> QED BY <1>2, <2>1, FS_Subset
<1>4. N \in Nat
  BY <1>3, FS_CardinalityType
<1>5. new = [n \in 1 .. N |-> FieldList[place(n)]]
  BY DEF NewKeys
<1>6. \A n \in 1 .. N : \E i \in M : Rank(M, i) = n
  BY <1>2, <1>3, Ranks
<1>7. ASSUME NEW n \in 1 .. N PROVE place(n) \in M /\ Rank(M, place(n)) = n
  BY <1>6
<1>8. ASSUME NEW n \in 1 .. N
      PROVE  new[n] \in Fields /\ new[n] \in DOMAIN updates \ KeysOf(lines)
  <2>1. new[n] = FieldList[place(n)]
    BY <1>5
  <2>2. place(n) \in DOMAIN FieldList
    BY <1>1, <1>2, <1>7
  <2>3. FieldList[place(n)] \in Fields
    BY <1>1, <2>2, ElementOfSeq
  <2>4. FieldList[place(n)] \in DOMAIN updates \ KeysOf(lines)
    BY <1>7 DEF Missing
  <2> QED BY <2>1, <2>3, <2>4
<1>9. new \in [1 .. N -> Fields]
  BY <1>5, <1>8
<1>10. new \in Seq(Fields) /\ Len(new) = N /\ DOMAIN new = 1 .. N
  BY <1>4, <1>9
<1>11. ASSUME NEW k \in (DOMAIN updates \cap Fields) \ KeysOf(lines)
       PROVE  \E n \in DOMAIN new : new[n] = k
  <2>1. PICK i \in DOMAIN FieldList : FieldList[i] = k
    BY DEF Fields, ToSet
  <2>2. i \in M
    BY <2>1 DEF Missing
  <2>3. Rank(M, i) \in 1 .. N
    BY <1>2, <1>3, <2>2, Ranks
  <2>4. place(Rank(M, i)) = i
    BY <1>2, <1>3, <1>7, <2>2, <2>3, Ranks
  <2>5. new[Rank(M, i)] = k
    BY <1>5, <2>1, <2>3, <2>4
  <2> QED BY <1>10, <2>3, <2>5
<1> QED BY <1>4, <1>8, <1>10, <1>11

\* The keys of a form are no line without a key.
LEMMA FieldsAreKeys == Fields \subseteq Keys /\ NoKey \notin Fields
  BY SettingsAssumption DEF Keys

\* The lines of the file: only first assignments of updated keys get a new value.
LEMMA RewrittenLines ==
  ASSUME NEW lines \in Seq(Lines), NEW D \in SUBSET Fields, NEW updates \in [D -> Values]
  PROVE  LET out == Rewritten(lines, updates)
         IN  /\ out \in Seq(Lines) /\ Len(out) = Len(lines)
             /\ \A i \in 1 .. Len(lines) :
                   /\ out[i].key = lines[i].key
                   /\ IF lines[i].key \in D
                           /\ \A j \in 1 .. i - 1 : lines[j].key # lines[i].key
                        THEN out[i].value = updates[lines[i].key]
                        ELSE out[i] = lines[i]
<1> DEFINE out == Rewritten(lines, updates)
           first(i) == /\ lines[i].key \in D
                       /\ \A j \in 1 .. i - 1 : lines[j].key # lines[i].key
           line(i) == IF first(i) THEN [lines[i] EXCEPT !.value = updates[lines[i].key]]
                                  ELSE lines[i]
<1>1. DOMAIN lines = 1 .. Len(lines) /\ Len(lines) \in Nat
  BY LenProperties
<1>2. out = [i \in 1 .. Len(lines) |-> line(i)]
  BY <1>1 DEF Rewritten
<1>3. ASSUME NEW i \in 1 .. Len(lines)
      PROVE  /\ line(i) \in Lines /\ line(i).key = lines[i].key
             /\ first(i) => line(i).value = updates[lines[i].key]
             /\ ~first(i) => line(i) = lines[i]
  <2>1. lines[i] \in Lines
    BY ElementOfSeq
  <2>2. CASE first(i)
    <3>1. updates[lines[i].key] \in Values
      BY <2>2
    <3>2. line(i) = [lines[i] EXCEPT !.value = updates[lines[i].key]]
      BY <2>2
    <3> HIDE DEF line, first
    <3> QED BY <2>1, <2>2, <3>1, <3>2 DEF Lines
  <2>3. CASE ~first(i)
    BY <2>1, <2>3
  <2> QED BY <2>2, <2>3
<1>4. \A i \in 1 .. Len(lines) : out[i] = line(i)
  BY <1>2
<1> HIDE DEF line
<1>5. out \in [1 .. Len(lines) -> Lines]
  BY <1>2, <1>3
<1>6. out \in Seq(Lines) /\ Len(out) = Len(lines)
  BY <1>1, <1>5
<1> QED BY <1>3, <1>4, <1>6

LEMMA OneElement ==
  ASSUME NEW S, NEW e \in S
  PROVE  \E s \in Seq(S) : s = <<e>> /\ Len(s) = 1 /\ s[1] = e
<1>1. <<e>> \in Seq(S)
  OBVIOUS
<1> QED BY <1>1

\* The lines of the file, then lines without a key and one line for each updated key
\* that the file does not have.
IsWritten(lines, updates, out) ==
    /\ out \in Seq(Lines) /\ Len(lines) <= Len(out)
    /\ \A i \in 1 .. Len(lines) : out[i] = Rewritten(lines, updates)[i]
    /\ \A i \in Len(lines) + 1 .. Len(out) :
          \/ out[i].key = NoKey
          \/ /\ out[i].key \in DOMAIN updates \ KeysOf(lines)
             /\ out[i].value = updates[out[i].key]
    /\ \A k \in DOMAIN updates \ KeysOf(lines) :
          \E i \in Len(lines) + 1 .. Len(out) : out[i].key = k

LEMMA WrittenLines ==
  ASSUME NEW lines \in Seq(Lines), NEW D \in SUBSET Fields, NEW updates \in [D -> Values]
  PROVE  IsWritten(lines, updates, write_env_pairs(lines, updates))
<1> DEFINE old == Rewritten(lines, updates)
           new == NewKeys(lines, updates)
           gap == IF lines = <<>> \/ Last(lines) = EmptyLine THEN <<>> ELSE <<EmptyLine>>
           added == [i \in DOMAIN new |-> [key |-> new[i], value |-> updates[new[i]]]]
           out == write_env_pairs(lines, updates)
<1>0. DOMAIN updates = D
  OBVIOUS
<1>1. old \in Seq(Lines) /\ Len(old) = Len(lines) /\ Len(lines) \in Nat
  BY RewrittenLines, LenProperties
<1>2. /\ DOMAIN new = 1 .. Len(new) /\ Len(new) \in Nat /\ new \in Seq(Fields)
      /\ \A n \in DOMAIN new : new[n] \in D \ KeysOf(lines)
      /\ \A k \in D \ KeysOf(lines) : \E n \in DOMAIN new : new[n] = k
  <2>1. DOMAIN updates = D /\ D \cap Fields = D
    OBVIOUS
  <2> QED BY <2>1, NewKeysListed
<1>3. CASE new = <<>>
  <2>1. out = old
    BY <1>3 DEF write_env_pairs
  <2>2. D \ KeysOf(lines) = {}
    BY <1>2, <1>3, EmptySeq
  <2> HIDE DEF old, new, gap, added, out
  <2> QED BY <1>0, <1>1, <2>1, <2>2 DEF IsWritten, old, out
<1>4. CASE new # <<>>
  <2>1. EmptyLine \in Lines /\ AddedLine \in Lines
    BY DEF EmptyLine, AddedLine, Lines, Values, Comments, Blank
  <2>2. gap \in Seq(Lines) /\ Len(gap) \in {0, 1}
        /\ \A i \in 1 .. Len(gap) : gap[i] = EmptyLine
    <3>1. PICK empty \in Seq(Lines) :
             empty = <<EmptyLine>> /\ Len(empty) = 1 /\ empty[1] = EmptyLine
      BY <2>1, OneElement
    <3>3. gap = empty \/ gap = <<>>
      BY <3>1
    <3> HIDE DEF gap
    <3>4. CASE gap = empty
      BY <3>1, <3>4
    <3>5. CASE gap = <<>>
      BY <3>5, EmptySeq
    <3> QED BY <3>3, <3>4, <3>5
  <2>3. PICK one \in Seq(Lines) : one = <<AddedLine>> /\ Len(one) = 1 /\ one[1] = AddedLine
    BY <2>1, OneElement
  <2>4. Len(one) = 1 /\ one[1] = AddedLine
    BY <2>3
  <2>5. ASSUME NEW n \in 1 .. Len(new)
        PROVE  /\ added[n] \in Lines /\ added[n].key = new[n]
               /\ added[n].value = updates[new[n]]
    <3>1. new[n] \in D /\ updates[new[n]] \in Values /\ new[n] \in Keys
      BY <1>2, FieldsAreKeys
    <3>2. added[n] = [key |-> new[n], value |-> updates[new[n]]]
      BY <1>2
    <3> QED BY <3>1, <3>2 DEF Lines
  <2>6. added \in Seq(Lines) /\ Len(added) = Len(new)
    <3>1. added \in [1 .. Len(new) -> Lines]
      BY <1>2, <2>5
    <3> QED BY <1>2, <3>1
  <2>7. out = ((old \o gap) \o one) \o added
    BY <1>4, <2>3 DEF write_env_pairs
  <2> HIDE DEF old, new, gap, added, out
  <2> DEFINE g == Len(lines) + Len(gap)
  <2>8. /\ old \o gap \in Seq(Lines) /\ Len(old \o gap) = g
        /\ \A i \in 1 .. g : (old \o gap)[i] =
              IF i <= Len(lines) THEN old[i] ELSE gap[i - Len(lines)]
    <3>0. old \in Seq(Lines) /\ gap \in Seq(Lines) /\ Len(old) = Len(lines)
      BY <1>1, <2>2
    <3>1. /\ old \o gap \in Seq(Lines) /\ Len(old \o gap) = Len(old) + Len(gap)
          /\ \A i \in 1 .. Len(old) + Len(gap) : (old \o gap)[i] =
                IF i <= Len(old) THEN old[i] ELSE gap[i - Len(old)]
      BY <3>0, ConcatProperties
    <3> QED BY <3>0, <3>1
  <2>9. g \in Nat
    BY <1>1, <2>2
  <2>10. /\ (old \o gap) \o one \in Seq(Lines) /\ Len((old \o gap) \o one) = g + 1
         /\ \A i \in 1 .. g + 1 : ((old \o gap) \o one)[i] =
               IF i <= g THEN (old \o gap)[i] ELSE one[i - g]
    <3> DEFINE s == old \o gap
    <3>1. s \in Seq(Lines) /\ one \in Seq(Lines)
      BY <2>8
    <3>2. Len(s) = g /\ Len(one) = 1
      BY <2>4, <2>8
    <3> HIDE DEF s, g
    <3>3. /\ s \o one \in Seq(Lines) /\ Len(s \o one) = Len(s) + Len(one)
          /\ \A i \in 1 .. Len(s) + Len(one) : (s \o one)[i] =
                IF i <= Len(s) THEN s[i] ELSE one[i - Len(s)]
      BY <3>1, ConcatProperties
    <3>4. /\ s \o one \in Seq(Lines) /\ Len(s \o one) = g + 1
          /\ \A i \in 1 .. g + 1 : (s \o one)[i] = IF i <= g THEN s[i] ELSE one[i - g]
      BY <3>2, <3>3
    <3> QED BY <3>4 DEF s
  <2>11. /\ out \in Seq(Lines) /\ Len(out) = g + 1 + Len(new)
         /\ \A i \in 1 .. g + 1 + Len(new) : out[i] =
               IF i <= g + 1 THEN ((old \o gap) \o one)[i] ELSE added[i - (g + 1)]
    <3> DEFINE s == (old \o gap) \o one
    <3>1. s \in Seq(Lines) /\ Len(s) = g + 1
      BY <2>10
    <3>2. out = s \o added
      BY <2>7
    <3> HIDE DEF s
    <3>3. /\ s \o added \in Seq(Lines) /\ Len(s \o added) = Len(s) + Len(added)
          /\ \A i \in 1 .. Len(s) + Len(added) : (s \o added)[i] =
                IF i <= Len(s) THEN s[i] ELSE added[i - Len(s)]
      BY <2>6, <3>1, ConcatProperties
    <3>4. /\ out \in Seq(Lines) /\ Len(out) = g + 1 + Len(new)
          /\ \A i \in 1 .. g + 1 + Len(new) : out[i] =
                IF i <= g + 1 THEN s[i] ELSE added[i - (g + 1)]
      BY <2>6, <3>1, <3>2, <3>3
    <3> QED BY <3>4 DEF s
  <2>12. \A i \in 1 .. Len(lines) : out[i] = old[i]
    <3> SUFFICES ASSUME NEW i \in 1 .. Len(lines) PROVE out[i] = old[i]
      OBVIOUS
    <3>1. i <= g
      BY <1>1, <2>2
    <3> HIDE DEF g
    <3>2. i \in 1 .. g /\ i \in 1 .. g + 1 /\ i <= g + 1 /\ i \in 1 .. g + 1 + Len(new)
      BY <1>1, <1>2, <2>9, <3>1
    <3>3. out[i] = ((old \o gap) \o one)[i]
      BY <2>11, <3>2
    <3>4. ((old \o gap) \o one)[i] = (old \o gap)[i]
      BY <2>10, <3>1, <3>2
    <3>5. (old \o gap)[i] = old[i]
      BY <2>8, <3>2
    <3> QED BY <3>3, <3>4, <3>5
  <2>13. ASSUME NEW i \in Len(lines) + 1 .. g + 1 PROVE out[i].key = NoKey
    <3>1. CASE i <= g
      <4>1. i - Len(lines) \in 1 .. Len(gap) /\ ~(i <= Len(lines))
        BY <1>1, <2>2, <3>1
      <4> HIDE DEF g
      <4>2. i \in 1 .. g /\ i \in 1 .. g + 1 /\ i <= g + 1 /\ i \in 1 .. g + 1 + Len(new)
        BY <1>1, <1>2, <2>9, <3>1
      <4>3. out[i] = ((old \o gap) \o one)[i]
        BY <2>11, <4>2
      <4>4. ((old \o gap) \o one)[i] = (old \o gap)[i]
        BY <2>10, <3>1, <4>2
      <4>5. (old \o gap)[i] = gap[i - Len(lines)]
        BY <2>8, <4>1, <4>2
      <4> QED BY <2>2, <4>1, <4>3, <4>4, <4>5 DEF EmptyLine
    <3>2. CASE i = g + 1
      <4>1. out[i] = one[1]
        BY <1>1, <1>2, <2>9, <2>10, <2>11, <3>2
      <4> QED BY <2>4, <4>1 DEF AddedLine
    <3> HIDE DEF g
    <3> QED BY <1>1, <2>9, <3>1, <3>2
  <2>14. ASSUME NEW n \in 1 .. Len(new)
         PROVE  /\ g + 1 + n \in Len(lines) + 1 .. Len(out)
                /\ out[g + 1 + n] = added[n]
    <3>1. g + 1 + n \in 1 .. g + 1 + Len(new) /\ ~(g + 1 + n <= g + 1)
      BY <1>2, <2>9
    <3>2. (g + 1 + n) - (g + 1) = n
      BY <2>9
    <3>3. out[g + 1 + n] = added[n]
      BY <2>11, <3>1, <3>2
    <3>4. Len(lines) <= g
      BY <1>1, <2>2
    <3> HIDE DEF g
    <3>5. g + 1 + n \in Len(lines) + 1 .. g + 1 + Len(new)
      BY <1>1, <1>2, <2>9, <3>1, <3>4
    <3> QED BY <2>11, <3>3, <3>5
  <2>15. ASSUME NEW i \in g + 2 .. Len(out)
         PROVE  out[i].key \in D \ KeysOf(lines) /\ out[i].value = updates[out[i].key]
    <3> DEFINE n == i - (g + 1)
    <3>1. n \in 1 .. Len(new) /\ i = g + 1 + n
      BY <1>2, <2>9, <2>11
    <3>2. out[i] = added[n]
      BY <2>14, <3>1
    <3> HIDE DEF n, g
    <3>3. /\ added[n].key = new[n] /\ added[n].value = updates[new[n]]
          /\ new[n] \in D \ KeysOf(lines)
      BY <1>2, <2>5, <3>1
    <3> QED BY <3>2, <3>3
  <2>16. ASSUME NEW k \in D \ KeysOf(lines)
         PROVE  \E i \in Len(lines) + 1 .. Len(out) : out[i].key = k
    <3>1. PICK n \in 1 .. Len(new) : new[n] = k
      BY <1>2
    <3> QED BY <2>5, <2>14, <3>1
  <2>17. Len(lines) <= Len(out)
    BY <1>1, <1>2, <2>2, <2>11
  <2>18. \A i \in Len(lines) + 1 .. Len(out) : i \in Len(lines) + 1 .. g + 1 \/ i \in g + 2 .. Len(out)
    BY <1>1, <2>9, <2>11, <1>2
  <2> QED BY <1>0, <2>11, <2>12, <2>13, <2>15, <2>16, <2>17, <2>18 DEF IsWritten, out, old
<1> QED BY <1>3, <1>4

\* What read_env_pairs reads from a file that write_env_pairs wrote: the updates,
\* but for keys assigned twice, and for all other keys what it read before.
THEOREM SavedPairs ==
  ASSUME NEW lines \in Seq(Lines), NEW D \in SUBSET Fields, NEW updates \in [D -> Values]
  PROVE  LET before == read_env_pairs(lines)
             after  == read_env_pairs(write_env_pairs(lines, updates))
         IN  /\ DOMAIN after = DOMAIN before \cup D
             /\ \A k \in DOMAIN before \ D : after[k] = before[k]
             /\ \A k \in D : \/ after[k] = updates[k]
                             \/ /\ Repeated(lines, k) /\ k \in DOMAIN before
                                /\ after[k] = before[k]
<1> DEFINE out == write_env_pairs(lines, updates)
           L == Len(lines)
           old == Rewritten(lines, updates)
<1>a. IsWritten(lines, updates, out) /\ DOMAIN updates = D
  BY WrittenLines
<1>b. \A i \in 1 .. Len(lines) :
         /\ old[i].key = lines[i].key
         /\ IF lines[i].key \in D /\ \A j \in 1 .. i - 1 : lines[j].key # lines[i].key
              THEN old[i].value = updates[lines[i].key]
              ELSE old[i] = lines[i]
  BY RewrittenLines, Zenon
<1> HIDE DEF out, old
<1>1. /\ out \in Seq(Lines) /\ L <= Len(out) /\ L \in Nat /\ Len(out) \in Nat
      /\ DOMAIN lines = 1 .. L /\ DOMAIN out = 1 .. Len(out)
  BY <1>a, LenProperties DEF IsWritten
<1>2. ASSUME NEW i \in 1 .. L
      PROVE  /\ i \in DOMAIN out /\ out[i].key = lines[i].key
             /\ IF lines[i].key \in D /\ \A j \in 1 .. i - 1 : lines[j].key # lines[i].key
                  THEN out[i].value = updates[lines[i].key]
                  ELSE out[i] = lines[i]
  <2>1. i \in DOMAIN out
    BY <1>1
  <2>2. out[i] = old[i]
    BY <1>a DEF IsWritten, old
  <2> QED BY <1>b, <2>1, <2>2
<1>3. /\ \A i \in L + 1 .. Len(out) :
           \/ out[i].key = NoKey
           \/ out[i].key \in D \ KeysOf(lines) /\ out[i].value = updates[out[i].key]
      /\ \A k \in D \ KeysOf(lines) : \E i \in L + 1 .. Len(out) : out[i].key = k
  BY <1>a DEF IsWritten
<1>4. NoKey \notin D
  BY FieldsAreKeys
<1>5. \A i \in 1 .. Len(out) : i \in 1 .. L \/ i \in L + 1 .. Len(out)
  BY <1>1
<1>6. KeysOf(out) = KeysOf(lines) \cup D
  <2>1. ASSUME NEW k \in KeysOf(out) PROVE k \in KeysOf(lines) \cup D
    <3>1. PICK i \in 1 .. Len(out) : out[i].key = k
      BY <1>1 DEF KeysOf
    <3>2. k # NoKey
      BY DEF KeysOf
    <3>3. CASE i \in 1 .. L
      BY <1>1, <1>2, <3>1, <3>2, <3>3 DEF KeysOf
    <3>4. CASE i \in L + 1 .. Len(out)
      BY <1>3, <3>1, <3>2, <3>4
    <3> QED BY <1>5, <3>3, <3>4
  <2>2. ASSUME NEW k \in KeysOf(lines) PROVE k \in KeysOf(out)
    BY <1>1, <1>2 DEF KeysOf
  <2>3. ASSUME NEW k \in D \ KeysOf(lines) PROVE k \in KeysOf(out)
    <3>1. PICK i \in L + 1 .. Len(out) : out[i].key = k
      BY <1>3
    <3>2. i \in DOMAIN out /\ k # NoKey
      BY <1>1, <1>4
    <3> QED BY <3>1, <3>2 DEF KeysOf
  <2> QED BY <2>1, <2>2, <2>3
<1>7. DOMAIN read_env_pairs(out) = KeysOf(out) /\ DOMAIN read_env_pairs(lines) = KeysOf(lines)
  BY DEF read_env_pairs
<1>8. ASSUME NEW k \in KeysOf(lines), NEW i \in 1 .. L, i \in Occurrences(out, k),
             \A j \in Occurrences(out, k) : j <= i
      PROVE  i \in Occurrences(lines, k) /\ read_env_pairs(lines)[k] = lines[i].value
  <2>1. PICK h \in Occurrences(lines, k) :
           /\ \A j \in Occurrences(lines, k) : j <= h
           /\ read_env_pairs(lines)[k] = lines[h].value
    BY LastCounts
  <2>2. i \in Occurrences(lines, k)
    BY <1>1, <1>2, <1>8 DEF Occurrences
  <2>3. h \in 1 .. L /\ h \in Occurrences(out, k)
    BY <1>1, <1>2 DEF Occurrences
  <2>4. h = i
    BY <1>1, <1>8, <2>1, <2>2, <2>3
  <2> QED BY <2>1, <2>2, <2>4
<1>9. ASSUME NEW k \in KeysOf(lines) \ D
      PROVE  read_env_pairs(out)[k] = read_env_pairs(lines)[k]
  <2>1. PICK i \in Occurrences(out, k) :
           /\ \A j \in Occurrences(out, k) : j <= i
           /\ read_env_pairs(out)[k] = out[i].value
    BY <1>1, <1>6, LastCounts
  <2>2. i \in 1 .. Len(out) /\ out[i].key = k /\ k # NoKey
    BY <1>1 DEF Occurrences, KeysOf
  <2>3. i \in 1 .. L
    BY <1>3, <1>5, <2>2
  <2>4. i \in Occurrences(lines, k) /\ read_env_pairs(lines)[k] = lines[i].value
    BY <1>8, <2>1, <2>3
  <2>5. out[i] = lines[i]
    BY <1>2, <2>2, <2>3
  <2> QED BY <2>1, <2>4, <2>5
<1>10. ASSUME NEW k \in D
       PROVE  \/ read_env_pairs(out)[k] = updates[k]
              \/ /\ Repeated(lines, k) /\ k \in KeysOf(lines)
                 /\ read_env_pairs(out)[k] = read_env_pairs(lines)[k]
  <2>1. PICK i \in Occurrences(out, k) :
           /\ \A j \in Occurrences(out, k) : j <= i
           /\ read_env_pairs(out)[k] = out[i].value
    BY <1>1, <1>6, LastCounts
  <2>2. i \in 1 .. Len(out) /\ out[i].key = k /\ k # NoKey
    BY <1>1, <1>4 DEF Occurrences
  <2>3. CASE i \in L + 1 .. Len(out)
    BY <1>3, <2>1, <2>2, <2>3
  <2>4. CASE i \in 1 .. L
    <3>1. lines[i].key = k
      BY <1>2, <2>2, <2>4
    <3>2. k \in KeysOf(lines)
      BY <1>1, <2>2, <2>4, <3>1 DEF KeysOf
    <3>3. i \in Occurrences(lines, k) /\ read_env_pairs(lines)[k] = lines[i].value
      BY <1>8, <2>1, <2>4, <3>2
    <3>4. CASE \A j \in 1 .. i - 1 : lines[j].key # lines[i].key
      BY <1>2, <2>1, <2>4, <3>1, <3>4
    <3>5. ASSUME NEW j \in 1 .. i - 1, lines[j].key = lines[i].key
          PROVE  /\ Repeated(lines, k)
                 /\ read_env_pairs(out)[k] = read_env_pairs(lines)[k]
      <4>1. j \in Occurrences(lines, k) /\ j # i
        BY <1>1, <2>4, <3>1, <3>5 DEF Occurrences
      <4>2. out[i] = lines[i]
        BY <1>2, <2>4, <3>5
      <4> QED BY <2>1, <3>3, <4>1, <4>2 DEF Repeated
    <3> QED BY <3>2, <3>4, <3>5
  <2> QED BY <1>5, <2>2, <2>3, <2>4
<1> QED BY <1>6, <1>7, <1>9, <1>10 DEF out

-------------------------------------------------------------------------------
(* Forms: what a page shows, what a browser submits and what a save changes. *)

LEMMA ValuesTyped ==
  /\ {Blank, "true", "false"} \subseteq Values
  /\ \A k \in Fields : Default[k] \in Values
  /\ \A k \in Fields : Kind[k] # "bool" => Typed[k] \subseteq Values
<1>1. \A k \in Fields : Kind[k] # "bool" => k \in DOMAIN Typed
  BY SettingsAssumption
<1>2. {Blank, "true", "false"} \subseteq Values
  BY DEF Values, Comments
<1>3. \A k \in Fields : Default[k] \in Values
  <2>1. \A k \in Fields : Default[k] \in Defaults
    BY DEF Defaults
  <2> QED BY <2>1 DEF Values
<1>4. \A k \in DOMAIN Typed : Typed[k] \subseteq Values
  BY DEF Values
<1> QED BY <1>1, <1>2, <1>3, <1>4

LEMMA GetTyped ==
  ASSUME NEW lines \in Seq(Lines), NEW k
  PROVE  Get(read_env_pairs(lines), k) \in Values
<1>1. CASE k \in KeysOf(lines)
  <2>1. PICK i \in Occurrences(lines, k) : read_env_pairs(lines)[k] = lines[i].value
    BY <1>1, LastCounts
  <2>2. lines[i] \in Lines
    BY ElementOfSeq, LenProperties DEF Occurrences
  <2> QED BY <1>1, <2>1, <2>2 DEF Get, read_env_pairs, Lines
<1>2. CASE k \notin KeysOf(lines)
  BY <1>2, ValuesTyped DEF Get, read_env_pairs
<1> QED BY <1>1, <1>2

\* A page shows a form, whatever the file is.
LEMMA PageIsForm ==
  ASSUME NEW lines \in Seq(Lines)
  PROVE  load_settings(lines) \in Forms
<1>1. ASSUME NEW k \in Fields
      PROVE  Display(read_env_pairs(lines), k) \in FormValues(k)
  <2> DEFINE raw == RawValue(read_env_pairs(lines), k)
  <2>1. raw \in Values
    BY GetTyped, ValuesTyped DEF RawValue
  <2>2. Kind[k] \in {"text", "number", "bool", "secret"}
    BY SettingsAssumption
  <2> HIDE DEF raw
  <2>3. Display(read_env_pairs(lines), k) =
           IF Kind[k] = "bool" THEN (IF raw = "true" THEN "on" ELSE "off")
           ELSE IF Kind[k] = "secret" /\ raw # Blank THEN Mask ELSE raw
    BY <2>2 DEF Display, raw
  <2>4. FormValues(k) = IF Kind[k] = "bool" THEN {"on", "off"}
                        ELSE IF Kind[k] = "secret" THEN Values \cup {Mask} ELSE Values
    BY <2>2 DEF FormValues
  <2> QED BY <2>1, <2>3, <2>4
<1>2. ASSUME NEW k \in Fields
      PROVE  FormValues(k) \subseteq Values \cup {Mask, "on", "off"}
  <2>1. Kind[k] \in {"text", "number", "bool", "secret"}
    BY SettingsAssumption
  <2> QED BY <2>1 DEF FormValues
<1> QED BY <1>1, <1>2 DEF load_settings, Forms

\* A form a browser submits is made from the one it was shown.
LEMMA FilledIsForm ==
  ASSUME NEW shown \in Forms, NEW form \in Filled(shown)
  PROVE  form \in Forms
<1>1. PICK edits \in SUBSET Fields :
         \E new \in [edits -> UNION {Inputs(k) : k \in edits}] :
            /\ \A k \in edits : new[k] \in Inputs(k)
            /\ form = [k \in Fields |-> IF k \in edits THEN new[k] ELSE shown[k]]
  BY DEF Filled
<1>1a. PICK new \in [edits -> UNION {Inputs(k) : k \in edits}] :
         /\ \A k \in edits : new[k] \in Inputs(k)
         /\ form = [k \in Fields |-> IF k \in edits THEN new[k] ELSE shown[k]]
  BY <1>1
<1>2. ASSUME NEW k \in Fields
      PROVE  /\ Inputs(k) \subseteq FormValues(k)
             /\ FormValues(k) \subseteq Values \cup {Mask, "on", "off"}
  <2>1. Kind[k] \in {"text", "number", "bool", "secret"}
    BY SettingsAssumption
  <2> QED BY <2>1, ValuesTyped DEF FormValues, Inputs
<1>3. ASSUME NEW k \in Fields PROVE form[k] \in FormValues(k)
  BY <1>1a, <1>2 DEF Forms
<1> QED BY <1>1a, <1>2, <1>3 DEF Forms

Changed(form) == {x \in Fields : ~Skipped(form, x)}

LEMMA UpdatesTyped ==
  ASSUME NEW form \in Forms
  PROVE  Updates(form) \in [Changed(form) -> Values]
<1>1. ASSUME NEW k \in Changed(form), Kind[k] # "bool" PROVE form[k] \in Values
  <2>1. form[k] \in FormValues(k) /\ Kind[k] \in {"text", "number", "bool", "secret"}
    BY SettingsAssumption DEF Forms, Changed
  <2> QED BY <1>1, <2>1 DEF FormValues, Changed, Skipped
<1>2. ASSUME NEW k \in Changed(form), Kind[k] # "bool" PROVE Stored(k, form[k]) \in Values
  BY <1>1, <1>2, SettingsAssumption DEF Changed
<1> QED BY <1>2, ValuesTyped DEF Updates, Changed

\* After a save each setting is the one of the form, if the form changes it and the
\* file does not assign it twice, and else what it was before.
LEMMA EffectiveAfter ==
  ASSUME NEW lines \in Seq(Lines), NEW form \in Forms, NEW k \in Fields
  PROVE  LET out == write_env_pairs(lines, Updates(form))
         IN  \/ /\ Skipped(form, k) \/ Repeated(lines, k)
                /\ Effective(out, k) = Effective(lines, k)
             \/ ~Skipped(form, k) /\ Effective(out, k) = Taken(form, k)
<1> DEFINE D == Changed(form)
           updates == Updates(form)
           out == write_env_pairs(lines, updates)
           before == read_env_pairs(lines)
           after == read_env_pairs(out)
<1>1. D \in SUBSET Fields /\ updates \in [D -> Values]
  BY UpdatesTyped DEF Changed
<1>2. updates = [x \in D |->
         IF Kind[x] = "bool" THEN (IF form[x] = "on" THEN "true" ELSE "false")
                             ELSE Stored(x, form[x])]
  BY DEF Updates, Changed
<1> HIDE DEF updates, D
<1>3. /\ DOMAIN after = DOMAIN before \cup D
      /\ \A h \in DOMAIN before \ D : after[h] = before[h]
      /\ \A h \in D : \/ after[h] = updates[h]
                      \/ /\ Repeated(lines, h) /\ h \in DOMAIN before
                         /\ after[h] = before[h]
  BY <1>1, SavedPairs
<1> HIDE DEF out, before, after
<1>4. ASSUME NEW h, h \notin D PROVE Get(after, h) = Get(before, h)
  BY <1>3, <1>4 DEF Get
<1>5. /\ Kind[k] \in {"text", "number", "bool", "secret"}
      /\ Legacy[k] = k \/ Legacy[k] \notin Fields
      /\ Kind[k] = "secret" => Default[k] = Blank /\ Legacy[k] = k
  BY SettingsAssumption
<1>6. ASSUME Get(after, k) = Get(before, k), k \in DOMAIN after <=> k \in DOMAIN before,
             Kind[k] # "bool"
      PROVE  EnvValue(after, k) = EnvValue(before, k)
  <2>1. Get(after, Legacy[k]) = Get(before, Legacy[k])
    BY <1>1, <1>4, <1>5, <1>6
  <2> QED BY <1>6, <2>1 DEF EnvValue, Get, Blank
<1>7. /\ Effective(out, k) =
             IF Kind[k] # "bool" THEN Parsed(k, EnvValue(after, k))
             ELSE IF k \in DOMAIN after THEN (IF after[k] \in Truthy THEN "on" ELSE "off")
             ELSE Default[k]
      /\ Effective(lines, k) =
             IF Kind[k] # "bool" THEN Parsed(k, EnvValue(before, k))
             ELSE IF k \in DOMAIN before THEN (IF before[k] \in Truthy THEN "on" ELSE "off")
             ELSE Default[k]
  BY DEF Effective, after, before
<1>8. CASE Skipped(form, k)
  <2>1. Kind[k] # "bool" /\ k \notin D
    BY <1>8 DEF Skipped, D, Changed
  <2>2. Effective(out, k) = Effective(lines, k)
    BY <1>3, <1>4, <1>6, <1>7, <2>1
  <2> QED BY <1>8, <2>2 DEF out, updates
<1>9. CASE ~Skipped(form, k)
  <2>1. k \in D
    BY <1>9 DEF D, Changed
  <2>2. CASE Repeated(lines, k) /\ k \in DOMAIN before /\ after[k] = before[k]
    <3>1. k \in DOMAIN after
      BY <1>3, <2>1
    <3>2. Get(after, k) = Get(before, k)
      BY <2>2, <3>1 DEF Get
    <3>3. Effective(out, k) = Effective(lines, k)
      BY <1>6, <1>7, <2>2, <3>1, <3>2
    <3> QED BY <2>2, <3>3 DEF out, updates
  <2>3. CASE after[k] = updates[k]
    <3>1. k \in DOMAIN after
      BY <1>3, <2>1
    <3>2. CASE Kind[k] = "bool"
      <4>1. form[k] \in {"on", "off"}
        BY <3>2 DEF Forms, FormValues
      <4>2. after[k] = IF form[k] = "on" THEN "true" ELSE "false"
        BY <1>2, <2>1, <2>3, <3>2
      <4>3. Effective(out, k) = form[k]
        BY <1>7, <3>1, <3>2, <4>1, <4>2 DEF Truthy
      <4> QED BY <1>9, <3>2, <4>3 DEF out, updates, Taken
    <3>3. CASE Kind[k] # "bool"
      <4> DEFINE v == Stored(k, form[k])
      <4>1. k \in DOMAIN Typed /\ form[k] \in Values
        BY <1>5, <1>9, <3>3, SettingsAssumption DEF Forms, FormValues, Skipped
      <4>2. after[k] = v /\ Get(after, k) = v
        BY <1>2, <2>1, <2>3, <3>1, <3>3 DEF Get
      <4>3. Legacy[k] = k \/ v # Blank
        <5>1. Legacy[k] # k => form[k] # Blank
          BY <1>5, <1>9, <3>3 DEF Skipped
        <5> QED BY <4>1, <5>1, SettingsAssumption
      <4> HIDE DEF v
      <4>4. EnvValue(after, k) = v
        BY <3>1, <4>2, <4>3 DEF EnvValue
      <4>5. Effective(out, k) = Parsed(k, v)
        BY <1>7, <3>3, <4>4
      <4>6. Parsed(k, v) = Parsed(k, form[k])
        BY <4>1, SettingsAssumption DEF v
      <4> QED BY <1>9, <3>3, <4>5, <4>6 DEF out, updates, Taken
    <3> QED BY <3>2, <3>3
  <2> QED BY <1>3, <2>1, <2>2, <2>3
<1> QED BY <1>8, <1>9

-------------------------------------------------------------------------------
(* The inductive invariant. *)

\* What waits to be written is made from the file as it was and from a form, which
\* was made from a page.
SaveHolds ==
    save.pc = "writing" =>
        /\ save.form \in Forms /\ save.shown \in Forms
        /\ save.lines = write_env_pairs(save.was, Updates(save.form))

PagesHold == \A b \in Browsers : browser[b].at = "form" => browser[b].shown \in Forms

IInv == TypeOK /\ SaveHolds /\ PagesHold

LEMMA InitHolds == Init => IInv
<1> SUFFICES ASSUME Init PROVE IInv
  OBVIOUS
<1>1. file \in Seq(Lines)
  BY SettingsAssumption DEF Init
<1>2. <<>> \in Seq(Lines)
  BY EmptySeq
<1>3. 0 \in 0 .. MaxSaves /\ 0 \in 0 .. MaxFaults
  BY SettingsAssumption
<1>4. TypeOK
  BY <1>1, <1>2, <1>3 DEF Init, TypeOK, NotBusy, Away
<1>5. SaveHolds /\ PagesHold
  BY DEF Init, SaveHolds, PagesHold, NotBusy, Away
<1> QED BY <1>4, <1>5 DEF IInv

LEMMA PageStep ==
  ASSUME IInv, NEW b \in Browsers, settings_page(b) \/ Render(b)
  PROVE  IInv'
<1> DEFINE BrowserType == [at : {"away", "asked", "form"}, shown : Forms \cup {NoForm}]
<1>1. PICK r \in BrowserType :
         /\ browser' = [browser EXCEPT ![b] = r]
         /\ r.at = "form" => r.shown \in Forms
  <2>1. CASE settings_page(b)
    <3>1. [Away EXCEPT !.at = "asked"] \in BrowserType
          /\ [Away EXCEPT !.at = "asked"].at = "asked"
      BY DEF Away
    <3> QED BY <2>1, <3>1 DEF settings_page
  <2>2. CASE Render(b)
    <3>1. load_settings(file) \in Forms
      BY PageIsForm DEF IInv, TypeOK
    <3> DEFINE page == [at |-> "form", shown |-> load_settings(file)]
    <3>2. page \in BrowserType /\ page.shown \in Forms
      BY <3>1
    <3>3. browser' = [browser EXCEPT ![b] = page]
      BY <2>2 DEF Render
    <3> HIDE DEF page
    <3> QED BY <3>2, <3>3
  <2> QED BY <2>1, <2>2
<1>2. UNCHANGED <<file, save, up, saves, faults>>
  BY DEF settings_page, Render
<1>3. browser \in [Browsers -> BrowserType]
  BY DEF IInv, TypeOK
<1> HIDE DEF BrowserType
<1>4. browser' \in [Browsers -> BrowserType]
      /\ \A c \in Browsers : browser'[c] = IF c = b THEN r ELSE browser[c]
  BY <1>1, <1>3
<1>5. TypeOK'
  BY <1>2, <1>4 DEF IInv, TypeOK, BrowserType
<1>6. PagesHold'
  BY <1>1, <1>4 DEF IInv, PagesHold
<1>7. SaveHolds'
  BY <1>2 DEF IInv, SaveHolds
<1> QED BY <1>5, <1>6, <1>7 DEF IInv

LEMMA SubmitStep ==
  ASSUME IInv, NEW b \in Browsers, settings_submit(b)
  PROVE  IInv'
<1>1. browser[b].shown \in Forms /\ file \in Seq(Lines)
  BY DEF IInv, TypeOK, PagesHold, settings_submit
<1>2. PICK form \in Filled(browser[b].shown) :
         IF Errors(form)
           THEN UNCHANGED <<file, save>>
           ELSE /\ save' = [pc |-> "writing", was |-> file, form |-> form,
                            lines |-> write_env_pairs(file, Updates(form)),
                            shown |-> browser[b].shown]
                /\ file' = <<>>
  BY DEF settings_submit
<1>3. form \in Forms
  BY <1>1, FilledIsForm
<1>4. write_env_pairs(file, Updates(form)) \in Seq(Lines)
  BY <1>1, <1>3, UpdatesTyped, WrittenLines DEF IsWritten, Changed
<1>5. /\ browser' = [browser EXCEPT ![b] = Away] /\ saves' = saves + 1 /\ saves < MaxSaves
      /\ UNCHANGED <<up, faults>>
  BY DEF settings_submit
<1>6. /\ file' \in Seq(Lines)
      /\ save' \in [pc : {"idle", "writing"}, lines : Seq(Lines), was : Seq(Lines),
                    form : Forms \cup {NoForm}, shown : Forms \cup {NoForm}]
      /\ SaveHolds'
  <2>1. CASE Errors(form)
    BY <1>2, <2>1 DEF IInv, TypeOK, SaveHolds
  <2>2. CASE ~Errors(form)
    <3>1. <<>> \in Seq(Lines)
      BY EmptySeq
    <3> QED BY <1>1, <1>2, <1>3, <1>4, <2>2, <3>1 DEF SaveHolds
  <2> QED BY <2>1, <2>2
<1>7. saves' \in 0 .. MaxSaves
  BY <1>5, SettingsAssumption DEF IInv, TypeOK
<1>8. /\ browser' \in [Browsers -> [at : {"away", "asked", "form"},
                                    shown : Forms \cup {NoForm}]]
      /\ PagesHold'
  <2>1. Away \in [at : {"away", "asked", "form"}, shown : Forms \cup {NoForm}]
        /\ Away.at # "form"
    BY DEF Away
  <2> QED BY <1>5, <2>1 DEF IInv, TypeOK, PagesHold
<1>9. TypeOK'
  BY <1>5, <1>6, <1>7, <1>8 DEF IInv, TypeOK
<1> QED BY <1>6, <1>8, <1>9 DEF IInv

LEMMA NotBusyTyped ==
  /\ NotBusy \in [pc : {"idle", "writing"}, lines : Seq(Lines), was : Seq(Lines),
                  form : Forms \cup {NoForm}, shown : Forms \cup {NoForm}]
  /\ NotBusy.pc = "idle"
<1>1. <<>> \in Seq(Lines)
  BY EmptySeq
<1> QED BY <1>1 DEF NotBusy

LEMMA WriteStep == ASSUME IInv, Write PROVE IInv'
  BY NotBusyTyped DEF Write, IInv, TypeOK, SaveHolds, PagesHold

LEMMA CrashStep == ASSUME IInv, Crash PROVE IInv'
<1>1. Away \in [at : {"away", "asked", "form"}, shown : Forms \cup {NoForm}]
      /\ Away.at # "form"
  BY DEF Away
<1>2. browser' = [b \in Browsers |-> IF browser[b].at = "asked" THEN Away ELSE browser[b]]
  BY DEF Crash
<1>3. /\ browser' \in [Browsers -> [at : {"away", "asked", "form"},
                                    shown : Forms \cup {NoForm}]]
      /\ PagesHold'
  BY <1>1, <1>2 DEF IInv, TypeOK, PagesHold
<1>4. faults' \in 0 .. MaxFaults
  BY SettingsAssumption DEF Crash, IInv, TypeOK
<1>5. UNCHANGED <<file, saves>> /\ up' = FALSE /\ save' = NotBusy
  BY DEF Crash
<1> QED BY <1>3, <1>4, <1>5, NotBusyTyped DEF IInv, TypeOK, SaveHolds

\* Whatever is saved, and whenever pages are rendered or the process dies, the invariant
\* holds.
THEOREM InvariantHolds == Spec => []IInv
<1>1. Init => IInv
  BY InitHolds
<1>2. IInv /\ [Next]_vars => IInv'
  <2> SUFFICES ASSUME IInv, [Next]_vars PROVE IInv'
    OBVIOUS
  <2>1. ASSUME NEW b \in Browsers, settings_page(b) PROVE IInv'
    BY <2>1, PageStep
  <2>2. ASSUME NEW b \in Browsers, Render(b) PROVE IInv'
    BY <2>2, PageStep
  <2>3. ASSUME NEW b \in Browsers, settings_submit(b) PROVE IInv'
    BY <2>3, SubmitStep
  <2>4. CASE Write
    BY <2>4, WriteStep
  <2>5. CASE Crash
    BY <2>5, CrashStep
  <2>6. CASE Start
    BY <2>6 DEF Start, IInv, TypeOK, SaveHolds, PagesHold
  <2>7. CASE UNCHANGED vars
    BY <2>7 DEF vars, IInv, TypeOK, SaveHolds, PagesHold
  <2> QED BY <2>1, <2>2, <2>3, <2>4, <2>5, <2>6, <2>7 DEF Next
<1> QED BY <1>1, <1>2, PTL DEF Spec

-------------------------------------------------------------------------------
(* Theorems. *)

\* Every variable keeps its type; in particular the mask of a password is never
\* written to the file as a value.
THEOREM TypeCorrect == Spec => []TypeOK
<1>1. IInv => TypeOK
  BY DEF IInv
<1> QED BY <1>1, InvariantHolds, PTL

\* A save leaves what the administrator did not touch, or brings back what the page
\* showed; never does it change a password the page masked.
THEOREM Untouched == Spec => UntouchedStays
<1> DEFINE Stays ==
       /\ \A i \in DOMAIN save.was :
             /\ file'[i].key = save.was[i].key
             /\ save.was[i].key \notin Fields => file'[i] = save.was[i]
       /\ \A k \in {x \in Fields : save.form[x] = save.shown[x]} :
             \/ Effective(file', k) = Effective(save.was, k)
             \/ ~Masked(save.shown, k) /\ Effective(file', k) = Taken(save.shown, k)
<1>1. ASSUME IInv, Write PROVE Stays
  <2> DEFINE lines == save.was
             updates == Updates(save.form)
  <2>1. /\ lines \in Seq(Lines) /\ save.form \in Forms
        /\ file' = write_env_pairs(lines, updates)
    BY <1>1 DEF IInv, TypeOK, SaveHolds, Write
  <2>2. /\ Changed(save.form) \in SUBSET Fields
        /\ updates \in [Changed(save.form) -> Values]
    BY <2>1, UpdatesTyped DEF Changed
  <2>3. ASSUME NEW i \in DOMAIN lines
        PROVE  /\ file'[i].key = lines[i].key
               /\ lines[i].key \notin Fields => file'[i] = lines[i]
    <3>1. i \in 1 .. Len(lines)
      BY <2>1, LenProperties
    <3>2. IsWritten(lines, updates, file')
      BY <2>1, <2>2, WrittenLines
    <3>3. file'[i] = Rewritten(lines, updates)[i]
      BY <3>1, <3>2 DEF IsWritten
    <3> DEFINE old == Rewritten(lines, updates)
               D == Changed(save.form)
    <3> HIDE DEF lines, updates, old, D
    <3>4. \A h \in 1 .. Len(lines) :
             /\ old[h].key = lines[h].key
             /\ IF lines[h].key \in D /\ \A j \in 1 .. h - 1 : lines[j].key # lines[h].key
                  THEN old[h].value = updates[lines[h].key]
                  ELSE old[h] = lines[h]
      <4> lines \in Seq(Lines) /\ D \in SUBSET Fields /\ updates \in [D -> Values]
        BY <2>1, <2>2 DEF D
      <4> QED BY RewrittenLines, Zenon DEF old
    <3>5. D \subseteq Fields /\ file'[i] = old[i]
      BY <2>2, <3>3 DEF D, old
    <3> QED BY <3>1, <3>4, <3>5
  <2>4. ASSUME NEW k \in Fields, save.form[k] = save.shown[k]
        PROVE  \/ Effective(file', k) = Effective(lines, k)
               \/ ~Masked(save.shown, k) /\ Effective(file', k) = Taken(save.shown, k)
    <3>1. \/ Effective(file', k) = Effective(lines, k)
          \/ ~Skipped(save.form, k) /\ Effective(file', k) = Taken(save.form, k)
      BY <2>1, EffectiveAfter
    <3> QED BY <2>4, <3>1 DEF Skipped, Masked, Taken
  <2> QED BY <2>3, <2>4
<1>2. IInv /\ [Next]_vars => [Write => Stays]_vars
  BY <1>1
<1> QED BY <1>2, InvariantHolds, PTL DEF Spec, UntouchedStays

\* After a save of a form that writes nothing load_config refuses the program
\* starts again.
THEOREM Restarts == Spec => StartsAgain
<1> DEFINE Allowed ==
       \/ ~Accepts(save.was)
       \/ \E k \in DOMAIN Typed :
             ~Skipped(save.form, k) /\ Taken(save.form, k) \in Unusable[k]
       \/ \E k \in Exclusive : Repeated(save.was, k)
       \/ \A k \in Exclusive : save.form[k] = "on"
<1>1. ASSUME IInv, Write, ~Allowed PROVE Accepts(file')
  <2>1. /\ save.was \in Seq(Lines) /\ save.form \in Forms
        /\ file' = write_env_pairs(save.was, Updates(save.form))
    BY <1>1 DEF IInv, TypeOK, SaveHolds, Write
  <2>2. ASSUME NEW k \in Fields
        PROVE  \/ /\ Skipped(save.form, k) \/ Repeated(save.was, k)
                  /\ Effective(file', k) = Effective(save.was, k)
               \/ ~Skipped(save.form, k) /\ Effective(file', k) = Taken(save.form, k)
    BY <2>1, EffectiveAfter
  <2>3. ASSUME NEW k \in DOMAIN Typed PROVE Effective(file', k) \notin Unusable[k]
    <3>1. k \in Fields /\ Effective(save.was, k) \notin Unusable[k]
      BY <1>1, SettingsAssumption DEF Accepts
    <3>2. ~Skipped(save.form, k) => Taken(save.form, k) \notin Unusable[k]
      BY <1>1
    <3> QED BY <2>2, <3>1, <3>2
  <2>4. \E k \in Exclusive : Effective(file', k) = "off"
    <3>1. PICK k \in Exclusive : save.form[k] # "on" /\ ~Repeated(save.was, k)
      BY <1>1
    <3>2. k \in Fields /\ Kind[k] = "bool"
      BY SettingsAssumption
    <3>3. save.form[k] = "off" /\ ~Skipped(save.form, k)
      BY <2>1, <3>1, <3>2 DEF Forms, FormValues, Skipped
    <3> QED BY <2>2, <3>1, <3>2, <3>3 DEF Taken
  <2> QED BY <2>3, <2>4 DEF Accepts
<1>2. IInv /\ [Next]_vars => [Write => Allowed \/ Accepts(file')]_vars
  BY <1>1
<1> QED BY <1>2, InvariantHolds, PTL DEF Spec, StartsAgain
===============================================================================
