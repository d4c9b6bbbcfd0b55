-------------------------- MODULE RulesConfigProofs --------------------------
(***************************************************************************)
(* Proofs about RulesConfig, for every set of profiles, contents, rules    *)
(* and providers, every bound and any number of downloads.                 *)
(***************************************************************************)
EXTENDS RulesConfig, SequenceFilterFacts

\* What calm promises: config.yaml is the custom rules and then the rules of a
\* current profile that shares none with them, and the settings know how many.
CalmInv ==
  calm => /\ form = "map"
          /\ current \in items
          /\ files[current] \in Contents
          /\ CurrentRules # <<>>
          /\ rules = OrEmpty(custom) \o CurrentRules
          /\ ToSet(OrEmpty(custom)) \cap ToSet(CurrentRules) = {}
          /\ count = Len(CurrentRules)

-----------------------------------------------------------------------------
(***************************************************************************)
(* Types of the operators.                                                 *)
(***************************************************************************)
LEMMA ContentRules ==
  ASSUME NEW c \in Contents
  PROVE  c.rules \in Seq(AllRules) /\ c.providers \subseteq Providers
<1>1. c.rules \in Seq(ToSet(c.rules)) /\ c.providers \subseteq Providers
  BY RulesAssumption
<1>2. ToSet(c.rules) \subseteq AllRules
  BY DEF AllRules
<1>3. ASSUME NEW A, NEW B, A \subseteq B, NEW s \in Seq(A) PROVE s \in Seq(B)
  <2>1. \A i \in 1..Len(s) : s[i] \in A
    OBVIOUS
  <2> QED BY <1>3, <2>1
<1> QED BY <1>1, <1>2, <1>3

LEMMA OrEmptyType ==
  ASSUME NEW cs \in Seq(AllRules) \cup {NoRules}
  PROVE  OrEmpty(cs) \in Seq(AllRules)
BY DEF OrEmpty

LEMMA CurrentRulesType == CurrentRules \in Seq(AllRules)
<1>1. CASE current \in items /\ files[current] \in Contents
  BY <1>1, ContentRules DEF CurrentRules
<1>2. CASE ~(current \in items /\ files[current] \in Contents)
  BY <1>2 DEF CurrentRules
<1> QED BY <1>1, <1>2

LEMMA LastRulesType ==
  ASSUME NEW s \in Seq(AllRules), NEW n \in Nat
  PROVE  LastRules(s, n) \in Seq(AllRules)
<1>1. CASE n > Len(s)
  <2>1. LastRules(s, n) = SubSeq(s, 1, Len(s))
    BY <1>1 DEF LastRules
  <2> QED BY <2>1
<1>2. CASE ~(n > Len(s))
  <2>1. LastRules(s, n) = SubSeq(s, (Len(s) - n) + 1, Len(s))
    BY <1>2 DEF LastRules
  <2>2. (Len(s) - n) + 1 \in Nat /\ (Len(s) - n) + 1 >= 1
    BY <1>2
  <2> QED BY <2>1, <2>2
<1> QED BY <1>1, <1>2

\* Taken off a list, its own end is left.
LEMMA LastRulesConcat ==
  ASSUME NEW T, NEW s \in Seq(T), NEW t \in Seq(T)
  PROVE  LastRules(s \o t, Len(t)) = t
<1> DEFINE u == s \o t
           l == SubSeq(u, Len(s) + 1, Len(u))
<1>1. /\ u \in Seq(T) /\ Len(u) = Len(s) + Len(t)
      /\ \A i \in 1..Len(t) : u[Len(s) + i] = t[i]
  OBVIOUS
<1>2. Len(s) \in Nat /\ Len(t) \in Nat
  OBVIOUS
<1> HIDE DEF u
<1>3. l \in Seq(T) /\ Len(l) = Len(t) /\ \A i \in 1..Len(t) : l[i] = u[Len(s) + i]
  BY <1>1, <1>2
<1> HIDE DEF l
<1>4. l = t
  <2>1. \A i \in 1..Len(t) : l[i] = t[i]
    BY <1>1, <1>3
  <2> QED BY <1>3, <2>1
<1>5. LastRules(u, Len(t)) = l
  <2>1. (IF Len(t) > Len(u) THEN 0 ELSE Len(u) - Len(t)) + 1 = Len(s) + 1
    BY <1>1, <1>2
  <2> QED BY <2>1, Zenon DEF LastRules, l
<1> QED BY <1>4, <1>5 DEF u

\* The detected number of custom rules never exceeds the rules there are.
LEMMA DetectedType ==
  ASSUME rules \in Seq(AllRules)
  PROVE  detect_custom_count_from_profile \in 0..Len(rules)
<1> DEFINE found == {i \in DOMAIN rules : rules[i] \in ToSet(CurrentRules)}
<1>1. DOMAIN rules = 1..Len(rules) /\ Len(rules) \in Nat
  OBVIOUS
<1>2. found \in SUBSET Nat /\ found \subseteq 1..Len(rules)
  BY <1>1
<1>3. detect_custom_count_from_profile = IF found = {} THEN 0 ELSE Min(found) - 1
  BY DEF detect_custom_count_from_profile
<1> HIDE DEF found
<1>4. found # {} => Min(found) \in 1..Len(rules)
  BY <1>2, MinIs
<1> QED BY <1>1, <1>3, <1>4

\* Where the list is the custom rules and then the profile's, and the two share
\* no rule, the number detected is that of the custom rules.
LEMMA DetectedBoundary ==
  ASSUME NEW cs \in Seq(AllRules), rules = cs \o CurrentRules,
         CurrentRules # <<>>, ToSet(cs) \cap ToSet(CurrentRules) = {}
  PROVE  detect_custom_count_from_profile = Len(cs)
<1> DEFINE found == {i \in DOMAIN rules : rules[i] \in ToSet(CurrentRules)}
           p == CurrentRules
<1>1. p \in Seq(AllRules) /\ Len(p) \in Nat /\ Len(p) # 0
  BY CurrentRulesType
<1>2. detect_custom_count_from_profile = IF found = {} THEN 0 ELSE Min(found) - 1
  BY DEF detect_custom_count_from_profile
<1> HIDE DEF p
<1>3. /\ DOMAIN rules = 1..(Len(cs) + Len(p)) /\ Len(cs) \in Nat
      /\ \A i \in 1..Len(cs) : rules[i] = cs[i]
      /\ rules[Len(cs) + 1] = p[1]
  BY <1>1 DEF p
<1>4. Len(cs) + 1 \in found
  <2>1. p[1] \in ToSet(p)
    BY <1>1 DEF ToSet
  <2>2. Len(cs) + 1 \in DOMAIN rules
    BY <1>1, <1>3
  <2> QED BY <1>3, <2>1, <2>2 DEF p
<1>5. ASSUME NEW i \in found PROVE i \in Nat /\ i >= Len(cs) + 1
  <2>1. i \in 1..(Len(cs) + Len(p)) /\ rules[i] \in ToSet(p)
    BY <1>3, <1>5 DEF p
  <2>2. ASSUME i \in 1..Len(cs) PROVE FALSE
    <3>1. rules[i] = cs[i] /\ cs[i] \in ToSet(cs)
      BY <1>3, <2>2 DEF ToSet
    <3> QED BY <2>1, <3>1 DEF p
  <2> QED BY <1>1, <1>3, <2>1, <2>2
<1>6. found \in SUBSET Nat
  BY <1>5
<1> HIDE DEF found
<1>7. Min(found) \in found /\ \A y \in found : Min(found) <= y
  BY <1>4, <1>6, MinIs
<1>8. Min(found) = Len(cs) + 1
  BY <1>3, <1>4, <1>5, <1>7
<1> QED BY <1>2, <1>3, <1>4, <1>8

-----------------------------------------------------------------------------
(***************************************************************************)
(* Type correctness.                                                       *)
(***************************************************************************)
ConfigOK ==
  /\ form \in {"absent", "null", "map"}
  /\ rules \in Seq(AllRules)
  /\ form # "map" => rules = <<>> /\ rule_providers = {}
  /\ rule_providers \subseteq Providers

LEMMA MergeType ==
  ASSUME TypeOK, NEW n \in Nat, NEW cs \in Seq(AllRules), merge_rules_with_custom(n, cs)
  PROVE  ConfigOK'
<1>1. Merged(n, cs) \in Seq(AllRules)
  <2>1. LastRules(rules, n) \in Seq(AllRules)
    BY LastRulesType DEF TypeOK
  <2> QED BY <2>1 DEF Merged
<1>2. rules' \in Seq(AllRules)
  <2>1. rules' = <<>> \/ rules' = Merged(n, cs)
    BY DEF merge_rules_with_custom
  <2>2. <<>> \in Seq(AllRules)
    OBVIOUS
  <2>3. CASE rules' = <<>>
    BY <2>2, <2>3
  <2>4. CASE rules' = Merged(n, cs)
    BY <1>1, <2>4
  <2> QED BY <2>1, <2>3, <2>4
<1> QED BY <1>2 DEF merge_rules_with_custom, TypeOK, ConfigOK

LEMMA ReplaceType ==
  ASSUME NEW c \in Contents, NEW cs \in Seq(AllRules), NEW ps \in SUBSET Providers,
         replace_from_profile(c, cs, ps)
  PROVE  ConfigOK'
<1>1. c.rules \in Seq(AllRules) /\ c.providers \subseteq Providers
  BY ContentRules
<1>2. cs \o c.rules \in Seq(AllRules)
  BY <1>1
<1> QED BY <1>1, <1>2 DEF replace_from_profile, ConfigOK

LEMMA SetProvidersType ==
  ASSUME TypeOK, NEW ps \in SUBSET Providers, set_rule_providers(ps)
  PROVE  /\ form' \in {"absent", "null", "map"}
         /\ form' # "map" => form # "map" /\ rule_providers' = {}
         /\ form = "map" => form' = "map"
         /\ rule_providers' \subseteq Providers
BY DEF set_rule_providers, TypeOK

LEMMA SyncType ==
  ASSUME TypeOK, NEW n \in Nat, NEW cs \in Seq(AllRules), NEW k, SyncConfig(n, cs, k)
  PROVE  ConfigOK' /\ calm' \in BOOLEAN
<1>1. CASE merge_rules_with_custom(n, cs) /\ calm' = (calm /\ k)
  BY <1>1, MergeType DEF TypeOK
<1>2. CASE UNCHANGED config /\ calm' = FALSE
  BY <1>2 DEF config, TypeOK, ConfigOK
<1> QED BY <1>1, <1>2 DEF SyncConfig

LEMMA WriteCustomType ==
  ASSUME TypeOK, NEW cs \in Seq(AllRules), write_custom_rules_to_settings(cs)
  PROVE  /\ custom' \in Seq(AllRules) \cup {NoRules}
         /\ count' \in Nat /\ providers' \subseteq Providers
BY DEF write_custom_rules_to_settings, TypeOK

LEMMA TypeStep == TypeOK /\ [Next]_vars => TypeOK'
<1> SUFFICES ASSUME TypeOK, [Next]_vars PROVE TypeOK'
  OBVIOUS
<1>c. OrEmpty(custom) \in Seq(AllRules)
  BY OrEmptyType DEF TypeOK
<1>t. ASSUME ConfigOK',
             custom' \in Seq(AllRules) \cup {NoRules}, count' \in Nat, providers' \subseteq Providers,
             UNCHANGED store, UNCHANGED jobs, calm' \in BOOLEAN
      PROVE  TypeOK'
  BY <1>t DEF TypeOK, ConfigOK, store
<1>d. detect_custom_count_from_profile \in 0..Len(rules)
  BY DetectedType DEF TypeOK
<1>1. ASSUME NEW r \in UserRules, add_rule(r) PROVE TypeOK'
  <2> DEFINE cs == Append(OrEmpty(custom), r)
  <2>1. cs \in Seq(AllRules)
    <3>1. r \in AllRules
      BY DEF AllRules
    <3> QED BY <1>c, <3>1
  <2>2. write_custom_rules_to_settings(cs) /\ UNCHANGED <<store, jobs>>
    BY <1>1 DEF add_rule
  <2>3. SyncConfig(count, cs, r \notin ToSet(CurrentRules))
    BY <1>1 DEF add_rule
  <2>4. count \in Nat
    BY DEF TypeOK
  <2> HIDE DEF cs
  <2>5. ConfigOK' /\ calm' \in BOOLEAN
    BY <2>1, <2>3, <2>4, SyncType
  <2> QED BY <1>t, <2>1, <2>2, <2>5, WriteCustomType
<1>2. ASSUME NEW i \in DOMAIN rules, delete_rule(i) PROVE TypeOK'
  <2> DEFINE n == detect_custom_count_from_profile
             cs == IF custom = NoRules THEN SubSeq(rules, 1, n) ELSE custom
             rest == RemoveAt(cs, i)
  <2>1. /\ i \in 1..n /\ i <= Len(cs)
        /\ write_custom_rules_to_settings(rest)
        /\ SyncConfig(Len(rules) - n, rest, TRUE)
        /\ UNCHANGED <<store, jobs>>
    BY <1>2 DEF delete_rule
  <2>2. n \in 0..Len(rules) /\ Len(rules) \in Nat
    BY <1>d DEF TypeOK
  <2>3. cs \in Seq(AllRules)
    <3>1. SubSeq(rules, 1, n) \in Seq(AllRules)
      BY <2>2 DEF TypeOK
    <3> QED BY <3>1 DEF TypeOK
  <2> HIDE DEF n, cs
  <2>4. rest \in Seq(AllRules)
    <3>1. i \in 1..Len(cs)
      BY <2>1, <2>2, <2>3
    <3> QED BY <2>3, <3>1, RemoveAtType
  <2>5. Len(rules) - n \in Nat
    BY <2>2
  <2> HIDE DEF rest
  <2>6. ConfigOK' /\ calm' \in BOOLEAN
    <3>1. ASSUME NEW k \in Nat, k = Len(rules) - n PROVE ConfigOK' /\ calm' \in BOOLEAN
      BY <2>1, <2>4, <3>1, SyncType
    <3> QED BY <3>1, <2>5
  <2> QED BY <1>t, <2>1, <2>4, <2>6, WriteCustomType
<1>3. ASSUME clear_rules PROVE TypeOK'
  <2> DEFINE n == detect_custom_count_from_profile
  <2>1. write_custom_rules_to_settings(<<>>) /\ UNCHANGED <<store, jobs>>
    BY <1>3 DEF clear_rules
  <2>2. UNCHANGED <<config, calm>> \/ SyncConfig(Len(rules) - n, <<>>, TRUE)
    BY <1>3 DEF clear_rules
  <2>3. n \in 0..Len(rules) /\ Len(rules) \in Nat
    BY <1>d DEF TypeOK
  <2>4. <<>> \in Seq(AllRules)
    OBVIOUS
  <2> HIDE DEF n
  <2>5. Len(rules) - n \in Nat
    BY <2>3
  <2>6. ConfigOK' /\ calm' \in BOOLEAN
    <3>1. CASE UNCHANGED <<config, calm>>
      BY <3>1 DEF config, TypeOK, ConfigOK
    <3>2. ASSUME NEW k \in Nat, k = Len(rules) - n, SyncConfig(Len(rules) - n, <<>>, TRUE)
          PROVE  ConfigOK' /\ calm' \in BOOLEAN
      BY <2>4, <3>2, SyncType
    <3> QED BY <2>2, <2>5, <3>1, <3>2
  <2> QED BY <1>t, <2>1, <2>4, <2>6, WriteCustomType
<1>4. ASSUME NEW n \in Providers, add_rule_provider(n) PROVE TypeOK'
  <2> DEFINE r == RuleSet(n)
  <2>1. r \in AllRules
    BY DEF AllRules
  <2>2. /\ providers' = providers \cup {n}
        /\ custom' = custom \/ custom' = <<r>> \o OrEmpty(custom)
        /\ set_rule_providers(providers') \/ UNCHANGED <<form, rule_providers>>
        /\ rules' = rules \/ (form = "map" /\ rules' = <<r>> \o rules)
        /\ calm' \in BOOLEAN
        /\ UNCHANGED <<count, store, jobs>>
    BY <1>4 DEF add_rule_provider
  <2> HIDE DEF r
  <2>3. providers' \in SUBSET Providers
    BY <2>2 DEF TypeOK
  <2>4. <<r>> \o OrEmpty(custom) \in Seq(AllRules) /\ <<r>> \o rules \in Seq(AllRules)
    BY <1>c, <2>1 DEF TypeOK
  <2>5. ConfigOK'
    <3>1. /\ form' \in {"absent", "null", "map"}
          /\ form' # "map" => form # "map" /\ rule_providers' = {}
          /\ rule_providers' \subseteq Providers
      <4>1. CASE set_rule_providers(providers')
        BY <2>3, <4>1, SetProvidersType
      <4>2. CASE UNCHANGED <<form, rule_providers>>
        BY <4>2 DEF TypeOK
      <4> QED BY <2>2, <4>1, <4>2
    <3> QED BY <2>2, <2>4, <3>1 DEF ConfigOK, TypeOK
  <2>6. custom' \in Seq(AllRules) \cup {NoRules} /\ count' \in Nat
    BY <2>2, <2>4 DEF TypeOK
  <2> QED BY <1>t, <2>2, <2>3, <2>5, <2>6
<1>5. ASSUME NEW n \in Providers, update_rule_provider(n) PROVE TypeOK'
  <2>1. set_rule_providers(providers) /\ UNCHANGED <<settings, rules, store, jobs, calm>>
    BY <1>5 DEF update_rule_provider
  <2>2. /\ form' \in {"absent", "null", "map"}
        /\ form' # "map" => form # "map" /\ rule_providers' = {}
        /\ rule_providers' \subseteq Providers
    <3>1. providers \in SUBSET Providers
      BY DEF TypeOK
    <3> QED BY <2>1, <3>1, SetProvidersType
  <2>3. ConfigOK'
    BY <2>1, <2>2 DEF ConfigOK, TypeOK
  <2> QED BY <1>t, <2>1, <2>3 DEF TypeOK, settings
<1>6. ASSUME NEW n \in Providers, delete_rule_provider(n) PROVE TypeOK'
  <2>1. /\ providers' = providers \ {n}
        /\ custom' = CustomWithout(n)
        /\ rule_providers' \in {rule_providers, rule_providers \ {n}}
        /\ rules' \in {rules, Without(rules, {RuleSet(n)})}
        /\ calm' \in BOOLEAN
        /\ UNCHANGED <<count, form, store, jobs>>
    BY <1>6 DEF delete_rule_provider
  <2>2. custom' \in Seq(AllRules) \cup {NoRules}
    <3>1. custom # NoRules => Without(custom, {RuleSet(n)}) \in Seq(AllRules)
      BY WithoutType DEF TypeOK
    <3> QED BY <2>1, <3>1 DEF CustomWithout
  <2>3. rules' \in Seq(AllRules) /\ (rules = <<>> => rules' = <<>>)
    <3>1. /\ Without(rules, {RuleSet(n)}) \in Seq(AllRules)
          /\ Len(Without(rules, {RuleSet(n)})) <= Len(rules)
      BY WithoutType DEF TypeOK
    <3>2. ASSUME NEW s \in Seq(AllRules), Len(s) <= 0 PROVE s = <<>>
      BY <3>2
    <3> QED BY <2>1, <3>1, <3>2 DEF TypeOK
  <2>4. ConfigOK'
    BY <2>1, <2>3 DEF ConfigOK, TypeOK
  <2>5. count' \in Nat /\ providers' \subseteq Providers
    BY <2>1 DEF TypeOK
  <2> QED BY <1>t, <2>1, <2>2, <2>4, <2>5
<1>7. ASSUME NEW u \in Profiles, NEW c \in Contents \cup {Broken, NoFile}, add_profile(u, c)
      PROVE  TypeOK'
  BY <1>7 DEF add_profile, TypeOK, settings, config
<1>8. ASSUME NEW u \in Profiles, NEW c \in Contents \cup {Broken}, activate_profile(u, c)
      PROVE  TypeOK'
  <2>1. /\ files' = [files EXCEPT ![u] = c] \/ files' = files
        /\ current' \in {current, u}
        /\ calm' \in BOOLEAN
        /\ UNCHANGED <<custom, providers, items, jobs>>
    BY <1>8 DEF activate_profile, MakeContent, ActivateHalfway
  <2>2. files' \in [Profiles -> Contents \cup {Broken, NoFile}]
    BY <2>1 DEF TypeOK
  <2>3. ASSUME NEW d \in Contents PROVE Len(d.rules) \in Nat
    BY ContentRules
  <2>4. \/ UNCHANGED <<config, count>>
        \/ \E d \in Contents, ps \in {providers, {}} :
              /\ replace_from_profile(d, OrEmpty(custom), ps)
              /\ RecordCount(d) \/ UNCHANGED count
    BY <1>8 DEF activate_profile, ActivateHalfway
  <2>5. ConfigOK' /\ count' \in Nat
    <3>1. CASE UNCHANGED <<config, count>>
      BY <3>1 DEF config, ConfigOK, TypeOK
    <3>2. ASSUME NEW d \in Contents, NEW ps \in {providers, {}},
                 replace_from_profile(d, OrEmpty(custom), ps),
                 RecordCount(d) \/ UNCHANGED count
          PROVE  ConfigOK' /\ count' \in Nat
      <4>1. ps \in SUBSET Providers
        BY DEF TypeOK
      <4>2. ConfigOK'
        BY <1>c, <3>2, <4>1, ReplaceType
      <4>3. count' \in Nat
        BY <2>3, <3>2 DEF RecordCount, TypeOK
      <4> QED BY <4>2, <4>3
    <3> QED BY <2>4, <3>1, <3>2
  <2> QED BY <2>1, <2>2, <2>5 DEF TypeOK, ConfigOK
<1>9. ASSUME NEW u \in Profiles, NEW kind \in {"refresh", "update"}, StartDownload(kind, u)
      PROVE  TypeOK'
  <2> DEFINE reads == kind = "refresh" /\ current = u
             j == [kind |-> kind, uid |-> u, is_current |-> current = u,
                   custom    |-> IF reads THEN OrEmpty(custom) ELSE <<>>,
                   providers |-> IF reads THEN providers ELSE {}]
  <2>1. jobs' = jobs \cup {j} /\ UNCHANGED <<settings, config, store, calm>>
    BY <1>9 DEF StartDownload
  <2>2. j \in Job
    BY <1>c DEF Job, TypeOK
  <2> HIDE DEF j
  <2> QED BY <2>1, <2>2 DEF TypeOK, settings, config, store
<1>10. ASSUME NEW j \in jobs, DownloadFails(j) PROVE TypeOK'
  BY <1>10 DEF DownloadFails, TypeOK, settings, config, store
<1>j. ASSUME NEW j \in jobs PROVE j \in Job
  BY DEF TypeOK
<1>11. ASSUME NEW j \in jobs, NEW c \in Contents \cup {Broken}, refresh_profile(j, c)
       PROVE  TypeOK'
  <2>1. /\ jobs' = jobs \ {j} /\ files' = [files EXCEPT ![j.uid] = c]
        /\ calm' \in BOOLEAN /\ UNCHANGED <<settings, items, current>>
    BY <1>11 DEF refresh_profile
  <2>2. j.custom \in Seq(AllRules) /\ j.providers \in SUBSET Providers
    BY <1>j DEF Job
  <2>3. ConfigOK'
    <3>1. ASSUME NEW ps \in {j.providers, {}}, c # Broken, replace_from_profile(c, j.custom, ps)
          PROVE  ConfigOK'
      BY <2>2, <3>1, ReplaceType
    <3>2. CASE set_rule_providers(j.providers) /\ UNCHANGED rules
      <4>1. /\ form' \in {"absent", "null", "map"}
            /\ form' # "map" => form # "map" /\ rule_providers' = {}
            /\ rule_providers' \subseteq Providers
        BY <2>2, <3>2, SetProvidersType
      <4> QED BY <3>2, <4>1 DEF ConfigOK, TypeOK
    <3>3. CASE UNCHANGED config
      BY <3>3 DEF config, ConfigOK, TypeOK
    <3> QED BY <1>11, <3>1, <3>2, <3>3 DEF refresh_profile, RefreshConfig
  <2>4. j.uid \in Profiles
    BY <1>j DEF Job
  <2> QED BY <2>1, <2>3, <2>4 DEF TypeOK, ConfigOK, settings
<1>12. ASSUME NEW j \in jobs, NEW c \in Contents \cup {Broken}, update_profile(j, c)
       PROVE  TypeOK'
  <2>1. /\ jobs' = jobs \ {j} /\ files' = [files EXCEPT ![j.uid] = c]
        /\ calm' \in BOOLEAN /\ UNCHANGED <<custom, providers, items, current>>
    BY <1>12 DEF update_profile
  <2>2. ConfigOK' /\ count' \in Nat
    <3>1. CASE /\ c # Broken
               /\ replace_from_profile(c, OrEmpty(custom), {})
               /\ RecordCount(c) \/ UNCHANGED count
      <4>1. c \in Contents /\ {} \in SUBSET Providers
        BY <3>1
      <4>2. ConfigOK'
        BY <1>c, <3>1, <4>1, ReplaceType
      <4>3. count' \in Nat
        BY <3>1, <4>1, ContentRules DEF RecordCount, TypeOK
      <4> QED BY <4>2, <4>3
    <3>2. CASE UNCHANGED <<config, count>>
      BY <3>2 DEF config, ConfigOK, TypeOK
    <3> QED BY <1>12, <3>1, <3>2 DEF update_profile
  <2>3. j.uid \in Profiles
    BY <1>j DEF Job
  <2> QED BY <2>1, <2>2, <2>3 DEF TypeOK, ConfigOK
<1>13. ASSUME NEW u \in Profiles, delete_profile(u) PROVE TypeOK'
  <2>1. current' \in {current, NoProfile}
    BY <1>13 DEF delete_profile, CurrentAfterDelete
  <2>2. files' = [files EXCEPT ![u] = NoFile] \/ files' = files
    BY <1>13 DEF delete_profile
  <2>3. items' = items \ {u} /\ calm' \in BOOLEAN /\ UNCHANGED <<settings, config, jobs>>
    BY <1>13 DEF delete_profile
  <2> QED BY <2>1, <2>2, <2>3 DEF TypeOK, settings, config
<1>14. ASSUME NEW u \in Profiles, NEW c \in Contents \cup {Broken}, update_profile_subscription(u, c)
       PROVE  TypeOK'
  BY <1>14 DEF update_profile_subscription, TypeOK, settings, config
<1>15. CASE UNCHANGED vars
  BY <1>15 DEF vars, settings, config, store, TypeOK
<1> QED
  BY <1>1, <1>2, <1>3, <1>4, <1>5, <1>6, <1>7, <1>8, <1>9, <1>10, <1>11, <1>12, <1>13, <1>14, <1>15
     DEF Next, Deletion

LEMMA TypeInit == Init => TypeOK
<1> SUFFICES ASSUME Init PROVE TypeOK
  OBVIOUS
<1>1. <<>> \in Seq(AllRules) /\ 0 \in Nat
  OBVIOUS
<1> QED BY <1>1 DEF Init, TypeOK

\* Whatever rules, providers and profiles are operated on, the settings, the
\* active config.yaml and the profiles keep their types; in particular a
\* config.yaml that is no mapping never gets rules or a rule-providers section.
THEOREM TypeOKAlways == Spec => []TypeOK
BY TypeInit, TypeStep, PTL DEF Spec

-----------------------------------------------------------------------------
LEMMA CurrentListedStep == CurrentListed /\ [Next]_vars => CurrentListed'
<1> SUFFICES ASSUME CurrentListed, [Next]_vars PROVE CurrentListed'
  OBVIOUS
<1>1. ASSUME UNCHANGED store PROVE CurrentListed'
  BY <1>1 DEF store, CurrentListed
<1>2. ASSUME UNCHANGED <<items, current>> PROVE CurrentListed'
  BY <1>2 DEF CurrentListed
<1>3. ASSUME NEW r \in UserRules, add_rule(r) PROVE CurrentListed'
  BY <1>1, <1>3 DEF add_rule
<1>4. CASE Deletion
  BY <1>1, <1>4 DEF Deletion, delete_rule, clear_rules
<1>5. ASSUME NEW n \in Providers,
             add_rule_provider(n) \/ update_rule_provider(n) \/ delete_rule_provider(n)
      PROVE  CurrentListed'
  BY <1>1, <1>5 DEF add_rule_provider, update_rule_provider, delete_rule_provider
<1>6. ASSUME NEW u \in Profiles, NEW c \in Contents \cup {Broken, NoFile}, add_profile(u, c)
      PROVE  CurrentListed'
  BY <1>6 DEF add_profile, CurrentListed
<1>7. ASSUME NEW u \in Profiles, NEW c \in Contents \cup {Broken}, activate_profile(u, c)
      PROVE  CurrentListed'
  BY <1>7 DEF activate_profile, CurrentListed
<1>8. ASSUME NEW u \in Profiles, NEW kind \in {"refresh", "update"}, StartDownload(kind, u)
      PROVE  CurrentListed'
  BY <1>1, <1>8 DEF StartDownload
<1>9. ASSUME NEW j \in jobs, DownloadFails(j) PROVE CurrentListed'
  BY <1>1, <1>9 DEF DownloadFails
<1>10. ASSUME NEW j \in jobs, NEW c \in Contents \cup {Broken}, refresh_profile(j, c) \/ update_profile(j, c)
       PROVE  CurrentListed'
  BY <1>2, <1>10 DEF refresh_profile, update_profile
\* The marker goes with the profile it is on.
<1>11. ASSUME NEW u \in Profiles, delete_profile(u) PROVE CurrentListed'
  <2>1. items' = items \ {u} /\ current' = CurrentAfterDelete(u)
    BY <1>11 DEF delete_profile
  <2> QED BY <2>1 DEF CurrentAfterDelete, CurrentListed
<1>12. ASSUME NEW u \in Profiles, NEW c \in Contents \cup {Broken}, update_profile_subscription(u, c)
       PROVE  CurrentListed'
  BY <1>2, <1>12 DEF update_profile_subscription
<1>13. CASE UNCHANGED vars
  BY <1>1, <1>13 DEF vars
<1> QED
  BY <1>3, <1>4, <1>5, <1>6, <1>7, <1>8, <1>9, <1>10, <1>11, <1>12, <1>13 DEF Next

\* Whatever is added, activated, refreshed, updated and deleted, and however
\* many downloads are under way, the profile that profiles.yaml marks as current
\* is one of its items.
THEOREM CurrentListedAlways == Spec => []CurrentListed
<1>1. Init => CurrentListed
  BY DEF Init, CurrentListed
<1> QED BY <1>1, CurrentListedStep, PTL DEF Spec

-----------------------------------------------------------------------------
(***************************************************************************)
(* The layout of config.yaml.                                              *)
(***************************************************************************)
\* Rewriting custom rules and config.yaml together, with the number of rules
\* the profile has, keeps the layout.
LEMMA SyncCalm ==
  ASSUME TypeOK, CalmInv, calm, NEW cs \in Seq(AllRules),
         ToSet(cs) \cap ToSet(CurrentRules) = {},
         NEW k, write_custom_rules_to_settings(cs), SyncConfig(Len(CurrentRules), cs, k),
         UNCHANGED store
  PROVE  CalmInv'
<1> DEFINE p == CurrentRules
<1>1. CurrentRules' = p
  BY DEF store, CurrentRules
<1>2. /\ form = "map" /\ current \in items /\ files[current] \in Contents
      /\ p # <<>> /\ rules = OrEmpty(custom) \o p /\ count = Len(p)
  BY DEF CalmInv
<1>3. p \in Seq(AllRules) /\ OrEmpty(custom) \in Seq(AllRules)
  BY CurrentRulesType, OrEmptyType DEF TypeOK
<1>4. OrEmpty(custom') = cs /\ count' = count
  BY RulesAssumption DEF write_custom_rules_to_settings, OrEmpty
<1> HIDE DEF p
<1>5. CASE merge_rules_with_custom(Len(p), cs)
  <2>1. rules' = cs \o LastRules(rules, Len(p)) /\ form' = "map"
    BY <1>2, <1>5 DEF merge_rules_with_custom, Merged
  <2>2. LastRules(rules, Len(p)) = p
    BY <1>2, <1>3, LastRulesConcat
  <2> QED BY <1>1, <1>2, <1>4, <2>1, <2>2 DEF CalmInv, store, p
<1>6. CASE calm' = FALSE
  BY <1>6 DEF CalmInv
<1> QED BY <1>5, <1>6 DEF SyncConfig, p

LEMMA CalmDetected ==
  ASSUME TypeOK, CalmInv, calm
  PROVE  /\ detect_custom_count_from_profile = Len(OrEmpty(custom))
         /\ Len(rules) = Len(OrEmpty(custom)) + Len(CurrentRules)
         /\ Len(OrEmpty(custom)) \in Nat /\ Len(CurrentRules) \in Nat
<1>1. OrEmpty(custom) \in Seq(AllRules) /\ CurrentRules \in Seq(AllRules)
  BY CurrentRulesType, OrEmptyType DEF TypeOK
<1>2. /\ CurrentRules # <<>> /\ rules = OrEmpty(custom) \o CurrentRules
      /\ ToSet(OrEmpty(custom)) \cap ToSet(CurrentRules) = {}
  BY DEF CalmInv
<1>3. detect_custom_count_from_profile = Len(OrEmpty(custom))
  BY <1>1, <1>2, DetectedBoundary
<1>4. ASSUME NEW a \in Seq(AllRules), NEW b \in Seq(AllRules)
      PROVE  Len(a \o b) = Len(a) + Len(b) /\ Len(a) \in Nat /\ Len(b) \in Nat
  OBVIOUS
<1> QED BY <1>1, <1>2, <1>3, <1>4

LEMMA CalmStep == TypeOK /\ CurrentListed /\ CalmInv /\ [Next]_vars => CalmInv'
<1> SUFFICES ASSUME TypeOK, CurrentListed, CalmInv, [Next]_vars, calm' PROVE CalmInv'
  BY DEF CalmInv
<1>c. OrEmpty(custom) \in Seq(AllRules) /\ CurrentRules \in Seq(AllRules)
  BY CurrentRulesType, OrEmptyType DEF TypeOK
<1>i. calm => /\ form = "map" /\ current \in items /\ files[current] \in Contents
              /\ CurrentRules # <<>> /\ rules = OrEmpty(custom) \o CurrentRules
              /\ ToSet(OrEmpty(custom)) \cap ToSet(CurrentRules) = {}
              /\ count = Len(CurrentRules)
  BY DEF CalmInv
<1>e. OrEmpty(NoRules) = <<>> /\ ToSet(<<>>) = {}
  BY DEF OrEmpty, ToSet
\* A step that leaves the rules, the settings and the current profile alone.
<1>u. ASSUME calm, UNCHANGED <<custom, count, form, rules, current>>,
             files[current]' = files[current], current \in items'
      PROVE  CalmInv'
  BY <1>i, <1>u DEF CalmInv, CurrentRules
<1>1. ASSUME NEW r \in UserRules, add_rule(r) PROVE CalmInv'
  <2> DEFINE cs == Append(OrEmpty(custom), r)
  <2>1. write_custom_rules_to_settings(cs) /\ UNCHANGED store
    BY <1>1 DEF add_rule
  <2>2. SyncConfig(count, cs, r \notin ToSet(CurrentRules))
    BY <1>1 DEF add_rule
  <2>3. calm /\ r \notin ToSet(CurrentRules)
    BY <2>2 DEF SyncConfig
  <2>4. cs \in Seq(AllRules) /\ ToSet(cs) = ToSet(OrEmpty(custom)) \cup {r}
    <3>1. r \in AllRules
      BY DEF AllRules
    <3> QED BY <1>c, <3>1, ToSetAppend
  <2> HIDE DEF cs
  <2> QED BY <1>i, <2>1, <2>2, <2>3, <2>4, SyncCalm
<1>2. ASSUME NEW i \in DOMAIN rules, delete_rule(i) PROVE CalmInv'
  <2> DEFINE n == detect_custom_count_from_profile
             cs == IF custom = NoRules THEN SubSeq(rules, 1, n) ELSE custom
             rest == RemoveAt(cs, i)
  <2>1. /\ i \in 1..n /\ i <= Len(cs)
        /\ write_custom_rules_to_settings(rest)
        /\ SyncConfig(Len(rules) - n, rest, TRUE)
        /\ UNCHANGED store
    BY <1>2 DEF delete_rule
  <2>2. calm
    BY <2>1 DEF SyncConfig
  <2>3. /\ n = Len(OrEmpty(custom)) /\ Len(rules) - n = Len(CurrentRules)
        /\ Len(OrEmpty(custom)) \in Nat
    BY <2>2, CalmDetected
  <2>4. OrEmpty(custom) # <<>>
    BY <2>1, <2>3
  <2>5. cs = OrEmpty(custom)
    BY <2>4 DEF OrEmpty
  <2> HIDE DEF n, cs
  <2>6. rest \in Seq(AllRules) /\ ToSet(rest) \subseteq ToSet(OrEmpty(custom))
    <3>1. i \in 1..Len(cs)
      BY <2>1, <2>3, <2>5
    <3> QED BY <1>c, <2>5, <3>1, RemoveAtType
  <2> HIDE DEF rest
  <2>7. SyncConfig(Len(CurrentRules), rest, TRUE)
    BY <2>1, <2>3
  <2> QED BY <1>i, <2>1, <2>2, <2>6, <2>7, SyncCalm
<1>3. ASSUME clear_rules PROVE CalmInv'
  <2> DEFINE n == detect_custom_count_from_profile
  <2>1. write_custom_rules_to_settings(<<>>) /\ UNCHANGED store
    BY <1>3 DEF clear_rules
  <2>2. calm
    BY <1>3 DEF clear_rules, SyncConfig
  <2>3. /\ n = Len(OrEmpty(custom)) /\ Len(rules) - n = Len(CurrentRules)
        /\ Len(OrEmpty(custom)) \in Nat
    BY <2>2, CalmDetected
  <2>4. ((form = "absent" \/ n = 0) /\ UNCHANGED <<config, calm>>) \/ SyncConfig(Len(rules) - n, <<>>, TRUE)
    BY <1>3 DEF clear_rules
  <2> HIDE DEF n
  <2>5. CASE (form = "absent" \/ n = 0) /\ UNCHANGED <<config, calm>>
    <3>1. n = 0
      BY <1>i, <2>2, <2>5
    <3>2. OrEmpty(custom) = <<>>
      <4>1. ASSUME NEW s \in Seq(AllRules), Len(s) = 0 PROVE s = <<>>
        BY <4>1
      <4> QED BY <1>c, <2>3, <3>1, <4>1
    <3>3. custom' = NoRules /\ UNCHANGED count
      BY <2>1 DEF write_custom_rules_to_settings
    <3> QED BY <1>e, <1>i, <2>1, <2>2, <2>5, <3>2, <3>3 DEF CalmInv, config, store, CurrentRules
  <2>6. CASE SyncConfig(Len(rules) - n, <<>>, TRUE)
    <3>1. <<>> \in Seq(AllRules)
      OBVIOUS
    <3> QED BY <1>e, <2>1, <2>2, <2>3, <2>6, <3>1, SyncCalm
  <2> QED BY <2>4, <2>5, <2>6
<1>4. ASSUME NEW n \in Providers, add_rule_provider(n) PROVE CalmInv'
  <2> DEFINE r == RuleSet(n)
  <2>1. r \in AllRules
    BY DEF AllRules
  <2>2. /\ calm /\ r \notin ToSet(OrEmpty(custom)) /\ r \notin ToSet(CurrentRules)
        /\ set_rule_providers(providers')
        /\ rules' = IF form = "map" THEN <<r>> \o rules ELSE rules
        /\ UNCHANGED <<count, store>>
    BY <1>4 DEF add_rule_provider
  <2>3. custom' = <<r>> \o OrEmpty(custom)
    BY <1>4, <2>2 DEF add_rule_provider
  <2> HIDE DEF r
  <2>4. form = "map" /\ form' = "map"
    BY <1>i, <2>2 DEF set_rule_providers
  <2>5. <<r>> \in Seq(AllRules) /\ ToSet(<<r>>) = {r}
    BY <2>1 DEF ToSet
  <2>6. ASSUME NEW a \in Seq(AllRules), NEW b \in Seq(AllRules), NEW c \in Seq(AllRules)
        PROVE  a \o (b \o c) = (a \o b) \o c
    OBVIOUS
  <2>7. /\ custom' \in Seq(AllRules)
        /\ ToSet(custom') = {r} \cup ToSet(OrEmpty(custom))
    <3>1. ASSUME NEW a \in Seq(AllRules), NEW b \in Seq(AllRules)
          PROVE  a \o b \in Seq(AllRules) /\ ToSet(a \o b) = ToSet(a) \cup ToSet(b)
      BY ToSetConcat
    <3>2. /\ <<r>> \o OrEmpty(custom) \in Seq(AllRules)
          /\ ToSet(<<r>> \o OrEmpty(custom)) = ToSet(<<r>>) \cup ToSet(OrEmpty(custom))
      BY <1>c, <2>5, <3>1
    <3> QED BY <2>3, <2>5, <3>2
  <2>8. OrEmpty(custom') = custom'
    BY <2>7, RulesAssumption DEF OrEmpty
  <2>9. CurrentRules' = CurrentRules
    BY <2>2 DEF store, CurrentRules
  <2>10. rules' = custom' \o CurrentRules
    <3> DEFINE o == OrEmpty(custom)
               p == CurrentRules
               q == <<r>>
    <3>1. q \o (o \o p) = (q \o o) \o p
      <4>1. q \in Seq(AllRules) /\ o \in Seq(AllRules) /\ p \in Seq(AllRules)
        BY <1>c, <2>5
      <4> HIDE DEF o, p, q
      <4> QED BY <2>6, <4>1
    <3>2. rules' = q \o (o \o p) /\ custom' = q \o o
      BY <1>i, <2>2, <2>3, <2>4
    <3> HIDE DEF o, q
    <3> QED BY <3>1, <3>2
  <2> QED BY <1>i, <2>2, <2>4, <2>7, <2>8, <2>9, <2>10 DEF CalmInv, store
<1>5. ASSUME NEW n \in Providers, update_rule_provider(n) PROVE CalmInv'
  <2>1. set_rule_providers(providers) /\ UNCHANGED <<settings, rules, store, calm>>
    BY <1>5 DEF update_rule_provider
  <2>2. form' = form
    BY <1>i, <2>1 DEF set_rule_providers
  <2> QED BY <1>u, <1>i, <2>1, <2>2 DEF settings, store
<1>6. ASSUME NEW n \in Providers, delete_rule_provider(n) PROVE CalmInv'
  <2> DEFINE R == {RuleSet(n)}
  <2>1. /\ custom' = CustomWithout(n)
        /\ rules' = Without(rules, R)
        /\ calm /\ RuleSet(n) \notin ToSet(CurrentRules)
        /\ UNCHANGED <<count, form, store>>
    BY <1>6 DEF delete_rule_provider
  <2>2. /\ Without(OrEmpty(custom), R) \in Seq(AllRules)
        /\ ToSet(Without(OrEmpty(custom), R)) = ToSet(OrEmpty(custom)) \ R
    BY <1>c, WithoutType
  <2>3. OrEmpty(custom') = Without(OrEmpty(custom), R)
    <3>1. CASE custom = NoRules
      <4>1. custom' = NoRules
        BY <2>1, <3>1 DEF CustomWithout
      <4>2. Without(<<>>, R) = <<>>
        <5>1. <<>> \in Seq(AllRules)
          OBVIOUS
        <5> QED BY <1>e, <5>1, WithoutNone
      <4> QED BY <1>e, <3>1, <4>1, <4>2
    <3>2. CASE custom # NoRules
      <4>1. custom' = Without(custom, R) /\ OrEmpty(custom) = custom
        BY <2>1, <3>2 DEF CustomWithout, OrEmpty
      <4> QED BY <2>2, <4>1, RulesAssumption DEF OrEmpty
    <3> QED BY <3>1, <3>2
  <2>4. Without(CurrentRules, R) = CurrentRules
    <3>1. ToSet(CurrentRules) \cap R = {}
      BY <2>1
    <3> QED BY <1>c, <3>1, WithoutNone
  <2>5. rules' = Without(OrEmpty(custom), R) \o CurrentRules
    <3>1. Without(OrEmpty(custom) \o CurrentRules, R)
            = Without(OrEmpty(custom), R) \o Without(CurrentRules, R)
      BY <1>c, WithoutConcat
    <3> QED BY <1>i, <2>1, <2>4, <3>1
  <2>6. CurrentRules' = CurrentRules
    BY <2>1 DEF store, CurrentRules
  <2> HIDE DEF R
  <2> QED BY <1>i, <2>1, <2>2, <2>3, <2>5, <2>6 DEF CalmInv, store
<1>7. ASSUME NEW u \in Profiles, NEW c \in Contents \cup {Broken, NoFile}, add_profile(u, c)
      PROVE  CalmInv'
  <2>1. /\ u \notin items /\ items' = items \cup {u} /\ files' = [files EXCEPT ![u] = c]
        /\ UNCHANGED <<settings, config, current, jobs, calm>>
    BY <1>7 DEF add_profile
  <2>2. calm /\ u # current
    BY <1>i, <2>1
  <2> QED BY <1>u, <1>i, <2>1, <2>2 DEF TypeOK, settings, config
\* The activation establishes the layout; one that is refused for what it
\* generated leaves another profile's file changed.
<1>8. ASSUME NEW u \in Profiles, NEW c \in Contents \cup {Broken}, activate_profile(u, c)
      PROVE  CalmInv'
  <2>1. u \in items /\ UNCHANGED <<custom, items>>
    BY <1>8 DEF activate_profile
  <2>2. CASE /\ calm' = (calm /\ u # current)
             /\ UNCHANGED <<current, config, count>>
    <3>1. files' = [files EXCEPT ![u] = c] \/ files' = files
      BY <1>8 DEF activate_profile, MakeContent
    <3>2. files[current]' = files[current]
      BY <1>i, <2>2, <3>1 DEF TypeOK
    <3> QED BY <1>u, <1>i, <2>1, <2>2, <3>2 DEF config
  <2>3. CASE /\ c \in Contents /\ files'[u] = c
             /\ current' = u
             /\ replace_from_profile(c, OrEmpty(custom), providers)
             /\ RecordCount(c)
             /\ calm' = (c.rules # <<>> /\ ToSet(OrEmpty(custom)) \cap ToSet(c.rules) = {})
    <3>1. CurrentRules' = c.rules
      BY <2>1, <2>3 DEF CurrentRules
    <3> QED BY <2>1, <2>3, <3>1 DEF CalmInv, replace_from_profile, RecordCount
  <2> QED BY <1>8, <2>2, <2>3 DEF activate_profile, ActivateHalfway
<1>9. ASSUME NEW u \in Profiles, NEW kind \in {"refresh", "update"}, StartDownload(kind, u)
      PROVE  CalmInv'
  BY <1>9, <1>u, <1>i DEF StartDownload, settings, config, store
<1>10. ASSUME NEW j \in jobs, DownloadFails(j) PROVE CalmInv'
  BY <1>10, <1>u, <1>i DEF DownloadFails, settings, config, store
<1>11. ASSUME NEW j \in jobs, NEW c \in Contents \cup {Broken}, refresh_profile(j, c)
       PROVE  CalmInv'
  <2>1. /\ files' = [files EXCEPT ![j.uid] = c] /\ UNCHANGED <<settings, items, current>>
        /\ calm /\ ~j.is_current /\ j.uid # current
    BY <1>11 DEF refresh_profile
  <2>2. UNCHANGED config
    BY <1>11, <2>1 DEF refresh_profile
  <2>3. current \in Profiles
    BY <1>i, <2>1 DEF TypeOK
  <2>4. files[current]' = files[current]
    BY <2>1, <2>3 DEF TypeOK
  <2> QED BY <1>u, <1>i, <2>1, <2>2, <2>4 DEF settings, config
<1>12. ASSUME NEW j \in jobs, NEW c \in Contents \cup {Broken}, update_profile(j, c)
       PROVE  CalmInv'
  <2>1. /\ files' = [files EXCEPT ![j.uid] = c] /\ UNCHANGED <<custom, items, current>>
        /\ calm /\ ~j.is_current /\ j.uid # current
    BY <1>12 DEF update_profile
  <2>2. UNCHANGED <<config, count>>
    BY <1>12, <2>1 DEF update_profile
  <2>3. files[current]' = files[current]
    BY <1>i, <2>1 DEF TypeOK
  <2> QED BY <1>u, <1>i, <2>1, <2>2, <2>3 DEF config
<1>13. ASSUME NEW u \in Profiles, delete_profile(u) PROVE CalmInv'
  <2>1. /\ items' = items \ {u} /\ calm /\ current # u
        /\ UNCHANGED <<settings, config>>
        /\ files' = [files EXCEPT ![u] = NoFile] \/ files' = files
    BY <1>13 DEF delete_profile
  <2>2. current' = current
    BY <1>13, <2>1 DEF delete_profile, CurrentAfterDelete
  <2>3. files[current]' = files[current]
    BY <1>i, <2>1, <2>2 DEF TypeOK
  <2> QED BY <1>u, <1>i, <2>1, <2>2, <2>3 DEF settings, config
<1>14. ASSUME NEW u \in Profiles, NEW c \in Contents \cup {Broken}, update_profile_subscription(u, c)
       PROVE  CalmInv'
  <2>1. /\ files' = [files EXCEPT ![u] = c] /\ calm /\ u # current
        /\ UNCHANGED <<settings, config, items, current>>
    BY <1>14 DEF update_profile_subscription
  <2>2. files[current]' = files[current]
    BY <1>i, <2>1 DEF TypeOK
  <2> QED BY <1>u, <1>i, <2>1, <2>2 DEF settings, config
<1>15. CASE UNCHANGED vars
  BY <1>u, <1>i, <1>15 DEF vars, settings, config, store
<1> QED
  BY <1>1, <1>2, <1>3, <1>4, <1>5, <1>6, <1>7, <1>8, <1>9, <1>10, <1>11, <1>12, <1>13, <1>14, <1>15
     DEF Next, Deletion

LEMMA CalmAlways == Spec => [](TypeOK /\ CalmInv)
<1> DEFINE IInv == TypeOK /\ CurrentListed /\ CalmInv
<1>1. Init => IInv
  BY TypeInit DEF Init, CurrentListed, CalmInv
<1>2. IInv /\ [Next]_vars => IInv'
  BY TypeStep, CurrentListedStep, CalmStep
<1>3. IInv => TypeOK /\ CalmInv
  OBVIOUS
<1> HIDE DEF IInv
<1> QED BY <1>1, <1>2, <1>3, PTL DEF Spec

\* From an activation on, and until the current profile itself changes, any
\* sequence of rule and provider operations, of downloads for other profiles and
\* of additions and deletions leaves config.yaml the custom rules of the
\* settings followed by the rules of the current profile.
THEOREM LayoutAlways == Spec => []Layout
<1>1. CalmInv => Layout
  BY DEF CalmInv, Layout
<1> QED BY <1>1, CalmAlways, PTL

\* In the same circumstances the handlers that show, check and remove custom
\* rules by their index all mean the same list.
THEOREM ShownIsDeletedAlways == Spec => []ShownIsDeleted
<1>1. TypeOK /\ CalmInv => ShownIsDeleted
  <2> SUFFICES ASSUME TypeOK, CalmInv, calm
               PROVE  /\ detect_custom_count_from_profile = Len(OrEmpty(custom))
                      /\ shown_custom_count = Len(OrEmpty(custom))
    BY DEF ShownIsDeleted
  <2> DEFINE k == Len(OrEmpty(custom))
             n == IF OrEmpty(custom) # <<>> THEN Len(custom)
                                            ELSE detect_custom_count_from_profile
  <2>1. /\ detect_custom_count_from_profile = k
        /\ Len(rules) = k + Len(CurrentRules) /\ k \in Nat /\ Len(CurrentRules) \in Nat
    BY CalmDetected
  <2>2. n = k
    BY <2>1 DEF OrEmpty
  <2>3. shown_custom_count = Min({n, Len(rules)})
    BY DEF shown_custom_count
  <2> HIDE DEF n, k
  <2>4. Min({k, Len(rules)}) = k
    <3>1. {k, Len(rules)} \in SUBSET Nat /\ {k, Len(rules)} # {} /\ k <= Len(rules)
      BY <2>1
    <3>2. ASSUME NEW S \in SUBSET Nat, S = {k, Len(rules)} PROVE Min(S) = k
      <4>1. Min(S) \in S /\ \A y \in S : Min(S) <= y
        BY <3>2, MinIs
      <4> QED BY <2>1, <3>1, <3>2, <4>1
    <3> QED BY <3>1, <3>2
  <2> QED BY <2>1, <2>2, <2>3, <2>4 DEF k
<1> QED BY <1>1, CalmAlways, PTL
=============================================================================
