----------------------------- MODULE RulesConfig -----------------------------
(***************************************************************************)
(* The rules of control-tower and the three places that hold them: the     *)
(* files of the profiles, settings.yaml (custom_rules,                     *)
(* profile_rules_count, rule_providers) and the active config.yaml that    *)
(* Mihomo loads (ActiveConfigStore of active_config.rs).  The handlers are *)
(* those of api/rules_handlers.rs, api/rule_provider_handlers.rs and       *)
(* api/profile_handlers.rs, and the subscription download of scheduler.rs. *)
(*                                                                         *)
(* A handler is one step, except refresh_profile and update_profile, which *)
(* read state, wait for a download, and write: a job is such a handler     *)
(* between its two halves.                                                 *)
(***************************************************************************)
EXTENDS Integers, SequencesExt, SequenceFilter

CONSTANTS
  Profiles,      \* profile uids
  Generated,     \* those whose content a script or a merge makes at activation
  Contents,      \* contents of profile files: [rules : Seq, providers : SUBSET]
  Broken,        \* a content that is not the YAML of a profile
  UserRules,     \* rules that users add by hand
  Providers,     \* names of rule providers
  RuleSet(_),    \* the rule `RULE-SET,name,REJECT`
  Ops,           \* the optional operations this instance takes in
  MaxRules,      \* bound on the rules in config.yaml
  MaxCustom,     \* bound on the custom rules in the settings
  MaxJobs,       \* bound on downloads at a time
  NoProfile, NoFile, NoRules

OptionalOps == {"refresh", "update", "cron", "io_error"}

AllRules == UserRules \cup {RuleSet(n) : n \in Providers}
              \cup UNION {ToSet(c.rules) : c \in Contents}

ASSUME RulesAssumption ==
  /\ Generated \subseteq Profiles
  /\ Ops \subseteq OptionalOps
  /\ NoProfile \notin Profiles
  /\ \A n \in Providers : RuleSet(n) \notin UserRules
  /\ \A c \in Contents : c.rules \in Seq(ToSet(c.rules)) /\ c.providers \subseteq Providers
  /\ Broken \notin Contents /\ NoFile \notin Contents
  /\ NoRules \notin Seq(AllRules)

VARIABLES
  custom,    \* settings.yaml custom_rules, NoRules when absent
  count,     \* settings.yaml profile_rules_count (0 when absent)
  providers, \* settings.yaml rule_providers
  form,      \* config.yaml: "absent", "null" (no mapping) or "map"
  rules,     \* its rules
  rule_providers, \* its rule-providers
  items,     \* profiles.yaml items
  current,   \* profiles.yaml current
  files,     \* content of each profile's file
  jobs,      \* the downloads under way
  calm       \* history: only rule operations since an activation, none on a rule
             \* that the profile has too or that was custom already

settings == <<custom, count, providers>>
config   == <<form, rules, rule_providers>>
store    == <<items, current, files>>
vars == <<settings, config, store, jobs, calm>>

Job == [kind : {"refresh", "update"}, uid : Profiles, is_current : BOOLEAN,
        custom : Seq(AllRules), providers : SUBSET Providers]

TypeOK ==
  /\ custom \in Seq(AllRules) \cup {NoRules}
  /\ count \in Nat
  /\ providers \subseteq Providers
  /\ form \in {"absent", "null", "map"}
  /\ rules \in Seq(AllRules)
  /\ form # "map" => rules = <<>> /\ rule_providers = {}
  /\ rule_providers \subseteq Providers
  /\ items \subseteq Profiles
  /\ current \in Profiles \cup {NoProfile}
  /\ files \in [Profiles -> Contents \cup {Broken, NoFile}]
  /\ jobs \subseteq Job
  /\ calm \in BOOLEAN

Init ==
  /\ custom = NoRules
  /\ count = 0
  /\ providers = {}
  /\ form = "absent"
  /\ rules = <<>>
  /\ rule_providers = {}
  /\ items = {}
  /\ current = NoProfile
  /\ files = [u \in Profiles |-> NoFile]
  /\ jobs = {}
  /\ calm = FALSE

\* unwrap_or_default
OrEmpty(cs) == IF cs = NoRules THEN <<>> ELSE cs

-----------------------------------------------------------------------------
(***************************************************************************)
(* ActiveConfigStore.                                                      *)
(***************************************************************************)
\* The last n rules of s: what is left after skipping len.saturating_sub(n).
LastRules(s, n) == SubSeq(s, (IF n > Len(s) THEN 0 ELSE Len(s) - n) + 1, Len(s))

Merged(n, cs) == cs \o LastRules(rules, n)

\* A missing config.yaml starts as a mapping; a null one stays null.
merge_rules_with_custom(n, cs) ==
  /\ form' = IF form = "absent" THEN "map" ELSE form
  /\ rules' = IF form = "null" THEN <<>> ELSE Merged(n, cs)
  /\ UNCHANGED rule_providers

\* config.yaml becomes the profile's content under the custom rules.  Its
\* rule-providers section is then the profile's, or, when some are set,
\* exactly those of the settings.
replace_from_profile(c, cs, injected) ==
  /\ form' = "map"
  /\ rules' = cs \o c.rules
  /\ rule_providers' = IF injected = {} THEN c.providers ELSE injected

\* Faulty variant: the section is also put into a file that is no mapping.
set_rule_providers_anywhere(ps) ==
  /\ form' = IF form = "map" THEN form ELSE "null"
  /\ rule_providers' = ps

\* set_rule_providers without a config.yaml leaves one that is no mapping.
set_rule_providers(ps) ==
  IF form = "map" THEN form' = form /\ rule_providers' = ps
                  ELSE form' = "null" /\ UNCHANGED rule_providers

-----------------------------------------------------------------------------
(***************************************************************************)
(* api/rules_handlers.rs.                                                  *)
(***************************************************************************)
CurrentRules ==
  IF current \in items /\ files[current] \in Contents
    THEN files[current].rules ELSE <<>>

\* Faulty variant: the first rule of the profile is counted as custom.
detect_one_too_many ==
  LET found == {i \in DOMAIN rules : rules[i] \in ToSet(CurrentRules)} IN
  IF found = {} THEN 0 ELSE Min(found)

\* The number of rules in config.yaml before the first one that the current
\* profile's file holds; 0 when none is found.
detect_custom_count_from_profile ==
  LET found == {i \in DOMAIN rules : rules[i] \in ToSet(CurrentRules)} IN
  IF found = {} THEN 0 ELSE Min(found) - 1

\* What GET /api/rules shows as custom.
shown_custom_count ==
  LET n == IF OrEmpty(custom) # <<>> THEN Len(custom)
                                     ELSE detect_custom_count_from_profile IN
  Min({n, Len(rules)})

write_custom_rules_to_settings(cs) ==
  /\ custom' = IF cs = <<>> THEN NoRules ELSE cs
  /\ UNCHANGED <<count, providers>>

\* The merge after a settings write; its own write may fail.
SyncConfig(n, cs, keeps_calm) ==
  \/ merge_rules_with_custom(n, cs) /\ calm' = (calm /\ keeps_calm)
  \/ "io_error" \in Ops /\ UNCHANGED config /\ calm' = FALSE

\* A custom rule that the profile has too blurs the boundary.
add_rule(r) ==
  LET cs == Append(OrEmpty(custom), r) IN
  /\ Len(rules) < MaxRules
  /\ Len(cs) <= MaxCustom
  /\ write_custom_rules_to_settings(cs)
  /\ SyncConfig(count, cs, r \notin ToSet(CurrentRules))
  /\ UNCHANGED <<store, jobs>>

\* An index (from 1) below the detected count, removed from the settings' list:
\* a shorter list makes the handler panic before it writes anything.
delete_rule(i) ==
  LET n == detect_custom_count_from_profile
      cs == IF custom = NoRules THEN SubSeq(rules, 1, n) ELSE custom
  IN
  /\ form # "absent"
  /\ i \in 1..n
  /\ i <= Len(cs)
  /\ write_custom_rules_to_settings(RemoveAt(cs, i))
  /\ SyncConfig(Len(rules) - n, RemoveAt(cs, i), TRUE)
  /\ UNCHANGED <<store, jobs>>

\* Without a custom rule detected in config.yaml only the settings are cleared.
clear_rules ==
  LET n == detect_custom_count_from_profile IN
  /\ write_custom_rules_to_settings(<<>>)
  /\ \/ /\ form = "absent" \/ n = 0
        /\ UNCHANGED <<config, calm>>
     \/ /\ form # "absent" /\ n > 0
        /\ SyncConfig(Len(rules) - n, <<>>, TRUE)
  /\ UNCHANGED <<store, jobs>>

-----------------------------------------------------------------------------
(***************************************************************************)
(* api/rule_provider_handlers.rs.                                          *)
(***************************************************************************)
\* save_settings keeps the stored custom rules when it is given None; the rule
\* goes to the front of config.yaml whether or not it is there already.  Either
\* write of config.yaml may fail.
add_rule_provider(n) ==
  LET r == RuleSet(n) IN
  /\ Len(rules) < MaxRules
  /\ Len(OrEmpty(custom)) < MaxCustom
  /\ providers' = providers \cup {n}
  /\ custom' = IF r \in ToSet(OrEmpty(custom)) THEN custom
                                              ELSE <<r>> \o OrEmpty(custom)
  /\ \/ /\ set_rule_providers(providers')
        /\ rules' = IF form = "map" THEN <<r>> \o rules ELSE rules
        /\ calm' = (calm /\ r \notin ToSet(OrEmpty(custom)) /\ r \notin ToSet(CurrentRules))
     \/ /\ "io_error" \in Ops
        /\ set_rule_providers(providers') \/ UNCHANGED <<form, rule_providers>>
        /\ calm' = FALSE
        /\ UNCHANGED rules
  /\ UNCHANGED <<count, store, jobs>>

\* The new interval of a provider; all providers go back to config.yaml.
update_rule_provider(n) ==
  /\ n \in providers
  /\ set_rule_providers(providers)
  /\ UNCHANGED <<settings, rules, store, jobs, calm>>

\* An emptied list is stored as an empty list, not as None.
CustomWithout(n) ==
  IF custom = NoRules THEN NoRules ELSE Without(custom, {RuleSet(n)})

\* Without config.yaml the handler has saved the settings and stops there.  A
\* profile's own rule of that provider goes with the custom one.  Either write
\* of config.yaml may fail.
delete_rule_provider(n) ==
  /\ n \in providers
  /\ providers' = providers \ {n}
  /\ custom' = CustomWithout(n)
  /\ \/ /\ rule_providers' = rule_providers \ {n}
        /\ rules' = Without(rules, {RuleSet(n)})
        /\ calm' = (calm /\ RuleSet(n) \notin ToSet(CurrentRules))
     \/ /\ "io_error" \in Ops
        /\ rule_providers' \in {rule_providers, rule_providers \ {n}}
        /\ calm' = FALSE
        /\ UNCHANGED rules
  /\ UNCHANGED <<count, form, store, jobs>>

-----------------------------------------------------------------------------
(***************************************************************************)
(* api/profile_handlers.rs.                                                *)
(***************************************************************************)
\* A new uid; a local profile whose source is missing gets no file.
add_profile(u, c) ==
  /\ u \notin items
  /\ files[u] = NoFile
  /\ \A j \in jobs : j.uid # u
  /\ items' = items \cup {u}
  /\ files' = [files EXCEPT ![u] = c]
  /\ UNCHANGED <<settings, config, current, jobs, calm>>

\* Faulty variant: the boundary is not recorded.
RecordCountNot(c) == UNCHANGED count

\* update_profile_rules_count, whose failure is only logged.
RecordCount(c) == count' = Len(c.rules)

\* The rules of a file: a content that is no profile has none.
RuleCount(c) == IF c \in Contents THEN Len(c.rules) ELSE 0

\* A script or a merge makes the profile's file anew, if it can be written.
MakeContent(u, c) ==
  \/ u \in Generated /\ files' = [files EXCEPT ![u] = c]
  \/ u \in Generated /\ "io_error" \in Ops /\ UNCHANGED files
  \/ u \notin Generated /\ c = files[u] /\ UNCHANGED files

\* The marker was written, and the replacement of config.yaml, the record of the
\* count or the injection of the providers fails.  What replaces config.yaml is
\* read from the file, which may not have been made anew.
ActivateHalfway(u) ==
  /\ calm' = FALSE
  /\ \/ UNCHANGED <<config, count>>
     \/ /\ files'[u] \in Contents
        /\ \E ps \in {providers, {}} : replace_from_profile(files'[u], OrEmpty(custom), ps)
        /\ RecordCount(files'[u]) \/ UNCHANGED count

\* Content that was generated stays in the file also when it is refused, as no
\* profile or without proxies.  The current marker is written before config.yaml.
activate_profile(u, c) ==
  /\ u \in items
  /\ MakeContent(u, c)
  /\ Len(OrEmpty(custom)) + RuleCount(files'[u]) <= MaxRules
  /\ \/ /\ u \in Generated
        /\ calm' = (calm /\ u # current)
        /\ UNCHANGED <<current, config, count>>
     \/ /\ c \in Contents /\ files'[u] = c
        /\ current' = u
        /\ replace_from_profile(c, OrEmpty(custom), providers)
        /\ RecordCount(c)
        /\ calm' = (c.rules # <<>> /\ ToSet(OrEmpty(custom)) \cap ToSet(c.rules) = {})
     \/ /\ c \in Contents /\ "io_error" \in Ops
        /\ current' = u
        /\ ActivateHalfway(u)
  /\ UNCHANGED <<custom, providers, items, jobs>>

\* The first half of a refresh, or of an update that changes the URL: what it
\* reads now decides what it writes after the download.
StartDownload(kind, u) ==
  /\ kind \in Ops
  /\ Cardinality(jobs) < MaxJobs
  /\ u \in items
  /\ kind = "refresh" => files[u] # NoFile
  /\ LET reads == kind = "refresh" /\ current = u IN
     jobs' = jobs \cup {[kind |-> kind, uid |-> u, is_current |-> current = u,
                          custom    |-> IF reads THEN OrEmpty(custom) ELSE <<>>,
                          providers |-> IF reads THEN providers ELSE {}]}
  /\ UNCHANGED <<settings, config, store, calm>>

\* The download fails, or an update gets an HTML page: nothing is written.
DownloadFails(j) ==
  /\ jobs' = jobs \ {j}
  /\ UNCHANGED <<settings, config, store, calm>>

\* config.yaml after the refresh of a current profile: a failing replacement or
\* injection of the providers is only logged, and nothing of it happens when
\* profiles.yaml cannot be read or written after the file.
RefreshConfig(c, cs, ps) ==
  \/ c # Broken /\ replace_from_profile(c, cs, ps)
  \/ c = Broken /\ ps # {} /\ set_rule_providers(ps) /\ UNCHANGED rules
  \/ c = Broken /\ ps = {} /\ UNCHANGED config
  \/ /\ "io_error" \in Ops
     /\ \/ UNCHANGED config
        \/ c # Broken /\ replace_from_profile(c, cs, {})
        \/ ps # {} /\ set_rule_providers(ps) /\ UNCHANGED rules

\* The rest of refresh_profile, with the custom rules and providers of its
\* start; the new number of profile rules is not recorded.
refresh_profile(j, c) ==
  /\ j.kind = "refresh"
  /\ Len(j.custom) + RuleCount(c) <= MaxRules
  /\ jobs' = jobs \ {j}
  /\ files' = [files EXCEPT ![j.uid] = c]
  /\ IF j.is_current THEN RefreshConfig(c, j.custom, j.providers) ELSE UNCHANGED config
  /\ calm' = (calm /\ ~j.is_current /\ j.uid # current)
  /\ UNCHANGED <<settings, items, current>>

\* The rest of update_profile: the settings are read after the download, the
\* boundary is recorded unless that fails, the providers are not put back.
update_profile(j, c) ==
  /\ j.kind = "update"
  /\ Len(OrEmpty(custom)) + RuleCount(c) <= MaxRules
  /\ jobs' = jobs \ {j}
  /\ files' = [files EXCEPT ![j.uid] = c]
  /\ \/ /\ j.is_current /\ c # Broken
        /\ replace_from_profile(c, OrEmpty(custom), {})
        /\ \/ RecordCount(c)
           \/ "io_error" \in Ops /\ UNCHANGED count
     \/ /\ ~j.is_current \/ c = Broken \/ "io_error" \in Ops
        /\ UNCHANGED <<config, count>>
  /\ calm' = (calm /\ ~j.is_current /\ j.uid # current)
  /\ UNCHANGED <<custom, providers, items, current>>

\* Faulty variant: the marker stays on the deleted profile.
CurrentAfterDeleteNot(u) == current

CurrentAfterDelete(u) == IF current = u THEN NoProfile ELSE current

delete_profile(u) ==
  /\ u \in items
  /\ items' = items \ {u}
  /\ current' = CurrentAfterDelete(u)
  /\ \/ files' = [files EXCEPT ![u] = NoFile]
     \/ "io_error" \in Ops /\ UNCHANGED files
  /\ calm' = (calm /\ current # u)
  /\ UNCHANGED <<settings, config, jobs>>

\* update_profile_subscription by a cron job or at startup: the file only.  A
\* profile that was deleted since the jobs were loaded gets its file back.
update_profile_subscription(u, c) ==
  /\ "cron" \in Ops
  /\ files' = [files EXCEPT ![u] = c]
  /\ calm' = (calm /\ u # current)
  /\ UNCHANGED <<settings, config, items, current, jobs>>

-----------------------------------------------------------------------------
Deletion == (\E i \in DOMAIN rules : delete_rule(i)) \/ clear_rules

Next ==
  \/ \E r \in UserRules : add_rule(r)
  \/ Deletion
  \/ \E n \in Providers : add_rule_provider(n) \/ update_rule_provider(n) \/ delete_rule_provider(n)
  \/ \E u \in Profiles, c \in Contents \cup {Broken, NoFile} : add_profile(u, c)
  \/ \E u \in Profiles, c \in Contents \cup {Broken} : activate_profile(u, c)
  \/ \E u \in Profiles, kind \in {"refresh", "update"} : StartDownload(kind, u)
  \/ \E j \in jobs : DownloadFails(j)
  \/ \E j \in jobs, c \in Contents \cup {Broken} : refresh_profile(j, c) \/ update_profile(j, c)
  \/ \E u \in Profiles : delete_profile(u)
  \/ \E u \in Profiles, c \in Contents \cup {Broken} : update_profile_subscription(u, c)

Spec == Init /\ [][Next]_vars

-----------------------------------------------------------------------------
(***************************************************************************)
(* Properties.                                                             *)
(***************************************************************************)
\* From an activation on, as long as the current profile itself is left alone,
\* any sequence of rule and provider operations keeps config.yaml what the
\* settings and the profile say: the custom rules, then the profile's rules.
Layout == calm => rules = OrEmpty(custom) \o CurrentRules

\* In the same circumstances the number of custom rules that GET /api/rules
\* shows is the one DELETE checks its index against, and indexes the list that
\* it removes from: the rule that goes is the one the user saw.
ShownIsDeleted ==
  calm => /\ detect_custom_count_from_profile = Len(OrEmpty(custom))
          /\ shown_custom_count = Len(OrEmpty(custom))

\* Whatever is deleted while downloads are under way, profiles.yaml never names
\* a current profile it does not have.
CurrentListed == current # NoProfile => current \in items

\* rules_handlers.rs says that only custom rules can be deleted or cleared.  When
\* the profile's file has changed since config.yaml was made from it, the
\* boundary is found too late in the list and profile rules go as well.
OnlyCustomDeleted ==
  [][Deletion =>
       ToSet(rules) \ ToSet(rules') \subseteq ToSet(OrEmpty(custom))]_vars

\* profile_handlers.rs refreshes config.yaml "if this is the current profile".
\* That is decided before the download: the config.yaml of a profile activated
\* meanwhile is overwritten with the refreshed one, and that profile is still
\* called current.
RefreshesCurrentOnly ==
  [][\A j \in jobs \ jobs' : config' # config => current \in {j.uid, NoProfile}]_vars
=============================================================================
