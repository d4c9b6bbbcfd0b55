--------------------------- MODULE SettingsStore ----------------------------
(***************************************************************************)
(* Where control-tower keeps a setting: settings.yaml, the active          *)
(* config.yaml, the running Mihomo and the daemon's own memory.  The       *)
(* writers are the handlers of api/settings_handlers.rs, set_mode, the     *)
(* password set-up, the rule and provider handlers, the activation of a    *)
(* profile, the last part of every start (service/lifecycle.rs), the       *)
(* automatic latency test and the command-line client.                     *)
(*                                                                         *)
(* Nothing locks either file.  A writer reads, changes and writes whole    *)
(* files, and std::fs::write truncates before it writes, so a task is the  *)
(* list of the steps it has still to take: each step is one access to a    *)
(* file, to Mihomo or to the memory, and steps of different tasks          *)
(* interleave.  A crash ends every task where it is.                       *)
(***************************************************************************)
EXTENDS Naturals, SequencesExt

CONSTANTS
  Values,     \* values of a setting
  Default,    \* the one ensure_settings_file writes; off for tun, dns, auto
  None,       \* the key is absent
  NoFile, Empty,  \* no file; a truncated one, or a config.yaml that is null
  Down,       \* no Mihomo
  Idle,       \* no task
  Tasks,      \* threads that handle requests
  Requests,   \* the requests made: [op, field, value]
  Profile,    \* the keys of config.yaml in the profile that is activated
  Configs,    \* what config.yaml can be before the daemon first runs
  MaxRequests, MaxFaults  \* bounds on requests, and on crashes and exits

\* `ports` stands for http_port and socks_port, `lan` for the four fields that
\* are hot-patched, `rules` for the ones of the rules subsystem.
Fields == {"api_host", "api_port", "service_port", "ports", "tun", "mode",
           "lan", "auto", "dns", "rules", "auth"}
Keys == Fields \cup {"selected"}          \* selected_proxy: the client's only
ConfigKeys == {"mode", "ports", "tun", "dns", "lan", "api"}

Operations == {"put", "auth", "dns", "ports", "tun", "mode", "rules", "provider",
               "activate", "start", "cli_mode", "cli_select"}

\* put_settings and setup_password name a field, the others imply one.
ASSUME SettingsAssumption ==
  /\ MaxRequests \in Nat /\ MaxFaults \in Nat
  /\ Default \in Values
  /\ None \notin Values
  /\ NoFile # Empty /\ {None, NoFile, Empty} \cap [Keys -> Values \cup {None}] = {}
  /\ {NoFile, Empty} \cap [ConfigKeys -> Values \cup {None}] = {}
  /\ Configs \subseteq {NoFile} \cup [ConfigKeys -> Values \cup {None}]
  /\ Profile \in [ConfigKeys -> Values \cup {None}]
  /\ Requests \subseteq [op : Operations, field : Keys \cup {"none"}, value : Values \cup {None}]
  /\ \A r \in Requests :
       /\ r.op \in {"dns", "ports", "tun"} => r.field = r.op
       /\ r.op \in {"mode", "cli_mode"} => r.field = "mode"
       /\ r.op \in {"rules", "provider"} => r.field = "rules"
       /\ r.op = "cli_select" => r.field = "selected"
       /\ r.op \in {"activate", "start"} => r.field = "none"

VARIABLES
  settings,  \* settings.yaml
  config,    \* config.yaml
  memory,    \* api_port and auto_test.enabled of ServiceState
  phase,     \* the daemon: "down", "booting" or "up"
  known,     \* last_config_path is set
  mihomo,    \* what the daemon's Mihomo runs with, or Down
  orphan,    \* API port of a Mihomo that an earlier daemon left, or None
  tested,    \* auto_test.running
  task,      \* what each thread is doing, or Idle
  requests, faults,  \* how many there were
  promise,   \* history: what the last successful request gave a field
  applied,   \* history: the fields whose promise config.yaml has to hold
  calm       \* history: no writer has overtaken another

daemon  == <<memory, phase, known, tested>>
process == <<mihomo, orphan>>
history == <<promise, applied, calm>>
budget  == <<requests, faults>>
vars == <<settings, config, daemon, process, task, budget, history>>

Options == Values \cup {None}
Nothing == [k \in Keys |-> None]

\* The steps that operations are made of.
Steps == {"read_config", "cut_config", "write_config", "rename_config", "overrides",
          "request", "merge", "truncate", "write", "rename", "load", "store",
          "spawn", "record", "resume", "restore", "patch_mode", "allow_lan", "reply",
          "cli_read", "select", "cli_truncate", "cli_write", "snapshot", "finish"}

Task == [op : Operations \cup {"boot", "test"}, field : Keys \cup {"none"}, value : Options,
         mode : Options, todo : Seq(Steps),
         data : {None, NoFile, Empty} \cup [Keys -> Options] \cup [ConfigKeys -> Options],
         client : {None} \cup [Keys -> Options], stale : BOOLEAN]

ASSUME IdleAssumption == Idle \notin Task

TypeOK ==
  /\ settings \in {NoFile, Empty} \cup [Keys -> Options]
  /\ config \in {NoFile, Empty} \cup [ConfigKeys -> Options]
  /\ memory \in [{"api_port", "auto"} -> Values]
  /\ phase \in {"down", "booting", "up"}
  /\ known \in BOOLEAN /\ tested \in BOOLEAN /\ calm \in BOOLEAN
  /\ mihomo \in {Down} \cup [ConfigKeys \cup {"selected"} -> Options]
  /\ orphan \in Options
  /\ task \in [Tasks -> Task \cup {Idle}]
  /\ phase = "down" => \A t \in Tasks : task[t] = Idle
  /\ requests \in 0..MaxRequests /\ faults \in 0..MaxFaults
  /\ promise \in [Fields -> Options]
  /\ applied \subseteq {"mode", "ports", "tun", "dns"}

Init ==
  /\ settings = NoFile
  /\ config \in Configs
  /\ memory = [api_port |-> Default, auto |-> Default]
  /\ phase = "down" /\ known = FALSE /\ tested = FALSE
  /\ mihomo = Down /\ orphan = None
  /\ task = [t \in Tasks |-> Idle]
  /\ requests = 0 /\ faults = 0
  /\ promise = [f \in Fields |-> None] /\ applied = {} /\ calm = TRUE

-----------------------------------------------------------------------------
(***************************************************************************)
(* What the files say and what a save makes of them.                       *)
(***************************************************************************)
\* get_settings: without a file the Default of SettingsData; an empty document
\* is a SettingsData with nothing set.  The client's key is not a field of it.
get_settings ==
  CASE settings = NoFile -> [Nothing EXCEPT !["auto"] = Default]
    [] settings = Empty  -> Nothing
    [] OTHER -> [settings EXCEPT !["selected"] = None]

\* Faulty variant: what the request does not give is not kept.
merged_not(new, old) == new

\* save_settings keeps the stored value of what the request does not give.  It
\* has no line for mixed_port and none for https: these are no Keys.
merged(new, old) == [k \in Keys |-> IF new[k] # None THEN new[k] ELSE old[k]]

\* A tun or dns section that is turned off is removed from config.yaml.
Section(f, v) == IF f \in {"tun", "dns"} /\ v = Default THEN None ELSE v

\* ensure_settings_file
ensured ==
  IF settings # NoFile THEN settings
  ELSE [k \in Keys |-> IF k \in {"auto", "dns", "rules", "auth", "selected"} THEN None ELSE Default]

\* Faulty variant: auto_test is not synchronized.
loaded_not(s, m) == [m EXCEPT !["api_port"] = IF s \notin {NoFile, Empty} /\ s["api_port"] # None
                                                THEN s["api_port"] ELSE @]

\* load_settings: a key that is absent leaves the memory as it was.
loaded(s, m) ==
  IF s \in {NoFile, Empty} THEN m
  ELSE [k \in DOMAIN m |-> IF s[k] # None THEN s[k] ELSE m[k]]

\* The rules and the DNS settings that are stored are handed on as they are now.
put_settings(f, v) ==
  [k \in Keys |-> IF k = f THEN v ELSE IF k \in {"dns", "rules"} THEN get_settings[k] ELSE None]

put_dns_settings(v) == [Nothing EXCEPT !["dns"] = v]

save_mode(v) == [get_settings EXCEPT !["mode"] = v]

\* Saves of all settings with one changed: setup_password, custom rules, rule
\* providers, and the number of profile rules that an activation records.
with(f, v) == IF f \in Keys THEN [get_settings EXCEPT ![f] = v] ELSE get_settings

\* Both name the loopback host and the standard service port, whatever is stored.
\* What they do not name the save keeps.
apply_port_settings(v) ==
  [get_settings EXCEPT !["api_host"] = Default, !["api_port"] = memory["api_port"],
                       !["service_port"] = Default, !["ports"] = v,
                       !["mode"] = None, !["lan"] = None, !["auto"] = None, !["auth"] = None]

apply_tun_settings(v) ==
  [get_settings EXCEPT !["api_host"] = Default, !["api_port"] = memory["api_port"],
                       !["service_port"] = Default, !["tun"] = v,
                       !["lan"] = None, !["auth"] = None]

\* The settings a task hands to save_settings, or writes itself.
Request(r) ==
  IF r.mode # None THEN save_mode(r.mode)
  ELSE CASE r.op = "put"   -> put_settings(r.field, r.value)
         [] r.op = "dns"   -> put_dns_settings(r.value)
         [] r.op = "ports" -> apply_port_settings(r.value)
         [] r.op = "tun"   -> apply_tun_settings(r.value)
         [] OTHER          -> with(r.field, r.value)

update_config_mode(v) == [config EXCEPT !["mode"] = v]

\* The ports, and the controller that the daemon calls.
update_config_ports(v) == [config EXCEPT !["ports"] = v, !["api"] = memory["api_port"]]

\* update_config_tun and apply_dns_settings
update_section(f, v) == [config EXCEPT ![f] = Section(f, v)]

\* A document that is no mapping is written back as it is.
Edited(r) ==
  IF config = Empty THEN Empty
  ELSE IF r.mode # None THEN update_config_mode(r.mode)
  ELSE IF r.field = "ports" THEN update_config_ports(r.value)
  ELSE update_section(r.field, r.value)

\* Faulty variant: nothing of the old file survives.
Overrides_none == {}

\* The keys of config.yaml that survive a profile switch.
Overrides == IF config \in {NoFile, Empty} THEN {}
             ELSE {k \in {"mode", "tun", "dns"} : config[k] # None}

\* replace_from_profile with the ports and the controller of the settings s.
Replaced(s) ==
  [k \in ConfigKeys |->
     CASE k \in Overrides                  -> config[k]
       [] k = "ports" /\ s["ports"] # None -> s["ports"]
       [] k = "api" /\ s["api_host"] # None /\ s["api_port"] # None -> s["api_port"]
       [] OTHER                            -> Profile[k]]

ClientDrops == {"api_host", "lan", "auto", "dns", "rules", "auth"}

\* What the client keeps of the settings.yaml it read: Settings of the
\* command-line client, in which tun_enabled is no Option.
Client ==
  LET known_to(k) == settings \notin {NoFile, Empty} /\ k \notin ClientDrops IN
  [k \in Keys |-> IF known_to(k) /\ settings[k] # None THEN settings[k]
                  ELSE IF k = "tun" THEN Default ELSE None]

-----------------------------------------------------------------------------
(***************************************************************************)
(* Mihomo.                                                                 *)
(***************************************************************************)
\* Faulty variant: whatever the file is.
Ran_file == config

\* What a Mihomo runs with that was started now.
Ran == [k \in ConfigKeys \cup {"selected"} |->
          IF config \in {NoFile, Empty} \/ k = "selected" THEN None ELSE config[k]]

\* An orphan holds its port against the daemon's own Mihomo.
OrphanAnswers == orphan = memory["api_port"]
OwnAnswers == /\ ~OrphanAnswers
              /\ mihomo # Down
              /\ mihomo["api"] = memory["api_port"]

\* A call that reaches an orphan succeeds and changes nothing of ours.
Patch(k, v) ==
  mihomo' = IF OwnAnswers THEN [mihomo EXCEPT ![k] = v] ELSE mihomo

-----------------------------------------------------------------------------
(***************************************************************************)
(* Tasks: which steps an operation takes.                                  *)
(***************************************************************************)
Edit == <<"read_config", "cut_config", "write_config">>
Save == <<"request", "merge", "truncate", "write", "load", "store">>
SetMode == Edit \o Save \o <<"patch_mode">>
Started == <<"resume", "restore">> \o SetMode \o <<"allow_lan">>
ClientSave == <<"cli_truncate", "cli_write">>

\* Faulty variant: ports and tun are applied without a restart.
Restart_not == <<>>

Restart == <<"spawn">> \o Started

RulesPlan    == <<"request", "rename", "reply">>
ProviderPlan == <<"request", "merge", "truncate", "write", "reply">>
ActivatePlan == <<"overrides", "read_config", "rename_config", "request", "rename", "spawn">>
                  \o Started \o <<"reply">>
StartPlan    == <<"spawn", "record">> \o Started \o <<"reply">>
ModePlan     == SetMode \o <<"reply">>
ClientMode   == <<"cli_read">> \o SetMode \o ClientSave
                  \o <<"read_config", "rename_config", "reply">>
ClientSelect == <<"cli_read", "select">> \o ClientSave \o <<"reply">>
TestPlan     == <<"snapshot", "finish">>

Plan(op) ==
  CASE op \in {"put", "auth"}   -> Save \o <<"reply">>
    [] op = "dns"               -> Edit \o Save \o <<"reply">>
    [] op \in {"ports", "tun"}  -> Edit \o Save \o Restart \o <<"reply">>
    [] op = "mode"              -> ModePlan
    [] op = "rules"             -> RulesPlan
    [] op = "provider"          -> ProviderPlan
    [] op = "activate"          -> ActivatePlan
    [] op = "start"             -> StartPlan
    [] op = "boot"              -> Started \o <<"reply">>
    [] op = "cli_mode"          -> ClientMode
    [] op = "cli_select"        -> ClientSelect
    [] op = "test"              -> TestPlan

\* The fields whose value an operation decides, for the history.
Touches(op, field) ==
  CASE op = "ports"    -> {"ports", "api_host", "api_port", "service_port", "mode"}
    [] op = "tun"      -> {"tun", "api_host", "api_port", "service_port", "auto", "mode"}
    [] op = "activate" -> {"ports", "tun", "dns", "mode", "api_host", "api_port"}
    [] op \in {"cli_mode", "cli_select"} -> ClientDrops \cup {"mode"}
    [] op \in {"start", "boot"} -> {"mode"}
    [] op = "test"     -> {"auto"}
    [] OTHER           -> {field}

\* The fields that are given another value than the one promised.
Resets(op, field) ==
  CASE op \in {"ports", "tun"} -> {field, "api_host", "service_port"}
    [] op = "cli_select"       -> {}
    [] OTHER                   -> {field}

New(op, field, value) ==
  [op |-> op, field |-> field, value |-> value,
   mode |-> IF op \in {"mode", "cli_mode"} THEN value ELSE None,
   todo |-> Plan(op), data |-> None, client |-> None, stale |-> FALSE]

Active == {t \in Tasks : task[t] # Idle}
At(t, s) == t \in Active /\ Head(task[t].todo) = s

\* History: two tasks at a time that decide the same field.
Alone(op, field) ==
  \A t \in Active : Touches(task[t].op, task[t].field) \cap Touches(op, field) = {}

\* An activation that has not started Mihomo yet.
Switching(t) == task[t].op = "activate" /\ task[t].mode = None

\* The tasks that have read settings.yaml (config.yaml) and will write it, or
\* what they made of it, without reading it again.
HoldsSettings ==
  {t \in Active :
     \/ Head(task[t].todo) \in {"truncate", "write", "rename", "store"}
     \/ At(t, "merge") /\ task[t].op # "dns"
     \/ Switching(t) /\ Head(task[t].todo) \in {"read_config", "rename_config"}
     \/ task[t].client # None}
HoldsConfig ==
  {t \in Active : Head(task[t].todo) \in {"cut_config", "write_config", "rename_config"}}

\* A file that another task has truncated and not written yet.
SettingsTorn(t) == \E u \in Active \ {t} : At(u, "write") \/ At(u, "cli_write")
ConfigTorn(t) == \E u \in Active \ {t} : At(u, "write_config")

\* Task t, now r, has taken its step; the tasks of `passed` hold old data.
Advance(t, r, passed) ==
  task' = [u \in Tasks |->
             IF u = t THEN [r EXCEPT !.todo = Tail(@)]
             ELSE IF u \in passed THEN [task[u] EXCEPT !.stale = TRUE]
             ELSE task[u]]

Step(t, r) == Advance(t, r, {})

\* An error ends the operation; that of set_mode in a start is only logged.
Fail(t) ==
  task' = [task EXCEPT ![t] =
             IF "allow_lan" \in ToSet(@.todo) /\ "restore" \notin ToSet(Tail(@.todo))
               THEN [@ EXCEPT !.todo = <<"allow_lan", "reply">>]
               ELSE Idle]

Overtaken(t) == calm' = (calm /\ ~task[t].stale)

\* A read takes the file as it is; what a task keeps from an earlier one stays old.
Reads(t, data, torn) ==
  LET r == task[t] IN
  [r EXCEPT !.data = data,
            !.stale = torn \/ (@ /\ (r.client # None \/ Switching(t)))]

-----------------------------------------------------------------------------
(***************************************************************************)
(* Steps on config.yaml: update_config_mode, update_config_ports,          *)
(* update_config_tun, apply_dns_settings and ActiveConfigStore.            *)
(***************************************************************************)
ReadConfig(t) ==
  /\ At(t, "read_config")
  /\ IF config = NoFile /\ ~Switching(t) THEN Fail(t)
     ELSE Step(t, Reads(t, IF Switching(t) THEN Replaced(task[t].data) ELSE Edited(task[t]),
                        ConfigTorn(t)))
  /\ UNCHANGED <<settings, config, daemon, process, budget, history>>

CutConfig(t) ==
  /\ At(t, "cut_config")
  /\ config' = Empty
  /\ Step(t, task[t])
  /\ UNCHANGED <<settings, daemon, process, budget, history>>

\* The section of the profile replaces one that was turned off.
Revived == {f \in {"tun", "dns", "mode"} : f \notin Overrides /\ Profile[f] # None}

WriteConfig(t) ==
  /\ At(t, "write_config") \/ At(t, "rename_config")
  /\ config' = task[t].data
  /\ Advance(t, task[t], HoldsConfig \ {t})
  /\ Overtaken(t)
  /\ applied' = IF Switching(t) THEN applied \ Revived ELSE applied
  /\ UNCHANGED <<settings, daemon, process, budget, promise>>

-----------------------------------------------------------------------------
(***************************************************************************)
(* Steps on settings.yaml: save_settings, the atomic writes of the rules   *)
(* subsystem, and the client's own.                                        *)
(***************************************************************************)
ReadSettings(t) ==
  /\ \/ At(t, "request") /\ Step(t, Reads(t, Request(task[t]), SettingsTorn(t)))
     \/ At(t, "overrides") /\ Step(t, Reads(t, get_settings, SettingsTorn(t)))
     \/ At(t, "cli_read") /\ Step(t, [task[t] EXCEPT !.client = Client, !.stale = SettingsTorn(t)])
  /\ UNCHANGED <<settings, config, daemon, process, budget, history>>

\* hot_patch_runtime, and the merge with what the file holds now.
MergeSettings(t) ==
  /\ At(t, "merge")
  /\ LET r == task[t] IN
     /\ IF r.data["lan"] # None THEN Patch("lan", r.data["lan"]) ELSE UNCHANGED mihomo
     /\ Step(t, [r EXCEPT !.data = merged(r.data, get_settings),
                          !.stale = @ \/ SettingsTorn(t)])
  /\ UNCHANGED <<settings, config, daemon, orphan, budget, history>>

TruncateSettings(t) ==
  /\ At(t, "truncate") \/ At(t, "cli_truncate")
  /\ settings' = Empty
  /\ Step(t, task[t])
  /\ UNCHANGED <<config, daemon, process, budget, history>>

WriteSettings(t) ==
  /\ At(t, "write") \/ At(t, "rename")
  /\ settings' = task[t].data
  /\ Advance(t, task[t], HoldsSettings \ {t})
  /\ Overtaken(t)
  /\ UNCHANGED <<config, daemon, process, budget, promise, applied>>

\* set_mode or set_selected_proxy of the client.
WriteClient(t) ==
  /\ At(t, "cli_write")
  /\ LET r == task[t] IN
     settings' = IF r.op = "cli_mode" THEN [r.client EXCEPT !["mode"] = r.value]
                                      ELSE [r.client EXCEPT !["selected"] = r.value]
  /\ Advance(t, [task[t] EXCEPT !.client = None], HoldsSettings \ {t})
  /\ Overtaken(t)
  /\ promise' = [f \in Fields |-> IF f \in ClientDrops THEN None ELSE promise[f]]
  /\ applied' = applied \ ClientDrops
  /\ UNCHANGED <<config, daemon, process, budget>>

\* load_settings at the end of a save.
LoadSettings(t) ==
  /\ \/ /\ At(t, "load")
        /\ Step(t, Reads(t, settings, SettingsTorn(t)))
        /\ UNCHANGED <<memory, calm>>
     \/ /\ At(t, "store")
        /\ memory' = loaded(task[t].data, memory)
        /\ Step(t, [task[t] EXCEPT !.data = None])
        /\ Overtaken(t)
  /\ UNCHANGED <<settings, config, phase, known, tested, process, budget, promise, applied>>

-----------------------------------------------------------------------------
(***************************************************************************)
(* Steps on Mihomo.                                                        *)
(***************************************************************************)
\* restart_mihomo, restart_with_config or start.  A start finds Mihomo running
\* and leaves it alone; applied settings are not loaded by anything when no
\* config path is recorded, even if a first start is just about to record it.
Spawn(t) ==
  /\ At(t, "spawn")
  /\ LET r == task[t]
         skips == \/ r.op = "start" /\ mihomo # Down
                  \/ r.op \in {"ports", "tun"} /\ ~known
     IN
     \/ /\ skips
        /\ task' = [task EXCEPT ![t].todo = <<"reply">>]
        /\ calm' = (calm /\ \A u \in Active : ~At(u, "record"))
        /\ UNCHANGED <<mihomo, known>>
     \/ /\ ~skips
        /\ known' = (known \/ r.op = "activate")
        /\ \/ config # NoFile /\ mihomo' = Ran /\ Step(t, r)
           \/ mihomo' = Down /\ Fail(t)
        /\ calm' = (calm /\ ~ConfigTorn(t))
  /\ UNCHANGED <<settings, config, memory, phase, tested, orphan, budget, promise, applied>>

RecordPath(t) ==
  /\ At(t, "record")
  /\ known' = TRUE
  /\ Step(t, task[t])
  /\ UNCHANGED <<settings, config, memory, phase, tested, process, budget, history>>

\* load_selected_proxy and select_proxy; the client's select by way of the daemon.
SelectProxy(t) ==
  LET r == task[t]
      name == IF At(t, "select") THEN r.value
              ELSE IF settings \in {NoFile, Empty} THEN None ELSE settings["selected"]
      answers == OrphanAnswers \/ OwnAnswers
  IN
  /\ At(t, "resume") \/ At(t, "select")
  /\ IF name # None THEN Patch("selected", name) ELSE UNCHANGED mihomo
  /\ IF At(t, "select") /\ ~answers THEN Fail(t) ELSE Step(t, r)
  /\ UNCHANGED <<settings, config, daemon, orphan, budget, history>>

\* load_mode: the stored mode is set once more.
RestoreMode(t) ==
  /\ At(t, "restore")
  /\ IF settings \in {NoFile, Empty} \/ get_settings["mode"] = None
       THEN Fail(t)
       ELSE Step(t, [task[t] EXCEPT !.mode = settings["mode"]])
  /\ applied' = applied \ {"mode"}
  /\ UNCHANGED <<settings, config, daemon, process, budget, promise, calm>>

PatchMode(t) ==
  /\ At(t, "patch_mode")
  /\ Patch("mode", task[t].mode)
  /\ IF OrphanAnswers \/ OwnAnswers
       THEN /\ Step(t, task[t])
            /\ promise' = [promise EXCEPT !["mode"] = task[t].mode]
            /\ applied' = IF OwnAnswers /\ config # Empty THEN applied \cup {"mode"} ELSE applied
       ELSE Fail(t) /\ UNCHANGED <<promise, applied>>
  /\ UNCHANGED <<settings, config, daemon, orphan, budget, calm>>

\* The allow-lan of config.yaml, true without one.
PatchLan(t) ==
  /\ At(t, "allow_lan")
  /\ Patch("lan", IF config \in {NoFile, Empty} \/ config["lan"] = None
                    THEN Default ELSE config["lan"])
  /\ Step(t, [task[t] EXCEPT !.mode = None, !.data = None])
  /\ UNCHANGED <<settings, config, daemon, orphan, budget, history>>

\* The last step: the request succeeds, or the daemon goes on to serve others.
Reply(t) ==
  LET r == task[t] IN
  /\ At(t, "reply")
  /\ task' = [task EXCEPT ![t] = Idle]
  /\ phase' = "up"
  /\ promise' = IF r.op \in {"put", "auth", "dns", "ports", "tun", "rules", "provider"}
                  THEN [promise EXCEPT ![r.field] = r.value] ELSE promise
  /\ applied' = IF r.op \in {"dns", "ports", "tun"} /\ config # Empty
                  THEN applied \cup {r.field} ELSE applied
  /\ UNCHANGED <<settings, config, memory, known, tested, process, budget, calm>>

-----------------------------------------------------------------------------
(***************************************************************************)
(* The automatic latency test.                                             *)
(***************************************************************************)
\* The main loop sets `running`, and nothing ever resets it.
AutoTestDue(t) ==
  /\ phase = "up" /\ ~tested /\ task[t] = Idle
  /\ tested' = TRUE
  /\ task' = [task EXCEPT ![t] = New("test", "auto", None)]
  /\ calm' = (calm /\ Alone("test", "auto"))
  /\ UNCHANGED <<settings, config, memory, phase, known, process, budget, promise, applied>>

\* run_auto_latency_test: it may give up at any of its calls, and sets
\* auto_test.enabled at the end, by the configuration it read at the start.
RunAutoTest(t) ==
  /\ \/ /\ At(t, "snapshot")
        /\ IF get_settings["auto"] \in {None, Default} \/ mihomo = Down
             THEN task' = [task EXCEPT ![t] = Idle]
             ELSE Step(t, [task[t] EXCEPT !.value = get_settings["auto"]])
        /\ UNCHANGED memory
     \/ /\ At(t, "finish")
        /\ memory' \in {memory, [memory EXCEPT !["auto"] = task[t].value]}
        /\ task' = [task EXCEPT ![t] = Idle]
  /\ UNCHANGED <<settings, config, phase, known, tested, process, budget, history>>

-----------------------------------------------------------------------------
(***************************************************************************)
(* Requests, the daemon's start and end, the client without a daemon.      *)
(***************************************************************************)
Begin(t, r) ==
  /\ phase = "up" /\ task[t] = Idle /\ requests < MaxRequests
  /\ task' = [task EXCEPT ![t] = New(r.op, r.field, r.value)]
  /\ requests' = requests + 1
  /\ promise' = [f \in Fields |-> IF f \in Resets(r.op, r.field) THEN None ELSE promise[f]]
  /\ applied' = applied \ Resets(r.op, r.field)
  /\ calm' = (calm /\ Alone(r.op, r.field))
  /\ UNCHANGED <<settings, config, daemon, process, faults>>

\* Mihomo is started with the config.yaml that is there; then HTTP is served.
Boot(t) ==
  LET fresh == [api_port |-> Default, auto |-> Default] IN
  /\ phase = "down"
  /\ settings' = ensured
  /\ memory' = loaded(ensured, fresh)
  /\ tested' = FALSE
  /\ \/ /\ config # NoFile
        /\ phase' = "booting" /\ known' = TRUE
        /\ mihomo' = Ran
        /\ task' = [task EXCEPT ![t] = New("boot", "none", None)]
     \/ /\ phase' = "up" /\ known' = FALSE     \* no config.yaml, or no Mihomo
        /\ UNCHANGED <<mihomo, task>>
  /\ UNCHANGED <<config, orphan, budget, history>>

\* The fields that tasks under way decide may have any of two values.
Crash ==
  LET under_way == UNION {Touches(task[t].op, task[t].field) : t \in Active} IN
  /\ phase # "down" /\ faults < MaxFaults
  /\ faults' = faults + 1
  /\ phase' = "down"
  /\ task' = [t \in Tasks |-> Idle]
  /\ mihomo' = Down
  /\ orphan' \in {orphan} \cup (IF mihomo = Down THEN {} ELSE {mihomo["api"]})
  /\ promise' = [f \in Fields |-> IF f \in under_way \/ settings = Empty
                                    THEN None ELSE promise[f]]
  /\ applied' = IF Empty \in {settings, config} THEN {} ELSE applied \ under_way
  /\ UNCHANGED <<settings, config, memory, known, tested, requests, calm>>

\* A Mihomo exits, or a user stops it.
MihomoExits ==
  /\ faults < MaxFaults
  /\ faults' = faults + 1
  /\ \/ mihomo # Down /\ mihomo' = Down /\ UNCHANGED orphan
     \/ orphan # None /\ orphan' = None /\ UNCHANGED mihomo
  /\ UNCHANGED <<settings, config, daemon, task, requests, history>>

\* `mode` of the client without a daemon: the orphan answers on the port of
\* settings.yaml, then both files are written.
ClientAlone(v) ==
  LET kept == Client IN
  /\ phase = "down" /\ requests < MaxRequests
  /\ orphan = IF kept["api_port"] = None THEN Default ELSE kept["api_port"]
  /\ requests' = requests + 1
  /\ settings' = [kept EXCEPT !["mode"] = v]
  /\ config' = IF config \in {NoFile, Empty} THEN config ELSE [config EXCEPT !["mode"] = v]
  /\ promise' = [f \in Fields |-> CASE f = "mode" -> v
                                     [] f \in ClientDrops -> None
                                     [] OTHER -> promise[f]]
  /\ applied' = IF config \in {NoFile, Empty} THEN applied \ {"mode", "dns"}
                ELSE (applied \ ClientDrops) \cup {"mode"}
  /\ UNCHANGED <<daemon, process, task, faults, calm>>

ConfigStep(t) == ReadConfig(t) \/ CutConfig(t) \/ WriteConfig(t)
SettingsStep(t) ==
  \/ ReadSettings(t) \/ MergeSettings(t) \/ TruncateSettings(t)
  \/ WriteSettings(t) \/ WriteClient(t) \/ LoadSettings(t)
MihomoStep(t) ==
  \/ Spawn(t) \/ RecordPath(t) \/ SelectProxy(t)
  \/ RestoreMode(t) \/ PatchMode(t) \/ PatchLan(t)

Next ==
  \/ \E t \in Tasks :
       \/ ConfigStep(t) \/ SettingsStep(t) \/ MihomoStep(t)
       \/ Reply(t) \/ AutoTestDue(t) \/ RunAutoTest(t) \/ Boot(t)
  \/ \E t \in Tasks, r \in Requests : Begin(t, r)
  \/ Crash
  \/ MihomoExits
  \/ \E v \in Values : ClientAlone(v)

Spec == Init /\ [][Next]_vars

-----------------------------------------------------------------------------
(***************************************************************************)
(* Properties.                                                             *)
(***************************************************************************)
AtRest == calm /\ Active = {}

\* Saving settings loses nothing: across the saves of other fields and crashes
\* that did not tear the file, one of Fields that was acknowledged still has its
\* value until a request gives it another.  Excepted are writers overtaken between
\* their read and their write, fields the client drops, and the API host and the
\* service port, which apply-ports and apply-tun set back.
SettingsKept ==
  AtRest => \A f \in Fields : promise[f] # None =>
              settings \notin {NoFile, Empty} /\ settings[f] = promise[f]

\* What apply-ports, apply-tun, the DNS settings and set_mode acknowledged is in
\* config.yaml too, through profile switches and restarts, so that the two files
\* agree on it.
ConfigAgrees ==
  AtRest => \A f \in applied : promise[f] # None =>
              config \notin {NoFile, Empty} /\ config[f] = Section(f, promise[f])

\* The daemon calls Mihomo at the port, and keeps the automatic test as it is,
\* in settings.yaml.
MemoryFollowsFile ==
  AtRest /\ phase = "up" /\ settings # Empty =>
    \A k \in DOMAIN memory : settings[k] # None => memory[k] = settings[k]

\* A Mihomo that the daemon runs has the ports, the tun section and the mode
\* that were acknowledged.
RunsApplied ==
  AtRest /\ mihomo # Down =>
    \A f \in applied \ {"dns"} : promise[f] # None => mihomo[f] = Section(f, promise[f])
=============================================================================
