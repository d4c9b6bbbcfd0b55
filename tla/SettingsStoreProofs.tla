------------------------ MODULE SettingsStoreProofs -------------------------
(***************************************************************************)
(* Proofs about SettingsStore, for every set of values, of threads and of  *)
(* requests, whether or not writers overtake each other: what the files    *)
(* and the tasks are made of, and which steps an operation still takes.    *)
(***************************************************************************)
EXTENDS SettingsStore, TLAPS

(***************************************************************************)
(* What is left of an operation is a chain of steps, and what a task has   *)
(* read fits the step it is at.                                            *)
(***************************************************************************)
\* The steps that may follow a step.
Successors(s) ==
  CASE s \in {"overrides", "restore"} -> {"read_config"}
    [] s = "read_config"  -> {"cut_config", "rename_config"}
    [] s = "cut_config"   -> {"write_config"}
    [] s = "write_config" -> {"request"}
    [] s = "rename_config" -> {"request", "reply"}
    [] s = "request"      -> {"merge", "rename"}
    [] s = "merge"        -> {"truncate"}
    [] s = "truncate"     -> {"write"}
    [] s = "write"        -> {"load", "reply"}
    [] s = "rename"       -> {"spawn", "reply"}
    [] s = "load"         -> {"store"}
    [] s = "store"        -> {"spawn", "patch_mode", "reply"}
    [] s = "spawn"        -> {"record", "resume"}
    [] s = "record"       -> {"resume"}
    [] s = "resume"       -> {"restore"}
    [] s = "patch_mode"   -> {"allow_lan", "cli_truncate", "reply"}
    [] s = "allow_lan"    -> {"reply"}
    [] s = "cli_read"     -> {"read_config", "select"}
    [] s = "select"       -> {"cli_truncate"}
    [] s = "cli_truncate" -> {"cli_write"}
    [] s = "cli_write"    -> {"read_config", "reply"}
    [] s = "snapshot"     -> {"finish"}
    [] OTHER              -> {}

Chain(s) ==
  /\ s \in Seq(Steps) /\ Len(s) >= 1
  /\ \A i \in 1..(Len(s) - 1) : s[i + 1] \in Successors(s[i])

\* Nothing of the client's own file accesses.
Plain(s) == \A i \in 1..Len(s) : s[i] \notin {"cli_read", "cli_write"}

\* The client reads first and writes once.
ClientOnce(s) ==
  /\ \A i \in 1..Len(s) : s[i] = "cli_read" => i = 1
  /\ \A i, j \in 1..Len(s) : s[i] = "cli_write" /\ s[j] = "cli_write" => i = j

Unwritten(s) == \A i \in 1..Len(s) : s[i] # "cli_write"

Whole(s) == Chain(s) /\ s[Len(s)] \in {"reply", "finish"} /\ ClientOnce(s)

SettingsData == [Keys -> Options]
ConfigData == [ConfigKeys -> Options]

\* What a task has to know at a step.
Ready(r, s) ==
  /\ s \in {"cut_config", "write_config", "rename_config"} => r.data \in {Empty} \cup ConfigData
  /\ s \in {"merge", "truncate", "write", "rename"} => r.data \in SettingsData
  /\ s = "store" => r.data \in {NoFile, Empty} \cup SettingsData
  /\ s = "read_config" /\ r.op = "activate" /\ r.mode = None => r.data \in SettingsData
  /\ s = "finish" => r.value \in Values

Fits(r) ==
  /\ Whole(r.todo) /\ Ready(r, Head(r.todo))
  /\ r.client \in SettingsData \/ Head(r.todo) = "cli_read" \/ Unwritten(r.todo)
  /\ r.op = "activate" => Plain(r.todo)
  /\ r.op \in {"dns", "ports", "tun"} => r.field = r.op

TodoInv == \A t \in Active : Fits(task[t])

Typed == TypeOK /\ TodoInv

-----------------------------------------------------------------------------
(***************************************************************************)
(* Chains of steps.                                                        *)
(***************************************************************************)
LEMMA ChainConcat ==
  ASSUME NEW s, Chain(s), NEW t, Chain(t), t[1] \in Successors(s[Len(s)])
  PROVE  /\ Chain(s \o t)
         /\ Len(s \o t) = Len(s) + Len(t)
         /\ \A i \in 1..Len(s) : (s \o t)[i] = s[i]
         /\ \A i \in 1..Len(t) : (s \o t)[Len(s) + i] = t[i]
<1> DEFINE u == s \o t
<1>1. s \in Seq(Steps) /\ t \in Seq(Steps) /\ Len(s) \in Nat /\ Len(t) \in Nat
      /\ Len(s) >= 1 /\ Len(t) >= 1
  BY DEF Chain
<1>2. /\ u \in Seq(Steps) /\ Len(u) = Len(s) + Len(t)
      /\ \A i \in 1..Len(s) : u[i] = s[i]
      /\ \A i \in 1..Len(t) : u[Len(s) + i] = t[i]
  BY <1>1
<1> HIDE DEF u
<1>3. ASSUME NEW i \in 1..(Len(u) - 1) PROVE u[i + 1] \in Successors(u[i])
  <2>1. CASE i < Len(s)
    <3>1. i \in 1..(Len(s) - 1) /\ i \in 1..Len(s) /\ i + 1 \in 1..Len(s)
      BY <1>1, <1>3, <2>1
    <3>2. u[i] = s[i] /\ u[i + 1] = s[i + 1]
      BY <1>2, <3>1
    <3>3. s[i + 1] \in Successors(s[i])
      BY <3>1 DEF Chain
    <3> QED BY <3>2, <3>3
  <2>2. CASE i = Len(s)
    <3>1. u[i] = s[Len(s)] /\ u[i + 1] = t[1]
      BY <1>1, <1>2, <2>2
    <3> QED BY <3>1
  <2>3. CASE i > Len(s)
    <3> DEFINE j == i - Len(s)
    <3>1. j \in 1..(Len(t) - 1) /\ i = Len(s) + j /\ i + 1 = Len(s) + (j + 1)
          /\ j \in 1..Len(t) /\ j + 1 \in 1..Len(t)
      BY <1>1, <1>2, <1>3, <2>3
    <3> HIDE DEF j
    <3>2. u[i] = t[j] /\ u[i + 1] = t[j + 1]
      BY <1>2, <3>1
    <3>3. t[j + 1] \in Successors(t[j])
      BY <3>1 DEF Chain
    <3> QED BY <3>2, <3>3
  <2> QED BY <1>1, <1>2, <2>1, <2>2, <2>3
<1>4. Chain(u)
  BY <1>1, <1>2, <1>3 DEF Chain
<1> QED BY <1>2, <1>4 DEF u

\* A chain from a to z without the client's accesses.
Links(s, a, z) == Chain(s) /\ Plain(s) /\ s[1] = a /\ s[Len(s)] = z

LEMMA LinksConcat ==
  ASSUME NEW s, NEW t, NEW a, NEW b, NEW c, NEW z, Links(s, a, b), Links(t, c, z),
         c \in Successors(b)
  PROVE  Links(s \o t, a, z)
<1> DEFINE u == s \o t
<1>1. /\ Chain(u) /\ Len(u) = Len(s) + Len(t)
      /\ \A i \in 1..Len(s) : u[i] = s[i]
      /\ \A i \in 1..Len(t) : u[Len(s) + i] = t[i]
  BY ChainConcat DEF Links
<1>2. Len(s) \in Nat /\ Len(t) \in Nat /\ Len(s) >= 1 /\ Len(t) >= 1
  BY DEF Links, Chain
<1> HIDE DEF u
<1>3. u[1] = a /\ u[Len(u)] = z
  BY <1>1, <1>2 DEF Links
<1>4. ASSUME NEW i \in 1..Len(u) PROVE u[i] \notin {"cli_read", "cli_write"}
  <2>1. CASE i \in 1..Len(s)
    BY <1>1, <2>1 DEF Links, Plain
  <2>2. CASE i \notin 1..Len(s)
    <3>1. i - Len(s) \in 1..Len(t) /\ i = Len(s) + (i - Len(s))
      BY <1>1, <1>2, <1>4, <2>2
    <3> QED BY <1>1, <3>1 DEF Links, Plain
  <2> QED BY <2>1, <2>2
<1>5. Plain(u)
  BY <1>4 DEF Plain
<1> QED BY <1>1, <1>3, <1>5 DEF Links, u

LEMMA OneStep ==
  ASSUME NEW a \in Steps, a \notin {"cli_read", "cli_write"}
  PROVE  Links(<<a>>, a, a)
<1>1. <<a>> \in Seq(Steps) /\ Len(<<a>>) = 1 /\ <<a>>[1] = a
  OBVIOUS
<1> QED BY <1>1 DEF Links, Chain, Plain

LEMMA EditLinks == Links(Edit, "read_config", "write_config")
<1>1. /\ "read_config" \in Steps /\ "cut_config" \in Steps /\ "write_config" \in Steps
  BY DEF Steps
<1>2. Edit \in Seq(Steps) /\ Len(Edit) = 3
      /\ Edit[1] = "read_config" /\ Edit[2] = "cut_config" /\ Edit[3] = "write_config"
  BY <1>1 DEF Edit
<1>3. Edit[2] \in Successors(Edit[1]) /\ Edit[3] \in Successors(Edit[2])
  BY <1>2 DEF Successors
<1>4. \A i \in 1..3 : i = 1 \/ i = 2 \/ i = 3
  OBVIOUS
<1>5. Chain(Edit)
  BY <1>2, <1>3, <1>4 DEF Chain
<1>6. Plain(Edit)
  BY <1>2, <1>4 DEF Plain
<1> QED BY <1>2, <1>5, <1>6 DEF Links

LEMMA SaveLinks == Links(Save, "request", "store")
<1>1. /\ "request" \in Steps /\ "merge" \in Steps /\ "truncate" \in Steps
      /\ "write" \in Steps /\ "load" \in Steps /\ "store" \in Steps
  BY DEF Steps
<1>2. Save \in Seq(Steps) /\ Len(Save) = 6
      /\ Save[1] = "request" /\ Save[2] = "merge" /\ Save[3] = "truncate"
      /\ Save[4] = "write" /\ Save[5] = "load" /\ Save[6] = "store"
  BY <1>1 DEF Save
<1>3. /\ Save[2] \in Successors(Save[1]) /\ Save[3] \in Successors(Save[2])
      /\ Save[4] \in Successors(Save[3]) /\ Save[5] \in Successors(Save[4])
      /\ Save[6] \in Successors(Save[5])
  BY <1>2 DEF Successors
<1>4. \A i \in 1..6 : i = 1 \/ i = 2 \/ i = 3 \/ i = 4 \/ i = 5 \/ i = 6
  OBVIOUS
<1>5. Chain(Save)
  BY <1>2, <1>3, <1>4 DEF Chain
<1>6. Plain(Save)
  BY <1>2, <1>4 DEF Plain
<1> QED BY <1>2, <1>5, <1>6 DEF Links

LEMMA TwoSteps ==
  ASSUME NEW a \in Steps, NEW b \in Steps, b \in Successors(a),
         {a, b} \cap {"cli_read", "cli_write"} = {}
  PROVE  Links(<<a, b>>, a, b)
<1> DEFINE s == <<a, b>>
<1>1. s \in Seq(Steps) /\ Len(s) = 2 /\ s[1] = a /\ s[2] = b
  OBVIOUS
<1>2. \A i \in 1..2 : i = 1 \/ i = 2
  OBVIOUS
<1> HIDE DEF s
<1>3. s[2] \in Successors(s[1]) /\ \A i \in 1..(2 - 1) : i = 1 /\ i + 1 = 2
  BY <1>1
<1>4. Chain(s)
  BY <1>1, <1>3 DEF Chain
<1>5. a \notin {"cli_read", "cli_write"} /\ b \notin {"cli_read", "cli_write"}
  OBVIOUS
<1>6. Plain(s)
  BY <1>1, <1>2, <1>5 DEF Plain
<1>7. Links(s, a, b)
  BY <1>1, <1>4, <1>6 DEF Links
<1> QED BY <1>7 DEF s

LEMMA ThreeSteps ==
  ASSUME NEW a \in Steps, NEW b \in Steps, NEW c \in Steps,
         b \in Successors(a), c \in Successors(b),
         {a, b, c} \cap {"cli_read", "cli_write"} = {}
  PROVE  Links(<<a, b, c>>, a, c)
<1> DEFINE s == <<a, b, c>>
<1>1. s \in Seq(Steps) /\ Len(s) = 3 /\ s[1] = a /\ s[2] = b /\ s[3] = c
  OBVIOUS
<1>2. \A i \in 1..3 : i = 1 \/ i = 2 \/ i = 3
  OBVIOUS
<1> HIDE DEF s
<1>3. /\ s[2] \in Successors(s[1]) /\ s[3] \in Successors(s[2])
      /\ \A i \in 1..(3 - 1) : (i = 1 /\ i + 1 = 2) \/ (i = 2 /\ i + 1 = 3)
  BY <1>1
<1>4. Chain(s)
  BY <1>1, <1>3 DEF Chain
<1>5. /\ a \notin {"cli_read", "cli_write"} /\ b \notin {"cli_read", "cli_write"}
      /\ c \notin {"cli_read", "cli_write"}
  OBVIOUS
<1>6. Plain(s)
  BY <1>1, <1>2, <1>5 DEF Plain
<1>7. Links(s, a, c)
  BY <1>1, <1>4, <1>6 DEF Links
<1> QED BY <1>7 DEF s

\* set_mode, and what follows a start of Mihomo.
LEMMA SetModeLinks == Links(SetMode, "read_config", "patch_mode")
<1>1. "request" \in Successors("write_config") /\ "patch_mode" \in Successors("store")
  BY DEF Successors
<1>2. Links(Edit \o Save, "read_config", "store")
  BY <1>1, EditLinks, SaveLinks, LinksConcat
<1>3. Links(<<"patch_mode">>, "patch_mode", "patch_mode")
  BY OneStep DEF Steps
<1> QED BY <1>1, <1>2, <1>3, LinksConcat DEF SetMode

LEMMA StartedLinks == Links(Started, "resume", "allow_lan")
<1>1. /\ "restore" \in Successors("resume") /\ "read_config" \in Successors("restore")
      /\ "allow_lan" \in Successors("patch_mode")
  BY DEF Successors
<1>2. Links(<<"resume", "restore">>, "resume", "restore")
  BY <1>1, TwoSteps DEF Steps
<1>3. Links(<<"resume", "restore">> \o SetMode, "resume", "patch_mode")
  BY <1>1, <1>2, SetModeLinks, LinksConcat
<1>4. Links(<<"allow_lan">>, "allow_lan", "allow_lan")
  BY OneStep DEF Steps
<1> QED BY <1>1, <1>3, <1>4, LinksConcat DEF Started

\* Where an operation begins.
First(op) ==
  CASE op \in {"put", "auth", "rules", "provider"}   -> "request"
    [] op \in {"dns", "ports", "tun", "mode"}        -> "read_config"
    [] op = "activate"                               -> "overrides"
    [] op = "start"                                  -> "spawn"
    [] op = "boot"                                   -> "resume"
    [] op = "test"                                   -> "snapshot"
    [] OTHER                                         -> "cli_read"

ClientOps == {"cli_mode", "cli_select"}

LEMMA PlanLinks ==
  ASSUME NEW op \in (Operations \cup {"boot", "test"}) \ ClientOps
  PROVE  \E z \in {"reply", "finish"} : Links(Plan(op), First(op), z)
<1>s. /\ "reply" \in Steps /\ "spawn" \in Steps /\ "request" \in Steps /\ "rename" \in Steps
      /\ "merge" \in Steps /\ "truncate" \in Steps /\ "write" \in Steps
      /\ "overrides" \in Steps /\ "read_config" \in Steps /\ "rename_config" \in Steps
      /\ "record" \in Steps /\ "snapshot" \in Steps /\ "finish" \in Steps
  BY DEF Steps
<1>n. /\ "reply" \in Successors("store") /\ "reply" \in Successors("allow_lan")
      /\ "reply" \in Successors("patch_mode") /\ "reply" \in Successors("rename")
      /\ "reply" \in Successors("write") /\ "spawn" \in Successors("store")
      /\ "request" \in Successors("write_config") /\ "resume" \in Successors("spawn")
      /\ "resume" \in Successors("record") /\ "record" \in Successors("spawn")
      /\ "rename" \in Successors("request") /\ "merge" \in Successors("request")
      /\ "truncate" \in Successors("merge") /\ "write" \in Successors("truncate")
      /\ "read_config" \in Successors("overrides")
      /\ "rename_config" \in Successors("read_config") /\ "request" \in Successors("rename_config")
      /\ "spawn" \in Successors("rename") /\ "finish" \in Successors("snapshot")
  BY DEF Successors
<1>r. Links(<<"reply">>, "reply", "reply")
  BY <1>s, OneStep
<1>1. CASE op \in {"put", "auth"}
  <2>1. Plan(op) = Save \o <<"reply">> /\ First(op) = "request"
    BY <1>1 DEF Plan, First
  <2> QED BY <1>n, <1>r, <2>1, SaveLinks, LinksConcat
<1>2. CASE op = "dns"
  <2>1. Plan(op) = Edit \o Save \o <<"reply">> /\ First(op) = "read_config"
    BY <1>2 DEF Plan, First
  <2>2. Links(Edit \o Save, "read_config", "store")
    BY <1>n, EditLinks, SaveLinks, LinksConcat
  <2> QED BY <1>n, <1>r, <2>1, <2>2, LinksConcat
<1>3. CASE op \in {"ports", "tun"}
  <2>1. Plan(op) = Edit \o Save \o Restart \o <<"reply">> /\ First(op) = "read_config"
    BY <1>3 DEF Plan, First
  <2>2. Links(Edit \o Save, "read_config", "store")
    BY <1>n, EditLinks, SaveLinks, LinksConcat
  <2>3. Links(<<"spawn">>, "spawn", "spawn")
    BY <1>s, OneStep
  <2>4. Links(Restart, "spawn", "allow_lan")
    BY <1>n, <2>3, StartedLinks, LinksConcat DEF Restart
  <2>5. Links(Edit \o Save \o Restart, "read_config", "allow_lan")
    BY <1>n, <2>2, <2>4, LinksConcat
  <2> QED BY <1>n, <1>r, <2>1, <2>5, LinksConcat
<1>4. CASE op = "mode"
  <2>1. Plan(op) = SetMode \o <<"reply">> /\ First(op) = "read_config"
    BY <1>4 DEF Plan, ModePlan, First
  <2> QED BY <1>n, <1>r, <2>1, SetModeLinks, LinksConcat
<1>5. CASE op = "rules"
  <2>1. Plan(op) = <<"request", "rename", "reply">> /\ First(op) = "request"
    BY <1>5 DEF Plan, RulesPlan, First
  <2> QED BY <1>s, <1>n, <2>1, ThreeSteps
<1>6. CASE op = "provider"
  <2> DEFINE s == <<"request", "merge", "truncate", "write", "reply">>
  <2>1. Plan(op) = s /\ First(op) = "request"
    BY <1>6 DEF Plan, ProviderPlan, First
  <2>2. /\ s \in Seq(Steps) /\ Len(s) = 5 /\ s[1] = "request" /\ s[2] = "merge"
        /\ s[3] = "truncate" /\ s[4] = "write" /\ s[5] = "reply"
    BY <1>s
  <2>3. \A i \in 1..5 : i = 1 \/ i = 2 \/ i = 3 \/ i = 4 \/ i = 5
    OBVIOUS
  <2> HIDE DEF s
  <2>4. Chain(s) /\ Plain(s)
    BY <1>n, <2>2, <2>3 DEF Chain, Plain
  <2>5. Links(s, "request", "reply")
    BY <2>2, <2>4 DEF Links
  <2> QED BY <2>1, <2>5
<1>7. CASE op = "activate"
  <2> DEFINE s == <<"overrides", "read_config", "rename_config", "request", "rename", "spawn">>
  <2>1. Plan(op) = s \o Started \o <<"reply">> /\ First(op) = "overrides"
    BY <1>7 DEF Plan, ActivatePlan, First
  <2>2. /\ s \in Seq(Steps) /\ Len(s) = 6 /\ s[1] = "overrides" /\ s[2] = "read_config"
        /\ s[3] = "rename_config" /\ s[4] = "request" /\ s[5] = "rename" /\ s[6] = "spawn"
    BY <1>s
  <2>3. \A i \in 1..6 : i = 1 \/ i = 2 \/ i = 3 \/ i = 4 \/ i = 5 \/ i = 6
    OBVIOUS
  <2> HIDE DEF s
  <2>4. Chain(s) /\ Plain(s)
    BY <1>n, <2>2, <2>3 DEF Chain, Plain
  <2>5. Links(s, "overrides", "spawn")
    BY <2>2, <2>4 DEF Links
  <2>6. Links(s \o Started, "overrides", "allow_lan")
    BY <1>n, <2>5, StartedLinks, LinksConcat
  <2> QED BY <1>n, <1>r, <2>1, <2>6, LinksConcat
<1>8. CASE op = "start"
  <2>1. Plan(op) = <<"spawn", "record">> \o Started \o <<"reply">> /\ First(op) = "spawn"
    BY <1>8 DEF Plan, StartPlan, First
  <2>2. Links(<<"spawn", "record">>, "spawn", "record")
    BY <1>s, <1>n, TwoSteps
  <2>3. Links(<<"spawn", "record">> \o Started, "spawn", "allow_lan")
    BY <1>n, <2>2, StartedLinks, LinksConcat
  <2> QED BY <1>n, <1>r, <2>1, <2>3, LinksConcat
<1>9. CASE op = "boot"
  <2>1. Plan(op) = Started \o <<"reply">> /\ First(op) = "resume"
    BY <1>9 DEF Plan, First
  <2> QED BY <1>n, <1>r, <2>1, StartedLinks, LinksConcat
<1>10. CASE op = "test"
  <2>1. Plan(op) = <<"snapshot", "finish">> /\ First(op) = "snapshot"
    BY <1>10 DEF Plan, TestPlan, First
  <2> QED BY <1>s, <1>n, <2>1, TwoSteps
<1> QED BY <1>1, <1>2, <1>3, <1>4, <1>5, <1>6, <1>7, <1>8, <1>9, <1>10 DEF Operations, ClientOps

LEMMA LinksWhole ==
  ASSUME NEW s, NEW a, NEW z \in {"reply", "finish"}, Links(s, a, z)
  PROVE  Whole(s) /\ Plain(s) /\ Unwritten(s) /\ Head(s) = a
<1>1. ClientOnce(s) /\ Unwritten(s)
  BY DEF Links, Plain, ClientOnce, Unwritten
<1>2. Head(s) = s[1]
  BY DEF Links, Chain
<1> QED BY <1>1, <1>2 DEF Links, Whole

\* The client reads settings.yaml at p[1] and writes it after p.
LEMMA ClientWhole ==
  ASSUME NEW p, Chain(p), p[1] = "cli_read",
         \A i \in 2..Len(p) : p[i] \notin {"cli_read", "cli_write"},
         "cli_truncate" \in Successors(p[Len(p)]),
         NEW e, NEW b \in {"read_config", "reply"}, Links(e, b, "reply")
  PROVE  Whole(p \o ClientSave \o e) /\ Head(p \o ClientSave \o e) = "cli_read"
<1> DEFINE q == p \o ClientSave
           u == q \o e
<1>1. /\ ClientSave \in Seq(Steps) /\ Len(ClientSave) = 2
      /\ ClientSave[1] = "cli_truncate" /\ ClientSave[2] = "cli_write"
  <2>1. "cli_truncate" \in Steps /\ "cli_write" \in Steps
    BY DEF Steps
  <2> QED BY <2>1 DEF ClientSave
<1>2. /\ "cli_write" \in Successors("cli_truncate")
      /\ b \in Successors("cli_write")
  BY DEF Successors
<1>3. Chain(ClientSave)
  <2>1. \A i \in 1..(2 - 1) : i = 1 /\ i + 1 = 2
    OBVIOUS
  <2> QED BY <1>1, <1>2, <2>1 DEF Chain
<1>4. Len(p) \in Nat /\ Len(p) >= 1 /\ Len(e) \in Nat /\ Len(e) >= 1
  BY DEF Links, Chain
<1>5. /\ Chain(q) /\ Len(q) = Len(p) + 2
      /\ \A i \in 1..Len(p) : q[i] = p[i]
      /\ \A i \in 1..2 : q[Len(p) + i] = ClientSave[i]
  BY <1>1, <1>3, ChainConcat
<1> HIDE DEF q
<1>6. q[Len(p) + 1] = "cli_truncate" /\ q[Len(p) + 2] = "cli_write"
  BY <1>1, <1>5
<1>7. Chain(e) /\ e[1] = b /\ e[Len(e)] = "reply" /\ Plain(e)
  BY DEF Links
<1>8. /\ Chain(u) /\ Len(u) = Len(p) + 2 + Len(e)
      /\ \A i \in 1..(Len(p) + 2) : u[i] = q[i]
      /\ \A i \in 1..Len(e) : u[Len(p) + 2 + i] = e[i]
  <2>1. e[1] \in Successors(q[Len(q)])
    BY <1>2, <1>5, <1>6, <1>7
  <2>c. Chain(q) /\ Chain(e)
    BY <1>5, <1>7
  <2>2. /\ Chain(u) /\ Len(u) = Len(q) + Len(e)
        /\ \A i \in 1..Len(q) : u[i] = q[i]
        /\ \A i \in 1..Len(e) : u[Len(q) + i] = e[i]
    BY ONLY <2>1, <2>c, ChainConcat
  <2> HIDE DEF u
  <2> QED BY <1>5, <2>2
<1> HIDE DEF u
<1>9. ASSUME NEW i \in 1..Len(u)
      PROVE  /\ u[i] = "cli_read" => i = 1
             /\ u[i] = "cli_write" => i = Len(p) + 2
  <2>1. CASE i \in 2..Len(p)
    <3>1. i \in 1..Len(p) /\ i \in 1..(Len(p) + 2)
      BY <1>4, <2>1
    <3>2. u[i] = p[i]
      BY <1>5, <1>8, <3>1
    <3> QED BY <2>1, <3>2
  <2>2. CASE i = 1
    <3>1. u[1] = "cli_read"
      BY <1>4, <1>5, <1>8
    <3> QED BY <2>2, <3>1
  <2>3. CASE i = Len(p) + 1
    <3>1. u[i] = "cli_truncate"
      BY <1>4, <1>6, <1>8, <2>3
    <3> QED BY <3>1
  <2>4. CASE i = Len(p) + 2
    <3>1. u[i] = "cli_write"
      BY <1>4, <1>6, <1>8, <2>4
    <3> QED BY <2>4, <3>1
  <2>5. CASE i > Len(p) + 2
    <3> DEFINE j == i - (Len(p) + 2)
    <3>1. j \in 1..Len(e) /\ i = Len(p) + 2 + j
      BY <1>4, <1>8, <1>9, <2>5
    <3> HIDE DEF j
    <3>2. u[i] = e[j]
      BY <1>8, <3>1
    <3>3. e[j] \notin {"cli_read", "cli_write"}
      BY <1>7, <3>1 DEF Plain
    <3> QED BY <3>2, <3>3
  <2> QED BY <1>4, <1>8, <1>9, <2>1, <2>2, <2>3, <2>4, <2>5
<1>10. ClientOnce(u)
  BY <1>9 DEF ClientOnce
<1>11. u[Len(u)] = "reply"
  <2>1. Len(e) \in 1..Len(e) /\ Len(u) = Len(p) + 2 + Len(e)
    BY <1>4, <1>8
  <2> QED BY <1>7, <1>8, <2>1
<1>12. Whole(u)
  BY <1>8, <1>10, <1>11 DEF Whole
<1>13. Head(u) = "cli_read"
  <2>1. u[1] = "cli_read" /\ u \in Seq(Steps) /\ Len(u) >= 1
    BY <1>4, <1>5, <1>8 DEF Chain
  <2> QED BY <2>1
<1> QED BY <1>12, <1>13 DEF u, q

LEMMA PlanWhole ==
  ASSUME NEW op \in Operations \cup {"boot", "test"}
  PROVE  /\ Whole(Plan(op)) /\ Head(Plan(op)) = First(op)
         /\ op \notin ClientOps => Plain(Plan(op)) /\ Unwritten(Plan(op))
<1>1. CASE op \notin ClientOps
  <2>1. PICK z \in {"reply", "finish"} : Links(Plan(op), First(op), z)
    BY <1>1, PlanLinks
  <2> QED BY <2>1, LinksWhole
<1>2. CASE op = "cli_mode"
  <2> DEFINE p == <<"cli_read">> \o SetMode
             e == <<"read_config", "rename_config", "reply">>
  <2>1. Plan(op) = p \o ClientSave \o e
    BY <1>2 DEF Plan, ClientMode
  <2>2. Links(e, "read_config", "reply")
    <3>1. /\ "rename_config" \in Successors("read_config") /\ "reply" \in Successors("rename_config")
          /\ "read_config" \in Steps /\ "rename_config" \in Steps /\ "reply" \in Steps
      BY DEF Successors, Steps
    <3> QED BY <3>1, ThreeSteps
  <2>3. Chain(<<"cli_read">>) /\ Len(<<"cli_read">>) = 1 /\ <<"cli_read">>[1] = "cli_read"
    <3>1. "cli_read" \in Steps
      BY DEF Steps
    <3> QED BY <3>1 DEF Chain
  <2>4. /\ "read_config" \in Successors("cli_read")
        /\ "cli_truncate" \in Successors("patch_mode")
    BY DEF Successors
  <2>5. /\ Chain(SetMode) /\ Plain(SetMode) /\ Len(SetMode) \in Nat /\ Len(SetMode) >= 1
        /\ SetMode[1] = "read_config" /\ SetMode[Len(SetMode)] = "patch_mode"
    BY SetModeLinks DEF Links, Chain
  <2>6. /\ Chain(p) /\ Len(p) = 1 + Len(SetMode)
        /\ \A i \in 1..1 : p[i] = <<"cli_read">>[i]
        /\ \A i \in 1..Len(SetMode) : p[1 + i] = SetMode[i]
    BY <2>3, <2>4, <2>5, ChainConcat
  <2> HIDE DEF p, e
  <2>7. p[1] = "cli_read" /\ p[Len(p)] = "patch_mode"
    BY <2>3, <2>5, <2>6
  <2>8. ASSUME NEW i \in 2..Len(p) PROVE p[i] \notin {"cli_read", "cli_write"}
    <3>1. i - 1 \in 1..Len(SetMode) /\ i = 1 + (i - 1)
      BY <2>5, <2>6, <2>8
    <3> QED BY <2>5, <2>6, <3>1 DEF Plain
  <2>9. Whole(p \o ClientSave \o e) /\ Head(p \o ClientSave \o e) = "cli_read"
    BY <2>2, <2>4, <2>6, <2>7, <2>8, ClientWhole
  <2> QED BY <1>2, <2>1, <2>9 DEF First, ClientOps
<1>3. CASE op = "cli_select"
  <2> DEFINE p == <<"cli_read", "select">>
             e == <<"reply">>
  <2>1. Plan(op) = p \o ClientSave \o e
    BY <1>3 DEF Plan, ClientSelect
  <2>2. Links(e, "reply", "reply")
    BY OneStep DEF Steps
  <2>3. /\ "select" \in Successors("cli_read") /\ "cli_truncate" \in Successors("select")
        /\ "cli_read" \in Steps /\ "select" \in Steps
    BY DEF Successors, Steps
  <2>4. p \in Seq(Steps) /\ Len(p) = 2 /\ p[1] = "cli_read" /\ p[2] = "select"
    BY <2>3
  <2> HIDE DEF p, e
  <2>5. \A i \in 1..(2 - 1) : i = 1 /\ i + 1 = 2
    OBVIOUS
  <2>6. Chain(p)
    BY <2>3, <2>4, <2>5 DEF Chain
  <2>7. \A i \in 2..Len(p) : p[i] \notin {"cli_read", "cli_write"}
    BY <2>4
  <2>8. Whole(p \o ClientSave \o e) /\ Head(p \o ClientSave \o e) = "cli_read"
    BY <2>2, <2>3, <2>4, <2>6, <2>7, ClientWhole
  <2> QED BY <1>3, <2>1, <2>8 DEF First, ClientOps
<1> QED BY <1>1, <1>2, <1>3 DEF ClientOps

\* What is left after a step.
LEMMA TailIs ==
  ASSUME NEW s, Whole(s), Head(s) \notin {"reply", "finish"}
  PROVE  /\ Whole(Tail(s)) /\ Tail(s) \in Seq(Steps)
         /\ Head(Tail(s)) \in Successors(Head(s))
         /\ Head(Tail(s)) # "cli_read"
         /\ Plain(s) => Plain(Tail(s))
         /\ Unwritten(s) \/ Head(s) = "cli_write" => Unwritten(Tail(s))
<1> DEFINE u == Tail(s)
<1>1. s \in Seq(Steps) /\ Len(s) \in Nat /\ Len(s) >= 1 /\ Head(s) = s[1]
  BY DEF Whole, Chain
<1>2. Len(s) >= 2
  BY <1>1 DEF Whole
<1>3. /\ u \in Seq(Steps) /\ Len(u) = Len(s) - 1
      /\ \A i \in 1..Len(u) : u[i] = s[i + 1]
  BY <1>1, <1>2
<1> HIDE DEF u
<1>4. Len(u) \in Nat /\ Len(u) >= 1 /\ Head(u) = u[1] /\ u[1] = s[2] /\ u[Len(u)] = s[Len(s)]
  BY <1>1, <1>2, <1>3
<1>5. ASSUME NEW i \in 1..(Len(u) - 1) PROVE u[i + 1] \in Successors(u[i])
  <2>1. i + 1 \in 1..(Len(s) - 1) /\ i \in 1..Len(u) /\ i + 1 \in 1..Len(u)
    BY <1>1, <1>3, <1>5
  <2>2. s[(i + 1) + 1] \in Successors(s[i + 1])
    BY <2>1 DEF Whole, Chain
  <2> QED BY <1>3, <2>1, <2>2
<1>6. Chain(u)
  BY <1>3, <1>4, <1>5 DEF Chain
<1>7. ASSUME NEW i \in 1..Len(u) PROVE i + 1 \in 1..Len(s) /\ u[i] = s[i + 1] /\ i + 1 # 1
  BY <1>1, <1>3, <1>7
<1>8. \A i \in 1..Len(u) : u[i] # "cli_read"
  BY <1>7 DEF Whole, ClientOnce
<1>9. ASSUME NEW i \in 1..Len(u), NEW j \in 1..Len(u), u[i] = "cli_write", u[j] = "cli_write" PROVE i = j
  <2>1. i + 1 = j + 1
    BY <1>7, <1>9 DEF Whole, ClientOnce
  <2> QED BY <1>3, <2>1
<1>10. Whole(u)
  BY <1>4, <1>6, <1>8, <1>9 DEF Whole, ClientOnce
<1>11. u[1] \in Successors(s[1])
  <2>1. 1 \in 1..(Len(s) - 1) /\ s[1 + 1] \in Successors(s[1])
    BY <1>1, <1>2 DEF Whole, Chain
  <2> QED BY <1>4, <2>1
<1>12. Plain(s) => Plain(u)
  BY <1>7 DEF Plain
<1>13. Unwritten(s) \/ s[1] = "cli_write" => Unwritten(u)
  <2>1. 1 \in 1..Len(s)
    BY <1>1
  <2> QED BY <1>7, <2>1 DEF Whole, ClientOnce, Unwritten
<1>14. u[1] # "cli_read"
  BY <1>4, <1>8
<1> QED BY <1>1, <1>3, <1>4, <1>10, <1>11, <1>12, <1>13, <1>14 DEF u

-----------------------------------------------------------------------------
(***************************************************************************)
(* The data that the steps read and make.                                  *)
(***************************************************************************)
LEMMA ReadTypes ==
  ASSUME TypeOK
  PROVE  /\ get_settings \in SettingsData /\ ensured \in {Empty} \cup SettingsData
         /\ Client \in SettingsData /\ Ran \in [ConfigKeys \cup {"selected"} -> Options]
<1>1. Default \in Options /\ None \in Options /\ NoFile # Empty
  BY SettingsAssumption DEF Options
<1>2. Nothing \in SettingsData
  BY <1>1 DEF Nothing, SettingsData
<1>3. settings \in {NoFile, Empty} \cup SettingsData /\ config \in {NoFile, Empty} \cup ConfigData
  BY DEF TypeOK, SettingsData, ConfigData
<1>4. get_settings \in SettingsData
  <2>1. [Nothing EXCEPT !["auto"] = Default] \in SettingsData
    BY <1>1, <1>2 DEF SettingsData
  <2>2. settings \in SettingsData => [settings EXCEPT !["selected"] = None] \in SettingsData
    BY <1>1 DEF SettingsData
  <2> QED BY <1>2, <1>3, <2>1, <2>2 DEF get_settings
<1>5. ensured \in {Empty} \cup SettingsData
  BY <1>1, <1>3 DEF ensured, SettingsData
<1>6. Client \in SettingsData
  BY <1>1, <1>3 DEF Client, SettingsData
<1>7. Ran \in [ConfigKeys \cup {"selected"} -> Options]
  BY <1>1, <1>3 DEF Ran, ConfigData
<1> QED BY <1>4, <1>5, <1>6, <1>7

LEMMA LoadedType ==
  ASSUME NEW s \in {NoFile, Empty} \cup SettingsData, NEW m \in [{"api_port", "auto"} -> Values]
  PROVE  loaded(s, m) \in [{"api_port", "auto"} -> Values]
<1>1. "api_port" \in Keys /\ "auto" \in Keys
  BY DEF Keys, Fields
<1>2. ASSUME s \in SettingsData, NEW k \in {"api_port", "auto"}
      PROVE (IF s[k] # None THEN s[k] ELSE m[k]) \in Values
  BY <1>1, <1>2 DEF SettingsData, Options
<1> QED BY <1>2 DEF loaded

LEMMA MergedType ==
  ASSUME NEW n \in SettingsData, NEW o \in SettingsData
  PROVE  merged(n, o) \in SettingsData
BY DEF merged, SettingsData

LEMMA RequestType ==
  ASSUME TypeOK, NEW r \in Task
  PROVE  Request(r) \in SettingsData
<1>1. Default \in Options /\ None \in Options /\ r.value \in Options /\ r.mode \in Options
      /\ memory["api_port"] \in Options
  BY SettingsAssumption DEF Options, Task, TypeOK
<1>2. get_settings \in SettingsData /\ Nothing \in SettingsData
  BY <1>1, ReadTypes DEF Nothing, SettingsData
<1>3. save_mode(r.mode) \in SettingsData
  BY <1>1, <1>2 DEF save_mode, SettingsData
<1>4. put_settings(r.field, r.value) \in SettingsData
  BY <1>1, <1>2 DEF put_settings, SettingsData
<1>5. put_dns_settings(r.value) \in SettingsData
  BY <1>1, <1>2 DEF put_dns_settings, SettingsData
<1>6. apply_port_settings(r.value) \in SettingsData
  BY <1>1, <1>2 DEF apply_port_settings, SettingsData
<1>7. apply_tun_settings(r.value) \in SettingsData
  BY <1>1, <1>2 DEF apply_tun_settings, SettingsData
<1>8. with(r.field, r.value) \in SettingsData
  BY <1>1, <1>2 DEF with, SettingsData
<1> QED BY <1>3, <1>4, <1>5, <1>6, <1>7, <1>8 DEF Request

LEMMA EditedType ==
  ASSUME TypeOK, config # NoFile, NEW r \in Task
  PROVE  Edited(r) \in {Empty} \cup ConfigData
<1>1. None \in Options /\ r.value \in Options /\ r.mode \in Options /\ memory["api_port"] \in Options
  BY DEF Options, Task, TypeOK
<1>2. config # Empty => config \in ConfigData
  BY DEF TypeOK, ConfigData
<1>3. ASSUME config \in ConfigData
      PROVE  /\ update_config_mode(r.mode) \in ConfigData
             /\ update_config_ports(r.value) \in ConfigData
             /\ update_section(r.field, r.value) \in ConfigData
  <2>1. update_config_mode(r.mode) \in ConfigData
    BY <1>1, <1>3 DEF update_config_mode, ConfigData
  <2>2. update_config_ports(r.value) \in ConfigData
    BY <1>1, <1>3 DEF update_config_ports, ConfigData
  <2>3. Section(r.field, r.value) \in Options
    BY <1>1 DEF Section
  <2>4. update_section(r.field, r.value) \in ConfigData
    BY <1>3, <2>3 DEF update_section, ConfigData
  <2> QED BY <2>1, <2>2, <2>4
<1> QED BY <1>2, <1>3 DEF Edited

LEMMA ReplacedType ==
  ASSUME TypeOK, NEW s \in SettingsData
  PROVE  Replaced(s) \in ConfigData
<1>1. "ports" \in Keys /\ "api_port" \in Keys /\ Profile \in ConfigData
  BY SettingsAssumption DEF Keys, Fields, ConfigData, Options
<1>2. s["ports"] \in Options /\ s["api_port"] \in Options
  BY <1>1 DEF SettingsData
<1>3. config \in {NoFile, Empty} \cup ConfigData
  BY DEF TypeOK, ConfigData
<1>4. \A k \in Overrides : config \in ConfigData
  BY <1>3 DEF Overrides
<1>5. ASSUME NEW k \in ConfigKeys
      PROVE  (CASE k \in Overrides -> config[k]
                [] k = "ports" /\ s["ports"] # None -> s["ports"]
                [] k = "api" /\ s["api_host"] # None /\ s["api_port"] # None -> s["api_port"]
                [] OTHER -> Profile[k]) \in Options
  <2>1. Profile[k] \in Options
    BY <1>1 DEF ConfigData
  <2>2. k \in Overrides => config[k] \in Options /\ k # "ports" /\ k # "api"
    BY <1>4 DEF ConfigData, Overrides
  <2> QED BY <1>2, <2>1, <2>2
<1> QED BY <1>5 DEF Replaced, ConfigData

-----------------------------------------------------------------------------
(***************************************************************************)
(* Tasks: what a step leaves of the one that takes it, and of the others.  *)
(***************************************************************************)
After(r) == [r EXCEPT !.todo = Tail(@)]

Placed == task \in [Tasks -> Task \cup {Idle}] /\ TodoInv

LEMMA ActiveTask ==
  ASSUME Typed, NEW t \in Active
  PROVE  t \in Tasks /\ task[t] \in Task /\ Fits(task[t]) /\ phase # "down"
BY DEF Typed, TypeOK, TodoInv, Active

\* A task that has taken its step, when what it now knows is enough for the next.
LEMMA Taken ==
  ASSUME NEW q \in Task, Fits(q), Head(q.todo) \notin {"reply", "finish"},
         NEW r \in Task, r.op = q.op, r.field = q.field, r.todo = q.todo,
         \A s \in Successors(Head(q.todo)) : Ready(r, s),
         \/ r.client \in SettingsData
         \/ Head(q.todo) # "cli_read" /\ r.client = q.client
         \/ Head(q.todo) = "cli_write"
  PROVE  After(r) \in Task /\ Fits(After(r))
<1> DEFINE u == Tail(q.todo)
           n == After(r)
<1>1. /\ Whole(u) /\ u \in Seq(Steps) /\ Head(u) \in Successors(Head(q.todo))
      /\ Head(u) # "cli_read"
      /\ Plain(q.todo) => Plain(u)
      /\ Unwritten(q.todo) \/ Head(q.todo) = "cli_write" => Unwritten(u)
  BY TailIs DEF Fits
<1> HIDE DEF u
<1>2. /\ n.todo = u /\ n.op = r.op /\ n.field = r.field /\ n.value = r.value /\ n.mode = r.mode
      /\ n.data = r.data /\ n.client = r.client
  BY DEF After, Task, u
<1>3. n \in Task
  BY <1>1 DEF After, Task, u
<1> HIDE DEF n
<1>4. Ready(r, Head(u))
  BY <1>1
<1>5. Ready(n, Head(u))
  BY <1>2, <1>4 DEF Ready
<1>6. n.client \in SettingsData \/ Unwritten(n.todo)
  BY <1>1, <1>2 DEF Fits
<1>7. (n.op = "activate" => Plain(n.todo)) /\ (n.op \in {"dns", "ports", "tun"} => n.field = n.op)
  BY <1>1, <1>2 DEF Fits
<1>8. Fits(n)
  BY <1>1, <1>2, <1>5, <1>6, <1>7 DEF Fits
<1> QED BY <1>3, <1>8 DEF n

\* Marking the others as overtaken leaves them in their places.
LEMMA AdvancePlaced ==
  ASSUME Typed, NEW t \in Active, NEW r, After(r) \in Task, Fits(After(r)),
         NEW passed \in SUBSET Active, Advance(t, r, passed)
  PROVE  Placed'
<1>1. task' = [u \in Tasks |-> IF u = t THEN After(r)
                               ELSE IF u \in passed THEN [task[u] EXCEPT !.stale = TRUE]
                               ELSE task[u]]
  BY DEF Advance, After
<1>2. ASSUME NEW u \in Tasks
      PROVE  task'[u] \in Task \cup {Idle} /\ (task'[u] # Idle => Fits(task'[u]))
  <2>1. CASE u = t
    <3>1. task'[u] = After(r)
      BY <1>1, <2>1
    <3> QED BY <3>1
  <2>2. CASE u # t /\ u \in passed
    <3> DEFINE q == task[u]
               n == [q EXCEPT !.stale = TRUE]
    <3>1. q \in Task /\ Fits(q)
      BY <2>2, ActiveTask
    <3>2. task'[u] = n
      BY <1>1, <2>2
    <3> HIDE DEF q
    <3>3. n \in Task /\ n.todo = q.todo /\ n.op = q.op /\ n.field = q.field /\ n.value = q.value
          /\ n.mode = q.mode /\ n.data = q.data /\ n.client = q.client
      BY <3>1 DEF Task
    <3> HIDE DEF n
    <3>4. Fits(n)
      BY <3>1, <3>3 DEF Fits, Ready
    <3> QED BY <3>2, <3>3, <3>4
  <2>3. CASE u # t /\ u \notin passed
    <3>1. task'[u] = task[u] /\ task[u] \in Task \cup {Idle}
      BY <1>1, <2>3 DEF Typed, TypeOK
    <3>2. task[u] # Idle => Fits(task[u])
      BY DEF Typed, TodoInv, Active
    <3> QED BY <3>1, <3>2
  <2> QED BY <2>1, <2>2, <2>3
<1>3. task' \in [Tasks -> Task \cup {Idle}]
  BY <1>1, <1>2
<1>4. TodoInv'
  BY <1>2 DEF TodoInv, Active
<1> QED BY <1>3, <1>4 DEF Placed

LEMMA StepPlaced ==
  ASSUME Typed, NEW t \in Active, NEW r, After(r) \in Task, Fits(After(r)), Step(t, r)
  PROVE  Placed'
BY AdvancePlaced DEF Step

\* One task is given something else to do, or nothing.
LEMMA ExceptPlaced ==
  ASSUME Typed, NEW t \in Tasks, NEW n, n = Idle \/ (n \in Task /\ Fits(n)),
         task' = [task EXCEPT ![t] = n]
  PROVE  Placed'
<1>1. task \in [Tasks -> Task \cup {Idle}]
  BY DEF Typed, TypeOK
<1>2. task' \in [Tasks -> Task \cup {Idle}]
  BY <1>1
<1>3. ASSUME NEW u \in Tasks, task'[u] # Idle PROVE Fits(task'[u])
  <2>1. CASE u = t
    BY <1>1, <1>3, <2>1
  <2>2. CASE u # t
    <3>1. task'[u] = task[u]
      BY <1>1, <2>2
    <3> QED BY <1>3, <3>1 DEF Typed, TodoInv, Active
  <2> QED BY <2>1, <2>2
<1>4. TodoInv'
  BY <1>3 DEF TodoInv, Active
<1> QED BY <1>2, <1>4 DEF Placed

\* A request that goes no further than what is given in s.
LEMMA CutShort ==
  ASSUME NEW q \in Task, Fits(q),
         NEW s \in {<<"reply">>, <<"allow_lan", "reply">>}
  PROVE  [q EXCEPT !.todo = s] \in Task /\ Fits([q EXCEPT !.todo = s])
<1> DEFINE n == [q EXCEPT !.todo = s]
<1>1. "reply" \in Steps /\ "allow_lan" \in Steps /\ "reply" \in Successors("allow_lan")
  BY DEF Steps, Successors
<1>2. PICK a : Links(s, a, "reply") /\ a \in {"reply", "allow_lan"}
  <2>1. Links(<<"reply">>, "reply", "reply")
    BY <1>1, OneStep
  <2>2. Links(<<"allow_lan", "reply">>, "allow_lan", "reply")
    BY <1>1, TwoSteps
  <2> QED BY <2>1, <2>2
<1>3. Whole(s) /\ Plain(s) /\ Unwritten(s) /\ Head(s) = a /\ s \in Seq(Steps)
  BY <1>2, LinksWhole DEF Links, Chain
<1>4. n \in Task /\ n.todo = s /\ n.op = q.op /\ n.field = q.field
  BY <1>3 DEF Task
<1> HIDE DEF n
<1>5. Ready(n, a)
  BY <1>2 DEF Ready
<1>6. Fits(n)
  BY <1>3, <1>4, <1>5 DEF Fits
<1> QED BY <1>4, <1>6 DEF n

LEMMA FailPlaced ==
  ASSUME Typed, NEW t \in Active, Fail(t)
  PROVE  Placed'
<1>1. t \in Tasks /\ task[t] \in Task /\ Fits(task[t])
  BY ActiveTask
<1>2. PICK n : /\ n = [task[t] EXCEPT !.todo = <<"allow_lan", "reply">>] \/ n = Idle
               /\ task' = [task EXCEPT ![t] = n]
  BY DEF Fail
<1>3. n = Idle \/ (n \in Task /\ Fits(n))
  BY <1>1, <1>2, CutShort
<1> QED BY <1>1, <1>2, <1>3, ExceptPlaced

\* A task that begins.
MayBegin(op, field, value) ==
  /\ op \in Operations \cup {"boot", "test"} /\ field \in Keys \cup {"none"} /\ value \in Options
  /\ op \in {"dns", "ports", "tun"} => field = op

LEMMA NewFits ==
  ASSUME NEW op, NEW field, NEW value, MayBegin(op, field, value)
  PROVE  New(op, field, value) \in Task /\ Fits(New(op, field, value))
<1> DEFINE n == New(op, field, value)
           p == Plan(op)
<1>o. op \in Operations \cup {"boot", "test"}
  BY DEF MayBegin
<1>1. /\ Whole(p) /\ Head(p) = First(op)
      /\ op \notin ClientOps => Plain(p) /\ Unwritten(p)
  BY <1>o, PlanWhole
<1>2. p \in Seq(Steps) /\ None \in Options
  BY <1>1 DEF Whole, Chain, Options
<1> HIDE DEF p
<1>3. n \in Task /\ n.todo = p /\ n.op = op /\ n.field = field
  BY <1>2 DEF New, Task, MayBegin, p
<1> HIDE DEF n
<1>4. /\ First(op) \in {"request", "read_config", "overrides", "spawn", "resume", "snapshot", "cli_read"}
      /\ First(op) = "read_config" => op # "activate"
      /\ op \in ClientOps => First(op) = "cli_read"
  BY <1>o DEF First, ClientOps, Operations
<1>5. Ready(n, First(op))
  BY <1>3, <1>4 DEF Ready
<1>6. op = "activate" => op \notin ClientOps
  BY DEF ClientOps
<1>7. Fits(n)
  BY <1>1, <1>3, <1>4, <1>5, <1>6 DEF Fits, MayBegin
<1> QED BY <1>3, <1>7 DEF n

-----------------------------------------------------------------------------
(***************************************************************************)
(* Every step keeps the types.                                             *)
(***************************************************************************)
\* The variables other than the tasks and the phase.
Others ==
  /\ settings \in {NoFile, Empty} \cup SettingsData
  /\ config \in {NoFile, Empty} \cup ConfigData
  /\ memory \in [{"api_port", "auto"} -> Values]
  /\ known \in BOOLEAN /\ tested \in BOOLEAN /\ calm \in BOOLEAN
  /\ mihomo \in {Down} \cup [ConfigKeys \cup {"selected"} -> Options]
  /\ orphan \in Options
  /\ requests \in 0..MaxRequests /\ faults \in 0..MaxFaults
  /\ promise \in [Fields -> Options]
  /\ applied \subseteq {"mode", "ports", "tun", "dns"}

LEMMA TypedIs ==
  Typed <=> /\ Others /\ Placed /\ phase \in {"down", "booting", "up"}
            /\ phase = "down" => \A t \in Tasks : task[t] = Idle
BY DEF Typed, TypeOK, Others, Placed, SettingsData, ConfigData

\* A step of a task that is under way.
LEMMA OwnStep ==
  ASSUME Typed, NEW t \in Active, Placed', Others', phase' = phase \/ phase' = "up"
  PROVE  Typed'
<1>1. phase \in {"down", "booting", "up"} /\ phase # "down"
  BY ActiveTask, TypedIs
<1>2. phase' \in {"down", "booting", "up"} /\ phase' # "down"
  BY <1>1
<1> QED BY <1>2 DEF Typed, TypeOK, Others, Placed, SettingsData, ConfigData

LEMMA PatchType ==
  ASSUME Others, NEW k, NEW v \in Options, Patch(k, v)
  PROVE  mihomo' \in {Down} \cup [ConfigKeys \cup {"selected"} -> Options]
<1>1. CASE OwnAnswers
  <2>1. mihomo \in [ConfigKeys \cup {"selected"} -> Options]
    BY <1>1 DEF OwnAnswers, Others
  <2>2. mihomo' = [mihomo EXCEPT ![k] = v]
    BY <1>1 DEF Patch
  <2> QED BY <2>1, <2>2
<1>2. CASE ~OwnAnswers
  BY <1>2 DEF Patch, Others
<1> QED BY <1>1, <1>2

LEMMA ReadConfigTyped ==
  ASSUME Typed, NEW t \in Tasks, ReadConfig(t)
  PROVE  Typed'
<1> DEFINE q == task[t]
<1>1. t \in Active /\ q \in Task /\ Fits(q) /\ Head(q.todo) = "read_config" /\ TypeOK
  BY ActiveTask DEF ReadConfig, At, Typed
<1>2. Others'
  BY TypedIs DEF ReadConfig, Others, daemon, process, budget, history
<1>3. Placed'
  <2>1. CASE config = NoFile /\ ~Switching(t)
    BY <1>1, <2>1, FailPlaced DEF ReadConfig
  <2>2. CASE ~(config = NoFile /\ ~Switching(t))
    <3> DEFINE d == IF Switching(t) THEN Replaced(q.data) ELSE Edited(q)
               r == Reads(t, d, ConfigTorn(t))
    <3>1. d \in {Empty} \cup ConfigData
      <4>1. CASE Switching(t)
        <5>1. q.data \in SettingsData
          BY <1>1, <4>1 DEF Fits, Ready, Switching
        <5>2. Replaced(q.data) \in ConfigData
          BY <1>1, <5>1, ReplacedType
        <5> QED BY <4>1, <5>2
      <4>2. CASE ~Switching(t)
        BY <1>1, <2>2, <4>2, EditedType
      <4> QED BY <4>1, <4>2
    <3>2. Step(t, r)
      BY <2>2 DEF ReadConfig
    <3> HIDE DEF d
    <3>3. r \in Task /\ r.op = q.op /\ r.field = q.field /\ r.todo = q.todo /\ r.data = d
          /\ r.client = q.client
      <4>1. (ConfigTorn(t) \/ (q.stale /\ (q.client # None \/ Switching(t)))) \in BOOLEAN
        BY <1>1 DEF ConfigTorn, Switching, Task
      <4> QED BY <1>1, <3>1, <4>1 DEF Reads, Task, ConfigData
    <3> HIDE DEF r
    <3>4. Successors("read_config") = {"cut_config", "rename_config"}
      BY DEF Successors
    <3>5. \A s \in Successors(Head(q.todo)) : Ready(r, s)
      BY <1>1, <3>1, <3>3, <3>4 DEF Ready
    <3>6. After(r) \in Task /\ Fits(After(r))
      BY <1>1, <3>3, <3>5, Taken
    <3> QED BY <1>1, <3>2, <3>6, StepPlaced
  <2> QED BY <2>1, <2>2
<1> QED BY <1>1, <1>2, <1>3, OwnStep DEF ReadConfig, daemon

\* A step after which a task knows what it knew.
LEMMA SameReady ==
  ASSUME NEW q \in Task, Fits(q), Head(q.todo) \notin {"reply", "finish", "cli_read"},
         \A s \in Successors(Head(q.todo)) : Ready(q, s)
  PROVE  After(q) \in Task /\ Fits(After(q))
BY Taken

LEMMA CutConfigTyped ==
  ASSUME Typed, NEW t \in Tasks, CutConfig(t)
  PROVE  Typed'
<1> DEFINE q == task[t]
<1>1. t \in Active /\ q \in Task /\ Fits(q) /\ Head(q.todo) = "cut_config" /\ TypeOK
  BY ActiveTask DEF CutConfig, At, Typed
<1>2. Others'
  BY TypedIs DEF CutConfig, Others, daemon, process, budget, history
<1>3. Successors("cut_config") = {"write_config"}
  BY DEF Successors
<1>4. \A s \in Successors(Head(q.todo)) : Ready(q, s)
  BY <1>1, <1>3 DEF Fits, Ready
<1>5. After(q) \in Task /\ Fits(After(q))
  BY <1>1, <1>4, SameReady
<1>6. Placed'
  BY <1>1, <1>5, StepPlaced DEF CutConfig
<1> QED BY <1>1, <1>2, <1>6, OwnStep DEF CutConfig, daemon

LEMMA WriteConfigTyped ==
  ASSUME Typed, NEW t \in Tasks, WriteConfig(t)
  PROVE  Typed'
<1> DEFINE q == task[t]
<1>1. t \in Active /\ q \in Task /\ Fits(q) /\ Head(q.todo) \in {"write_config", "rename_config"}
      /\ TypeOK
  BY ActiveTask DEF WriteConfig, At, Typed
<1>2. q.data \in {Empty} \cup ConfigData
  BY <1>1 DEF Fits, Ready
<1>3. calm' \in BOOLEAN
  BY <1>1 DEF WriteConfig, Overtaken, TypeOK, Task
<1>4. Others'
  BY <1>2, <1>3, TypedIs DEF WriteConfig, Others, daemon, process, budget
<1>5. \A s \in Successors(Head(q.todo)) : s \in {"request", "reply"}
  BY <1>1 DEF Successors
<1>6. \A s \in Successors(Head(q.todo)) : Ready(q, s)
  BY <1>5 DEF Ready
<1>7. After(q) \in Task /\ Fits(After(q))
  BY <1>1, <1>6, SameReady
<1>8. HoldsConfig \ {t} \in SUBSET Active
  BY DEF HoldsConfig
<1>9. Placed'
  BY <1>1, <1>7, <1>8, AdvancePlaced DEF WriteConfig
<1> QED BY <1>1, <1>4, <1>9, OwnStep DEF WriteConfig, daemon

LEMMA ReadSettingsTyped ==
  ASSUME Typed, NEW t \in Tasks, ReadSettings(t)
  PROVE  Typed'
<1> DEFINE q == task[t]
<1>1. t \in Active /\ q \in Task /\ Fits(q) /\ TypeOK
      /\ Head(q.todo) \in {"request", "overrides", "cli_read"}
  BY ActiveTask DEF ReadSettings, At, Typed
<1>2. Others'
  BY TypedIs DEF ReadSettings, Others, daemon, process, budget, history
<1>3. SettingsTorn(t) \in BOOLEAN
      /\ (SettingsTorn(t) \/ (q.stale /\ (q.client # None \/ Switching(t)))) \in BOOLEAN
  BY <1>1 DEF SettingsTorn, Switching, Task
<1>4. get_settings \in SettingsData /\ Client \in SettingsData /\ Request(q) \in SettingsData
  BY <1>1, ReadTypes, RequestType
<1>5. CASE Head(q.todo) \in {"request", "overrides"}
  <2>1. PICK d \in SettingsData : Step(t, Reads(t, d, SettingsTorn(t)))
    BY <1>4, <1>5 DEF ReadSettings, At
  <2> DEFINE r == Reads(t, d, SettingsTorn(t))
  <2>2. r \in Task /\ r.op = q.op /\ r.field = q.field /\ r.todo = q.todo /\ r.data = d
        /\ r.client = q.client
    BY <1>1, <1>3 DEF Reads, Task, SettingsData
  <2>3. Step(t, r)
    BY <2>1
  <2> HIDE DEF r
  <2>4. \A s \in Successors(Head(q.todo)) : s \in {"merge", "rename", "read_config"}
    BY <1>5 DEF Successors
  <2>5. \A s \in Successors(Head(q.todo)) : Ready(r, s)
    BY <2>2, <2>4 DEF Ready
  <2>6. After(r) \in Task /\ Fits(After(r))
    BY <1>1, <1>5, <2>2, <2>5, Taken
  <2>7. Placed'
    BY <1>1, <2>3, <2>6, StepPlaced
  <2> QED BY <1>1, <1>2, <2>7, OwnStep DEF ReadSettings, daemon
<1>6. CASE Head(q.todo) = "cli_read"
  <2> DEFINE r == [q EXCEPT !.client = Client, !.stale = SettingsTorn(t)]
  <2>1. Step(t, r)
    BY <1>6 DEF ReadSettings, At
  <2>2. r \in Task /\ r.op = q.op /\ r.field = q.field /\ r.todo = q.todo
        /\ r.client \in SettingsData
    BY <1>1, <1>3, <1>4 DEF Task, SettingsData
  <2> HIDE DEF r
  <2>3. q.op # "activate"
    <3>1. q.todo \in Seq(Steps) /\ Len(q.todo) >= 1 /\ 1 \in 1..Len(q.todo) /\ q.todo[1] = "cli_read"
      BY <1>1, <1>6 DEF Fits, Whole, Chain
    <3> QED BY <1>1, <3>1 DEF Fits, Plain
  <2>4. \A s \in Successors(Head(q.todo)) : s \in {"read_config", "select"}
    BY <1>6 DEF Successors
  <2>5. \A s \in Successors(Head(q.todo)) : Ready(r, s)
    BY <2>2, <2>3, <2>4 DEF Ready
  <2>6. After(r) \in Task /\ Fits(After(r))
    BY <1>1, <1>6, <2>2, <2>5, Taken
  <2>7. Placed'
    BY <1>1, <2>1, <2>6, StepPlaced
  <2> QED BY <1>1, <1>2, <2>7, OwnStep DEF ReadSettings, daemon
<1> QED BY <1>1, <1>5, <1>6

LEMMA MergeSettingsTyped ==
  ASSUME Typed, NEW t \in Tasks, MergeSettings(t)
  PROVE  Typed'
<1> DEFINE q == task[t]
           d == merged(q.data, get_settings)
           r == [q EXCEPT !.data = d, !.stale = @ \/ SettingsTorn(t)]
<1>1. t \in Active /\ q \in Task /\ Fits(q) /\ Head(q.todo) = "merge" /\ TypeOK /\ Others
  BY ActiveTask, TypedIs DEF MergeSettings, At, Typed
<1>2. q.data \in SettingsData
  BY <1>1 DEF Fits, Ready
<1>3. d \in SettingsData
  BY <1>1, <1>2, ReadTypes, MergedType
<1>4. mihomo' \in {Down} \cup [ConfigKeys \cup {"selected"} -> Options]
  <2>1. q.data["lan"] \in Options
    BY <1>2 DEF SettingsData, Keys, Fields
  <2>2. Patch("lan", q.data["lan"]) \/ mihomo' = mihomo
    BY DEF MergeSettings
  <2> QED BY <1>1, <2>1, <2>2, PatchType DEF Others
<1>5. Others'
  BY <1>1, <1>4 DEF MergeSettings, Others, daemon, budget, history
<1>6. Step(t, r)
  BY DEF MergeSettings
<1> HIDE DEF d
<1>7. r \in Task /\ r.op = q.op /\ r.field = q.field /\ r.todo = q.todo /\ r.data = d
      /\ r.client = q.client
  BY <1>1, <1>3 DEF Task, SettingsData, SettingsTorn
<1> HIDE DEF r
<1>8. Successors("merge") = {"truncate"}
  BY DEF Successors
<1>9. \A s \in Successors(Head(q.todo)) : Ready(r, s)
  BY <1>1, <1>3, <1>7, <1>8 DEF Ready
<1>10. After(r) \in Task /\ Fits(After(r))
  BY <1>1, <1>7, <1>9, Taken
<1>11. Placed'
  BY <1>1, <1>6, <1>10, StepPlaced
<1> QED BY <1>1, <1>5, <1>11, OwnStep DEF MergeSettings, daemon

LEMMA TruncateSettingsTyped ==
  ASSUME Typed, NEW t \in Tasks, TruncateSettings(t)
  PROVE  Typed'
<1> DEFINE q == task[t]
<1>1. t \in Active /\ q \in Task /\ Fits(q) /\ Head(q.todo) \in {"truncate", "cli_truncate"}
      /\ TypeOK
  BY ActiveTask DEF TruncateSettings, At, Typed
<1>2. Others'
  BY TypedIs DEF TruncateSettings, Others, daemon, process, budget, history
<1>3. Successors("truncate") = {"write"} /\ Successors("cli_truncate") = {"cli_write"}
  BY DEF Successors
<1>4. \A s \in Successors(Head(q.todo)) : Ready(q, s)
  BY <1>1, <1>3 DEF Fits, Ready
<1>5. After(q) \in Task /\ Fits(After(q))
  BY <1>1, <1>4, SameReady
<1>6. Placed'
  BY <1>1, <1>5, StepPlaced DEF TruncateSettings
<1> QED BY <1>1, <1>2, <1>6, OwnStep DEF TruncateSettings, daemon

LEMMA WriteSettingsTyped ==
  ASSUME Typed, NEW t \in Tasks, WriteSettings(t)
  PROVE  Typed'
<1> DEFINE q == task[t]
<1>1. t \in Active /\ q \in Task /\ Fits(q) /\ Head(q.todo) \in {"write", "rename"} /\ TypeOK
  BY ActiveTask DEF WriteSettings, At, Typed
<1>2. q.data \in SettingsData
  BY <1>1 DEF Fits, Ready
<1>3. calm' \in BOOLEAN
  BY <1>1 DEF WriteSettings, Overtaken, TypeOK, Task
<1>4. Others'
  BY <1>2, <1>3, TypedIs DEF WriteSettings, Others, daemon, process, budget
<1>5. \A s \in Successors(Head(q.todo)) : s \in {"load", "spawn", "reply"}
  BY <1>1 DEF Successors
<1>6. \A s \in Successors(Head(q.todo)) : Ready(q, s)
  BY <1>5 DEF Ready
<1>7. After(q) \in Task /\ Fits(After(q))
  BY <1>1, <1>6, SameReady
<1>8. HoldsSettings \ {t} \in SUBSET Active
  BY DEF HoldsSettings
<1>9. Placed'
  BY <1>1, <1>7, <1>8, AdvancePlaced DEF WriteSettings
<1> QED BY <1>1, <1>4, <1>9, OwnStep DEF WriteSettings, daemon

LEMMA WriteClientTyped ==
  ASSUME Typed, NEW t \in Tasks, WriteClient(t)
  PROVE  Typed'
<1> DEFINE q == task[t]
           r == [q EXCEPT !.client = None]
<1>1. t \in Active /\ q \in Task /\ Fits(q) /\ Head(q.todo) = "cli_write" /\ TypeOK
  BY ActiveTask DEF WriteClient, At, Typed
<1>2. q.client \in SettingsData
  <2>1. q.todo \in Seq(Steps) /\ Len(q.todo) >= 1 /\ 1 \in 1..Len(q.todo) /\ q.todo[1] = "cli_write"
    BY <1>1 DEF Fits, Whole, Chain
  <2> QED BY <1>1, <2>1 DEF Fits, Unwritten
<1>3. settings' \in SettingsData
  BY <1>1, <1>2 DEF WriteClient, SettingsData, Task
<1>4. calm' \in BOOLEAN
  BY <1>1 DEF WriteClient, Overtaken, TypeOK, Task
<1>5. promise' \in [Fields -> Options] /\ applied' \subseteq {"mode", "ports", "tun", "dns"}
  BY <1>1 DEF WriteClient, TypeOK, Options
<1>6. Others'
  BY <1>3, <1>4, <1>5, TypedIs DEF WriteClient, Others, daemon, process, budget
<1>7. r \in Task /\ r.op = q.op /\ r.field = q.field /\ r.todo = q.todo /\ r.mode = q.mode
  BY <1>1 DEF Task
<1>8. Advance(t, r, HoldsSettings \ {t})
  BY DEF WriteClient
<1> HIDE DEF r
<1>9. q.op # "activate"
  <2>1. q.todo \in Seq(Steps) /\ Len(q.todo) >= 1 /\ 1 \in 1..Len(q.todo) /\ q.todo[1] = "cli_write"
    BY <1>1 DEF Fits, Whole, Chain
  <2> QED BY <1>1, <2>1 DEF Fits, Plain
<1>10. Successors("cli_write") = {"read_config", "reply"}
  BY DEF Successors
<1>11. \A s \in Successors(Head(q.todo)) : Ready(r, s)
  BY <1>1, <1>7, <1>9, <1>10 DEF Ready
<1>12. After(r) \in Task /\ Fits(After(r))
  BY <1>1, <1>7, <1>11, Taken
<1>13. HoldsSettings \ {t} \in SUBSET Active
  BY DEF HoldsSettings
<1>14. Placed'
  BY <1>1, <1>8, <1>12, <1>13, AdvancePlaced
<1> QED BY <1>1, <1>6, <1>14, OwnStep DEF WriteClient, daemon

LEMMA LoadSettingsTyped ==
  ASSUME Typed, NEW t \in Tasks, LoadSettings(t)
  PROVE  Typed'
<1> DEFINE q == task[t]
<1>1. t \in Active /\ q \in Task /\ Fits(q) /\ Head(q.todo) \in {"load", "store"} /\ TypeOK /\ Others
  BY ActiveTask, TypedIs DEF LoadSettings, At, Typed
<1>2. CASE Head(q.todo) = "load"
  <2> DEFINE r == Reads(t, settings, SettingsTorn(t))
  <2>1. Step(t, r) /\ UNCHANGED <<memory, calm>>
    BY <1>2 DEF LoadSettings, At
  <2>2. (SettingsTorn(t) \/ (q.stale /\ (q.client # None \/ Switching(t)))) \in BOOLEAN
    BY <1>1 DEF SettingsTorn, Switching, Task
  <2>3. r \in Task /\ r.op = q.op /\ r.field = q.field /\ r.todo = q.todo /\ r.data = settings
        /\ r.client = q.client
    BY <1>1, <2>2 DEF Reads, Task, Others, SettingsData
  <2> HIDE DEF r
  <2>4. Successors("load") = {"store"}
    BY DEF Successors
  <2>5. \A s \in Successors(Head(q.todo)) : Ready(r, s)
    BY <1>1, <1>2, <2>3, <2>4 DEF Ready, Others
  <2>6. After(r) \in Task /\ Fits(After(r))
    BY <1>1, <2>3, <2>5, Taken
  <2>7. Placed'
    BY <1>1, <2>1, <2>6, StepPlaced
  <2>8. Others'
    BY <1>1, <2>1 DEF LoadSettings, Others, process, budget
  <2> QED BY <1>1, <2>7, <2>8, OwnStep DEF LoadSettings
<1>3. CASE Head(q.todo) = "store"
  <2> DEFINE r == [q EXCEPT !.data = None]
  <2>1. /\ memory' = loaded(q.data, memory) /\ Step(t, r) /\ Overtaken(t)
    BY <1>3 DEF LoadSettings, At
  <2>2. q.data \in {NoFile, Empty} \cup SettingsData
    BY <1>1, <1>3 DEF Fits, Ready
  <2>3. memory' \in [{"api_port", "auto"} -> Values] /\ calm' \in BOOLEAN
    BY <1>1, <2>1, <2>2, LoadedType DEF Overtaken, Others, Task
  <2>4. r \in Task /\ r.op = q.op /\ r.field = q.field /\ r.todo = q.todo /\ r.client = q.client
    BY <1>1 DEF Task
  <2> HIDE DEF r
  <2>5. Successors("store") = {"spawn", "patch_mode", "reply"}
    BY DEF Successors
  <2>6. \A s \in Successors(Head(q.todo)) : Ready(r, s)
    BY <1>3, <2>5 DEF Ready
  <2>7. After(r) \in Task /\ Fits(After(r))
    BY <1>1, <2>4, <2>6, Taken
  <2>8. Placed'
    BY <1>1, <2>1, <2>7, StepPlaced
  <2>9. Others'
    BY <1>1, <2>3 DEF LoadSettings, Others, process, budget
  <2> QED BY <1>1, <2>8, <2>9, OwnStep DEF LoadSettings
<1> QED BY <1>1, <1>2, <1>3

LEMMA SpawnTyped ==
  ASSUME Typed, NEW t \in Tasks, Spawn(t)
  PROVE  Typed'
<1> DEFINE q == task[t]
           skips == \/ q.op = "start" /\ mihomo # Down
                    \/ q.op \in {"ports", "tun"} /\ ~known
<1>1. t \in Active /\ q \in Task /\ Fits(q) /\ Head(q.todo) = "spawn" /\ TypeOK /\ Others
  BY ActiveTask, TypedIs DEF Spawn, At, Typed
<1>2. task \in [Tasks -> Task \cup {Idle}]
  BY <1>1 DEF TypeOK
<1>3. CASE skips
  <2>1. /\ task' = [task EXCEPT ![t].todo = <<"reply">>]
        /\ calm' = (calm /\ \A u \in Active : ~At(u, "record"))
        /\ UNCHANGED <<mihomo, known>>
    BY <1>3 DEF Spawn
  <2>2. task' = [task EXCEPT ![t] = [q EXCEPT !.todo = <<"reply">>]]
    BY <1>2, <2>1
  <2>3. [q EXCEPT !.todo = <<"reply">>] \in Task /\ Fits([q EXCEPT !.todo = <<"reply">>])
    BY <1>1, CutShort
  <2>4. Placed'
    BY <2>2, <2>3, ExceptPlaced
  <2>5. Others'
    BY <1>1, <2>1 DEF Spawn, Others, budget
  <2> QED BY <1>1, <2>4, <2>5, OwnStep DEF Spawn
<1>4. CASE ~skips
  <2>1. /\ known' = (known \/ q.op = "activate")
        /\ \/ mihomo' = Ran /\ Step(t, q)
           \/ mihomo' = Down /\ Fail(t)
        /\ calm' = (calm /\ ~ConfigTorn(t))
    BY <1>4 DEF Spawn
  <2>2. mihomo' \in {Down} \cup [ConfigKeys \cup {"selected"} -> Options]
    BY <1>1, <2>1, ReadTypes
  <2>3. known' \in BOOLEAN /\ calm' \in BOOLEAN
    BY <1>1, <2>1 DEF Others
  <2>4. Others'
    BY <1>1, <2>2, <2>3 DEF Spawn, Others, budget
  <2>5. Successors("spawn") = {"record", "resume"}
    BY DEF Successors
  <2>6. \A s \in Successors(Head(q.todo)) : Ready(q, s)
    BY <1>1, <2>5 DEF Ready
  <2>7. After(q) \in Task /\ Fits(After(q))
    BY <1>1, <2>6, SameReady
  <2>8. Placed'
    BY <1>1, <2>1, <2>7, StepPlaced, FailPlaced
  <2> QED BY <1>1, <2>4, <2>8, OwnStep DEF Spawn
<1> QED BY <1>3, <1>4

LEMMA RecordPathTyped ==
  ASSUME Typed, NEW t \in Tasks, RecordPath(t)
  PROVE  Typed'
<1> DEFINE q == task[t]
<1>1. t \in Active /\ q \in Task /\ Fits(q) /\ Head(q.todo) = "record"
  BY ActiveTask DEF RecordPath, At
<1>2. Others'
  BY TypedIs DEF RecordPath, Others, process, budget, history
<1>3. Successors("record") = {"resume"}
  BY DEF Successors
<1>4. \A s \in Successors(Head(q.todo)) : Ready(q, s)
  BY <1>1, <1>3 DEF Ready
<1>5. After(q) \in Task /\ Fits(After(q))
  BY <1>1, <1>4, SameReady
<1>6. Placed'
  BY <1>1, <1>5, StepPlaced DEF RecordPath
<1> QED BY <1>1, <1>2, <1>6, OwnStep DEF RecordPath

LEMMA SelectProxyTyped ==
  ASSUME Typed, NEW t \in Tasks, SelectProxy(t)
  PROVE  Typed'
<1> DEFINE q == task[t]
<1>1. t \in Active /\ q \in Task /\ Fits(q) /\ Head(q.todo) \in {"resume", "select"} /\ Others
  BY ActiveTask, TypedIs DEF SelectProxy, At
<1>2. mihomo' \in {Down} \cup [ConfigKeys \cup {"selected"} -> Options]
  <2>1. PICK v : /\ v = q.value \/ v = None \/ (settings \notin {NoFile, Empty} /\ v = settings["selected"])
                 /\ Patch("selected", v) \/ mihomo' = mihomo
    BY DEF SelectProxy
  <2>2. v \in Options
    BY <1>1, <2>1 DEF Others, SettingsData, Keys, Options, Task
  <2>3. Patch("selected", v) => mihomo' \in {Down} \cup [ConfigKeys \cup {"selected"} -> Options]
    BY <1>1, <2>2, PatchType
  <2> QED BY <1>1, <2>1, <2>3 DEF Others
<1>3. Others'
  BY <1>1, <1>2 DEF SelectProxy, Others, daemon, budget, history
<1>4. \A s \in Successors(Head(q.todo)) : s \in {"restore", "cli_truncate"}
  BY <1>1 DEF Successors
<1>5. \A s \in Successors(Head(q.todo)) : Ready(q, s)
  BY <1>4 DEF Ready
<1>6. After(q) \in Task /\ Fits(After(q))
  BY <1>1, <1>5, SameReady
<1>7. Fail(t) \/ Step(t, q)
  BY DEF SelectProxy
<1>8. Placed'
  BY <1>1, <1>6, <1>7, StepPlaced, FailPlaced
<1> QED BY <1>1, <1>3, <1>8, OwnStep DEF SelectProxy, daemon

LEMMA RestoreModeTyped ==
  ASSUME Typed, NEW t \in Tasks, RestoreMode(t)
  PROVE  Typed'
<1> DEFINE q == task[t]
           v == settings["mode"]
           r == [q EXCEPT !.mode = v]
<1>1. t \in Active /\ q \in Task /\ Fits(q) /\ Head(q.todo) = "restore" /\ Others /\ TypeOK
  BY ActiveTask, TypedIs DEF RestoreMode, At, Typed
<1>2. Others'
  BY <1>1 DEF RestoreMode, Others, daemon, process, budget
<1>3. CASE settings \in {NoFile, Empty} \/ get_settings["mode"] = None
  <2>1. Placed'
    BY <1>1, <1>3, FailPlaced DEF RestoreMode
  <2> QED BY <1>1, <1>2, <2>1, OwnStep DEF RestoreMode, daemon
<1>4. CASE ~(settings \in {NoFile, Empty} \/ get_settings["mode"] = None)
  <2>1. settings \in SettingsData /\ get_settings = [settings EXCEPT !["selected"] = None]
    BY <1>1, <1>4 DEF Others, get_settings
  <2>2. v \in Options /\ v # None
    BY <1>4, <2>1 DEF SettingsData, Keys, Fields
  <2>3. Step(t, r)
    BY <1>4 DEF RestoreMode
  <2> HIDE DEF v
  <2>4. r \in Task /\ r.op = q.op /\ r.field = q.field /\ r.todo = q.todo /\ r.mode = v
        /\ r.client = q.client
    BY <1>1, <2>2 DEF Task
  <2> HIDE DEF r
  <2>5. Successors("restore") = {"read_config"}
    BY DEF Successors
  <2>6. \A s \in Successors(Head(q.todo)) : Ready(r, s)
    BY <1>1, <2>2, <2>4, <2>5 DEF Ready
  <2>7. After(r) \in Task /\ Fits(After(r))
    BY <1>1, <2>4, <2>6, Taken
  <2>8. Placed'
    BY <1>1, <2>3, <2>7, StepPlaced
  <2> QED BY <1>1, <1>2, <2>8, OwnStep DEF RestoreMode, daemon
<1> QED BY <1>3, <1>4

LEMMA PatchModeTyped ==
  ASSUME Typed, NEW t \in Tasks, PatchMode(t)
  PROVE  Typed'
<1> DEFINE q == task[t]
<1>1. t \in Active /\ q \in Task /\ Fits(q) /\ Head(q.todo) = "patch_mode" /\ Others
  BY ActiveTask, TypedIs DEF PatchMode, At
<1>2. mihomo' \in {Down} \cup [ConfigKeys \cup {"selected"} -> Options]
  BY <1>1, PatchType DEF PatchMode, Task
<1>3. promise' \in [Fields -> Options] /\ applied' \subseteq {"mode", "ports", "tun", "dns"}
  BY <1>1 DEF PatchMode, Others, Task
<1>4. Others'
  BY <1>1, <1>2, <1>3 DEF PatchMode, Others, daemon, budget
<1>5. Successors("patch_mode") = {"allow_lan", "cli_truncate", "reply"}
  BY DEF Successors
<1>6. \A s \in Successors(Head(q.todo)) : Ready(q, s)
  BY <1>1, <1>5 DEF Ready
<1>7. After(q) \in Task /\ Fits(After(q))
  BY <1>1, <1>6, SameReady
<1>8. Fail(t) \/ Step(t, q)
  BY DEF PatchMode
<1>9. Placed'
  BY <1>1, <1>7, <1>8, StepPlaced, FailPlaced
<1> QED BY <1>1, <1>4, <1>9, OwnStep DEF PatchMode, daemon

LEMMA PatchLanTyped ==
  ASSUME Typed, NEW t \in Tasks, PatchLan(t)
  PROVE  Typed'
<1> DEFINE q == task[t]
           v == IF config \in {NoFile, Empty} \/ config["lan"] = None THEN Default ELSE config["lan"]
           r == [q EXCEPT !.mode = None, !.data = None]
<1>1. t \in Active /\ q \in Task /\ Fits(q) /\ Head(q.todo) = "allow_lan" /\ Others
  BY ActiveTask, TypedIs DEF PatchLan, At
<1>2. v \in Options
  BY <1>1, SettingsAssumption DEF Others, ConfigData, ConfigKeys, Options
<1>3. Patch("lan", v) /\ Step(t, r)
  BY DEF PatchLan
<1> HIDE DEF v
<1>4. mihomo' \in {Down} \cup [ConfigKeys \cup {"selected"} -> Options]
  BY <1>1, <1>2, <1>3, PatchType
<1>5. Others'
  BY <1>1, <1>4 DEF PatchLan, Others, daemon, budget, history
<1>6. r \in Task /\ r.op = q.op /\ r.field = q.field /\ r.todo = q.todo /\ r.client = q.client
  BY <1>1 DEF Task, Options
<1> HIDE DEF r
<1>7. Successors("allow_lan") = {"reply"}
  BY DEF Successors
<1>8. \A s \in Successors(Head(q.todo)) : Ready(r, s)
  BY <1>1, <1>7 DEF Ready
<1>9. After(r) \in Task /\ Fits(After(r))
  BY <1>1, <1>6, <1>8, Taken
<1>10. Placed'
  BY <1>1, <1>3, <1>9, StepPlaced
<1> QED BY <1>1, <1>5, <1>10, OwnStep DEF PatchLan, daemon

LEMMA ReplyTyped ==
  ASSUME Typed, NEW t \in Tasks, Reply(t)
  PROVE  Typed'
<1> DEFINE q == task[t]
<1>1. t \in Active /\ q \in Task /\ Fits(q) /\ Others
  BY ActiveTask, TypedIs DEF Reply, At
<1>2. promise' \in [Fields -> Options]
  BY <1>1 DEF Reply, Others, Task
<1>3. applied' \subseteq {"mode", "ports", "tun", "dns"}
  <2>1. q.op \in {"dns", "ports", "tun"} => q.field = q.op
    BY <1>1 DEF Fits
  <2> QED BY <1>1, <2>1 DEF Reply, Others
<1>4. Others'
  BY <1>1, <1>2, <1>3 DEF Reply, Others, process, budget
<1>5. task' = [task EXCEPT ![t] = Idle]
  BY DEF Reply
<1>6. Placed'
  BY <1>5, ExceptPlaced
<1> QED BY <1>1, <1>4, <1>6, OwnStep DEF Reply

LEMMA RunAutoTestTyped ==
  ASSUME Typed, NEW t \in Tasks, RunAutoTest(t)
  PROVE  Typed'
<1> DEFINE q == task[t]
<1>1. t \in Active /\ q \in Task /\ Fits(q) /\ Head(q.todo) \in {"snapshot", "finish"} /\ Others
      /\ TypeOK
  BY ActiveTask, TypedIs DEF RunAutoTest, At, Typed
<1>2. CASE Head(q.todo) = "snapshot"
  <2> DEFINE v == get_settings["auto"]
             r == [q EXCEPT !.value = v]
  <2>1. /\ IF v \in {None, Default} \/ mihomo = Down
             THEN task' = [task EXCEPT ![t] = Idle]
             ELSE Step(t, r)
        /\ UNCHANGED memory
    BY <1>2 DEF RunAutoTest, At
  <2>2. v \in Options
    BY <1>1, ReadTypes DEF SettingsData, Keys, Fields
  <2> HIDE DEF v
  <2>3. Others'
    BY <1>1, <2>1 DEF RunAutoTest, Others, process, budget, history
  <2>4. CASE v \in {None, Default} \/ mihomo = Down
    <3>1. Placed'
      BY <2>1, <2>4, ExceptPlaced
    <3> QED BY <1>1, <2>3, <3>1, OwnStep DEF RunAutoTest
  <2>5. CASE ~(v \in {None, Default} \/ mihomo = Down)
    <3>1. Step(t, r) /\ v \in Values
      BY <2>1, <2>2, <2>5 DEF Options
    <3>2. r \in Task /\ r.op = q.op /\ r.field = q.field /\ r.todo = q.todo /\ r.value = v
          /\ r.client = q.client
      BY <1>1, <2>2 DEF Task
    <3> HIDE DEF r
    <3>3. Successors("snapshot") = {"finish"}
      BY DEF Successors
    <3>4. \A s \in Successors(Head(q.todo)) : Ready(r, s)
      BY <1>2, <3>1, <3>2, <3>3 DEF Ready
    <3>5. After(r) \in Task /\ Fits(After(r))
      BY <1>1, <1>2, <3>2, <3>4, Taken
    <3>6. Placed'
      BY <1>1, <3>1, <3>5, StepPlaced
    <3> QED BY <1>1, <2>3, <3>6, OwnStep DEF RunAutoTest
  <2> QED BY <2>4, <2>5
<1>3. CASE Head(q.todo) = "finish"
  <2>1. /\ memory' \in {memory, [memory EXCEPT !["auto"] = q.value]}
        /\ task' = [task EXCEPT ![t] = Idle]
    BY <1>3 DEF RunAutoTest, At
  <2>2. q.value \in Values
    BY <1>1, <1>3 DEF Fits, Ready
  <2>3. memory' \in [{"api_port", "auto"} -> Values]
    BY <1>1, <2>1, <2>2 DEF Others
  <2>4. Others'
    BY <1>1, <2>3 DEF RunAutoTest, Others, process, budget, history
  <2>5. Placed'
    BY <2>1, ExceptPlaced
  <2> QED BY <1>1, <2>4, <2>5, OwnStep DEF RunAutoTest
<1> QED BY <1>1, <1>2, <1>3

\* A step after which the daemon is not down.
LEMMA UpStep ==
  ASSUME Placed', Others', phase' \in {"booting", "up"}
  PROVE  Typed'
BY DEF Typed, TypeOK, Others, Placed, SettingsData, ConfigData

LEMMA AutoTestDueTyped ==
  ASSUME Typed, NEW t \in Tasks, AutoTestDue(t)
  PROVE  Typed'
<1>1. calm' \in BOOLEAN
  BY TypedIs DEF AutoTestDue, Others, Alone
<1>2. Others'
  BY <1>1, TypedIs DEF AutoTestDue, Others, process, budget
<1>3. New("test", "auto", None) \in Task /\ Fits(New("test", "auto", None))
  BY NewFits DEF MayBegin, Keys, Fields, Options
<1>4. Placed'
  BY <1>3, ExceptPlaced DEF AutoTestDue
<1> QED BY <1>2, <1>4, UpStep DEF AutoTestDue

LEMMA BeginTyped ==
  ASSUME Typed, NEW t \in Tasks, NEW r \in Requests, Begin(t, r)
  PROVE  Typed'
<1>1. MayBegin(r.op, r.field, r.value)
  BY SettingsAssumption DEF MayBegin, Options
<1>2. requests' \in 0..MaxRequests
  <2>1. requests \in 0..MaxRequests /\ requests < MaxRequests /\ requests' = requests + 1
    BY TypedIs DEF Begin, Others
  <2> QED BY <2>1, SettingsAssumption
<1>3. calm' \in BOOLEAN
  BY TypedIs DEF Begin, Others, Alone
<1>4. promise' \in [Fields -> Options]
  BY TypedIs DEF Begin, Others, Options
<1>5. Others'
  BY <1>2, <1>3, <1>4, TypedIs DEF Begin, Others, daemon, process
<1>6. New(r.op, r.field, r.value) \in Task /\ Fits(New(r.op, r.field, r.value))
  BY <1>1, NewFits
<1>7. Placed'
  BY <1>6, ExceptPlaced DEF Begin
<1> QED BY <1>5, <1>7, UpStep DEF Begin, daemon

LEMMA BootTyped ==
  ASSUME Typed, NEW t \in Tasks, Boot(t)
  PROVE  Typed'
<1> DEFINE fresh == [api_port |-> Default, auto |-> Default]
<1>1. TypeOK /\ Others /\ Placed
  BY TypedIs DEF Typed
<1>2. ensured \in {Empty} \cup SettingsData /\ Ran \in [ConfigKeys \cup {"selected"} -> Options]
  BY <1>1, ReadTypes
<1>3. fresh \in [{"api_port", "auto"} -> Values]
  BY SettingsAssumption
<1>4. loaded(ensured, fresh) \in [{"api_port", "auto"} -> Values]
  BY <1>2, <1>3, LoadedType
<1>5. settings' = ensured /\ memory' = loaded(ensured, fresh) /\ tested' = FALSE
  BY DEF Boot
<1>6. mihomo' \in {Down} \cup [ConfigKeys \cup {"selected"} -> Options] /\ known' \in BOOLEAN
  BY <1>1, <1>2 DEF Boot, Others
<1>7. Others'
  BY <1>1, <1>2, <1>4, <1>5, <1>6 DEF Boot, Others, budget, history
<1>8. Placed'
  <2>1. CASE UNCHANGED task
    BY <1>1, <2>1 DEF Placed, TodoInv, Active
  <2>2. CASE task' = [task EXCEPT ![t] = New("boot", "none", None)]
    <3>1. New("boot", "none", None) \in Task /\ Fits(New("boot", "none", None))
      BY NewFits DEF MayBegin, Keys, Fields, Options
    <3> QED BY <2>2, <3>1, ExceptPlaced
  <2> QED BY <2>1, <2>2 DEF Boot
<1>9. phase' \in {"booting", "up"}
  BY DEF Boot
<1> QED BY <1>7, <1>8, <1>9, UpStep

LEMMA CrashTyped ==
  ASSUME Typed, Crash
  PROVE  Typed'
<1>1. Others
  BY TypedIs
<1>2. faults' \in 0..MaxFaults
  BY <1>1, SettingsAssumption DEF Crash, Others
<1>3. orphan' \in Options
  <2>1. mihomo # Down => mihomo["api"] \in Options
    BY <1>1 DEF Others, ConfigKeys
  <2> QED BY <1>1, <2>1 DEF Crash, Others
<1>4. promise' \in [Fields -> Options]
  BY <1>1 DEF Crash, Others, Options
<1>5. applied' \subseteq {"mode", "ports", "tun", "dns"}
  BY <1>1 DEF Crash, Others
<1>6. Others'
  BY <1>1, <1>2, <1>3, <1>4, <1>5 DEF Crash, Others
<1>7. /\ task' = [t \in Tasks |-> Idle]
      /\ phase' = "down"
  BY DEF Crash
<1>8. Placed'
  BY <1>7 DEF Placed, TodoInv, Active
<1> QED BY <1>6, <1>7, <1>8 DEF Typed, TypeOK, Others, Placed, SettingsData, ConfigData

\* Steps that no task of the daemon takes.
LEMMA OutsideTyped ==
  ASSUME Typed, MihomoExits \/ (\E v \in Values : ClientAlone(v)) \/ UNCHANGED vars
  PROVE  Typed'
<1>1. TypeOK /\ Others /\ TodoInv
  BY TypedIs DEF Typed
<1>2. CASE MihomoExits
  <2>1. faults' \in 0..MaxFaults
    BY <1>1, <1>2, SettingsAssumption DEF MihomoExits, Others
  <2>2. /\ mihomo' \in {Down} \cup [ConfigKeys \cup {"selected"} -> Options]
        /\ orphan' \in Options
    BY <1>1, <1>2 DEF MihomoExits, Others, Options
  <2>3. Others' /\ phase' = phase /\ task' = task
    BY <1>1, <1>2, <2>1, <2>2 DEF MihomoExits, Others, daemon, history
  <2> QED BY <1>1, <2>3 DEF Typed, TypeOK, Others, TodoInv, Active, SettingsData, ConfigData
<1>3. ASSUME NEW v \in Values, ClientAlone(v) PROVE Typed'
  <2>1. v \in Options /\ None \in Options
    BY DEF Options
  <2>2. requests' \in 0..MaxRequests
    BY <1>1, <1>3, SettingsAssumption DEF ClientAlone, Others
  <2>3. settings' \in SettingsData
    <3>1. settings' = [Client EXCEPT !["mode"] = v] /\ Client \in SettingsData
      BY <1>1, <1>3, ReadTypes DEF ClientAlone
    <3> QED BY <2>1, <3>1 DEF SettingsData
  <2>4. config' \in {NoFile, Empty} \cup ConfigData
    <3>1. config \notin {NoFile, Empty} => [config EXCEPT !["mode"] = v] \in ConfigData
      BY <1>1, <2>1 DEF Others, ConfigData
    <3> QED BY <1>1, <1>3, <3>1 DEF ClientAlone, Others
  <2>5. promise' \in [Fields -> Options]
    BY <1>1, <1>3, <2>1 DEF ClientAlone, Others
  <2>6. applied' \subseteq {"mode", "ports", "tun", "dns"}
    BY <1>1, <1>3 DEF ClientAlone, Others
  <2>7. Others' /\ phase' = phase /\ task' = task
    BY <1>1, <1>3, <2>2, <2>3, <2>4, <2>5, <2>6 DEF ClientAlone, Others, daemon, process
  <2> QED BY <1>1, <2>7 DEF Typed, TypeOK, Others, TodoInv, Active, SettingsData, ConfigData
<1>4. CASE UNCHANGED vars
  BY <1>1, <1>4 DEF Typed, TypeOK, TodoInv, Active, vars, daemon, process, budget, history
<1> QED BY <1>2, <1>3, <1>4

LEMMA NextTyped ==
  ASSUME Typed, [Next]_vars
  PROVE  Typed'
<1>1. ASSUME NEW t \in Tasks, ConfigStep(t) PROVE Typed'
  BY <1>1, ReadConfigTyped, CutConfigTyped, WriteConfigTyped DEF ConfigStep
<1>2. ASSUME NEW t \in Tasks, SettingsStep(t) PROVE Typed'
  BY <1>2, ReadSettingsTyped, MergeSettingsTyped, TruncateSettingsTyped, WriteSettingsTyped,
     WriteClientTyped, LoadSettingsTyped DEF SettingsStep
<1>3. ASSUME NEW t \in Tasks, MihomoStep(t) PROVE Typed'
  BY <1>3, SpawnTyped, RecordPathTyped, SelectProxyTyped, RestoreModeTyped, PatchModeTyped,
     PatchLanTyped DEF MihomoStep
<1>4. ASSUME NEW t \in Tasks, Reply(t) \/ AutoTestDue(t) \/ RunAutoTest(t) \/ Boot(t) PROVE Typed'
  BY <1>4, ReplyTyped, AutoTestDueTyped, RunAutoTestTyped, BootTyped
<1> QED BY <1>1, <1>2, <1>3, <1>4, BeginTyped, CrashTyped, OutsideTyped DEF Next

LEMMA TypedAlways == Spec => []Typed
<1>1. Init => Typed
  <2> SUFFICES ASSUME Init PROVE Typed
    OBVIOUS
  <2>1. Others
    <3>1. settings \in {NoFile, Empty} \cup SettingsData /\ config \in {NoFile, Empty} \cup ConfigData
      BY SettingsAssumption DEF Init, ConfigData, Options
    <3>2. memory \in [{"api_port", "auto"} -> Values]
      BY SettingsAssumption DEF Init
    <3>3. requests \in 0..MaxRequests /\ faults \in 0..MaxFaults
      BY SettingsAssumption DEF Init
    <3>4. promise \in [Fields -> Options] /\ orphan \in Options
      BY DEF Init, Options
    <3> QED BY <3>1, <3>2, <3>3, <3>4 DEF Init, Others
  <2>2. Placed /\ \A t \in Tasks : task[t] = Idle
    BY DEF Init, Placed, TodoInv, Active
  <2> QED BY <2>1, <2>2, TypedIs DEF Init
<1>2. Typed /\ [Next]_vars => Typed'
  BY NextTyped
<1> QED BY <1>1, <1>2, PTL DEF Spec

\* In every state the files, the memory, Mihomo and the tasks hold values of
\* their kinds; in particular a writer never puts into settings.yaml what it read
\* for config.yaml or the other way round, and a daemon that is down does nothing.
THEOREM TypeOKAlways == Spec => []TypeOK
BY TypedAlways, PTL DEF Typed

-----------------------------------------------------------------------------
(***************************************************************************)
(* What a task is made of, whatever the others do.                         *)
(***************************************************************************)
Replying == {"put", "auth", "dns", "ports", "tun", "rules", "provider"}
Starters == {"ports", "tun", "activate", "start", "boot"}
SetsMode == {"mode", "cli_mode"}

\* What every plan keeps to, and with it whatever is left of it.
Orderly(op, s) ==
  /\ op \notin Starters => ToSet(s) \cap {"restore", "allow_lan"} = {}
  /\ op \notin Starters \cup SetsMode => "patch_mode" \notin ToSet(s)
  /\ op = "test" => ToSet(s) \subseteq {"snapshot", "finish"}
  /\ op # "test" => ToSet(s) \cap {"snapshot", "finish"} = {}
  /\ op \notin {"rules", "activate"} => "rename" \notin ToSet(s)
  /\ op \notin ClientOps => ToSet(s) \cap {"cli_read", "cli_write"} = {}
  /\ op # "provider" => \A i \in 1..(Len(s) - 1) : s[i] = "write" => s[i + 1] = "load"

\* The field that an operation names.
Named(op, field) ==
  /\ op \in {"dns", "ports", "tun"} => field = op
  /\ op \in SetsMode => field = "mode"
  /\ op \in {"rules", "provider"} => field = "rules"
  /\ op = "cli_select" => field = "selected"
  /\ op \in {"activate", "start", "boot"} => field = "none"
  /\ op = "test" => field = "auto"

\* A start of Mihomo that has not read the stored mode yet, or is done with it.
ModeToCome(r) ==
  "allow_lan" \in ToSet(r.todo) /\ r.mode = None =>
    Head(r.todo) = "allow_lan" \/ "restore" \in ToSet(r.todo)

Ordered(r) ==
  /\ Orderly(r.op, r.todo) /\ Named(r.op, r.field)
  /\ r.op \in SetsMode => r.mode = r.value
  /\ r.op \notin Starters \cup SetsMode => r.mode = None
  /\ r.op \notin ClientOps => r.client = None
  /\ ModeToCome(r)

\* The request, or the mode, of a task is still to be saved.
Stops == {"spawn", "restore", "patch_mode", "allow_lan", "reply", "finish"}
Pending(s) == \E i \in 1..Len(s) : s[i] = "request" /\ \A j \in 1..i : s[j] \notin Stops
Unsaved(s) == Pending(s) \/ Head(s) \in {"merge", "truncate", "write", "rename"}

\* A start of Mihomo by hand records the path right after it.
Records(op, s) ==
  op \notin {"ports", "tun", "activate"} => \A i \in 1..(Len(s) - 1) : s[i] = "spawn" => s[i + 1] = "record"

-----------------------------------------------------------------------------
(***************************************************************************)
(* The plans, and what is left of them.                                    *)
(***************************************************************************)
\* The steps that any operation may take, but for the test of the delays.
Usual == Steps \ {"restore", "allow_lan", "patch_mode", "snapshot", "finish", "rename",
                  "cli_read", "cli_write"}

\* A part of a plan: usual steps and those of E, each write followed by a load.
Segment(s, E) ==
  /\ s \in Seq(Steps) /\ Len(s) >= 1 /\ s[Len(s)] # "write"
  /\ \A i \in 1..Len(s) : s[i] \in Usual \cup E
  /\ \A i \in 1..(Len(s) - 1) : s[i] = "write" => s[i + 1] = "load"

Has(s, x) == \E i \in 1..Len(s) : s[i] = x

\* Where the elements of a concatenation are.
LEMMA Joined ==
  ASSUME NEW s \in Seq(Steps), NEW t \in Seq(Steps)
  PROVE  /\ s \o t \in Seq(Steps) /\ Len(s \o t) = Len(s) + Len(t)
         /\ Len(s) \in Nat /\ Len(t) \in Nat
         /\ \A i \in 1..Len(s) : (s \o t)[i] = s[i]
         /\ \A i \in 1..Len(t) : (s \o t)[Len(s) + i] = t[i]
OBVIOUS

LEMMA SegmentConcat ==
  ASSUME NEW E, NEW s, Segment(s, E), NEW t, Segment(t, E)
  PROVE  Segment(s \o t, E)
<1> DEFINE u == s \o t
<1>1. s \in Seq(Steps) /\ t \in Seq(Steps) /\ Len(s) >= 1 /\ Len(t) >= 1
  BY DEF Segment
<1>2. /\ u \in Seq(Steps) /\ Len(u) = Len(s) + Len(t) /\ Len(s) \in Nat /\ Len(t) \in Nat
      /\ \A i \in 1..Len(s) : u[i] = s[i]
      /\ \A i \in 1..Len(t) : u[Len(s) + i] = t[i]
  BY <1>1, Joined
<1> HIDE DEF u
<1>3. ASSUME NEW i \in 1..Len(u)
      PROVE  \/ i \in 1..Len(s) /\ u[i] = s[i]
             \/ /\ i - Len(s) \in 1..Len(t) /\ i = Len(s) + (i - Len(s)) /\ u[i] = t[i - Len(s)]
  <2>1. CASE i \in 1..Len(s)
    BY <1>2, <2>1
  <2>2. CASE i \notin 1..Len(s)
    <3>1. i - Len(s) \in 1..Len(t) /\ i = Len(s) + (i - Len(s))
      BY <1>2, <1>3, <2>2
    <3> QED BY <1>2, <3>1
  <2> QED BY <2>1, <2>2
<1>4. \A i \in 1..Len(u) : u[i] \in Usual \cup E
  BY <1>3 DEF Segment
<1>5. ASSUME NEW i \in 1..(Len(u) - 1), u[i] = "write" PROVE u[i + 1] = "load"
  <2>1. CASE i < Len(s)
    <3>1. i \in 1..(Len(s) - 1) /\ i \in 1..Len(s) /\ i + 1 \in 1..Len(s)
      BY <1>2, <1>5, <2>1
    <3> QED BY <1>2, <1>5, <3>1 DEF Segment
  <2>2. CASE i = Len(s)
    <3>1. u[i] = s[Len(s)]
      BY <1>1, <1>2, <2>2
    <3> QED BY <1>5, <3>1 DEF Segment
  <2>3. CASE i > Len(s)
    <3> DEFINE j == i - Len(s)
    <3>1. j \in 1..(Len(t) - 1) /\ i = Len(s) + j /\ i + 1 = Len(s) + (j + 1)
          /\ j \in 1..Len(t) /\ j + 1 \in 1..Len(t)
      BY <1>1, <1>2, <1>5, <2>3
    <3> HIDE DEF j
    <3> QED BY <1>2, <1>5, <3>1 DEF Segment
  <2> QED BY <1>2, <1>5, <2>1, <2>2, <2>3
<1>6. u[Len(u)] = t[Len(t)]
  BY <1>1, <1>2
<1>7. Segment(u, E)
  BY <1>1, <1>2, <1>4, <1>5, <1>6 DEF Segment
<1> QED BY <1>7 DEF u

LEMMA HasConcat ==
  ASSUME NEW s \in Seq(Steps), NEW t \in Seq(Steps), NEW x
  PROVE  /\ Has(s, x) => Has(s \o t, x)
         /\ Has(t, x) => Has(s \o t, x)
<1> DEFINE u == s \o t
<1>1. /\ Len(u) = Len(s) + Len(t) /\ Len(s) \in Nat /\ Len(t) \in Nat
      /\ \A i \in 1..Len(s) : u[i] = s[i]
      /\ \A i \in 1..Len(t) : u[Len(s) + i] = t[i]
  BY Joined
<1> HIDE DEF u
<1>2. \A i \in 1..Len(s) : i \in 1..Len(u)
  BY <1>1
<1>3. \A i \in 1..Len(t) : Len(s) + i \in 1..Len(u)
  BY <1>1
<1>4. Has(s, x) => Has(u, x)
  BY <1>1, <1>2 DEF Has
<1>5. Has(t, x) => Has(u, x)
  BY <1>1, <1>3 DEF Has
<1> QED BY <1>4, <1>5 DEF u

LEMMA PendingConcat ==
  ASSUME NEW s \in Seq(Steps), NEW t \in Seq(Steps)
  PROVE  /\ Pending(s) => Pending(s \o t)
         /\ Pending(t) /\ (\A i \in 1..Len(s) : s[i] \notin Stops) => Pending(s \o t)
<1> DEFINE u == s \o t
<1>1. /\ Len(u) = Len(s) + Len(t) /\ Len(s) \in Nat /\ Len(t) \in Nat
      /\ \A i \in 1..Len(s) : u[i] = s[i]
      /\ \A i \in 1..Len(t) : u[Len(s) + i] = t[i]
  BY Joined
<1> HIDE DEF u
<1>2. ASSUME Pending(s) PROVE Pending(u)
  <2>1. PICK i \in 1..Len(s) : s[i] = "request" /\ \A j \in 1..i : s[j] \notin Stops
    BY <1>2 DEF Pending
  <2>2. i \in 1..Len(u) /\ \A j \in 1..i : j \in 1..Len(s)
    BY <1>1
  <2> QED BY <1>1, <2>1, <2>2 DEF Pending
<1>3. ASSUME Pending(t), \A i \in 1..Len(s) : s[i] \notin Stops PROVE Pending(u)
  <2>1. PICK i \in 1..Len(t) : t[i] = "request" /\ \A j \in 1..i : t[j] \notin Stops
    BY <1>3 DEF Pending
  <2>2. Len(s) + i \in 1..Len(u) /\ u[Len(s) + i] = "request"
    BY <1>1, <2>1
  <2>3. ASSUME NEW j \in 1..(Len(s) + i) PROVE u[j] \notin Stops
    <3>1. CASE j \in 1..Len(s)
      BY <1>1, <1>3, <3>1
    <3>2. CASE j \notin 1..Len(s)
      <4>1. j - Len(s) \in 1..i /\ j - Len(s) \in 1..Len(t) /\ j = Len(s) + (j - Len(s))
        BY <1>1, <2>3, <3>2
      <4> QED BY <1>1, <2>1, <4>1
    <3> QED BY <3>1, <3>2
  <2> QED BY <2>2, <2>3 DEF Pending
<1> QED BY <1>2, <1>3 DEF u

LEMMA EditSegment ==
  ASSUME NEW E
  PROVE  Segment(Edit, E) /\ \A i \in 1..Len(Edit) : Edit[i] \notin Stops
<1>1. /\ "read_config" \in Steps /\ "cut_config" \in Steps /\ "write_config" \in Steps
  BY DEF Steps
<1>2. Edit \in Seq(Steps) /\ Len(Edit) = 3
      /\ Edit[1] = "read_config" /\ Edit[2] = "cut_config" /\ Edit[3] = "write_config"
  BY <1>1 DEF Edit
<1>3. \A i \in 1..3 : i = 1 \/ i = 2 \/ i = 3
  OBVIOUS
<1>4. \A i \in 1..3 : Edit[i] \in Usual /\ Edit[i] \notin Stops /\ Edit[i] # "write"
  BY <1>1, <1>2, <1>3 DEF Usual, Stops
<1>5. \A i \in 1..(3 - 1) : i \in 1..3
  OBVIOUS
<1> QED BY <1>2, <1>4, <1>5 DEF Segment

LEMMA SaveSegment ==
  ASSUME NEW E
  PROVE  Segment(Save, E) /\ Pending(Save)
<1>1. /\ "request" \in Steps /\ "merge" \in Steps /\ "truncate" \in Steps
      /\ "write" \in Steps /\ "load" \in Steps /\ "store" \in Steps
  BY DEF Steps
<1>2. Save \in Seq(Steps) /\ Len(Save) = 6
      /\ Save[1] = "request" /\ Save[2] = "merge" /\ Save[3] = "truncate"
      /\ Save[4] = "write" /\ Save[5] = "load" /\ Save[6] = "store"
  BY <1>1 DEF Save
<1>3. \A i \in 1..6 : i = 1 \/ i = 2 \/ i = 3 \/ i = 4 \/ i = 5 \/ i = 6
  OBVIOUS
<1>4. \A i \in 1..6 : Save[i] \in Usual
  BY <1>1, <1>2, <1>3 DEF Usual
<1>5. \A i \in 1..(6 - 1) : i \in 1..6 /\ (i = 4 => i + 1 = 5)
  OBVIOUS
<1>6. \A i \in 1..6 : Save[i] = "write" => i = 4
  BY <1>2, <1>3
<1>7. Segment(Save, E)
  BY <1>2, <1>4, <1>5, <1>6 DEF Segment
<1>8. 1 \in 1..6 /\ \A j \in 1..1 : j = 1
  OBVIOUS
<1>9. Pending(Save)
  BY <1>2, <1>8 DEF Pending, Stops
<1> QED BY <1>7, <1>9

\* Few steps in a row, none of them a write.
LEMMA OneSegment ==
  ASSUME NEW E, NEW a \in Steps, a \in Usual \cup E, a # "write"
  PROVE  Segment(<<a>>, E) /\ Has(<<a>>, a) /\ (a \notin Stops => \A i \in 1..Len(<<a>>) : <<a>>[i] \notin Stops)
<1> DEFINE s == <<a>>
<1>1. s \in Seq(Steps) /\ Len(s) = 1 /\ s[1] = a
  OBVIOUS
<1>2. \A i \in 1..1 : i = 1
  OBVIOUS
<1> HIDE DEF s
<1>3. Segment(s, E) /\ Has(s, a) /\ (a \notin Stops => \A i \in 1..Len(s) : s[i] \notin Stops)
  BY <1>1, <1>2 DEF Segment, Has
<1> QED BY <1>3 DEF s

LEMMA TwoSegment ==
  ASSUME NEW E, NEW a \in Steps, NEW b \in Steps, {a, b} \subseteq Usual \cup E,
         a # "write", b # "write"
  PROVE  Segment(<<a, b>>, E) /\ Has(<<a, b>>, b)
<1> DEFINE s == <<a, b>>
<1>1. s \in Seq(Steps) /\ Len(s) = 2 /\ s[1] = a /\ s[2] = b
  OBVIOUS
<1>2. \A i \in 1..2 : i = 1 \/ i = 2
  OBVIOUS
<1> HIDE DEF s
<1>3. /\ \A i \in 1..2 : s[i] \in Usual \cup E
      /\ \A i \in 1..(2 - 1) : s[i] # "write"
  BY <1>1, <1>2
<1>4. Segment(s, E) /\ Has(s, b)
  BY <1>1, <1>3 DEF Segment, Has
<1> QED BY <1>4 DEF s

LEMMA ThreeSegment ==
  ASSUME NEW E, NEW a \in Steps, NEW b \in Steps, NEW c \in Steps,
         {a, b, c} \subseteq Usual \cup E, a # "write", b # "write", c # "write"
  PROVE  Segment(<<a, b, c>>, E) /\ (a = "request" => Pending(<<a, b, c>>))
<1> DEFINE s == <<a, b, c>>
<1>1. s \in Seq(Steps) /\ Len(s) = 3 /\ s[1] = a /\ s[2] = b /\ s[3] = c
  OBVIOUS
<1>2. \A i \in 1..3 : i = 1 \/ i = 2 \/ i = 3
  OBVIOUS
<1> HIDE DEF s
<1>3. /\ \A i \in 1..3 : s[i] \in Usual \cup E
      /\ \A i \in 1..(3 - 1) : s[i] # "write"
  BY <1>1, <1>2
<1>4. Segment(s, E)
  BY <1>1, <1>3 DEF Segment
<1>5. 1 \in 1..3 /\ \A j \in 1..1 : j = 1
  OBVIOUS
<1>6. a = "request" => Pending(s)
  BY <1>1, <1>5 DEF Pending, Stops
<1> QED BY <1>4, <1>6 DEF s

LEMMA SetModeSegment ==
  ASSUME NEW E, "patch_mode" \in E
  PROVE  Segment(SetMode, E) /\ Pending(SetMode)
<1>1. /\ Segment(Edit, E) /\ Segment(Save, E) /\ Pending(Save)
      /\ \A i \in 1..Len(Edit) : Edit[i] \notin Stops
  BY EditSegment, SaveSegment
<1>2. Segment(Edit \o Save, E)
  BY <1>1, SegmentConcat
<1>3. Edit \in Seq(Steps) /\ Save \in Seq(Steps) /\ Edit \o Save \in Seq(Steps)
  BY <1>1, <1>2 DEF Segment
<1>4. Pending(Edit \o Save)
  BY <1>1, <1>3, PendingConcat
<1>5. Segment(<<"patch_mode">>, E)
  BY OneSegment DEF Steps
<1>6. <<"patch_mode">> \in Seq(Steps)
  BY <1>5 DEF Segment
<1>7. Segment(Edit \o Save \o <<"patch_mode">>, E)
  BY <1>2, <1>5, SegmentConcat
<1>8. Pending(Edit \o Save \o <<"patch_mode">>)
  BY <1>3, <1>4, <1>6, PendingConcat
<1> QED BY <1>7, <1>8 DEF SetMode

LEMMA StartedSegment ==
  ASSUME NEW E, {"restore", "allow_lan", "patch_mode"} \subseteq E
  PROVE  Segment(Started, E) /\ Has(Started, "restore")
<1>1. "resume" \in Steps /\ "restore" \in Steps /\ "allow_lan" \in Steps /\ "resume" \in Usual
  BY DEF Steps, Usual
<1>2. Segment(<<"resume", "restore">>, E) /\ Has(<<"resume", "restore">>, "restore")
  BY <1>1, TwoSegment
<1>3. Segment(SetMode, E)
  BY SetModeSegment
<1>4. Segment(<<"allow_lan">>, E)
  BY <1>1, OneSegment
<1>5. Segment(<<"resume", "restore">> \o SetMode, E)
  BY <1>2, <1>3, SegmentConcat
<1>6. Segment(<<"resume", "restore">> \o SetMode \o <<"allow_lan">>, E)
  BY <1>4, <1>5, SegmentConcat
<1>7. <<"resume", "restore">> \in Seq(Steps) /\ SetMode \in Seq(Steps) /\ <<"allow_lan">> \in Seq(Steps)
      /\ <<"resume", "restore">> \o SetMode \in Seq(Steps)
  BY <1>2, <1>3, <1>4, <1>5 DEF Segment
<1>8. Has(<<"resume", "restore">> \o SetMode, "restore")
  BY <1>2, <1>7, HasConcat
<1>9. Has(<<"resume", "restore">> \o SetMode \o <<"allow_lan">>, "restore")
  BY <1>7, <1>8, HasConcat
<1> QED BY <1>6, <1>9 DEF Started

\* The steps of an operation that not every operation takes.
Extra(op) ==
  (IF op \in Starters THEN {"restore", "allow_lan", "patch_mode"} ELSE {})
    \cup (IF op \in SetsMode THEN {"patch_mode"} ELSE {})
    \cup (IF op \in {"rules", "activate"} THEN {"rename"} ELSE {})
    \cup (IF op \in ClientOps THEN {"cli_read", "cli_write"} ELSE {})

PlanIs(op, s) ==
  /\ Segment(s, Extra(op))
  /\ op \in Starters => Has(s, "restore")
  /\ op \in Replying \cup SetsMode => Pending(s)

\* A plan is extended by steps that come after the save.
LEMMA PlanAnd ==
  ASSUME NEW op, NEW s, PlanIs(op, s), NEW t, Segment(t, Extra(op))
  PROVE  PlanIs(op, s \o t)
<1>1. s \in Seq(Steps) /\ t \in Seq(Steps)
  BY DEF PlanIs, Segment
<1>2. Segment(s \o t, Extra(op))
  BY SegmentConcat DEF PlanIs
<1>3. Has(s, "restore") => Has(s \o t, "restore")
  BY <1>1, HasConcat
<1>4. Pending(s) => Pending(s \o t)
  BY <1>1, PendingConcat
<1> QED BY <1>2, <1>3, <1>4 DEF PlanIs

LEMMA PlanSegment ==
  ASSUME NEW op \in (Operations \cup {"boot"}) \ {"provider"}
  PROVE  PlanIs(op, Plan(op))
<1> DEFINE E == Extra(op)
<1>s. /\ "reply" \in Steps /\ "spawn" \in Steps /\ "record" \in Steps /\ "request" \in Steps
      /\ "rename" \in Steps /\ "overrides" \in Steps /\ "read_config" \in Steps
      /\ "rename_config" \in Steps /\ "cli_read" \in Steps /\ "cli_write" \in Steps
      /\ "cli_truncate" \in Steps /\ "select" \in Steps
  BY DEF Steps
<1>u. {"reply", "spawn", "record", "request", "overrides", "read_config", "rename_config",
       "cli_truncate", "select"} \subseteq Usual
  BY DEF Steps, Usual
<1>e. /\ op \in Starters => {"restore", "allow_lan", "patch_mode"} \subseteq E
      /\ op \in SetsMode => "patch_mode" \in E
      /\ op \in {"rules", "activate"} => "rename" \in E
      /\ op \in ClientOps => {"cli_read", "cli_write"} \subseteq E
  BY DEF Extra
<1> HIDE DEF E
<1>r. Segment(<<"reply">>, E) /\ <<"reply">> \in Seq(Steps)
  <2>1. Segment(<<"reply">>, E)
    BY <1>s, <1>u, OneSegment
  <2> QED BY <2>1 DEF Segment
<1>b. /\ Segment(Edit, E) /\ Segment(Save, E) /\ Pending(Save) /\ Edit \in Seq(Steps)
      /\ Save \in Seq(Steps) /\ \A i \in 1..Len(Edit) : Edit[i] \notin Stops
  BY EditSegment, SaveSegment DEF Segment
<1>f. Segment(Edit \o Save, E) /\ Pending(Edit \o Save) /\ Edit \o Save \in Seq(Steps)
  <2>1. Segment(Edit \o Save, E)
    BY <1>b, SegmentConcat
  <2> QED BY <1>b, <2>1, PendingConcat DEF Segment
<1>m. op \in SetsMode => Segment(SetMode, E) /\ Pending(SetMode)
  BY <1>e, SetModeSegment
<1>t. op \in Starters => Segment(Started, E) /\ Has(Started, "restore") /\ Started \in Seq(Steps)
  BY <1>e, StartedSegment DEF Segment
<1>1. CASE op \in {"put", "auth"}
  <2>1. Plan(op) = Save \o <<"reply">> /\ op \notin Starters
    BY <1>1 DEF Plan, Starters
  <2>2. PlanIs(op, Save)
    BY <1>b, <2>1 DEF PlanIs, E
  <2> QED BY <1>r, <2>1, <2>2, PlanAnd DEF E
<1>2. CASE op = "dns"
  <2>1. Plan(op) = Edit \o Save \o <<"reply">> /\ op \notin Starters
    BY <1>2 DEF Plan, Starters
  <2>2. PlanIs(op, Edit \o Save)
    BY <1>f, <2>1 DEF PlanIs, E
  <2> QED BY <1>r, <2>1, <2>2, PlanAnd DEF E
<1>3. CASE op \in {"ports", "tun"}
  <2>1. Plan(op) = Edit \o Save \o Restart \o <<"reply">> /\ op \in Starters
    BY <1>3 DEF Plan, Starters
  <2>2. Segment(<<"spawn">>, E)
    BY <1>s, <1>u, OneSegment
  <2>3. Restart = <<"spawn">> \o Started /\ <<"spawn">> \in Seq(Steps)
    BY <2>2 DEF Restart, Segment
  <2>4. Segment(Restart, E)
    BY <1>t, <2>1, <2>2, <2>3, SegmentConcat
  <2>5. Restart \in Seq(Steps)
    BY <2>4 DEF Segment
  <2>6. Has(Restart, "restore")
    BY <1>t, <2>1, <2>3, HasConcat
  <2>7. Segment(Edit \o Save \o Restart, E)
    BY <1>f, <2>4, SegmentConcat
  <2>8. Has(Edit \o Save \o Restart, "restore")
    BY <1>f, <2>5, <2>6, HasConcat
  <2>9. Pending(Edit \o Save \o Restart)
    BY <1>f, <2>5, PendingConcat
  <2>10. PlanIs(op, Edit \o Save \o Restart)
    BY <2>7, <2>8, <2>9 DEF PlanIs, E
  <2> QED BY <1>r, <2>1, <2>10, PlanAnd DEF E
<1>4. CASE op = "mode"
  <2>1. Plan(op) = SetMode \o <<"reply">> /\ op \notin Starters /\ op \in SetsMode
    BY <1>4 DEF Plan, ModePlan, Starters, SetsMode
  <2>2. PlanIs(op, SetMode)
    BY <1>m, <2>1 DEF PlanIs, E
  <2> QED BY <1>r, <2>1, <2>2, PlanAnd DEF E
<1>5. CASE op = "rules"
  <2>1. Plan(op) = <<"request", "rename", "reply">> /\ op \notin Starters
    BY <1>5 DEF Plan, RulesPlan, Starters
  <2>2. {"request", "rename", "reply"} \subseteq Usual \cup E
    BY <1>5, <1>u, <1>e
  <2>3. Segment(Plan(op), E) /\ Pending(Plan(op))
    BY <1>s, <2>1, <2>2, ThreeSegment
  <2> QED BY <2>1, <2>3 DEF PlanIs, E
<1>6. CASE op = "activate"
  <2> DEFINE s == <<"overrides", "read_config", "rename_config", "request", "rename", "spawn">>
  <2>1. Plan(op) = s \o Started \o <<"reply">> /\ op \in Starters /\ op \notin Replying \cup SetsMode
    BY <1>6 DEF Plan, ActivatePlan, Starters, Replying, SetsMode
  <2>2. /\ s \in Seq(Steps) /\ Len(s) = 6 /\ s[1] = "overrides" /\ s[2] = "read_config"
        /\ s[3] = "rename_config" /\ s[4] = "request" /\ s[5] = "rename" /\ s[6] = "spawn"
    BY <1>s
  <2>3. \A i \in 1..6 : i = 1 \/ i = 2 \/ i = 3 \/ i = 4 \/ i = 5 \/ i = 6
    OBVIOUS
  <2> HIDE DEF s
  <2>4. \A i \in 1..6 : s[i] \in Usual \cup E /\ s[i] # "write"
    BY <1>6, <1>u, <1>e, <2>2, <2>3
  <2>5. \A i \in 1..(6 - 1) : i \in 1..6
    OBVIOUS
  <2>6. Segment(s, E)
    BY <2>2, <2>4, <2>5 DEF Segment
  <2>7. Segment(s \o Started, E)
    BY <1>t, <2>1, <2>6, SegmentConcat
  <2>8. Has(s \o Started, "restore")
    BY <1>t, <2>1, <2>2, HasConcat
  <2>9. PlanIs(op, s \o Started)
    BY <2>1, <2>7, <2>8 DEF PlanIs, E
  <2> QED BY <1>r, <2>1, <2>9, PlanAnd DEF E
<1>7. CASE op = "start"
  <2>1. /\ Plan(op) = <<"spawn", "record">> \o Started \o <<"reply">>
        /\ op \in Starters /\ op \notin Replying \cup SetsMode
    BY <1>7 DEF Plan, StartPlan, Starters, Replying, SetsMode
  <2>2. Segment(<<"spawn", "record">>, E)
    BY <1>s, <1>u, TwoSegment
  <2>3. <<"spawn", "record">> \in Seq(Steps)
    BY <2>2 DEF Segment
  <2>4. Segment(<<"spawn", "record">> \o Started, E)
    BY <1>t, <2>1, <2>2, SegmentConcat
  <2>5. Has(<<"spawn", "record">> \o Started, "restore")
    BY <1>t, <2>1, <2>3, HasConcat
  <2>6. PlanIs(op, <<"spawn", "record">> \o Started)
    BY <2>1, <2>4, <2>5 DEF PlanIs, E
  <2> QED BY <1>r, <2>1, <2>6, PlanAnd DEF E
<1>8. CASE op = "boot"
  <2>1. Plan(op) = Started \o <<"reply">> /\ op \in Starters /\ op \notin Replying \cup SetsMode
    BY <1>8 DEF Plan, Starters, Replying, SetsMode
  <2>2. PlanIs(op, Started)
    BY <1>t, <2>1 DEF PlanIs, E
  <2> QED BY <1>r, <2>1, <2>2, PlanAnd DEF E
<1>c. op \in ClientOps => Segment(ClientSave, E)
  BY <1>s, <1>u, <1>e, TwoSegment DEF ClientSave
<1>9. CASE op = "cli_mode"
  <2> DEFINE e == <<"read_config", "rename_config", "reply">>
  <2>1. /\ Plan(op) = <<"cli_read">> \o SetMode \o ClientSave \o e
        /\ op \notin Starters /\ op \in SetsMode /\ op \in ClientOps
    BY <1>9 DEF Plan, ClientMode, Starters, SetsMode, ClientOps
  <2>2. Segment(e, E)
    BY <1>s, <1>u, ThreeSegment
  <2> HIDE DEF e
  <2>3. /\ Segment(<<"cli_read">>, E)
        /\ \A i \in 1..Len(<<"cli_read">>) : <<"cli_read">>[i] \notin Stops
    <3>1. "cli_read" \notin Stops
      BY DEF Stops
    <3> QED BY <1>s, <1>e, <2>1, <3>1, OneSegment
  <2>4. <<"cli_read">> \in Seq(Steps) /\ SetMode \in Seq(Steps)
    BY <1>m, <2>1, <2>3 DEF Segment
  <2>5. Segment(<<"cli_read">> \o SetMode, E)
    BY <1>m, <2>1, <2>3, SegmentConcat
  <2>6. Pending(<<"cli_read">> \o SetMode)
    BY <1>m, <2>1, <2>3, <2>4, PendingConcat
  <2>7. PlanIs(op, <<"cli_read">> \o SetMode)
    BY <2>1, <2>5, <2>6 DEF PlanIs, E
  <2>8. PlanIs(op, <<"cli_read">> \o SetMode \o ClientSave)
    BY <1>c, <2>1, <2>7, PlanAnd DEF E
  <2> QED BY <2>1, <2>2, <2>8, PlanAnd DEF E
<1>10. CASE op = "cli_select"
  <2>1. /\ Plan(op) = <<"cli_read", "select">> \o ClientSave \o <<"reply">>
        /\ op \notin Starters \cup Replying \cup SetsMode /\ op \in ClientOps
    BY <1>10 DEF Plan, ClientSelect, Starters, SetsMode, Replying, ClientOps
  <2>2. Segment(<<"cli_read", "select">>, E)
    BY <1>s, <1>u, <1>e, <2>1, TwoSegment
  <2>3. PlanIs(op, <<"cli_read", "select">>)
    BY <2>1, <2>2 DEF PlanIs, E
  <2>4. PlanIs(op, <<"cli_read", "select">> \o ClientSave)
    BY <1>c, <2>1, <2>3, PlanAnd DEF E
  <2> QED BY <1>r, <2>1, <2>4, PlanAnd DEF E
<1> QED BY <1>1, <1>2, <1>3, <1>4, <1>5, <1>6, <1>7, <1>8, <1>9, <1>10 DEF Operations

\* ToSet and Has say the same.
LEMMA InSet ==
  ASSUME NEW s \in Seq(Steps), NEW x
  PROVE  x \in ToSet(s) <=> Has(s, x)
BY DEF ToSet, Has

LEMMA SegmentOrderly ==
  ASSUME NEW op, op # "test", NEW s, Segment(s, Extra(op))
  PROVE  Orderly(op, s)
<1>1. s \in Seq(Steps)
  BY DEF Segment
<1>2. ToSet(s) \subseteq Usual \cup Extra(op)
  BY <1>1, InSet DEF Has, Segment
<1>3. /\ op \notin Starters => Extra(op) \cap {"restore", "allow_lan"} = {}
      /\ op \notin Starters \cup SetsMode => "patch_mode" \notin Extra(op)
      /\ Extra(op) \cap {"snapshot", "finish"} = {}
      /\ op \notin {"rules", "activate"} => "rename" \notin Extra(op)
      /\ op \notin ClientOps => Extra(op) \cap {"cli_read", "cli_write"} = {}
  BY DEF Extra
<1>4. Usual \cap {"restore", "allow_lan", "patch_mode", "snapshot", "finish", "rename",
                  "cli_read", "cli_write"} = {}
  BY DEF Usual
<1>5. /\ op \notin Starters => ToSet(s) \cap {"restore", "allow_lan"} = {}
      /\ op \notin Starters \cup SetsMode => "patch_mode" \notin ToSet(s)
      /\ ToSet(s) \cap {"snapshot", "finish"} = {}
      /\ op \notin {"rules", "activate"} => "rename" \notin ToSet(s)
      /\ op \notin ClientOps => ToSet(s) \cap {"cli_read", "cli_write"} = {}
  BY <1>2, <1>3, <1>4
<1>6. \A i \in 1..(Len(s) - 1) : s[i] = "write" => s[i + 1] = "load"
  BY DEF Segment
<1> QED BY <1>5, <1>6 DEF Orderly

LEMMA PlanOrderly ==
  ASSUME NEW op \in Operations \cup {"boot", "test"}
  PROVE  /\ Orderly(op, Plan(op))
         /\ op \in Starters => Has(Plan(op), "restore")
         /\ op \in Replying \cup SetsMode => Pending(Plan(op))
<1>1. CASE op \notin {"provider", "test"}
  <2>1. PlanIs(op, Plan(op))
    BY <1>1, PlanSegment
  <2> QED BY <1>1, <2>1, SegmentOrderly DEF PlanIs
<1>2. CASE op = "provider"
  <2> DEFINE s == <<"request", "merge", "truncate", "write", "reply">>
  <2>1. Plan(op) = s /\ op \notin Starters \cup SetsMode \cup ClientOps
    BY <1>2 DEF Plan, ProviderPlan, Starters, SetsMode, ClientOps
  <2>2. /\ "request" \in Steps /\ "merge" \in Steps /\ "truncate" \in Steps /\ "write" \in Steps
        /\ "reply" \in Steps
    BY DEF Steps
  <2>3. /\ s \in Seq(Steps) /\ Len(s) = 5 /\ s[1] = "request" /\ s[2] = "merge"
        /\ s[3] = "truncate" /\ s[4] = "write" /\ s[5] = "reply"
    BY <2>2
  <2>4. \A i \in 1..5 : i = 1 \/ i = 2 \/ i = 3 \/ i = 4 \/ i = 5
    OBVIOUS
  <2>5. 1 \in 1..5 /\ \A j \in 1..1 : j = 1
    OBVIOUS
  <2> HIDE DEF s
  <2>6. \A i \in 1..5 : s[i] \in {"request", "merge", "truncate", "write", "reply"}
    BY <2>3, <2>4
  <2>7. ToSet(s) \subseteq {"request", "merge", "truncate", "write", "reply"}
    BY <2>3, <2>6, InSet DEF Has
  <2>8. Orderly(op, s)
    BY <1>2, <2>7 DEF Orderly
  <2>9. Pending(s)
    BY <2>3, <2>5 DEF Pending, Stops
  <2> QED BY <2>1, <2>8, <2>9
<1>3. CASE op = "test"
  <2> DEFINE s == <<"snapshot", "finish">>
  <2>1. Plan(op) = s /\ op \notin Starters \cup SetsMode \cup Replying \cup ClientOps
    BY <1>3 DEF Plan, TestPlan, Starters, SetsMode, Replying, ClientOps
  <2>2. "snapshot" \in Steps /\ "finish" \in Steps
    BY DEF Steps
  <2>3. s \in Seq(Steps) /\ Len(s) = 2 /\ s[1] = "snapshot" /\ s[2] = "finish"
    BY <2>2
  <2>4. \A i \in 1..2 : i = 1 \/ i = 2
    OBVIOUS
  <2> HIDE DEF s
  <2>5. \A i \in 1..2 : s[i] \in {"snapshot", "finish"}
    BY <2>3, <2>4
  <2>6. ToSet(s) \subseteq {"snapshot", "finish"}
    BY <2>3, <2>5, InSet DEF Has
  <2>7. \A i \in 1..(2 - 1) : i \in 1..2
    OBVIOUS
  <2>8. \A i \in 1..(2 - 1) : s[i] # "write"
    BY <2>5, <2>7
  <2>9. Orderly(op, s)
    BY <1>3, <2>3, <2>6, <2>8 DEF Orderly
  <2> QED BY <2>1, <2>9
<1> QED BY <1>1, <1>2, <1>3

-----------------------------------------------------------------------------
(***************************************************************************)
(* What a step leaves of a plan.                                           *)
(***************************************************************************)
LEMMA TailElements ==
  ASSUME NEW s, Whole(s), Head(s) \notin {"reply", "finish"}
  PROVE  /\ s \in Seq(Steps) /\ Tail(s) \in Seq(Steps) /\ Len(s) \in Nat /\ Len(s) >= 2
         /\ Head(s) = s[1] /\ Head(Tail(s)) = Tail(s)[1]
         /\ Len(Tail(s)) = Len(s) - 1
         /\ \A i \in 1..Len(Tail(s)) : i + 1 \in 1..Len(s) /\ Tail(s)[i] = s[i + 1]
         /\ \A i \in 1..Len(s) : i = 1 \/ (i - 1 \in 1..Len(Tail(s)) /\ s[i] = Tail(s)[i - 1])
<1>1. s \in Seq(Steps) /\ Len(s) \in Nat /\ Len(s) >= 1 /\ Head(s) = s[1]
  BY DEF Whole, Chain
<1>2. Len(s) >= 2
  BY <1>1 DEF Whole
<1> DEFINE u == Tail(s)
<1>3. /\ u \in Seq(Steps) /\ Len(u) = Len(s) - 1
      /\ \A i \in 1..Len(u) : u[i] = s[i + 1]
  BY <1>1, <1>2
<1> HIDE DEF u
<1>4. \A i \in 1..Len(u) : i + 1 \in 1..Len(s)
  BY <1>1, <1>3
<1>5. ASSUME NEW i \in 1..Len(s), i # 1 PROVE i - 1 \in 1..Len(u) /\ s[i] = u[i - 1]
  <2>1. i - 1 \in 1..Len(u) /\ (i - 1) + 1 = i
    BY <1>1, <1>3, <1>5
  <2> QED BY <1>3, <2>1
<1>6. Head(u) = u[1]
  BY <1>2, <1>3
<1>7. /\ s \in Seq(Steps) /\ u \in Seq(Steps) /\ Len(s) \in Nat /\ Len(s) >= 2
      /\ Head(s) = s[1] /\ Head(u) = u[1] /\ Len(u) = Len(s) - 1
      /\ \A i \in 1..Len(u) : i + 1 \in 1..Len(s) /\ u[i] = s[i + 1]
      /\ \A i \in 1..Len(s) : i = 1 \/ (i - 1 \in 1..Len(u) /\ s[i] = u[i - 1])
  BY <1>1, <1>2, <1>3, <1>4, <1>5, <1>6
<1> QED BY <1>7 DEF u

LEMMA TailSet ==
  ASSUME NEW s, Whole(s), Head(s) \notin {"reply", "finish"}
  PROVE  /\ Head(s) \in ToSet(s)
         /\ ToSet(Tail(s)) \subseteq ToSet(s)
         /\ ToSet(s) \subseteq {Head(s)} \cup ToSet(Tail(s))
<1> DEFINE u == Tail(s)
<1>1. /\ s \in Seq(Steps) /\ u \in Seq(Steps) /\ Len(s) \in Nat /\ Len(s) >= 2 /\ Head(s) = s[1]
      /\ \A i \in 1..Len(u) : i + 1 \in 1..Len(s) /\ u[i] = s[i + 1]
      /\ \A i \in 1..Len(s) : i = 1 \/ (i - 1 \in 1..Len(u) /\ s[i] = u[i - 1])
  BY TailElements
<1> HIDE DEF u
<1>2. 1 \in 1..Len(s)
  BY <1>1
<1>3. Has(s, Head(s))
  BY <1>1, <1>2 DEF Has
<1>4. \A x : Has(u, x) => Has(s, x)
  BY <1>1 DEF Has
<1>5. \A x : Has(s, x) => x = Head(s) \/ Has(u, x)
  BY <1>1 DEF Has
<1>6. /\ Head(s) \in ToSet(s)
      /\ ToSet(u) \subseteq ToSet(s)
      /\ ToSet(s) \subseteq {Head(s)} \cup ToSet(u)
  BY <1>1, <1>3, <1>4, <1>5, InSet
<1> QED BY <1>6 DEF u

LEMMA TailOrderly ==
  ASSUME NEW op, NEW s, Whole(s), Head(s) \notin {"reply", "finish"}, Orderly(op, s)
  PROVE  /\ Orderly(op, Tail(s))
         /\ Head(s) = "write" /\ op # "provider" => Head(Tail(s)) = "load"
<1> DEFINE u == Tail(s)
<1>1. /\ Len(s) \in Nat /\ Len(s) >= 2 /\ Len(u) = Len(s) - 1 /\ Head(s) = s[1] /\ Head(u) = u[1]
      /\ \A i \in 1..Len(u) : i + 1 \in 1..Len(s) /\ u[i] = s[i + 1]
  BY TailElements
<1>2. ToSet(u) \subseteq ToSet(s)
  BY TailSet
<1> HIDE DEF u
<1>3. ASSUME op # "provider", NEW i \in 1..(Len(u) - 1), u[i] = "write" PROVE u[i + 1] = "load"
  <2>1. i \in 1..Len(u) /\ i + 1 \in 1..Len(u) /\ i + 1 \in 1..(Len(s) - 1)
    BY <1>1, <1>3
  <2>2. u[i] = s[i + 1] /\ u[i + 1] = s[(i + 1) + 1]
    BY <1>1, <2>1
  <2> QED BY <1>3, <2>1, <2>2 DEF Orderly
<1>4. Orderly(op, u)
  BY <1>2, <1>3 DEF Orderly
<1>5. s[1] = "write" /\ op # "provider" => u[1] = "load"
  <2>1. 1 \in 1..(Len(s) - 1) /\ 1 \in 1..Len(u)
    BY <1>1
  <2>2. u[1] = s[1 + 1]
    BY <1>1, <2>1
  <2> QED BY <2>1, <2>2 DEF Orderly
<1> QED BY <1>1, <1>4, <1>5 DEF u

LEMMA LanLast ==
  ASSUME NEW s, Whole(s), Head(s) = "allow_lan"
  PROVE  "allow_lan" \notin ToSet(Tail(s))
<1> DEFINE u == Tail(s)
<1>1. /\ Whole(u) /\ u \in Seq(Steps) /\ Head(u) \in Successors("allow_lan")
  BY TailIs
<1> HIDE DEF u
<1>2. Successors("allow_lan") = {"reply"} /\ Successors("reply") = {}
  BY DEF Successors
<1>3. Len(u) \in Nat /\ Len(u) >= 1 /\ Head(u) = u[1]
  BY <1>1 DEF Whole, Chain
<1>4. u[1] = "reply"
  BY <1>1, <1>2, <1>3
<1>5. Len(u) = 1
  <2>1. CASE Len(u) >= 2
    <3>1. 1 \in 1..(Len(u) - 1)
      BY <1>3, <2>1
    <3>2. u[1 + 1] \in Successors(u[1])
      BY <1>1, <3>1 DEF Whole, Chain
    <3> QED BY <1>2, <1>4, <3>2
  <2> QED BY <1>3, <2>1
<1>6. \A i \in 1..Len(u) : u[i] = "reply"
  BY <1>4, <1>5
<1>7. ~Has(u, "allow_lan")
  BY <1>6 DEF Has
<1> QED BY <1>1, <1>7, InSet DEF u

LEMMA UnsavedTail ==
  ASSUME NEW s, Whole(s), Head(s) \notin {"reply", "finish", "write", "rename"}, Unsaved(s)
  PROVE  Unsaved(Tail(s)) /\ Head(s) \notin Stops
<1> DEFINE u == Tail(s)
<1>1. /\ Len(s) \in Nat /\ Len(s) >= 2 /\ Len(u) = Len(s) - 1 /\ Head(s) = s[1] /\ Head(u) = u[1]
      /\ \A i \in 1..Len(u) : i + 1 \in 1..Len(s) /\ u[i] = s[i + 1]
      /\ \A i \in 1..Len(s) : i = 1 \/ (i - 1 \in 1..Len(u) /\ s[i] = u[i - 1])
  BY TailElements
<1>2. Head(u) \in Successors(Head(s))
  BY TailIs
<1> HIDE DEF u
<1>3. CASE Head(s) \in {"request", "merge", "truncate"}
  <2>1. Head(u) \in {"merge", "truncate", "write", "rename"}
    BY <1>2, <1>3 DEF Successors
  <2>2. Head(s) \notin Stops
    BY <1>3 DEF Stops
  <2> QED BY <2>1, <2>2 DEF Unsaved, u
<1>4. CASE Head(s) \notin {"request", "merge", "truncate"}
  <2>1. PICK i \in 1..Len(s) : s[i] = "request" /\ \A j \in 1..i : s[j] \notin Stops
    BY <1>4 DEF Unsaved, Pending
  <2>2. i # 1 /\ 1 \in 1..i
    BY <1>1, <1>4, <2>1
  <2>3. i - 1 \in 1..Len(u) /\ u[i - 1] = "request"
    BY <1>1, <2>1, <2>2
  <2>4. ASSUME NEW j \in 1..(i - 1) PROVE u[j] \notin Stops
    <3>1. j \in 1..Len(u) /\ j + 1 \in 1..i
      BY <1>1, <2>3, <2>4
    <3> QED BY <1>1, <2>1, <3>1
  <2>5. Pending(u)
    BY <2>3, <2>4 DEF Pending
  <2> QED BY <1>1, <2>1, <2>2, <2>5 DEF Unsaved, u
<1> QED BY <1>3, <1>4

\* A task at one of these steps has saved what it was to save.
LEMMA SavedAt ==
  ASSUME NEW s, Whole(s), Head(s) \in Stops
  PROVE  ~Unsaved(s)
<1>1. Len(s) \in Nat /\ Len(s) >= 1 /\ Head(s) = s[1]
  BY DEF Whole, Chain
<1>2. \A i \in 1..Len(s) : 1 \in 1..i
  BY <1>1
<1>3. ~Pending(s)
  BY <1>1, <1>2 DEF Pending
<1> QED BY <1>3 DEF Unsaved, Stops

\* The same request; the test of the delays notes what it has read as its value.
Kin(n, q) == n.op = q.op /\ n.field = q.field /\ (n.value = q.value \/ q.op = "test")

LEMMA OrderedTail ==
  ASSUME NEW q \in Task, Fits(q), Ordered(q), Head(q.todo) \notin {"reply", "finish"},
         NEW n, Kin(n, q), n.todo = Tail(q.todo),
         \/ n.mode = q.mode /\ Head(q.todo) # "restore"
         \/ n.mode # None /\ Head(q.todo) = "restore"
         \/ n.mode = None /\ Head(q.todo) = "allow_lan",
         n.client \in {q.client, None} \/ Head(q.todo) = "cli_read"
  PROVE  Ordered(n)
<1> DEFINE s == q.todo
           u == n.todo
<1>1. Whole(s)
  BY DEF Fits
<1>2. /\ Orderly(n.op, u)
  BY <1>1, TailOrderly DEF Ordered, Kin
<1>3. /\ Head(s) \in ToSet(s)
      /\ ToSet(u) \subseteq ToSet(s)
      /\ ToSet(s) \subseteq {Head(s)} \cup ToSet(u)
  BY <1>1, TailSet
<1>4. Head(s) = "allow_lan" => "allow_lan" \notin ToSet(u)
  BY <1>1, LanLast
<1> HIDE DEF s, u
<1>5. Head(s) \in {"restore", "allow_lan"} => n.op \in Starters
  BY <1>3 DEF Ordered, Orderly, Kin, s
<1>6. Head(s) = "cli_read" => n.op \in ClientOps
  BY <1>3 DEF Ordered, Orderly, Kin, s
<1>7. Starters \cap SetsMode = {}
  BY DEF Starters, SetsMode
<1>8. n.op \in SetsMode => n.mode = n.value
  BY <1>5, <1>7 DEF Ordered, Kin, s, SetsMode
<1>9. n.op \notin Starters \cup SetsMode => n.mode = None
  BY <1>5 DEF Ordered, Kin, s
<1>10. n.op \notin ClientOps => n.client = None
  BY <1>6 DEF Ordered, Kin, s
<1>11. ModeToCome(n)
  <2>1. SUFFICES ASSUME "allow_lan" \in ToSet(u), n.mode = None
                 PROVE  "restore" \in ToSet(u)
    BY DEF ModeToCome, u
  <2>2. n.mode = q.mode /\ Head(s) # "restore" /\ Head(s) # "allow_lan"
    BY <1>4, <2>1 DEF s
  <2>3. "allow_lan" \in ToSet(s) /\ q.mode = None
    BY <1>3, <2>1, <2>2
  <2>4. "restore" \in ToSet(s)
    BY <2>2, <2>3 DEF Ordered, ModeToCome, s
  <2> QED BY <1>3, <2>2, <2>4
<1> QED BY <1>2, <1>8, <1>9, <1>10, <1>11 DEF Ordered, Kin, u

\* An operation that is cut short.
LEMMA OrderedCut ==
  ASSUME NEW q \in Task, Ordered(q), q.op # "test", NEW s,
         s = <<"reply">> \/ (s = <<"allow_lan", "reply">> /\ q.op \in Starters),
         NEW n, n = [q EXCEPT !.todo = s]
  PROVE  Ordered(n) /\ Kin(n, q) /\ n.mode = q.mode /\ n.client = q.client /\ n.stale = q.stale
<1>1. "reply" \in Steps /\ "allow_lan" \in Steps
  BY DEF Steps
<1>2. s \in Seq(Steps)
  <2>1. <<"reply">> \in Seq(Steps) /\ <<"allow_lan", "reply">> \in Seq(Steps)
    BY <1>1
  <2> QED BY <2>1
<1>3. /\ s = <<"reply">> => ToSet(s) = {"reply"} /\ \A i \in 1..Len(s) : s[i] # "write"
      /\ s = <<"allow_lan", "reply">> =>
           ToSet(s) = {"allow_lan", "reply"} /\ \A i \in 1..Len(s) : s[i] # "write"
  <2>1. ASSUME s = <<"reply">>
        PROVE  ToSet(s) = {"reply"} /\ \A i \in 1..Len(s) : s[i] # "write"
    <3>1. Len(s) = 1 /\ s[1] = "reply" /\ \A i \in 1..1 : i = 1
      BY <2>1
    <3>2. \A i \in 1..Len(s) : s[i] = "reply"
      BY <3>1
    <3>3. \A x : Has(s, x) <=> x = "reply"
      BY <3>1, <3>2 DEF Has
    <3>4. \A x : x \in ToSet(s) <=> Has(s, x)
      BY <1>2, InSet
    <3> QED BY <3>2, <3>3, <3>4
  <2>2. ASSUME s = <<"allow_lan", "reply">>
        PROVE  ToSet(s) = {"allow_lan", "reply"} /\ \A i \in 1..Len(s) : s[i] # "write"
    <3>1. /\ Len(s) = 2 /\ s[1] = "allow_lan" /\ s[2] = "reply"
          /\ \A i \in 1..2 : i = 1 \/ i = 2
      BY <2>2
    <3>2. \A i \in 1..Len(s) : s[i] \in {"allow_lan", "reply"}
      BY <3>1
    <3>5. 1 \in 1..2 /\ 2 \in 1..2
      OBVIOUS
    <3>3. \A x : Has(s, x) <=> x \in {"allow_lan", "reply"}
      BY <3>1, <3>2, <3>5 DEF Has
    <3>4. \A x : x \in ToSet(s) <=> Has(s, x)
      BY <1>2, InSet
    <3> QED BY <3>2, <3>3, <3>4
  <2> QED BY <2>1, <2>2
<1>4. /\ n.op = q.op /\ n.field = q.field /\ n.value = q.value /\ n.mode = q.mode
      /\ n.client = q.client /\ n.stale = q.stale /\ n.todo = s
  BY <1>2 DEF Task
<1>5. \A i \in 1..(Len(s) - 1) : i \in 1..Len(s)
  BY <1>2
<1>7. Orderly(q.op, s)
  BY <1>3, <1>5 DEF Orderly
<1>8. ModeToCome(n)
  <2>1. s = <<"allow_lan", "reply">> => Head(s) = "allow_lan"
    OBVIOUS
  <2> QED BY <1>3, <1>4, <2>1 DEF ModeToCome
<1> QED BY <1>4, <1>7, <1>8 DEF Ordered, Kin

\* A start of Mihomo that is to come restores the mode after it.
LEMMA SpawnRestores ==
  ASSUME NEW s, Whole(s), "spawn" \in ToSet(s)
  PROVE  "restore" \in ToSet(s) /\ (Head(s) \notin {"reply", "finish"} => "restore" \in ToSet(Tail(s)))
<1>1. s \in Seq(Steps) /\ Len(s) \in Nat /\ Len(s) >= 1 /\ Head(s) = s[1]
  BY DEF Whole, Chain
<1>2. PICK i \in 1..Len(s) : s[i] = "spawn"
  BY <1>1, InSet DEF Has
<1>3. ASSUME NEW j \in 1..Len(s), s[j] \in {"spawn", "record", "resume"}
      PROVE  j + 1 \in 1..Len(s) /\ s[j + 1] \in Successors(s[j])
  <2>1. j # Len(s)
    BY <1>3 DEF Whole
  <2>2. j \in 1..(Len(s) - 1) /\ j + 1 \in 1..Len(s)
    BY <1>1, <2>1
  <2> QED BY <2>2 DEF Whole, Chain
<1>4. /\ Successors("spawn") = {"record", "resume"} /\ Successors("record") = {"resume"}
      /\ Successors("resume") = {"restore"}
  BY DEF Successors
<1>5. PICK j \in 2..Len(s) : s[j] = "resume"
  <2>1. i + 1 \in 2..Len(s) /\ s[i + 1] \in {"record", "resume"}
    BY <1>2, <1>3, <1>4
  <2>2. CASE s[i + 1] = "record"
    <3>1. (i + 1) \in 1..Len(s)
      BY <1>1, <2>1
    <3>2. (i + 1) + 1 \in 1..Len(s) /\ s[(i + 1) + 1] \in Successors("record")
      BY <1>3, <2>2, <3>1
    <3> QED BY <1>2, <1>4, <3>1, <3>2
  <2> QED BY <2>1, <2>2
<1>6. j + 1 \in 3..Len(s) /\ s[j + 1] = "restore"
  BY <1>1, <1>3, <1>4, <1>5
<1>7. PICK k \in 3..Len(s) : s[k] = "restore"
  BY <1>6
<1>8. k \in 1..Len(s) /\ k # 1
  BY <1>1
<1>9. "restore" \in ToSet(s)
  BY <1>1, <1>7, <1>8, InSet DEF Has
<1>10. ASSUME Head(s) \notin {"reply", "finish"} PROVE "restore" \in ToSet(Tail(s))
  <2> DEFINE u == Tail(s)
  <2>1. u \in Seq(Steps) /\ k - 1 \in 1..Len(u) /\ s[k] = u[k - 1]
    BY <1>8, <1>10, TailElements
  <2> HIDE DEF u
  <2>2. "restore" \in ToSet(u)
    BY <1>7, <2>1, InSet DEF Has
  <2> QED BY <2>2 DEF u
<1> QED BY <1>9, <1>10

\* A reply comes last.
LEMMA ReplyLast ==
  ASSUME NEW s, Whole(s), Head(s) = "reply"
  PROVE  "spawn" \notin ToSet(s)
<1>1. s \in Seq(Steps) /\ Len(s) \in Nat /\ Len(s) >= 1 /\ Head(s) = s[1]
  BY DEF Whole, Chain
<1>2. Successors("reply") = {}
  BY DEF Successors
<1>3. PICK n \in Nat : n = Len(s) /\ n >= 1
  BY <1>1
<1>4. n = 1
  <2>1. ASSUME n # 1 PROVE FALSE
    <3>1. 1 \in 1..(Len(s) - 1)
      BY <1>3, <2>1
    <3>2. s[1 + 1] \in Successors(s[1])
      BY <3>1 DEF Whole, Chain
    <3> QED BY <1>1, <1>2, <3>2
  <2> QED BY <2>1
<1>5. ~Has(s, "spawn")
  BY <1>1, <1>3, <1>4 DEF Has
<1> QED BY <1>1, <1>5, InSet

LEMMA RecordsTail ==
  ASSUME NEW op, NEW s, Whole(s), Head(s) \notin {"reply", "finish"}, Records(op, s)
  PROVE  /\ Records(op, Tail(s))
         /\ Head(s) = "spawn" /\ op \notin {"ports", "tun", "activate"} => Head(Tail(s)) = "record"
<1> DEFINE u == Tail(s)
<1>1. /\ Len(s) \in Nat /\ Len(s) >= 2 /\ Len(u) = Len(s) - 1 /\ Head(s) = s[1] /\ Head(u) = u[1]
      /\ \A i \in 1..Len(u) : i + 1 \in 1..Len(s) /\ u[i] = s[i + 1]
  BY TailElements
<1> HIDE DEF u
<1>2. ASSUME op \notin {"ports", "tun", "activate"}, NEW i \in 1..(Len(u) - 1), u[i] = "spawn"
      PROVE  u[i + 1] = "record"
  <2>1. i \in 1..Len(u) /\ i + 1 \in 1..Len(u) /\ i + 1 \in 1..(Len(s) - 1)
    BY <1>1, <1>2
  <2>2. u[i] = s[i + 1] /\ u[i + 1] = s[(i + 1) + 1]
    BY <1>1, <2>1
  <2> QED BY <1>2, <2>1, <2>2 DEF Records
<1>3. s[1] = "spawn" /\ op \notin {"ports", "tun", "activate"} => u[1] = "record"
  <2>1. 1 \in 1..(Len(s) - 1) /\ 1 \in 1..Len(u)
    BY <1>1
  <2>2. u[1] = s[1 + 1]
    BY <1>1, <2>1
  <2> QED BY <2>1, <2>2 DEF Records
<1>4. Records(op, u)
  BY <1>2 DEF Records
<1> QED BY <1>1, <1>3, <1>4 DEF u

LEMMA RecordsCut ==
  ASSUME NEW op, NEW s \in {<<"reply">>, <<"allow_lan", "reply">>}
  PROVE  Records(op, s) /\ "spawn" \notin ToSet(s) /\ Head(s) \in {"reply", "allow_lan"}
<1>1. "reply" \in Steps /\ "allow_lan" \in Steps
  BY DEF Steps
<1>2. s \in Seq(Steps) /\ Head(s) \in {"reply", "allow_lan"} /\ \A i \in 1..Len(s) : s[i] # "spawn"
  <2>1. ASSUME s = <<"reply">> PROVE s \in Seq(Steps) /\ Head(s) = "reply" /\ \A i \in 1..Len(s) : s[i] # "spawn"
    <3>1. <<"reply">> \in Seq(Steps) /\ Len(<<"reply">>) = 1 /\ <<"reply">>[1] = "reply"
      BY <1>1
    <3> QED BY <2>1, <3>1
  <2>2. ASSUME s = <<"allow_lan", "reply">>
        PROVE  s \in Seq(Steps) /\ Head(s) = "allow_lan" /\ \A i \in 1..Len(s) : s[i] # "spawn"
    <3>1. /\ <<"allow_lan", "reply">> \in Seq(Steps) /\ Len(<<"allow_lan", "reply">>) = 2
          /\ <<"allow_lan", "reply">>[1] = "allow_lan" /\ <<"allow_lan", "reply">>[2] = "reply"
      BY <1>1
    <3> QED BY <2>2, <3>1
  <2> QED BY <2>1, <2>2
<1>3. ~Has(s, "spawn")
  BY <1>2 DEF Has
<1>4. Len(s) \in Nat
  BY <1>2
<1>5. \A i \in 1..(Len(s) - 1) : i \in 1..Len(s)
  BY <1>4
<1> QED BY <1>2, <1>3, <1>5, InSet DEF Records

-----------------------------------------------------------------------------
(***************************************************************************)
(* Which plans start Mihomo, and what comes right after it.                *)
(***************************************************************************)
Spawnless(s) == s \in Seq(Steps) /\ \A i \in 1..Len(s) : s[i] # "spawn"

LEMMA SpawnlessConcat ==
  ASSUME NEW s, Spawnless(s), NEW t, Spawnless(t)
  PROVE  Spawnless(s \o t)
<1> DEFINE u == s \o t
<1>1. s \in Seq(Steps) /\ t \in Seq(Steps)
  BY DEF Spawnless
<1>2. /\ u \in Seq(Steps) /\ Len(u) = Len(s) + Len(t) /\ Len(s) \in Nat /\ Len(t) \in Nat
      /\ \A i \in 1..Len(s) : u[i] = s[i]
      /\ \A i \in 1..Len(t) : u[Len(s) + i] = t[i]
  BY <1>1, Joined
<1> HIDE DEF u
<1>3. ASSUME NEW i \in 1..Len(u) PROVE u[i] # "spawn"
  <2>1. CASE i \in 1..Len(s)
    BY <1>2, <2>1 DEF Spawnless
  <2>2. CASE i \notin 1..Len(s)
    <3>1. i - Len(s) \in 1..Len(t) /\ i = Len(s) + (i - Len(s))
      BY <1>2, <1>3, <2>2
    <3> QED BY <1>2, <3>1 DEF Spawnless
  <2> QED BY <2>1, <2>2
<1>4. Spawnless(u)
  BY <1>2, <1>3 DEF Spawnless
<1> QED BY <1>4 DEF u

\* The parts of the plans.
LEMMA SpawnlessParts ==
  /\ Spawnless(Edit) /\ Spawnless(Save) /\ Spawnless(SetMode) /\ Spawnless(Started)
  /\ Spawnless(ClientSave) /\ Spawnless(<<"reply">>) /\ Spawnless(<<"cli_read">>)
<1>s. \A x \in {"read_config", "cut_config", "write_config", "request", "merge", "truncate", "write",
               "load", "store", "reply", "resume", "restore", "patch_mode", "allow_lan",
               "cli_read", "cli_truncate", "cli_write"} : x \in Steps /\ x # "spawn"
  BY DEF Steps
<1>1. Spawnless(Edit)
  <2>1. Edit \in Seq(Steps) /\ Len(Edit) = 3
        /\ Edit[1] = "read_config" /\ Edit[2] = "cut_config" /\ Edit[3] = "write_config"
    BY <1>s DEF Edit
  <2>2. \A i \in 1..3 : i = 1 \/ i = 2 \/ i = 3
    OBVIOUS
  <2> QED BY <2>1, <2>2 DEF Spawnless
<1>2. Spawnless(Save)
  <2>1. Save \in Seq(Steps) /\ Len(Save) = 6
        /\ Save[1] = "request" /\ Save[2] = "merge" /\ Save[3] = "truncate"
        /\ Save[4] = "write" /\ Save[5] = "load" /\ Save[6] = "store"
    BY <1>s DEF Save
  <2>2. \A i \in 1..6 : i = 1 \/ i = 2 \/ i = 3 \/ i = 4 \/ i = 5 \/ i = 6
    OBVIOUS
  <2> QED BY <2>1, <2>2 DEF Spawnless
<1>3. ASSUME NEW a \in Steps, a # "spawn" PROVE Spawnless(<<a>>)
  <2>1. <<a>> \in Seq(Steps) /\ Len(<<a>>) = 1 /\ <<a>>[1] = a
    BY <1>3
  <2>2. \A i \in 1..1 : i = 1
    OBVIOUS
  <2> QED BY <1>3, <2>1, <2>2 DEF Spawnless
<1>4. ASSUME NEW a \in Steps, NEW b \in Steps, a # "spawn", b # "spawn" PROVE Spawnless(<<a, b>>)
  <2>1. <<a, b>> \in Seq(Steps) /\ Len(<<a, b>>) = 2 /\ <<a, b>>[1] = a /\ <<a, b>>[2] = b
    BY <1>4
  <2>2. \A i \in 1..2 : i = 1 \/ i = 2
    OBVIOUS
  <2> QED BY <1>4, <2>1, <2>2 DEF Spawnless
<1>5. /\ Spawnless(<<"reply">>) /\ Spawnless(<<"cli_read">>) /\ Spawnless(<<"patch_mode">>)
      /\ Spawnless(<<"allow_lan">>)
  BY <1>s, <1>3
<1>6. Spawnless(<<"resume", "restore">>) /\ Spawnless(ClientSave)
  BY <1>s, <1>4 DEF ClientSave
<1>7. Spawnless(Edit \o Save)
  BY <1>1, <1>2, SpawnlessConcat
<1>8. Spawnless(SetMode)
  BY <1>5, <1>7, SpawnlessConcat DEF SetMode
<1>9. Spawnless(<<"resume", "restore">> \o SetMode)
  BY <1>6, <1>8, SpawnlessConcat
<1>10. Spawnless(Started)
  BY <1>5, <1>9, SpawnlessConcat DEF Started
<1> QED BY <1>1, <1>2, <1>5, <1>6, <1>8, <1>10

\* A plan that starts Mihomo is that of an operation that restarts it, or records
\* the path next.
LEMMA PlanRecords ==
  ASSUME NEW op \in Operations \cup {"boot", "test"}
  PROVE  Records(op, Plan(op))
<1>p. /\ Spawnless(Edit) /\ Spawnless(Save) /\ Spawnless(SetMode) /\ Spawnless(Started)
      /\ Spawnless(ClientSave) /\ Spawnless(<<"reply">>) /\ Spawnless(<<"cli_read">>)
  BY SpawnlessParts
<1>s. /\ \A x \in {"request", "rename", "reply", "merge", "truncate", "write", "cli_read", "select",
                   "read_config", "rename_config", "snapshot", "finish"} : x \in Steps /\ x # "spawn"
      /\ "spawn" \in Steps /\ "record" \in Steps
  BY DEF Steps
<1>0. ASSUME NEW s, Spawnless(s) PROVE Records(op, s)
  <2>1. Len(s) \in Nat
    BY <1>0 DEF Spawnless
  <2>2. \A i \in 1..(Len(s) - 1) : i \in 1..Len(s)
    BY <2>1
  <2> QED BY <1>0, <2>2 DEF Spawnless, Records
<1>1. CASE op \in {"put", "auth"}
  <2>1. Plan(op) = Save \o <<"reply">>
    BY <1>1 DEF Plan
  <2>2. Spawnless(Save \o <<"reply">>)
    BY <1>p, SpawnlessConcat
  <2> QED BY <1>0, <2>1, <2>2
<1>2. CASE op = "dns"
  <2>1. Plan(op) = Edit \o Save \o <<"reply">>
    BY <1>2 DEF Plan
  <2>2. Spawnless(Edit \o Save)
    BY <1>p, SpawnlessConcat
  <2>3. Spawnless(Edit \o Save \o <<"reply">>)
    BY <1>p, <2>2, SpawnlessConcat
  <2> QED BY <1>0, <2>1, <2>3
<1>3. CASE op \in {"ports", "tun", "activate"}
  BY <1>3 DEF Records
<1>4. CASE op = "mode"
  <2>1. Plan(op) = SetMode \o <<"reply">>
    BY <1>4 DEF Plan, ModePlan
  <2>2. Spawnless(SetMode \o <<"reply">>)
    BY <1>p, SpawnlessConcat
  <2> QED BY <1>0, <2>1, <2>2
<1>5. CASE op = "rules"
  <2> DEFINE s == <<"request", "rename", "reply">>
  <2>1. Plan(op) = s
    BY <1>5 DEF Plan, RulesPlan
  <2>2. s \in Seq(Steps) /\ Len(s) = 3 /\ s[1] = "request" /\ s[2] = "rename" /\ s[3] = "reply"
    BY <1>s
  <2>3. \A i \in 1..3 : i = 1 \/ i = 2 \/ i = 3
    OBVIOUS
  <2> HIDE DEF s
  <2>4. Spawnless(s)
    BY <2>2, <2>3 DEF Spawnless
  <2> QED BY <1>0, <2>1, <2>4
<1>6. CASE op = "provider"
  <2> DEFINE s == <<"request", "merge", "truncate", "write", "reply">>
  <2>1. Plan(op) = s
    BY <1>6 DEF Plan, ProviderPlan
  <2>2. /\ s \in Seq(Steps) /\ Len(s) = 5 /\ s[1] = "request" /\ s[2] = "merge"
        /\ s[3] = "truncate" /\ s[4] = "write" /\ s[5] = "reply"
    BY <1>s
  <2>3. \A i \in 1..5 : i = 1 \/ i = 2 \/ i = 3 \/ i = 4 \/ i = 5
    OBVIOUS
  <2> HIDE DEF s
  <2>4. Spawnless(s)
    BY <2>2, <2>3 DEF Spawnless
  <2> QED BY <1>0, <2>1, <2>4
<1>7. CASE op = "start"
  <2> DEFINE h == <<"spawn", "record">>
             v == h \o Started
  <2>1. Plan(op) = v \o <<"reply">>
    BY <1>7 DEF Plan, StartPlan
  <2>2. h \in Seq(Steps) /\ Len(h) = 2 /\ h[1] = "spawn" /\ h[2] = "record"
    BY <1>s
  <2>3. \A i \in 1..2 : i = 1 \/ i = 2
    OBVIOUS
  <2> HIDE DEF h
  <2>4. Started \in Seq(Steps) /\ <<"reply">> \in Seq(Steps)
    BY <1>p DEF Spawnless
  <2>5. /\ v \in Seq(Steps) /\ Len(v) = Len(h) + Len(Started) /\ Len(Started) \in Nat
        /\ \A i \in 1..Len(h) : v[i] = h[i]
        /\ \A i \in 1..Len(Started) : v[Len(h) + i] = Started[i]
    BY <2>2, <2>4, Joined
  <2> HIDE DEF v
  <2>6. v[1] = "spawn" /\ v[2] = "record" /\ \A i \in 1..Len(v) : i # 1 => v[i] # "spawn"
    <3>1. ASSUME NEW i \in 1..Len(v), i # 1, i # 2 PROVE v[i] # "spawn"
      <4>1. i - 2 \in 1..Len(Started) /\ i = Len(h) + (i - 2)
        BY <2>2, <2>5, <3>1
      <4> QED BY <1>p, <2>5, <4>1 DEF Spawnless
    <3>2. 1 \in 1..Len(h) /\ 2 \in 1..Len(h)
      BY <2>2
    <3>3. v[1] = "spawn" /\ v[2] = "record"
      BY <2>2, <2>5, <3>2
    <3> QED BY <3>1, <3>3
  <2> DEFINE w == v \o <<"reply">>
             r == <<"reply">>
  <2>7. r \in Seq(Steps) /\ Len(r) = 1 /\ r[1] = "reply"
    BY <1>s
  <2>8. /\ w \in Seq(Steps) /\ Len(w) = Len(v) + Len(r) /\ Len(v) \in Nat
        /\ \A i \in 1..Len(v) : w[i] = v[i]
        /\ \A i \in 1..Len(r) : w[Len(v) + i] = r[i]
    BY <2>4, <2>5, Joined
  <2>9. Plan(op) = w
    BY <2>1
  <2> HIDE DEF w, r
  <2>10. ASSUME NEW i \in 1..(Len(w) - 1), w[i] = "spawn" PROVE w[i + 1] = "record"
    <3>1. i \in 1..Len(v) /\ 1 \in 1..Len(v) /\ 2 \in 1..Len(v)
      BY <2>2, <2>5, <2>7, <2>8, <2>10
    <3>2. i = 1 /\ w[2] = "record"
      BY <2>6, <2>8, <2>10, <3>1
    <3> QED BY <3>2
  <2> QED BY <2>9, <2>10 DEF Records
<1>8. CASE op = "boot"
  <2>1. Plan(op) = Started \o <<"reply">>
    BY <1>8 DEF Plan
  <2>2. Spawnless(Started \o <<"reply">>)
    BY <1>p, SpawnlessConcat
  <2> QED BY <1>0, <2>1, <2>2
<1>9. CASE op = "cli_mode"
  <2> DEFINE e == <<"read_config", "rename_config", "reply">>
  <2>1. Plan(op) = <<"cli_read">> \o SetMode \o ClientSave \o e
    BY <1>9 DEF Plan, ClientMode
  <2>2. e \in Seq(Steps) /\ Len(e) = 3 /\ e[1] = "read_config" /\ e[2] = "rename_config" /\ e[3] = "reply"
    BY <1>s
  <2>3. \A i \in 1..3 : i = 1 \/ i = 2 \/ i = 3
    OBVIOUS
  <2> HIDE DEF e
  <2>4. Spawnless(e)
    BY <2>2, <2>3 DEF Spawnless
  <2>5. Spawnless(<<"cli_read">> \o SetMode)
    BY <1>p, SpawnlessConcat
  <2>6. Spawnless(<<"cli_read">> \o SetMode \o ClientSave)
    BY <1>p, <2>5, SpawnlessConcat
  <2>7. Spawnless(<<"cli_read">> \o SetMode \o ClientSave \o e)
    BY <2>4, <2>6, SpawnlessConcat
  <2> QED BY <1>0, <2>1, <2>7
<1>10. CASE op = "cli_select"
  <2> DEFINE h == <<"cli_read", "select">>
  <2>1. Plan(op) = h \o ClientSave \o <<"reply">>
    BY <1>10 DEF Plan, ClientSelect
  <2>2. h \in Seq(Steps) /\ Len(h) = 2 /\ h[1] = "cli_read" /\ h[2] = "select"
    BY <1>s
  <2>3. \A i \in 1..2 : i = 1 \/ i = 2
    OBVIOUS
  <2> HIDE DEF h
  <2>4. Spawnless(h)
    BY <2>2, <2>3 DEF Spawnless
  <2>5. Spawnless(h \o ClientSave)
    BY <1>p, <2>4, SpawnlessConcat
  <2>6. Spawnless(h \o ClientSave \o <<"reply">>)
    BY <1>p, <2>5, SpawnlessConcat
  <2> QED BY <1>0, <2>1, <2>6
<1>11. CASE op = "test"
  <2> DEFINE s == <<"snapshot", "finish">>
  <2>1. Plan(op) = s
    BY <1>11 DEF Plan, TestPlan
  <2>2. s \in Seq(Steps) /\ Len(s) = 2 /\ s[1] = "snapshot" /\ s[2] = "finish"
    BY <1>s
  <2>3. \A i \in 1..2 : i = 1 \/ i = 2
    OBVIOUS
  <2> HIDE DEF s
  <2>4. Spawnless(s)
    BY <2>2, <2>3 DEF Spawnless
  <2> QED BY <1>0, <2>1, <2>4
<1> QED BY <1>1, <1>2, <1>3, <1>4, <1>5, <1>6, <1>7, <1>8, <1>9, <1>10, <1>11 DEF Operations

LEMMA PlanRestarts ==
  ASSUME NEW op \in {"ports", "tun"}
  PROVE  "spawn" \in ToSet(Plan(op))
<1>1. Plan(op) = Edit \o Save \o Restart \o <<"reply">> /\ Restart = <<"spawn">> \o Started
  BY DEF Plan, Restart
<1>2. Edit \in Seq(Steps) /\ Save \in Seq(Steps) /\ Started \in Seq(Steps) /\ <<"reply">> \in Seq(Steps)
  BY SpawnlessParts DEF Spawnless
<1>3. <<"spawn">> \in Seq(Steps) /\ Has(<<"spawn">>, "spawn")
  <2>1. "spawn" \in Steps
    BY DEF Steps
  <2>2. <<"spawn">> \in Seq(Steps) /\ Len(<<"spawn">>) = 1 /\ <<"spawn">>[1] = "spawn" /\ 1 \in 1..1
    BY <2>1
  <2> QED BY <2>2 DEF Has
<1>4. Restart \in Seq(Steps) /\ Has(Restart, "spawn")
  BY <1>1, <1>2, <1>3, Joined, HasConcat
<1>5. Edit \o Save \in Seq(Steps)
  BY <1>2, Joined
<1>6. Edit \o Save \o Restart \in Seq(Steps) /\ Has(Edit \o Save \o Restart, "spawn")
  BY <1>4, <1>5, Joined, HasConcat
<1>7. Plan(op) \in Seq(Steps) /\ Has(Plan(op), "spawn")
  BY <1>1, <1>2, <1>6, Joined, HasConcat
<1> QED BY <1>7, InSet
=============================================================================
