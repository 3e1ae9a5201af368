--------------------------- MODULE PlatformProofs ---------------------------
(***************************************************************************)
(* Proofs about the components of MCPlatform: the tools of chats and MCP   *)
(* clients (ToolInv), the firewall (FwInv), the tunnels (TunInv, which     *)
(* needs what the rules of a file become when some are dropped, one is     *)
(* added, replaced or removed), and what goes on in memory and in          *)
(* goroutines: alerts and self-healing (AlertInv), the loops that plugins  *)
(* start and stop (LoopInv), the confirmations of chats (ChatInv) and the  *)
(* memories that are extracted from them (MemInv).  Those last invariants  *)
(* say of the mutex, the channel, the map or the row at which goroutine's  *)
(* step it is whose.  Rows are in RecordsProofs, and what is installed in  *)
(* InstallsProofs.  PlatformInv is the invariant of the run: that of the   *)
(* component in focus.  The values of the constants are any that the named *)
(* assumptions of the modules allow.                                       *)
(***************************************************************************)
EXTENDS MCPlatform, RecordsProofs, InstallsProofs
Effects == {"host", "reload", "project", "build", "command", "instance", "database", "container", "app", "file", "memory",
            "forget", "firewall", "caddy", "start", "stop", "rollback", "test", "rule", "report", "task", "run", "stack",
            "backup"}

\* A change, as a tool's description has it; only the last of two is ever asked for by a request
\* whose answer is not looked at.
Changes == [via : {"core", "event", "http"}, what : Effects]
Handlings == {d \in Seq(Changes) : \A i \in DOMAIN d : i > 1 /\ d[i].via = "http" => d[i] = Change("http", "build")}
Makes(d, S) == \A i \in DOMAIN d : d[i].what \in S

\* A chat's tool is confirmed unless all it does is harmless, and an administrator's unless all it does is
\* to remember.
ChatTool(x) ==
  /\ x.does \in Handlings /\ x.admin \in BOOLEAN /\ x.asks \in BOOLEAN
  /\ x.asks \/ Makes(x.does, Harmless)
  /\ x.admin \/ Makes(x.does, {"memory"})

\* One change, in each of the ways there are.
LEMMA Singles ==
  ASSUME NEW what \in Effects
  PROVE  /\ Core(what) \in Handlings /\ Event(what) \in Handlings /\ Http(what) \in Handlings
         /\ Len(Core(what)) = 1 /\ Core(what)[1] = Change("core", what)
         /\ Len(Event(what)) = 1 /\ Event(what)[1] = Change("event", what)
         /\ Len(Http(what)) = 1 /\ Http(what)[1] = Change("http", what)
  BY DEF Core, Event, Http, Change, Changes, Handlings

\* One change makes what it makes.
LEMMA CoreMakes ==
  ASSUME NEW what \in Effects, NEW S, what \in S
  PROVE  Makes(Core(what), S)
  BY DEF Core, Change, Makes

\* A tool that only reads.
LEMMA Nothing == <<>> \in Handlings /\ \A S : Makes(<<>>, S)
  BY DEF Handlings, Makes, Changes

\* Two changes are a handling unless the second is the panel's own request for something else than a build.
LEMMA Two ==
  ASSUME NEW a \in Changes, NEW b \in Changes, b.via # "http" \/ b = Change("http", "build")
  PROVE  <<a>> \o <<b>> \in Handlings
<1>. DEFINE d == <<a>> \o <<b>>
<1>1. <<a>> \in Seq(Changes) /\ <<b>> \in Seq(Changes) /\ Len(<<a>>) = 1 /\ Len(<<b>>) = 1
  OBVIOUS
<1>2. d \in Seq(Changes) /\ Len(d) = 2 /\ d[2] = <<b>>[2 - Len(<<a>>)]
  BY <1>1, ConcatProperties
<1>3. d[2] = b
  BY <1>1, <1>2
<1>4. DOMAIN d = 1..2
  BY <1>2, LenProperties
<1>. HIDE DEF d
<1>5. d \in Handlings
  BY <1>2, <1>3, <1>4 DEF Handlings
<1>6. QED
  BY <1>5 DEF d

\* The tools that make two changes.
LEMMA Pairs ==
  /\ createHostHandler \in Handlings /\ createProjectHandler \in Handlings /\ updateHostHandler \in Handlings
  /\ Http("project") \o Http("build") \in Handlings
<1>1. \A via \in {"core", "event", "http"}, what \in {"host", "reload", "project", "build"} : Change(via, what) \in Changes
  BY DEF Change, Changes, Effects
<1>2. Change("core", "reload").via # "http" /\ Change("event", "build").via # "http"
  BY DEF Change
<1>3. <<Change("core", "host")>> \o <<Change("core", "reload")>> \in Handlings
  BY <1>1, <1>2, Two
<1>4. <<Change("core", "project")>> \o <<Change("event", "build")>> \in Handlings
  BY <1>1, <1>2, Two
<1>5. <<Change("http", "project")>> \o <<Change("http", "build")>> \in Handlings
  BY <1>1, Two
<1>6. QED
  BY <1>3, <1>4, <1>5, Singles
     DEF Effects, createHostHandler, createProjectHandler, updateHostHandler, Core, Event, Http

\* What is registered for chats with these rights and these changes is sound.
LEMMA ToolKinds ==
  ASSUME NEW n
  PROVE  /\ ChatTool(Tool(n, <<>>, FALSE, FALSE))
         /\ \A does \in Handlings : ChatTool(Tool(n, does, TRUE, TRUE))
         /\ \A does \in Handlings : Makes(does, Harmless) => ChatTool(Tool(n, does, TRUE, FALSE))
         /\ \A does \in Handlings : Makes(does, {"memory"}) => ChatTool(Tool(n, does, FALSE, FALSE))
<1>1. /\ <<>> \in Handlings /\ Makes(<<>>, {"memory"}) /\ Makes(<<>>, Harmless)
  BY Nothing
<1>2. ASSUME NEW does \in Handlings, Makes(does, {"memory"})
      PROVE  Makes(does, Harmless)
  BY <1>2 DEF Makes, Harmless
<1>3. QED
  BY <1>1, <1>2 DEF Tool, ChatTool

\* The tools of a chat, group by group.
LEMMA Registered == \A x \in RegisterBuiltinTools : ChatTool(x)
<1>a. /\ Makes(Core("reload"), Harmless) /\ Makes(Core("report"), Harmless) /\ Makes(Event("test"), Harmless)
      /\ Makes(Core("memory"), {"memory"})
  BY DEF Core, Event, Change, Makes, Harmless
<1>b. \A w \in Effects : Core(w) \in Handlings /\ Event(w) \in Handlings
  BY Singles
<1>1. (\A x \in HostTools : ChatTool(x)) /\ (\A x \in ProjectReads : ChatTool(x)) /\ (\A x \in ProjectTools : ChatTool(x))
  BY <1>a, <1>b, Pairs, ToolKinds
     DEF Effects, ReadOnly, AdminOnly, NeedsConfirmation, HostTools, ProjectReads, ProjectTools
<1>2. (\A x \in SystemTools : ChatTool(x)) /\ (\A x \in PanelTools : ChatTool(x)) /\ (\A x \in registerBatch4Tools : ChatTool(x))
  BY <1>a, <1>b, Pairs, ToolKinds
     DEF Effects, ReadOnly, AdminOnly, NeedsConfirmation, SystemTools, PanelTools, registerBatch4Tools, FileReaders
<1>3. (\A x \in DatabaseTools : ChatTool(x)) /\ (\A x \in QueryTools : ChatTool(x)) /\ (\A x \in ContainerTools : ChatTool(x))
  BY <1>a, <1>b, Pairs, ToolKinds
     DEF Effects, ReadOnly, AdminOnly, NeedsConfirmation, DatabaseTools, QueryTools, ContainerTools
<1>4. (\A x \in ImageTools : ChatTool(x)) /\ (\A x \in registerAppStoreTools : ChatTool(x)) /\ (\A x \in FirewallTools : ChatTool(x)) /\ (\A x \in registerPHPTools : ChatTool(x))
  BY <1>a, <1>b, Pairs, ToolKinds
     DEF Effects, ReadOnly, AdminOnly, NeedsConfirmation, ImageTools, registerAppStoreTools, FirewallTools, registerPHPTools
<1>5. (\A x \in registerFileWriteTools : ChatTool(x)) /\ (\A x \in HostOperations : ChatTool(x))
  <2>1. ASSUME NEW n, NEW x \in NeedsConfirmation(n, Core("file")) \cup NeedsConfirmation(n, Core("host"))
        PROVE  ChatTool(x)
    BY <2>1, <1>b, ToolKinds DEF Effects, NeedsConfirmation
  <2>2. QED
    BY <2>1 DEF registerFileWriteTools, HostOperations
<1>6. (\A x \in registerMemoryTools : ChatTool(x))
  BY <1>a, <1>b, Pairs, ToolKinds
     DEF Effects, ReadOnly, AdminOnly, NeedsConfirmation, registerMemoryTools
<1>7. (\A x \in CaddyTools : ChatTool(x)) /\ (\A x \in NotifyTools : ChatTool(x)) /\ (\A x \in DeployTools : ChatTool(x))
  BY <1>a, <1>b, Pairs, ToolKinds
     DEF Effects, ReadOnly, AdminOnly, NeedsConfirmation, CaddyTools, NotifyTools, DeployTools
<1>8. (\A x \in LifecycleTools : ChatTool(x)) /\ (\A x \in CleanupTools : ChatTool(x)) /\ (\A x \in AlertRuleTools : ChatTool(x))
  BY <1>a, <1>b, Pairs, ToolKinds
     DEF Effects, ReadOnly, AdminOnly, NeedsConfirmation, LifecycleTools, CleanupTools, AlertRuleTools
<1>9. (\A x \in CronReads : ChatTool(x)) /\ (\A x \in CronOperations : ChatTool(x))
  BY <1>a, <1>b, Pairs, ToolKinds
     DEF Effects, ReadOnly, AdminOnly, NeedsConfirmation, CronReads, CronOperations
<1>z. QED
  BY <1>1, <1>2, <1>3, <1>4, <1>5, <1>6, <1>7, <1>8, <1>9 DEF RegisterBuiltinTools

\* The calls of an MCP client that change something, all for the right to write.
Writers == {"create_host", "delete_host", "toggle_host", "deploy_project", "build_project", "create_stack", "control_stack",
            "create_db_instance", "update_host", "create_alert_rule", "write_file", "delete_file", "run_command",
            "trigger_backup", "manage_firewall_rule", "docker_run", "auto_deploy", "run_inspection", "create_cron_job",
            "update_cron_job", "delete_cron_job", "trigger_cron_job"}

McpTool(x) ==
  /\ x.does \in Handlings
  /\ x.does = <<>> \/ x.name \in Writers
  /\ x.name \in Writers => x.scope = Scope(x.scope.category, "write")

\* And for MCP clients.
LEMMA McpKinds ==
  ASSUME NEW category, NEW n
  PROVE  /\ n \notin Writers => \A action : McpTool([name |-> n, scope |-> Scope(category, action), does |-> <<>>])
         /\ n \in Writers => \A does \in Handlings :
              McpTool([name |-> n, scope |-> Scope(category, "write"), does |-> does])
<1>1. <<>> \in Handlings
  BY Nothing
<1>2. QED
  BY <1>1 DEF McpTool, Scope

\* The calls of MCP clients, group by group.
LEMMA McpRegistered == \A x \in RegisterTools : McpTool(x)
<1>a. \A w \in Effects : Core(w) \in Handlings /\ Event(w) \in Handlings /\ Http(w) \in Handlings
  BY Singles
<1>1. (\A x \in HostCalls : McpTool(x)) /\ (\A x \in ProjectCalls : McpTool(x))
  BY <1>a, Pairs, McpKinds
     DEF Effects, Writers, Mcp, HostCalls, ProjectCalls
<1>2. (\A x \in StackCalls : McpTool(x)) /\ (\A x \in DatabaseCalls : McpTool(x)) /\ (\A x \in AiCalls : McpTool(x))
  BY <1>a, Pairs, McpKinds
     DEF Effects, Writers, Mcp, StackCalls, DatabaseCalls, AiCalls
<1>3. (\A x \in UpdateHostCall : McpTool(x)) /\ (\A x \in MonitoringCalls : McpTool(x)) /\ (\A x \in FileCalls : McpTool(x))
  BY <1>a, Pairs, McpKinds
     DEF Effects, Writers, Mcp, UpdateHostCall, MonitoringCalls, FileCalls
<1>4. (\A x \in SystemCalls : McpTool(x)) /\ (\A x \in BackupCall : McpTool(x)) /\ (\A x \in FirewallCalls : McpTool(x))
  BY <1>a, Pairs, McpKinds
     DEF Effects, Writers, Mcp, SystemCalls, BackupCall, FirewallCalls
<1>5. (\A x \in ContainerCalls : McpTool(x)) /\ (\A x \in AutoDeployCall : McpTool(x))
  BY <1>a, Pairs, McpKinds
     DEF Effects, Writers, Mcp, ContainerCalls, AutoDeployCall
<1>6. (\A x \in NotifyCall : McpTool(x)) /\ (\A x \in InspectionCall : McpTool(x)) /\ (\A x \in CronCalls : McpTool(x))
  BY <1>a, Pairs, McpKinds
     DEF Effects, Writers, Mcp, NotifyCall, InspectionCall, CronCalls
<1>z. QED
  BY <1>1, <1>2, <1>3, <1>4, <1>5, <1>6 DEF RegisterTools

-----------------------------------------------------------------------------
\* The invariant: how far each call has come, and with whose right.
Rights == {"admin", "anyone"} \cup UNION (Permissions \cup {Everything})
ToolNames == {x.name : x \in RegisterBuiltinTools \cup RegisterTools} \cup {NoToken}
Calls ==
  [step : {"free", "scope", "role", "confirm", "run", "done"}, admin : BOOLEAN, asks : BOOLEAN, yes : BOOLEAN,
   may : SUBSET Rights, token : ApiTokens \cup {NoToken}, name : ToolNames, does : Handlings, at : Nat \ {0},
   made : SUBSET Nat, told : {NoToken, "refused", "error", "warning", "ok"}]

NamedScope(n) == (CHOOSE x \in RegisterTools : x.name = n).scope

ChatSound(k) ==
  /\ k.step # "scope"
  /\ k.step \in {"role", "confirm", "run"} =>
       /\ k.asks \/ Makes(k.does, Harmless)
       /\ "admin" \in k.may \/ Makes(k.does, {"memory"})
  /\ k.step \in {"confirm", "run"} => k.admin \/ "admin" \notin k.may
  /\ k.step = "run" => k.yes \/ ~k.asks

McpSound(k) ==
  /\ k.step \in {"scope", "run", "done"}
  /\ \E x \in RegisterTools : x.name = k.name /\ x.does = k.does
  /\ k.step = "run" => checkPermission(k.may, NamedScope(k.name))

Settled(k, i) == i \in k.made \/ k.does[i].via = "event" \/ (i > 1 /\ k.does[i] = Change("http", "build"))

CallSound(k) ==
  /\ k.made \subseteq DOMAIN k.does
  /\ IF k.token = NoToken THEN ChatSound(k) ELSE McpSound(k)
  /\ k.step \in {"scope", "role", "confirm"} => k.at = 1
  /\ k.step = "run" => k.at <= Len(k.does) + 1 /\ \A i \in DOMAIN k.does : i < k.at => Settled(k, i)
  /\ k.told = "ok" => k.step = "done" /\ \A i \in DOMAIN k.does : Settled(k, i)

TokenRows == [state : {"none", "valid", "expired", "deleted"}, may : Permissions \cup {Everything, {}}]

ToolInv ==
  /\ apiToken \in [ApiTokens -> TokenRows]
  /\ call \in [Callers -> Calls]
  /\ toolFaults = {}
  /\ \A c \in Callers : CallSound(call[c])

\* A caller that has called nothing.
LEMMA FreeCall == Free \in Calls /\ CallSound(Free)
<1>1. <<>> \in Handlings
  BY Nothing
<1>2. Free \in Calls
  BY <1>1 DEF Free, Calls, ToolNames, NoToken
<1>3. CallSound(Free)
  BY DEF CallSound, ChatSound, Free, NoToken
<1>4. QED
  BY <1>2, <1>3

\* No token and no call at the start.
LEMMA ToolInvInit == ToolInit => ToolInv
  BY FreeCall DEF ToolInit, ToolInv, TokenRows

\* A caller moves on, and the tokens stay.
LEMMA CallMoves ==
  ASSUME ToolInv, NEW c \in Callers, NEW k \in Calls, CallSound(k), ToolGo(c, k), UNCHANGED apiToken, toolFaults' = {}
  PROVE  ToolInv'
<1>1. call' \in [Callers -> Calls]
  BY DEF ToolInv, ToolGo
<1>2. ASSUME NEW d \in Callers
      PROVE  CallSound(call'[d])
  <2>1. call'[d] = IF d = c THEN k ELSE call[d]
    BY DEF ToolInv, ToolGo
  <2>2. QED
    BY <2>1 DEF ToolInv
<1>3. QED
  BY <1>1, <1>2 DEF ToolInv

\* Tokens come and go.
LEMMA TokenSteps ==
  ASSUME ToolInv, CreateToken \/ DeleteToken \/ TokenExpires
  PROVE  ToolInv'
<1>1. CASE CreateToken
  <2>1. PICK t \in ApiTokens, may \in Permissions :
          apiToken' = [apiToken EXCEPT ![t] = [state |-> "valid", may |-> IF may = {} THEN Everything ELSE may]]
    BY <1>1 DEF CreateToken
  <2>2. [state |-> "valid", may |-> IF may = {} THEN Everything ELSE may] \in TokenRows
    BY DEF TokenRows
  <2>3. QED
    BY <1>1, <2>1, <2>2 DEF ToolInv, CreateToken
<1>2. CASE DeleteToken
  <2>1. PICK t \in ApiTokens : apiToken' = [apiToken EXCEPT ![t] = [state |-> "deleted", may |-> {}]]
    BY <1>2 DEF DeleteToken
  <2>2. [state |-> "deleted", may |-> {}] \in TokenRows
    BY DEF TokenRows
  <2>3. QED
    BY <1>2, <2>1, <2>2 DEF ToolInv, DeleteToken
<1>3. CASE TokenExpires
  <2>1. PICK t \in ApiTokens : apiToken' = [apiToken EXCEPT ![t].state = "expired"]
    BY <1>3 DEF TokenExpires
  <2>2. [apiToken[t] EXCEPT !.state = "expired"] \in TokenRows
    BY DEF ToolInv, TokenRows
  <2>3. QED
    BY <1>3, <2>1, <2>2 DEF ToolInv, TokenExpires
<1>4. QED
  BY <1>1, <1>2, <1>3

\* The scope of a call that changes something is the right to write.
LEMMA WriteScope ==
  ASSUME NEW x \in RegisterTools, x.does # <<>>
  PROVE  NamedScope(x.name) = Scope(NamedScope(x.name).category, "write")
<1>1. x.name \in Writers
  BY McpRegistered DEF McpTool
<1>2. PICK y \in RegisterTools : y.name = x.name /\ NamedScope(x.name) = y.scope
  BY DEF NamedScope
<1>3. QED
  BY <1>1, <1>2, McpRegistered DEF McpTool

\* A call that has come to a change is not to be blamed for it, when the panel lets its own
\* requests in only with a valid token.
LEMMA Blameless ==
  ASSUME ToolInv, NEW c \in Callers, NEW via, Running(c, via), via = "http" => Valid(call[c].token)
  PROVE  Faults(c, NextChange(c)) = {}
<1>. DEFINE k == call[c]
            x == NextChange(c)
<1>1. k \in Calls /\ CallSound(k) /\ k.step = "run" /\ k.at \in DOMAIN k.does /\ x = k.does[k.at] /\ x.via = via
  <2>1. k \in Calls /\ CallSound(k)
    BY DEF ToolInv
  <2>2. k.does \in Seq(Changes) /\ k.at \in Nat \ {0}
    BY <2>1 DEF Calls, Handlings
  <2>3. QED
    BY <2>1, <2>2, LenProperties DEF Running, ToolAt, NextChange
<1>2. CASE k.token = NoToken
  <2>1. ChatSound(k)
    BY <1>1, <1>2 DEF CallSound
  <2>2. k.yes \/ x.what \in Harmless
    BY <1>1, <2>1 DEF ChatSound, Makes
  <2>3. k.admin \/ x.what = "memory"
    BY <1>1, <2>1 DEF ChatSound, Makes
  <2>4. QED
    BY <1>2, <2>2, <2>3 DEF Faults, ByMcp
<1>3. CASE k.token # NoToken
  <2>1. McpSound(k)
    BY <1>1, <1>3 DEF CallSound
  <2>2. PICK y \in RegisterTools : y.name = k.name /\ y.does = k.does
    BY <2>1 DEF McpSound
  <2>3. k.does # <<>>
    BY <1>1
  <2>4. NamedScope(k.name) = Scope(NamedScope(k.name).category, "write")
    BY <2>2, <2>3, WriteScope
  <2>5. ScopeOf(c) = NamedScope(k.name)
    BY DEF ScopeOf, NamedScope
  <2>6. checkPermission(k.may, Scope(ScopeOf(c).category, "write"))
    BY <1>1, <2>1, <2>4, <2>5 DEF McpSound
  <2>7. QED
    BY <1>1, <1>3, <2>6 DEF Faults, ByMcp
<1>4. QED
  BY <1>2, <1>3

\* Whatever comes of a change, the call goes on as it may.
LEMMA CallMakes ==
  ASSUME ToolInv, NEW c \in Callers, NEW via, Running(c, via), NEW made \in BOOLEAN, NEW k,
         made => (via = "http" => Valid(call[c].token)),
         \/ k = call[c] /\ (made \/ via = "event")
         \/ k = AfterError(c),
         Make(c, made, k), UNCHANGED apiToken
  PROVE  ToolInv'
<1>. DEFINE b == call[c]
            n == [k EXCEPT !.made = @ \cup {i \in {b.at} : made}, !.at = @ + 1]
<1>1. b \in Calls /\ CallSound(b) /\ b.step = "run" /\ b.at \in DOMAIN b.does /\ b.does[b.at].via = via
  <2>1. b \in Calls /\ CallSound(b)
    BY DEF ToolInv
  <2>2. b.does \in Seq(Changes) /\ b.at \in Nat \ {0}
    BY <2>1 DEF Calls, Handlings
  <2>3. QED
    BY <2>1, <2>2, LenProperties DEF Running, ToolAt, NextChange
<1>2. b.told # "ok"
  BY <1>1 DEF CallSound
<1>3. b.at > 1 /\ via = "http" => b.does[b.at] = Change("http", "build")
  BY <1>1 DEF Calls, Handlings
<1>4. b.at \in Nat \ {0} /\ Len(b.does) \in Nat /\ DOMAIN b.does = 1..Len(b.does)
  BY <1>1, LenProperties DEF Calls, Handlings
<1>5. \/ k = b /\ (made \/ via = "event" \/ (b.at > 1 /\ via = "http"))
      \/ \E told \in {"error", "warning"} : k = [b EXCEPT !.step = "done", !.told = told]
  BY <1>1, <1>4 DEF AfterError, NextChange
<1>6. n.made \subseteq DOMAIN n.does /\ n \in Calls
  <2>1. k \in Calls /\ k.made = b.made /\ k.does = b.does /\ k.at = b.at
    BY <1>1, <1>5 DEF Calls
  <2>2. b.made \cup {i \in {b.at} : made} \subseteq DOMAIN b.does
    BY <1>1 DEF CallSound
  <2>3. n.made = b.made \cup {i \in {b.at} : made} /\ n.does = b.does
    BY <2>1 DEF Calls
  <2>4. b.made \cup {i \in {b.at} : made} \in SUBSET Nat /\ b.at + 1 \in Nat \ {0}
    BY <2>2, <1>4
  <2>5. n \in Calls
    BY <2>1, <2>4 DEF Calls
  <2>6. QED
    BY <2>2, <2>3, <2>5
<1>7. CallSound(n)
  <2>1. CASE k = b /\ (made \/ via = "event" \/ (b.at > 1 /\ via = "http"))
    <3>1. /\ n.step = "run" /\ n.told = b.told /\ n.does = b.does /\ n.at = b.at + 1 /\ n.token = b.token
          /\ n.may = b.may /\ n.name = b.name /\ n.asks = b.asks /\ n.admin = b.admin /\ n.yes = b.yes
          /\ n.made = b.made \cup {i \in {b.at} : made}
      BY <1>1, <2>1 DEF Calls
    <3>2. IF n.token = NoToken THEN ChatSound(n) ELSE McpSound(n)
      BY <1>1, <3>1 DEF CallSound, ChatSound, McpSound
    <3>3. ASSUME NEW i \in DOMAIN n.does, i < n.at
          PROVE  Settled(n, i)
      <4>1. CASE i = b.at
        BY <1>1, <1>3, <2>1, <3>1, <4>1 DEF Settled
      <4>2. CASE i # b.at
        <5>1. i < b.at
          BY <1>4, <3>1, <3>3, <4>2
        <5>2. Settled(b, i)
          BY <1>1, <3>1, <3>3, <5>1 DEF CallSound
        <5>3. QED
          BY <3>1, <5>2 DEF Settled
      <4>3. QED
        BY <4>1, <4>2
    <3>4. n.at <= Len(n.does) + 1
      BY <1>1, <1>4, <3>1
    <3>5. QED
      BY <1>2, <1>6, <3>1, <3>2, <3>3, <3>4 DEF CallSound
  <2>2. CASE \E told \in {"error", "warning"} : k = [b EXCEPT !.step = "done", !.told = told]
    <3>1. PICK told \in {"error", "warning"} : k = [b EXCEPT !.step = "done", !.told = told]
      BY <2>2
    <3>2. /\ n.step = "done" /\ n.told = told /\ n.does = b.does /\ n.token = b.token /\ n.name = b.name
      BY <1>1, <3>1 DEF Calls
    <3>3. IF n.token = NoToken THEN ChatSound(n) ELSE McpSound(n)
      BY <1>1, <3>2 DEF CallSound, ChatSound, McpSound
    <3>4. QED
      BY <1>6, <3>2, <3>3 DEF CallSound
  <2>3. QED
    BY <1>5, <2>1, <2>2
<1>8. toolFaults' = {}
  BY Blameless DEF Make, ToolInv
<1>9. ToolGo(c, n)
  BY DEF Make
<1>10. QED
  BY <1>6, <1>7, <1>8, <1>9, CallMoves

\* A call begins, is let through or refused, and is answered.
LEMMA CallSteps ==
  ASSUME ToolInv, NEW c \in Callers,
         AskTool(c) \/ CheckRole(c) \/ Decide(c) \/ mcpMiddleware(c) \/ requirePerm(c) \/ AnswerCall(c) \/ CallEnds(c)
  PROVE  ToolInv'
<1>. DEFINE b == call[c]
            Told(told) == [b EXCEPT !.step = "done", !.told = told]
<1>1. b \in Calls /\ CallSound(b) /\ toolFaults = {}
  BY DEF ToolInv
<1>2. ASSUME NEW told \in {"refused", "error"}, b.step \in {"scope", "role", "confirm", "run"},
             Tell(c, told), UNCHANGED <<apiToken, toolFaults>>
      PROVE  ToolInv'
  <2>1. Told(told) \in Calls
    BY <1>1 DEF Calls
  <2>2. /\ Told(told).step = "done" /\ Told(told).told = told /\ Told(told).does = b.does
        /\ Told(told).token = b.token /\ Told(told).name = b.name /\ Told(told).made = b.made
    BY <1>1 DEF Calls
  <2>3. CallSound(Told(told))
    BY <1>1, <2>2 DEF CallSound, ChatSound, McpSound
  <2>4. QED
    BY <1>1, <1>2, <2>1, <2>3, CallMoves DEF Tell
<1>3. CASE AskTool(c)
  <2>1. PICK x \in RegisterBuiltinTools, admin \in BOOLEAN :
          ToolGo(c, [Free EXCEPT !.step = "role", !.admin = admin, !.asks = x.asks, !.name = x.name, !.does = x.does,
                                 !.may = IF x.admin THEN {"admin"} ELSE {"anyone"}])
    BY <1>3 DEF AskTool
  <2>. DEFINE n == [Free EXCEPT !.step = "role", !.admin = admin, !.asks = x.asks, !.name = x.name, !.does = x.does,
                                !.may = IF x.admin THEN {"admin"} ELSE {"anyone"}]
  <2>2. ChatTool(x)
    BY Registered
  <2>3. n \in Calls
    <3>1. x.name \in ToolNames
      BY DEF ToolNames
    <3>2. (IF x.admin THEN {"admin"} ELSE {"anyone"}) \in SUBSET Rights
      BY DEF Rights
    <3>3. QED
      BY <2>2, <3>1, <3>2, FreeCall DEF Calls, ChatTool
  <2>4. /\ n.step = "role" /\ n.asks = x.asks /\ n.does = x.does /\ n.told = NoToken /\ n.token = NoToken /\ n.made = {}
        /\ n.at = 1 /\ n.may = IF x.admin THEN {"admin"} ELSE {"anyone"}
    BY DEF Free
  <2>5. CallSound(n)
    BY <2>2, <2>4 DEF CallSound, ChatSound, ChatTool, NoToken
  <2>6. QED
    BY <1>1, <1>3, <2>1, <2>3, <2>5, CallMoves DEF AskTool
<1>4. CASE CheckRole(c)
  <2>1. b.step = "role" /\ UNCHANGED <<apiToken, toolFaults>>
    BY <1>4 DEF CheckRole, ToolAt
  <2>2. CASE "admin" \in b.may /\ ~b.admin
    BY <1>2, <1>4, <2>1, <2>2 DEF CheckRole
  <2>3. CASE ~("admin" \in b.may /\ ~b.admin)
    <3>. DEFINE n == [b EXCEPT !.step = IF b.asks THEN "confirm" ELSE "run"]
    <3>1. n \in Calls
      BY <1>1 DEF Calls
    <3>2. /\ n.step = (IF b.asks THEN "confirm" ELSE "run") /\ n.asks = b.asks /\ n.does = b.does /\ n.told = b.told
          /\ n.token = b.token /\ n.made = b.made /\ n.may = b.may /\ n.admin = b.admin /\ n.at = b.at
      BY <1>1 DEF Calls
    <3>3. b.token = NoToken /\ ChatSound(b) /\ b.told # "ok" /\ b.at = 1
      BY <1>1, <2>1 DEF CallSound, McpSound
    <3>4. ChatSound(n)
      BY <1>1, <2>1, <2>3, <3>2, <3>3 DEF ChatSound, Calls
    <3>5. Len(n.does) \in Nat /\ DOMAIN n.does = 1..Len(n.does)
      BY <3>1, LenProperties DEF Calls, Handlings
    <3>6. CallSound(n)
      BY <1>1, <3>2, <3>3, <3>4, <3>5 DEF CallSound
    <3>7. ToolGo(c, n)
      BY <1>4, <2>3 DEF CheckRole
    <3>8. QED
      BY <1>1, <2>1, <3>1, <3>6, <3>7, CallMoves
  <2>4. QED
    BY <2>2, <2>3
<1>5. CASE Decide(c)
  <2>1. b.step = "confirm" /\ UNCHANGED <<apiToken, toolFaults>>
    BY <1>5 DEF Decide, ToolAt
  <2>2. CASE Tell(c, "refused")
    BY <1>2, <2>1, <2>2
  <2>3. CASE ToolGo(c, [b EXCEPT !.step = "run", !.yes = TRUE])
    <3>. DEFINE n == [b EXCEPT !.step = "run", !.yes = TRUE]
    <3>1. n \in Calls
      BY <1>1 DEF Calls
    <3>2. /\ n.step = "run" /\ n.asks = b.asks /\ n.does = b.does /\ n.told = b.told /\ n.yes
          /\ n.token = b.token /\ n.made = b.made /\ n.may = b.may /\ n.admin = b.admin /\ n.at = b.at
      BY <1>1 DEF Calls
    <3>3. b.token = NoToken /\ ChatSound(b) /\ b.told # "ok" /\ b.at = 1
      BY <1>1, <2>1 DEF CallSound, McpSound
    <3>4. ChatSound(n)
      BY <2>1, <3>2, <3>3 DEF ChatSound
    <3>5. Len(n.does) \in Nat /\ DOMAIN n.does = 1..Len(n.does)
      BY <3>1, LenProperties DEF Calls, Handlings
    <3>6. CallSound(n)
      BY <1>1, <3>2, <3>3, <3>4, <3>5 DEF CallSound
    <3>7. QED
      BY <1>1, <2>1, <2>3, <3>1, <3>6, CallMoves
  <2>4. QED
    BY <1>5, <2>2, <2>3 DEF Decide
<1>6. CASE mcpMiddleware(c)
  <2>1. PICK t \in ApiTokens, x \in RegisterTools :
          ToolGo(c, [Free EXCEPT !.step = "scope", !.token = t, !.may = apiToken[t].may, !.name = x.name, !.does = x.does])
    BY <1>6 DEF mcpMiddleware
  <2>. DEFINE n == [Free EXCEPT !.step = "scope", !.token = t, !.may = apiToken[t].may, !.name = x.name, !.does = x.does]
  <2>2. n \in Calls
    <3>1. x.name \in ToolNames /\ x.does \in Handlings
      BY McpRegistered DEF ToolNames, McpTool
    <3>2. apiToken[t].may \in SUBSET Rights
      BY DEF ToolInv, TokenRows, Rights
    <3>3. QED
      BY <3>1, <3>2, FreeCall DEF Calls
  <2>3. /\ n.step = "scope" /\ n.does = x.does /\ n.name = x.name /\ n.told = NoToken /\ n.token = t /\ n.made = {}
        /\ n.at = 1
    BY DEF Free
  <2>4. t # NoToken
    BY TokenAssumption
  <2>5. CallSound(n)
    BY <2>3, <2>4 DEF CallSound, McpSound, NoToken
  <2>6. QED
    BY <1>1, <1>6, <2>1, <2>2, <2>5, CallMoves DEF mcpMiddleware
<1>7. CASE requirePerm(c)
  <2>1. b.step = "scope" /\ UNCHANGED <<apiToken, toolFaults>>
    BY <1>7 DEF requirePerm, ToolAt
  <2>2. CASE ~checkPermission(b.may, ScopeOf(c))
    BY <1>2, <1>7, <2>1, <2>2 DEF requirePerm
  <2>3. CASE checkPermission(b.may, ScopeOf(c))
    <3>. DEFINE n == [b EXCEPT !.step = "run"]
    <3>1. n \in Calls
      BY <1>1 DEF Calls
    <3>2. /\ n.step = "run" /\ n.does = b.does /\ n.told = b.told /\ n.name = b.name
          /\ n.token = b.token /\ n.made = b.made /\ n.may = b.may /\ n.at = b.at
      BY <1>1 DEF Calls
    <3>3. b.token # NoToken /\ McpSound(b) /\ b.told # "ok" /\ b.at = 1
      BY <1>1, <2>1 DEF CallSound, ChatSound
    <3>4. checkPermission(n.may, NamedScope(n.name))
      BY <2>3, <3>2 DEF ScopeOf, NamedScope
    <3>5. McpSound(n)
      BY <3>2, <3>3, <3>4 DEF McpSound
    <3>6. Len(n.does) \in Nat /\ DOMAIN n.does = 1..Len(n.does)
      BY <3>1, LenProperties DEF Calls, Handlings
    <3>7. CallSound(n)
      BY <1>1, <3>2, <3>3, <3>5, <3>6 DEF CallSound
    <3>8. ToolGo(c, n)
      BY <1>7, <2>3 DEF requirePerm
    <3>9. QED
      BY <1>1, <2>1, <3>1, <3>7, <3>8, CallMoves
  <2>4. QED
    BY <2>2, <2>3
<1>8. CASE AnswerCall(c)
  <2>1. b.step = "run" /\ b.at > Len(b.does) /\ UNCHANGED <<apiToken, toolFaults>>
    BY <1>8 DEF AnswerCall, ToolAt
  <2>2. CASE Tell(c, "error")
    BY <1>2, <2>1, <2>2
  <2>3. CASE Tell(c, "ok")
    <3>1. Told("ok") \in Calls
      BY <1>1 DEF Calls
    <3>2. /\ Told("ok").step = "done" /\ Told("ok").told = "ok" /\ Told("ok").does = b.does
          /\ Told("ok").token = b.token /\ Told("ok").name = b.name /\ Told("ok").made = b.made
      BY <1>1 DEF Calls
    <3>3. Len(b.does) \in Nat /\ DOMAIN b.does = 1..Len(b.does) /\ b.at \in Nat
      BY <1>1, LenProperties DEF Calls, Handlings
    <3>4. \A i \in DOMAIN b.does : Settled(b, i)
      BY <1>1, <2>1, <3>3 DEF CallSound
    <3>5. CallSound(Told("ok"))
      BY <1>1, <2>1, <3>2, <3>4 DEF CallSound, ChatSound, McpSound, Settled
    <3>6. QED
      BY <1>1, <2>1, <2>3, <3>1, <3>5, CallMoves DEF Tell
  <2>4. QED
    BY <1>8, <2>2, <2>3 DEF AnswerCall
<1>9. CASE CallEnds(c)
  BY <1>1, <1>9, FreeCall, CallMoves DEF CallEnds
<1>10. QED
  BY <1>3, <1>4, <1>5, <1>6, <1>7, <1>8, <1>9

\* A change is made by the core API, by who subscribes to an event, or by the panel's own request.
LEMMA ChangeSteps ==
  ASSUME ToolInv, NEW c \in Callers, CallCore(c) \/ PublishEvent(c) \/ RequestSelf(c)
  PROVE  ToolInv'
<1>1. CASE CallCore(c)
  <2>1. Running(c, "core") /\ UNCHANGED apiToken
    BY <1>1 DEF CallCore
  <2>2. ASSUME NEW made \in BOOLEAN, made, Make(c, made, call[c])
        PROVE  ToolInv'
    <3>1. made => ("core" = "http" => Valid(call[c].token))
      OBVIOUS
    <3>2. QED
      BY <2>1, <2>2, <3>1, CallMakes
  <2>3. ASSUME NEW made \in BOOLEAN, Make(c, made, AfterError(c))
        PROVE  ToolInv'
    BY <2>1, <2>3, CallMakes
  <2>4. QED
    BY <1>1, <2>2, <2>3 DEF CallCore
<1>2. CASE PublishEvent(c)
  <2>1. Running(c, "event") /\ UNCHANGED apiToken
    BY <1>2 DEF PublishEvent
  <2>2. PICK made \in BOOLEAN : Make(c, made, call[c])
    BY <1>2 DEF PublishEvent
  <2>3. QED
    BY <2>1, <2>2, CallMakes
<1>3. CASE RequestSelf(c)
  <2>1. Running(c, "http") /\ UNCHANGED apiToken
    BY <1>3 DEF RequestSelf
  <2>2. ASSUME NEW made \in BOOLEAN, made, Valid(call[c].token), Make(c, made, call[c])
        PROVE  ToolInv'
    BY <2>1, <2>2, CallMakes
  <2>3. ASSUME NEW made \in BOOLEAN, made => Valid(call[c].token), Make(c, made, AfterError(c))
        PROVE  ToolInv'
    BY <2>1, <2>3, CallMakes
  <2>4. QED
    BY <1>3, <2>2, <2>3 DEF RequestSelf
<1>4. QED
  BY <1>1, <1>2, <1>3

\* Every step of tokens, calls and changes keeps the invariant.
LEMMA ToolInvStep ==
  ASSUME ToolInv, ToolNext
  PROVE  ToolInv'
  BY TokenSteps, CallSteps, ChangeSteps DEF ToolNext

\* So does a step of something else.
LEMMA ToolInvSame == ToolInv /\ UNCHANGED toolVars => ToolInv'
  BY DEF ToolInv, toolVars

\* The invariant is enough for what the run checks.
LEMMA ToolInvSound == ToolInv => ToolTypeOK /\ ToolsSound
<1>. SUFFICES ASSUME ToolInv PROVE ToolTypeOK /\ ToolsSound
  OBVIOUS
<1>1. ASSUME NEW c \in Callers
      PROVE  /\ DOMAIN call[c] = DOMAIN Free
             /\ call[c].step \in {"free", "scope", "role", "confirm", "run", "done"}
             /\ call[c].made \subseteq DOMAIN call[c].does
             /\ call[c].told \in {NoToken, "refused", "error", "warning", "ok"}
  <2>1. call[c] \in Calls /\ CallSound(call[c])
    BY DEF ToolInv
  <2>2. DOMAIN call[c] = DOMAIN Free
    BY <2>1 DEF Calls, Free
  <2>3. QED
    BY <2>1, <2>2 DEF Calls, CallSound
<1>2. ToolTypeOK
  BY <1>1 DEF ToolTypeOK, ToolInv, TokenRows
<1>3. ASSUME NEW c \in Callers, call[c].told = "ok", NEW i \in DOMAIN call[c].does \ call[c].made
      PROVE  call[c].does[i].via = "event" \/ (i > 1 /\ call[c].does[i] = Change("http", "build"))
  BY <1>3 DEF ToolInv, CallSound, Settled
<1>4. QED
  BY <1>2, <1>3 DEF ToolsSound, ToolInv
-----------------------------------------------------------------------------
(* The firewall.                                                           *)

FwCalls ==
  [step : {"done", "command", "reload", "open"}, op : {"add", "remove"}, zone : FwZones \cup {NoZone},
   rule : FwRules, todo : SUBSET FwRules, ok : BOOLEAN]

FwTypes ==
  /\ fwKnown \in BOOLEAN /\ fwDaemon \in {"absent", "stopped", "running"} /\ fwDefault \in FwZones
  /\ fwPerm \in [FwZones -> SUBSET FwRules] /\ fwLive \in [FwZones -> SUBSET FwRules]
  /\ fwReq \in [FwReqs -> FwCalls]
  /\ fwBehind \in BOOLEAN /\ fwGuarded \subseteq FwZones

\* A request's command takes away no rule it must not; a start that has failed in nothing has opened,
\* in one zone, what it has not still to open.
FwCallSound(k) ==
  /\ k.step = "command" => k.zone \in FwZones /\ (k.op = "remove" => ~Protected(k.rule))
  /\ k.step = "open" /\ k.ok =>
       fwKnown /\ \A rule \in Essential \ k.todo : k.zone \in FwZones /\ rule \in fwPerm[k.zone]

FwInv ==
  /\ FwTypes /\ InForce /\ StaysOpen
  /\ \A r \in FwReqs : FwCallSound(fwReq[r])
  /\ fwGuarded # {} => fwKnown

\* A caller of the firewall that asks for nothing.
LEMMA RestingCall == FwDone \in FwCalls /\ FwCallSound(FwDone) /\ FwDone.step = "done"
  BY DEF FwDone, FwCalls, FwCallSound, FwRules, Essential

\* At the start nobody asks for anything, and what is permanent is in force.
LEMMA FwInvInit == FwInit => FwInv
<1>. SUFFICES ASSUME FwInit PROVE FwInv
  OBVIOUS
<1>1. FwTypes
  BY RestingCall DEF FwInit, FwTypes, FwRules, Essential
<1>2. InForce /\ StaysOpen
  BY DEF FwInit, InForce, StaysOpen
<1>3. QED
  BY <1>1, <1>2, RestingCall DEF FwInv, FwInit

\* A request moves on; the permanent configuration loses nothing essential that is protected.
LEMMA FwCallMoves ==
  ASSUME FwInv, NEW r \in FwReqs, NEW k \in FwCalls, fwReq' = [fwReq EXCEPT ![r] = k], FwCallSound(k)',
         fwKnown' = fwKnown, fwPerm' \in [FwZones -> SUBSET FwRules],
         \A z \in FwZones : fwKnown => Essential \cap fwPerm[z] \subseteq fwPerm'[z]
  PROVE  fwReq' \in [FwReqs -> FwCalls] /\ \A q \in FwReqs : FwCallSound(fwReq[q])'
<1>1. fwReq' \in [FwReqs -> FwCalls]
  BY DEF FwInv, FwTypes
<1>2. ASSUME NEW q \in FwReqs
      PROVE  FwCallSound(fwReq[q])'
  <2>1. CASE q = r
    BY <2>1 DEF FwInv, FwTypes
  <2>2. CASE q # r
    <3>1. fwReq'[q] = fwReq[q] /\ FwCallSound(fwReq[q])
      BY <2>2 DEF FwInv, FwTypes
    <3>2. QED
      BY <3>1 DEF FwCallSound, Protected
  <2>3. QED
    BY <2>1, <2>2
<1>3. QED
  BY <1>1, <1>2

\* Nothing is asked for but what may be, and nothing of the firewall changes.
LEMMA FwAsks ==
  ASSUME FwInv, NEW r \in FwReqs, NEW z \in FwZones, NEW rule \in FwRules, AddRule(r, z, rule) \/ RemoveRule(r, z, rule)
  PROVE  FwInv'
<1>1. PICK k \in FwCalls : /\ fwReq' = [fwReq EXCEPT ![r] = k] /\ k.step = "command" /\ k.zone = z /\ k.rule = rule
                           /\ k.op = "remove" => ~Protected(rule)
  <2>1. CASE AddRule(r, z, rule)
    <3>. DEFINE n == [FwDone EXCEPT !.step = "command", !.zone = z, !.rule = rule]
    <3>1. n \in FwCalls /\ n.step = "command" /\ n.zone = z /\ n.rule = rule /\ n.op = "add"
      BY DEF FwDone, FwCalls
    <3>2. QED
      BY <2>1, <3>1 DEF AddRule
  <2>2. CASE RemoveRule(r, z, rule)
    <3>. DEFINE n == [FwDone EXCEPT !.step = "command", !.op = "remove", !.zone = z, !.rule = rule]
    <3>1. n \in FwCalls /\ n.step = "command" /\ n.zone = z /\ n.rule = rule
      BY DEF FwDone, FwCalls
    <3>2. QED
      BY <2>2, <3>1 DEF RemoveRule, RemoveAnyRule
  <2>3. QED
    BY <2>1, <2>2
<1>2. UNCHANGED <<fwKnown, fwDaemon, fwDefault, fwPerm, fwLive, fwBehind, fwGuarded>> /\ FwAt(r, "done")
  BY DEF AddRule, RemoveRule, RemoveAnyRule
<1>3. FwCallSound(k)'
  BY <1>1, <1>2 DEF FwCallSound, Protected
<1>4. fwReq' \in [FwReqs -> FwCalls] /\ \A q \in FwReqs : FwCallSound(fwReq[q])'
  BY <1>1, <1>2, <1>3, FwCallMoves DEF FwInv, FwTypes
<1>5. InForce'
  <2>1. \A q \in FwReqs : fwReq'[q].step \notin {"reload", "open"} => fwReq[q].step \notin {"reload", "open"}
    BY <1>1, <1>2 DEF FwInv, FwTypes, FwAt
  <2>2. QED
    BY <1>2, <2>1 DEF FwInv, InForce
<1>6. QED
  BY <1>2, <1>4, <1>5 DEF FwInv, FwTypes, StaysOpen

\* The configuration changes, as the command says.
LEMMA FwCommands ==
  ASSUME FwInv, NEW r \in FwReqs, RunCommand(r)
  PROVE  FwInv'
<1>1. UNCHANGED <<fwKnown, fwDaemon, fwDefault, fwLive, fwBehind, fwGuarded>> /\ fwReq[r].step = "command"
  BY DEF RunCommand, FwAt
<1>2. fwReq[r] \in FwCalls /\ FwCallSound(fwReq[r])
  BY DEF FwInv, FwTypes
<1>3. CASE fwPerm' = Changed(fwPerm, fwReq[r]) /\ fwReq' = [fwReq EXCEPT ![r].step = "reload"]
  <2>. DEFINE z == fwReq[r].zone
  <2>1. PICK k \in FwCalls : k = [fwReq[r] EXCEPT !.step = "reload"] /\ k.step = "reload"
    <3>1. [fwReq[r] EXCEPT !.step = "reload"] \in FwCalls
      BY <1>2 DEF FwCalls
    <3>2. [fwReq[r] EXCEPT !.step = "reload"].step = "reload"
      BY <1>2 DEF FwCalls
    <3>3. QED
      BY <3>1, <3>2
  <2>2. z \in FwZones /\ fwReq[r].rule \in FwRules /\ (fwReq[r].op = "remove" => ~Protected(fwReq[r].rule))
    BY <1>1, <1>2 DEF FwCallSound, FwCalls
  <2>3. fwPerm' \in [FwZones -> SUBSET FwRules]
    BY <1>3, <2>2 DEF Changed, FwInv, FwTypes
  <2>4. ASSUME NEW y \in FwZones, fwKnown
        PROVE  Essential \cap fwPerm[y] \subseteq fwPerm'[y]
    <3>1. fwReq[r].op = "remove" => fwReq[r].rule \notin Essential
      BY <2>2, <2>4 DEF Protected, Essential
    <3>2. fwReq[r].op \in {"add", "remove"}
      BY <1>2 DEF FwCalls
    <3>3. fwPerm'[y] = IF y # z THEN fwPerm[y]
                       ELSE IF fwReq[r].op = "add" THEN fwPerm[y] \cup {fwReq[r].rule} ELSE fwPerm[y] \ {fwReq[r].rule}
      BY <1>3, <2>2 DEF Changed, FwInv, FwTypes
    <3>4. QED
      BY <3>1, <3>2, <3>3
  <2>5. FwCallSound(k)'
    BY <2>1 DEF FwCallSound
  <2>6. fwReq' = [fwReq EXCEPT ![r] = k]
    BY <1>3, <2>1
  <2>7. fwReq' \in [FwReqs -> FwCalls] /\ \A q \in FwReqs : FwCallSound(fwReq[q])'
    BY <1>1, <2>1, <2>3, <2>4, <2>5, <2>6, FwCallMoves
  <2>8. InForce'
    <3>1. fwReq'[r].step = "reload"
      BY <2>1, <2>6 DEF FwInv, FwTypes
    <3>2. QED
      BY <3>1 DEF InForce
  <2>9. StaysOpen'
    BY <1>1, <2>4 DEF FwInv, FwTypes, StaysOpen
  <2>10. QED
    BY <1>1, <2>3, <2>7, <2>8, <2>9 DEF FwInv, FwTypes
<1>4. CASE FwEnd(r) /\ UNCHANGED fwPerm
  <2>1. FwCallSound(FwDone)'
    BY RestingCall DEF FwCallSound
  <2>2. fwReq' \in [FwReqs -> FwCalls] /\ \A q \in FwReqs : FwCallSound(fwReq[q])'
    BY <1>1, <1>4, <2>1, RestingCall, FwCallMoves DEF FwEnd, FwInv, FwTypes
  <2>3. \A q \in FwReqs : fwReq'[q].step \notin {"reload", "open"} => fwReq[q].step \notin {"reload", "open"}
    BY <1>1, <1>4 DEF FwEnd, FwInv, FwTypes
  <2>4. InForce'
    BY <1>1, <1>4, <2>3 DEF FwInv, InForce
  <2>5. QED
    BY <1>1, <1>4, <2>2, <2>4 DEF FwInv, FwTypes, StaysOpen
<1>5. QED
  BY <1>3, <1>4 DEF RunCommand

\* A reload puts what is permanent in force, or nothing is known of what is in force.
LEMMA FwReloads ==
  ASSUME FwInv, NEW r \in FwReqs, Reload(r), UNCHANGED <<fwKnown, fwDaemon, fwDefault, fwPerm>>,
         fwGuarded' \subseteq FwZones, \A z \in fwGuarded' : fwKnown /\ Essential \subseteq fwPerm[z]
  PROVE  FwInv'
<1>1. FwCallSound(FwDone)'
  BY RestingCall DEF FwCallSound
<1>2. fwReq' \in [FwReqs -> FwCalls] /\ \A q \in FwReqs : FwCallSound(fwReq[q])'
  BY <1>1, RestingCall, FwCallMoves DEF Reload, FwEnd, FwInv, FwTypes
<1>3. (fwLive' = fwPerm' /\ fwBehind' = FALSE) \/ (fwBehind' = TRUE /\ fwLive' = fwLive)
  BY DEF Reload
<1>4. InForce' /\ StaysOpen'
  BY <1>3 DEF InForce, StaysOpen
<1>5. FwTypes'
  BY <1>2, <1>3 DEF FwInv, FwTypes
<1>6. QED
  BY <1>2, <1>4, <1>5 DEF FwInv

\* firewalld is started, and the rules it needs are to be opened.
LEMMA FwStarts ==
  ASSUME FwInv, NEW r \in FwReqs, StartFirewalld(r) \/ InstallFirewalld(r)
  PROVE  FwInv'
<1>1. UNCHANGED <<fwKnown, fwDefault, fwPerm, fwBehind, fwGuarded>> /\ FwAt(r, "done")
  BY DEF StartFirewalld, InstallFirewalld, Starting
<1>. DEFINE k == [FwDone EXCEPT !.step = "open", !.todo = FwRules, !.ok = fwKnown]
<1>2. CASE UNCHANGED <<fwDaemon, fwLive, fwReq>>
  BY <1>1, <1>2 DEF FwInv, FwTypes, InForce, StaysOpen, FwCallSound, Protected
<1>3. CASE /\ fwDaemon' = "running" /\ fwLive' = (IF fwDaemon = "running" THEN fwLive ELSE fwPerm)
           /\ fwReq' = [fwReq EXCEPT ![r] = k]
  <2>1. k \in FwCalls /\ k.step = "open" /\ k.todo = FwRules /\ (k.ok <=> fwKnown)
    BY DEF FwInv, FwTypes, FwDone, FwCalls, FwRules
  <2>2. FwCallSound(k)'
    BY <1>1, <2>1 DEF FwCallSound, FwRules
  <2>3. fwReq' \in [FwReqs -> FwCalls] /\ \A q \in FwReqs : FwCallSound(fwReq[q])'
    BY <1>1, <1>3, <2>1, <2>2, FwCallMoves DEF FwInv, FwTypes
  <2>4. fwReq'[r].step = "open"
    BY <1>3, <2>1 DEF FwInv, FwTypes
  <2>5. InForce'
    BY <2>4 DEF InForce
  <2>6. StaysOpen'
    BY <1>1, <1>3 DEF FwInv, StaysOpen
  <2>7. FwTypes'
    BY <1>1, <1>3, <2>3 DEF FwInv, FwTypes
  <2>8. QED
    BY <1>1, <2>3, <2>5, <2>6, <2>7 DEF FwInv
<1>4. QED
  BY <1>2, <1>3 DEF StartFirewalld, InstallFirewalld, Starting

\* The next rule to open is one of those left.
LEMMA NextToOpenIn ==
  ASSUME NEW todo \in SUBSET FwRules, todo # {}
  PROVE  NextToOpen(todo) \in todo
<1>1. \E rule \in todo : ("panel" \in todo => rule = "panel") /\ ("ssh" \in todo => rule # "web")
  BY DEF FwRules, Essential
<1>2. QED
  BY <1>1 DEF NextToOpen

\* One more rule is opened in the default zone, or not.
LEMMA FwOpens ==
  ASSUME FwInv, NEW r \in FwReqs, OpenEssential(r)
  PROVE  FwInv'
<1>. DEFINE b == fwReq[r]
            rule == NextToOpen(b.todo)
<1>1. /\ UNCHANGED <<fwKnown, fwDaemon, fwDefault, fwLive, fwBehind, fwGuarded>> /\ b.step = "open"
      /\ b \in FwCalls /\ FwCallSound(b) /\ fwDefault \in FwZones
  BY DEF OpenEssential, FwAt, FwInv, FwTypes
<1>2. rule \in b.todo /\ rule \in FwRules
  BY <1>1, NextToOpenIn DEF OpenEssential, FwCalls
<1>3. PICK k \in FwCalls :
        /\ fwReq' = [fwReq EXCEPT ![r] = k] /\ k.step = "open" /\ fwPerm' \in [FwZones -> SUBSET FwRules]
        /\ \A z \in FwZones : fwPerm[z] \subseteq fwPerm'[z]
        /\ k.ok => b.ok
        /\ k.ok => \A e \in Essential \ k.todo : k.zone \in FwZones /\ e \in fwPerm'[k.zone]
  <2>1. CASE /\ fwPerm' = [fwPerm EXCEPT ![fwDefault] = IF rule = "panel" /\ ~fwKnown THEN @ ELSE @ \cup {rule}]
             /\ fwReq' = [fwReq EXCEPT ![r].todo = @ \ {rule}, ![r].zone = fwDefault, ![r].ok = @ /\ fwReq[r].zone \in {NoZone, fwDefault}]
    <3>. DEFINE n == [b EXCEPT !.todo = @ \ {rule}, !.zone = fwDefault, !.ok = @ /\ b.zone \in {NoZone, fwDefault}]
    <3>1. b.ok \in BOOLEAN
      BY <1>1 DEF FwCalls
    <3>2. n \in FwCalls
      BY <1>1, <3>1 DEF FwCalls
    <3>3. n.step = "open" /\ n.todo = b.todo \ {rule} /\ n.zone = fwDefault /\ (n.ok <=> b.ok /\ b.zone \in {NoZone, fwDefault})
      BY <1>1 DEF FwCalls
    <3>4. fwPerm' \in [FwZones -> SUBSET FwRules]
      BY <1>1, <1>2, <2>1 DEF FwInv, FwTypes
    <3>5. \A z \in FwZones : fwPerm[z] \subseteq fwPerm'[z]
      BY <1>1, <2>1 DEF FwInv, FwTypes
    <3>6. fwKnown => rule \in fwPerm'[fwDefault]
      BY <1>1, <2>1 DEF FwInv, FwTypes
    <3>7. ASSUME n.ok, NEW e \in Essential \ n.todo
          PROVE  n.zone \in FwZones /\ e \in fwPerm'[n.zone]
      <4>1. fwKnown /\ \A x \in Essential \ b.todo : b.zone \in FwZones /\ x \in fwPerm[b.zone]
        BY <1>1, <3>3, <3>7 DEF FwCallSound
      <4>2. CASE e = rule
        BY <1>1, <3>3, <3>6, <4>1, <4>2
      <4>3. CASE e # rule
        <5>1. e \in Essential \ b.todo
          BY <3>3, <3>7, <4>3
        <5>2. b.zone = fwDefault
          BY <3>3, <3>7, <4>1, <5>1, ZoneAssumption
        <5>3. QED
          BY <1>1, <3>3, <3>5, <4>1, <5>1, <5>2
      <4>4. QED
        BY <4>2, <4>3
    <3>8. fwReq' = [fwReq EXCEPT ![r] = n]
      BY <2>1
    <3>9. QED
      BY <3>2, <3>3, <3>4, <3>5, <3>7, <3>8
  <2>2. CASE /\ fwReq' = [fwReq EXCEPT ![r].todo = @ \ {rule}, ![r].ok = @ /\ rule \notin Essential]
             /\ UNCHANGED fwPerm
    <3>. DEFINE n == [b EXCEPT !.todo = @ \ {rule}, !.ok = @ /\ rule \notin Essential]
    <3>1. b.ok \in BOOLEAN
      BY <1>1 DEF FwCalls
    <3>2. n \in FwCalls
      BY <1>1, <3>1 DEF FwCalls
    <3>3. n.step = "open" /\ n.todo = b.todo \ {rule} /\ n.zone = b.zone /\ (n.ok <=> b.ok /\ rule \notin Essential)
      BY <1>1 DEF FwCalls
    <3>4. n.ok => \A e \in Essential \ n.todo : n.zone \in FwZones /\ e \in fwPerm'[n.zone]
      BY <1>1, <2>2, <3>3 DEF FwCallSound
    <3>5. fwReq' = [fwReq EXCEPT ![r] = n]
      BY <2>2
    <3>6. QED
      BY <2>2, <3>2, <3>3, <3>4, <3>5 DEF FwInv, FwTypes
  <2>3. QED
    BY <2>1, <2>2 DEF OpenEssential
<1>4. FwCallSound(k)'
  BY <1>1, <1>3 DEF FwCallSound
<1>5. fwReq' \in [FwReqs -> FwCalls] /\ \A q \in FwReqs : FwCallSound(fwReq[q])'
  BY <1>1, <1>3, <1>4, FwCallMoves
<1>6. InForce'
  <2>1. fwReq'[r].step = "open"
    BY <1>3 DEF FwInv, FwTypes
  <2>2. QED
    BY <2>1 DEF InForce
<1>7. StaysOpen'
  BY <1>1, <1>3 DEF FwInv, FwTypes, StaysOpen
<1>8. QED
  BY <1>1, <1>3, <1>5, <1>6, <1>7 DEF FwInv, FwTypes

\* Who uses firewall-cmd next to the panel.
LEMMA FwOutside == ASSUME FwInv, Outside PROVE FwInv'
<1>1. UNCHANGED <<fwKnown, fwPerm, fwReq, fwGuarded>>
  BY DEF Outside
<1>2. \A r \in FwReqs : FwCallSound(fwReq[r])'
  BY <1>1 DEF FwInv, FwCallSound, Protected
<1>3. \/ fwDaemon' = "stopped" /\ UNCHANGED <<fwLive, fwBehind>>
      \/ fwDaemon' = "running" /\ fwLive' = fwPerm /\ fwBehind' = FALSE
      \/ fwLive' \in [FwZones -> SUBSET FwRules] /\ fwBehind' = TRUE /\ fwDaemon' = fwDaemon
      \/ UNCHANGED <<fwDaemon, fwLive, fwBehind>>
  BY DEF Outside, FwInv, FwTypes, FwRules
<1>4. fwDefault' \in FwZones
  BY DEF Outside, FwInv, FwTypes
<1>5. FwTypes'
  BY <1>1, <1>3, <1>4 DEF FwInv, FwTypes
<1>6. InForce' /\ StaysOpen'
  BY <1>1, <1>3 DEF FwInv, InForce, StaysOpen
<1>7. QED
  BY <1>1, <1>2, <1>5, <1>6 DEF FwInv

\* The panel dies in its commands.
LEMMA FwDies == ASSUME FwInv, FwPanelDies PROVE FwInv'
<1>1. fwReq' \in [FwReqs -> FwCalls] /\ \A r \in FwReqs : FwCallSound(fwReq[r])'
  BY RestingCall DEF FwPanelDies, FwCallSound
<1>2. QED
  BY <1>1 DEF FwPanelDies, FwInv, FwTypes, InForce, StaysOpen

\* Every step of the firewall and its requests keeps the invariant.
LEMMA FwInvStep == ASSUME FwInv, FwNext PROVE FwInv'
<1>1. ASSUME NEW r \in FwReqs, RunReload(r) \/ ReloadFirewall(r)
      PROVE  FwInv'
  BY <1>1, FwReloads DEF RunReload, ReloadFirewall, FwInv, FwTypes, StaysOpen
<1>2. ASSUME NEW r \in FwReqs, OpenReload(r)
      PROVE  FwInv'
  <2>1. fwReq[r].ok /\ fwReq[r].zone \in FwZones => fwKnown /\ Essential \subseteq fwPerm[fwReq[r].zone]
    BY <1>2 DEF OpenReload, FwAt, FwInv, FwCallSound
  <2>2. fwGuarded' \subseteq FwZones /\ \A z \in fwGuarded' : fwKnown /\ Essential \subseteq fwPerm[z]
    BY <1>2, <2>1 DEF OpenReload, FwInv, FwTypes, StaysOpen
  <2>3. QED
    BY <1>2, <2>2, FwReloads DEF OpenReload
<1>3. QED
  BY <1>1, <1>2, FwAsks, FwCommands, FwStarts, FwOpens, FwOutside, FwDies DEF FwNext

\* A step of something else keeps the invariant.
LEMMA FwInvSame == FwInv /\ UNCHANGED fwVars => FwInv'
  BY DEF FwInv, fwVars, FwTypes, InForce, StaysOpen, FwCallSound, Protected

\* It is enough for what the run checks.
LEMMA FwInvSound == FwInv => FwTypeOK /\ FirewallSound
  BY DEF FwInv, FwTypes, FwTypeOK, FirewallSound, FwCalls
-----------------------------------------------------------------------------
(* The tunnels.                                                            *)

\* No hostname twice.
Distinct(rules) ==
  \A j, k \in DOMAIN rules : j # k /\ rules[j][1] # Anything => rules[j][1] # rules[k][1]

TunCalls ==
  {k \in [step : {"done", "insert", "save", "write"}, id : TunnelIds \cup {0}, row : TunRow, rules : Seq(Rules), bare : BOOLEAN] :
     k.step # "done" => k.row.there /\ k.row.path \in Paths}

TunTypes ==
  /\ tunRow \in [TunnelIds -> TunRow] /\ \A i \in TunnelIds : tunRow[i].there => tunRow[i].path \in Paths
  /\ tunFile \in [Paths -> Seq(Rules)] /\ tunAsked \in [Paths -> SUBSET Rules] /\ tunBare \subseteq Paths
  /\ tunReq \in [TunnelReqs -> TunCalls] /\ tunMet \in BOOLEAN

RowsApart ==
  \A i, j \in TunnelIds : i # j /\ tunRow[i].there /\ tunRow[j].there =>
    /\ tunRow[i].path # tunRow[j].path
    /\ tunRow[i].service = Anything \/ tunRow[i].service # tunRow[j].service

FileWhole(p) ==
  Distinct(tunFile[p]) /\ (p \notin tunBare => tunFile[p] # <<>> /\ tunFile[p][Len(tunFile[p])] = Fallback)

\* What a request alone has still to do: a row whose service is free; the rules that were asked for.
TunPending(k) ==
  /\ k.step = "insert" => FreeService(k.row.service, 0)
  /\ k.step = "save" => k.id \in TunnelIds /\ tunRow[k.id].there /\ FreeService(k.row.service, k.id)
  /\ k.step = "write" => /\ Named(k.rules) = tunAsked[k.row.path] /\ Distinct(k.rules)
                         /\ ~k.bare => \A i \in DOMAIN k.rules : k.rules[i] # Fallback

Writing(p) == \E r \in TunnelReqs : TunAt(r, "write") /\ tunReq[r].row.path = p
TunAlone == \A r, q \in TunnelReqs : r # q => TunAt(r, "done") \/ TunAt(q, "done")

TunCalm ==
  /\ TunAlone /\ RowsApart
  /\ \A p \in Paths : FileWhole(p) /\ (Writing(p) \/ Named(tunFile[p]) = tunAsked[p])
  /\ \A r \in TunnelReqs : TunPending(tunReq[r])

TunInv == TunTypes /\ (~tunMet => TunCalm)

\* A sequence whose elements come from places of another has its hostnames once, too.
LEMMA DistinctFrom ==
  ASSUME NEW s \in Seq(Rules), NEW t, Distinct(s), From(s, t, Len(s))
  PROVE  Distinct(t)
<1>1. DOMAIN s = 1 .. Len(s)
  BY LenProperties
<1>2. QED
  BY <1>1 DEF Distinct, From

\* Without the fallback rules, the rules with a hostname are the same.
LEMMA FilterRules ==
  ASSUME NEW s \in Seq(Rules)
  PROVE  /\ filterFallbackIngress(s) \in Seq(Rules) /\ Named(filterFallbackIngress(s)) = Named(s)
         /\ Distinct(s) => Distinct(filterFallbackIngress(s))
         /\ \A i \in DOMAIN filterFallbackIngress(s) : filterFallbackIngress(s)[i] # Fallback
<1>. DEFINE t == DropFrom(s, {Fallback})
<1>1. /\ t \in Seq(Rules)
      /\ \A i \in DOMAIN s : s[i] \notin {Fallback} => \E a \in DOMAIN t : t[a] = s[i]
      /\ \A a \in DOMAIN t : t[a] \notin {Fallback}
      /\ From(s, t, Len(s))
  BY DropFromProperties
<1>. HIDE DEF t
<1>2. DOMAIN s = 1 .. Len(s)
  BY LenProperties
<1>3. Named(t) \subseteq Named(s)
  BY <1>1, <1>2 DEF From, Named
<1>4. Named(s) \subseteq Named(t)
  BY <1>1 DEF Named, Fallback
<1>5. QED
  BY <1>1, <1>3, <1>4, DistinctFrom DEF filterFallbackIngress, t

\* A rule is added, its hostname being new.
LEMMA AppendRule ==
  ASSUME NEW s \in Seq(Rules), NEW e \in Rules
  PROVE  /\ Append(s, e) \in Seq(Rules) /\ Named(Append(s, e)) = Named(s) \cup Named(<<e>>)
         /\ Distinct(s) /\ (e[1] # Anything => \A x \in Named(s) : x[1] # e[1]) => Distinct(Append(s, e))
<1>. DEFINE t == Append(s, e)
<1>1. /\ t \in Seq(Rules) /\ Len(t) = Len(s) + 1 /\ Len(s) \in Nat /\ t[Len(s) + 1] = e
      /\ \A a \in 1 .. Len(s) : t[a] = s[a]
  BY AppendProperties, LenProperties
<1>2. DOMAIN t = 1 .. Len(s) + 1 /\ DOMAIN s = 1 .. Len(s)
  BY <1>1, LenProperties
<1>. HIDE DEF t
<1>3. DOMAIN <<e>> = {1} /\ <<e>>[1] = e
  OBVIOUS
<1>4. Named(<<e>>) = IF e[1] # Anything THEN {e} ELSE {}
  BY <1>3 DEF Named
<1>5. Named(t) = Named(s) \cup Named(<<e>>)
  <2>1. ASSUME NEW x \in Named(t)
        PROVE  x \in Named(s) \cup Named(<<e>>)
    <3>1. PICK a \in DOMAIN t : t[a] = x /\ t[a][1] # Anything
      BY <2>1 DEF Named
    <3>2. a = Len(s) + 1 \/ a \in DOMAIN s
      BY <1>1, <1>2
    <3>3. QED
      BY <1>1, <1>2, <1>4, <3>1, <3>2 DEF Named
  <2>2. ASSUME NEW x \in Named(s)
        PROVE  x \in Named(t)
    <3>1. PICK a \in DOMAIN s : s[a] = x /\ s[a][1] # Anything
      BY <2>2 DEF Named
    <3>2. a \in DOMAIN t /\ t[a] = s[a]
      BY <1>1, <1>2
    <3>3. QED
      BY <3>1, <3>2 DEF Named
  <2>3. ASSUME NEW x \in Named(<<e>>)
        PROVE  x \in Named(t)
    <3>1. x = e /\ e[1] # Anything
      BY <1>4, <2>3
    <3>2. Len(s) + 1 \in DOMAIN t /\ t[Len(s) + 1] = e
      BY <1>1, <1>2
    <3>3. QED
      BY <3>1, <3>2 DEF Named
  <2>4. QED
    BY <2>1, <2>2, <2>3
<1>6. ASSUME Distinct(s), e[1] # Anything => \A x \in Named(s) : x[1] # e[1]
      PROVE  Distinct(t)
  <2>1. \A a \in DOMAIN s : s[a][1] # Anything => s[a][1] # e[1]
    BY <1>6 DEF Named
  <2>2. \A a \in DOMAIN s : e[1] # Anything => s[a][1] # e[1]
    BY <2>1
  <2>3. \A a \in DOMAIN t : (a \in DOMAIN s /\ t[a] = s[a]) \/ (a = Len(s) + 1 /\ t[a] = e)
    BY <1>1, <1>2
  <2>4. QED
    BY <1>6, <2>1, <2>2, <2>3 DEF Distinct
<1>7. QED
  BY <1>1, <1>5, <1>6 DEF t

\* A rule is replaced, its hostname being no other's.
LEMMA ReplaceRule ==
  ASSUME NEW s \in Seq(Rules), Distinct(s), NEW k \in DOMAIN s, NEW e \in Rules,
         e[1] # Anything => \A j \in DOMAIN s \ {k} : s[j][1] # e[1]
  PROVE  /\ [s EXCEPT ![k] = e] \in Seq(Rules) /\ Distinct([s EXCEPT ![k] = e])
         /\ Named([s EXCEPT ![k] = e]) = (Named(s) \ {s[k]}) \cup Named(<<e>>)
<1>. DEFINE t == [s EXCEPT ![k] = e]
<1>0. DOMAIN s = 1 .. Len(s)
  BY LenProperties
<1>1. /\ t \in Seq(Rules) /\ DOMAIN t = DOMAIN s
      /\ t[k] = e /\ \A j \in DOMAIN s : j # k => t[j] = s[j]
  BY <1>0, ExceptSeq
<1>. HIDE DEF t
<1>2. Named(<<e>>) = IF e[1] # Anything THEN {e} ELSE {}
  <2>1. DOMAIN <<e>> = {1} /\ <<e>>[1] = e
    OBVIOUS
  <2>2. QED
    BY <2>1 DEF Named
<1>3. Distinct(t)
  BY <1>1 DEF Distinct
<1>4. Named(t) = (Named(s) \ {s[k]}) \cup Named(<<e>>)
  <2>1. ASSUME NEW x \in Named(t)
        PROVE  x \in (Named(s) \ {s[k]}) \cup Named(<<e>>)
    <3>1. PICK a \in DOMAIN t : t[a] = x /\ t[a][1] # Anything
      BY <2>1 DEF Named
    <3>2. CASE a = k
      BY <1>1, <1>2, <3>1, <3>2
    <3>3. CASE a # k
      BY <1>1, <3>1, <3>3 DEF Named, Distinct
    <3>4. QED
      BY <3>2, <3>3
  <2>2. ASSUME NEW x \in Named(s) \ {s[k]}
        PROVE  x \in Named(t)
    <3>1. PICK a \in DOMAIN s : s[a] = x /\ s[a][1] # Anything
      BY <2>2 DEF Named
    <3>2. a # k
      BY <2>2, <3>1
    <3>3. QED
      BY <1>1, <3>1, <3>2 DEF Named
  <2>3. ASSUME NEW x \in Named(<<e>>)
        PROVE  x \in Named(t)
    BY <1>1, <1>2, <2>3 DEF Named
  <2>4. QED
    BY <2>1, <2>2, <2>3
<1>5. QED
  BY <1>1, <1>3, <1>4 DEF t

\* A rule is taken out.
LEMMA RemoveRuleAt ==
  ASSUME NEW s \in Seq(Rules), NEW k \in DOMAIN s
  PROVE  /\ RemoveAt(s, k) \in Seq(Rules)
         /\ Distinct(s) => Distinct(RemoveAt(s, k)) /\ Named(RemoveAt(s, k)) = Named(s) \ {s[k]}
<1>. DEFINE t == RemoveAt(s, k)
            a == SubSeq(s, 1, k - 1)
            b == SubSeq(s, k + 1, Len(s))
            n == Len(s)
<1>0. n \in Nat /\ DOMAIN s = 1 .. n /\ \A i \in 1 .. n : s[i] \in Rules
  BY LenProperties
<1>1. a \in Seq(Rules) /\ Len(a) = k - 1 /\ \A i \in 1 .. k - 1 : a[i] = s[i]
  <2>1. 1 \in Int /\ k - 1 \in Int /\ \A i \in 1 .. k - 1 : s[i] \in Rules
    BY <1>0
  <2>2. a \in Seq(Rules) /\ Len(a) = (IF 1 <= k - 1 THEN k - 1 - 1 + 1 ELSE 0)
        /\ \A i \in 1 .. k - 1 - 1 + 1 : a[i] = s[1 + i - 1]
    BY <2>1, SubSeqProperties
  <2>. HIDE DEF a
  <2>3. QED
    BY <1>0, <2>2
<1>2. b \in Seq(Rules) /\ Len(b) = n - k /\ \A i \in 1 .. n - k : b[i] = s[k + i]
  <2>1. k + 1 \in Int /\ n \in Int /\ \A i \in k + 1 .. n : s[i] \in Rules
    BY <1>0
  <2>2. b \in Seq(Rules) /\ Len(b) = (IF k + 1 <= n THEN n - (k + 1) + 1 ELSE 0)
        /\ \A i \in 1 .. n - (k + 1) + 1 : b[i] = s[k + 1 + i - 1]
    BY <2>1, SubSeqProperties
  <2>. HIDE DEF b, n
  <2>3. \A i \in 1 .. n - k : i \in 1 .. n - (k + 1) + 1 /\ k + 1 + i - 1 = k + i
    BY <1>0
  <2>4. QED
    BY <1>0, <2>2, <2>3
<1>. HIDE DEF a, b, n
<1>3. /\ t \in Seq(Rules) /\ Len(t) = n - 1
      /\ \A i \in 1 .. n - 1 : t[i] = IF i < k THEN s[i] ELSE s[i + 1]
  <2>1. t = a \o b
    BY DEF RemoveAt, a, b
  <2>2. /\ a \o b \in Seq(Rules) /\ Len(a \o b) = Len(a) + Len(b)
        /\ \A i \in 1 .. Len(a) + Len(b) : (a \o b)[i] = IF i <= Len(a) THEN a[i] ELSE b[i - Len(a)]
    BY <1>1, <1>2, ConcatProperties
  <2>. HIDE DEF t
  <2>3. ASSUME NEW i \in 1 .. n - 1
        PROVE  t[i] = IF i < k THEN s[i] ELSE s[i + 1]
    <3>0. i \in 1 .. Len(a) + Len(b) /\ Len(a) = k - 1
      BY <1>0, <1>1, <1>2
    <3>1. t[i] = IF i <= k - 1 THEN a[i] ELSE b[i - (k - 1)]
      BY <2>1, <2>2, <3>0
    <3>2. CASE i < k
      BY <1>0, <1>1, <3>1, <3>2
    <3>3. CASE ~(i < k)
      <4>1. i - (k - 1) \in 1 .. n - k /\ k + (i - (k - 1)) = i + 1
        BY <1>0, <3>3
      <4>2. b[i - (k - 1)] = s[i + 1]
        BY <1>2, <4>1
      <4>3. QED
        BY <1>0, <3>1, <3>3, <4>2
    <3>4. QED
      BY <3>2, <3>3
  <2>4. QED
    BY <1>0, <1>1, <1>2, <2>1, <2>2, <2>3
<1>4. DOMAIN t = 1 .. n - 1
  BY <1>3, LenProperties
<1>. HIDE DEF t
<1>5. \A i \in 1 .. n - 1 : \E c \in 1 .. n : c # k /\ t[i] = s[c] /\ c = IF i < k THEN i ELSE i + 1
  BY <1>0, <1>3
<1>6. From(s, t, Len(s))
  <2>. DEFINE at(i) == IF i < k THEN i ELSE i + 1
  <2>1. \A i \in DOMAIN t : at(i) \in 1 .. n /\ t[i] = s[at(i)]
    BY <1>0, <1>3, <1>4
  <2>2. \A c, d \in DOMAIN t : c # d => at(c) # at(d)
    BY <1>0, <1>4
  <2>. HIDE DEF at
  <2>3. QED
    BY <2>1, <2>2 DEF From, n
<1>7. Distinct(s) => Distinct(t)
  BY <1>6, DistinctFrom
<1>8. ASSUME Distinct(s)
      PROVE  Named(t) = Named(s) \ {s[k]}
  <2>1. ASSUME NEW x \in Named(t)
        PROVE  x \in Named(s) \ {s[k]}
    <3>1. PICK i \in DOMAIN t : t[i] = x /\ t[i][1] # Anything
      BY <2>1 DEF Named
    <3>2. PICK c \in DOMAIN s : c # k /\ t[i] = s[c]
      BY <1>0, <1>4, <1>5, <3>1
    <3>3. QED
      BY <1>8, <3>1, <3>2 DEF Named, Distinct
  <2>2. ASSUME NEW x \in Named(s) \ {s[k]}
        PROVE  x \in Named(t)
    <3>1. PICK c \in DOMAIN s : s[c] = x /\ s[c][1] # Anything /\ c # k
      BY <2>2 DEF Named
    <3>2. CASE c < k
      <4>1. c \in DOMAIN t /\ t[c] = s[c]
        BY <1>0, <1>3, <1>4, <3>1, <3>2
      <4>2. QED
        BY <3>1, <4>1 DEF Named
    <3>3. CASE ~(c < k)
      <4>1. c - 1 \in 1 .. n - 1 /\ ~(c - 1 < k) /\ c - 1 + 1 = c
        BY <1>0, <3>1, <3>3
      <4>2. c - 1 \in DOMAIN t /\ t[c - 1] = s[c]
        BY <1>3, <1>4, <4>1
      <4>3. QED
        BY <3>1, <4>2 DEF Named
    <3>4. QED
      BY <3>2, <3>3
  <2>3. QED
    BY <2>1, <2>2
<1>9. QED
  BY <1>3, <1>7, <1>8 DEF t

\* What is written ends in the fallback rule, unless that one itself was given.
LEMMA SerializedRules ==
  ASSUME NEW s \in Seq(Rules)
  PROVE  /\ serializeConfig(s) \in Seq(Rules)
         /\ Distinct(s) => Distinct(serializeConfig(s))
         /\ Named(serializeConfig(s)) = Named(s)
         /\ (\A i \in DOMAIN s : s[i] # Fallback) =>
              serializeConfig(s) # <<>> /\ serializeConfig(s)[Len(serializeConfig(s))] = Fallback
<1>. DEFINE t == filterFallbackIngress(s)
<1>1. t \in Seq(Rules) /\ Named(t) = Named(s) /\ (Distinct(s) => Distinct(t))
  BY FilterRules
<1>2. Fallback \in Rules /\ Fallback[1] = Anything
  BY TunnelAssumption DEF Fallback, Rules
<1>. HIDE DEF t
<1>3. CASE hasFallbackIngress(s)
  <2>1. serializeConfig(s) = t
    BY <1>1, <1>3, ConcatEmptySeq DEF serializeConfig, t
  <2>2. \E i \in DOMAIN s : s[i] = Fallback
    BY <1>3, LenProperties DEF hasFallbackIngress, Contains
  <2>3. QED
    BY <1>1, <2>1, <2>2
<1>4. CASE ~hasFallbackIngress(s)
  <2>1. serializeConfig(s) = t \o <<Fallback>>
    BY <1>4 DEF serializeConfig, t
  <2>2. Append(t, Fallback) = t \o <<Fallback>>
    BY <1>1, <1>2, AppendIsConcat
  <2>3. Named(<<Fallback>>) = {}
    BY <1>2 DEF Named
  <2>4. Append(t, Fallback) \in Seq(Rules) /\ Named(Append(t, Fallback)) = Named(t)
        /\ (Distinct(s) => Distinct(Append(t, Fallback)))
    <3>1. Append(t, Fallback) \in Seq(Rules) /\ Named(Append(t, Fallback)) = Named(t) \cup Named(<<Fallback>>)
      BY <1>1, <1>2, AppendRule
    <3>2. Fallback[1] # Anything => \A x \in Named(t) : x[1] # Fallback[1]
      BY <1>2
    <3>3. Distinct(s) => Distinct(Append(t, Fallback))
      BY <1>1, <1>2, <3>2, AppendRule
    <3>4. QED
      BY <2>3, <3>1, <3>3
  <2>5. Append(t, Fallback) # <<>> /\ Append(t, Fallback)[Len(Append(t, Fallback))] = Fallback
    BY <1>1, <1>2, AppendProperties
  <2>. DEFINE u == Append(t, Fallback)
  <2>6. serializeConfig(s) = u
    BY <2>1, <2>2
  <2>7. u \in Seq(Rules) /\ Named(u) = Named(t) /\ (Distinct(s) => Distinct(u)) /\ u # <<>> /\ u[Len(u)] = Fallback
    BY <2>4, <2>5
  <2>. HIDE DEF u
  <2>8. QED
    BY <1>1, <2>6, <2>7
<1>5. QED
  BY <1>3, <1>4

-----------------------------------------------------------------------------
(* The requests on tunnels.                                                *)

\* Who serves no request on tunnels.
LEMMA TunRests == TunRest \in TunCalls /\ TunRest.step = "done"
<1>1. TunRest.row \in TunRow /\ TunRest.rules \in Seq(Rules)
  BY DEF TunRest, NoTunnel, TunRow
<1>2. QED
  BY <1>1 DEF TunRest, TunCalls

\* At the start there is at most one row, and every file has the fallback rule.
LEMMA TunInvInit == TunnelInit => TunInv
<1>. SUFFICES ASSUME TunnelInit PROVE TunInv
  OBVIOUS
<1>. DEFINE first == CHOOSE p \in Paths : TRUE
            one == [there |-> TRUE, path |-> first, service |-> Anything]
<1>1. first \in Paths
  BY TunnelAssumption
<1>2. PICK rows \in {{}} \cup {{i} : i \in TunnelIds} :
        tunRow = [i \in TunnelIds |-> IF i \in rows THEN one ELSE NoTunnel]
  BY DEF TunnelInit
<1>. HIDE DEF first
<1>3. one \in TunRow /\ NoTunnel \in TunRow /\ ~NoTunnel.there
  BY <1>1 DEF TunRow, NoTunnel
<1>4. \A i \in TunnelIds : tunRow[i].there => i \in rows /\ tunRow[i].path \in Paths
  BY <1>1, <1>2, <1>3
<1>5. RowsApart
  BY <1>2, <1>4 DEF RowsApart
<1>6. Fallback \in Rules /\ Fallback[1] = Anything
  BY TunnelAssumption DEF Fallback, Rules
<1>7. <<Fallback>> \in Seq(Rules) /\ Named(<<Fallback>>) = {} /\ Distinct(<<Fallback>>) /\ <<Fallback>> # <<>>
      /\ <<Fallback>>[Len(<<Fallback>>)] = Fallback
  BY <1>6 DEF Named, Distinct
<1>8. TunTypes
  BY <1>2, <1>3, <1>4, <1>7, TunRests DEF TunnelInit, TunTypes
<1>9. \A p \in Paths : FileWhole(p) /\ Named(tunFile[p]) = tunAsked[p]
  <2>1. \A p \in Paths : tunFile[p] = <<Fallback>> /\ tunAsked[p] = {}
    BY DEF TunnelInit
  <2>2. TAKE p \in Paths
  <2>3. Distinct(tunFile[p]) /\ Named(tunFile[p]) = {}
    BY <1>7, <2>1
  <2>4. tunFile[p] # <<>> /\ tunFile[p][Len(tunFile[p])] = Fallback
    BY <1>7, <2>1
  <2>5. QED
    BY <2>1, <2>3, <2>4 DEF FileWhole
<1>10. TunAlone /\ \A r \in TunnelReqs : TunPending(tunReq[r])
  BY TunRests DEF TunnelInit, TunAlone, TunAt, TunPending
<1>11. QED
  BY <1>5, <1>8, <1>9, <1>10 DEF TunInv, TunCalm

\* A step of something else keeps the invariant.
LEMMA TunInvSame == TunInv /\ UNCHANGED tunnelVars => TunInv'
<1>. SUFFICES ASSUME TunInv, UNCHANGED tunnelVars PROVE TunInv'
  OBVIOUS
<1>1. TunTypes'
  BY DEF TunInv, TunTypes, tunnelVars
<1>2. TunCalm => TunCalm'
  BY DEF TunCalm, TunAlone, RowsApart, FileWhole, Writing, TunPending, FreeService, TunAt, tunnelVars
<1>3. QED
  BY <1>1, <1>2 DEF TunInv, tunnelVars

\* A request begins, alone unless two have met, and leaves rows and files as they are.
LEMMA TunBegins ==
  ASSUME TunInv, NEW r \in TunnelReqs, NEW k \in TunCalls, TunBegin(r, k), UNCHANGED <<tunRow, tunFile, tunBare>>,
         tunAsked' \in [Paths -> SUBSET Rules],
         ~tunMet => TunPending(k)',
         \A p \in Paths : tunAsked'[p] = tunAsked[p] \/ (k.step = "write" /\ k.row.path = p)
  PROVE  TunInv'
<1>1. TunTypes'
  BY DEF TunInv, TunTypes, TunBegin, TunBusy, TunAt
<1>2. ASSUME ~tunMet'
      PROVE  TunCalm'
  <2>1. ~tunMet /\ ~TunBusy
    BY <1>2 DEF TunBegin, TunInv, TunTypes, TunBusy, TunAt
  <2>2. TunCalm /\ TunPending(k)' /\ \A q \in TunnelReqs : TunAt(q, "done")
    BY <2>1 DEF TunInv, TunBusy
  <2>3. \A q \in TunnelReqs : tunReq'[q] = IF q = r THEN k ELSE tunReq[q]
    BY DEF TunInv, TunTypes, TunBegin
  <2>4. TunAlone'
    BY <2>2, <2>3 DEF TunAlone, TunAt
  <2>5. RowsApart'
    BY <2>2 DEF TunCalm, RowsApart
  <2>6. ASSUME NEW p \in Paths
        PROVE  (FileWhole(p) /\ (Writing(p) \/ Named(tunFile[p]) = tunAsked[p]))'
    <3>1. FileWhole(p)'
      BY <2>2 DEF TunCalm, FileWhole
    <3>2. ~Writing(p)
      BY <2>2 DEF Writing, TunAt
    <3>3. CASE tunAsked'[p] = tunAsked[p]
      BY <2>2, <3>1, <3>2, <3>3 DEF TunCalm
    <3>4. CASE k.step = "write" /\ k.row.path = p
      <4>1. Writing(p)'
        BY <2>3, <3>4 DEF Writing, TunAt
      <4>2. QED
        BY <3>1, <4>1
    <3>5. QED
      BY <3>3, <3>4
  <2>7. ASSUME NEW q \in TunnelReqs
        PROVE  TunPending(tunReq[q])'
    <3>1. CASE q = r
      BY <2>2, <2>3, <3>1
    <3>2. CASE q # r
      BY <2>2, <2>3, <3>2 DEF TunPending, TunAt
    <3>3. QED
      BY <3>1, <3>2
  <2>8. QED
    BY <2>4, <2>5, <2>6, <2>7 DEF TunCalm
<1>3. QED
  BY <1>1, <1>2 DEF TunInv

\* A request ends; the others, alone as it was, are done.
LEMMA TunEnds ==
  ASSUME TunInv, NEW r \in TunnelReqs, ~TunAt(r, "done"), TunDone(r), tunMet' = tunMet, TunTypes',
         ~tunMet => RowsApart' /\ \A p \in Paths : FileWhole(p)' /\ Named(tunFile'[p]) = tunAsked'[p]
  PROVE  TunInv'
<1>. SUFFICES ASSUME ~tunMet PROVE TunCalm'
  BY DEF TunInv
<1>1. \A q \in TunnelReqs : tunReq'[q] = IF q = r THEN TunRest ELSE tunReq[q]
  BY DEF TunInv, TunTypes, TunDone
<1>2. \A q \in TunnelReqs : tunReq'[q].step = "done"
  BY <1>1, TunRests DEF TunInv, TunCalm, TunAlone, TunAt
<1>3. TunAlone' /\ \A q \in TunnelReqs : TunPending(tunReq[q])'
  BY <1>2 DEF TunAlone, TunAt, TunPending
<1>4. QED
  BY <1>3 DEF TunCalm

\* Rows: they are created and changed, each at the end of its request.
LEMMA TunRowSteps ==
  ASSUME TunInv, NEW r \in TunnelReqs, TunnelRows(r)
  PROVE  TunInv'
<1>1. ASSUME NEW p \in Paths, NEW s \in Services \cup {Anything}
      PROVE  [there |-> TRUE, path |-> p, service |-> s] \in TunRow
  BY DEF TunRow
<1>2. CASE CreateTunnel(r)
  <2>1. PICK p \in Paths, s \in Services \cup {Anything} :
          /\ FreeService(s, 0)
          /\ TunBegin(r, [TunRest EXCEPT !.step = "insert", !.row = [there |-> TRUE, path |-> p, service |-> s]])
    BY <1>2 DEF CreateTunnel
  <2>2. PICK k \in TunCalls : /\ k = [TunRest EXCEPT !.step = "insert", !.row = [there |-> TRUE, path |-> p, service |-> s]]
                              /\ k.step = "insert" /\ k.row.service = s
    <3>. DEFINE n == [TunRest EXCEPT !.step = "insert", !.row = [there |-> TRUE, path |-> p, service |-> s]]
    <3>1. n.step = "insert" /\ n.row = [there |-> TRUE, path |-> p, service |-> s]
      BY DEF TunRest
    <3>2. n \in TunCalls
      BY <1>1, <3>1, TunRests DEF TunCalls
    <3>3. n.row.service = s
      BY <3>1
    <3>. HIDE DEF n
    <3>4. \E k \in TunCalls : k = n /\ k.step = "insert" /\ k.row.service = s
      BY <3>1, <3>2, <3>3
    <3>5. QED
      BY <3>4 DEF n
  <2>3. TunPending(k)'
    BY <1>2, <2>1, <2>2 DEF CreateTunnel, TunPending, FreeService
  <2>4. QED
    BY <1>2, <2>1, <2>2, <2>3, TunBegins DEF CreateTunnel, TunInv, TunTypes
<1>3. CASE UpdateTunnel(r)
  <2>1. PICK i \in TunnelIds, p \in Paths, s \in Services \cup {Anything} :
          /\ tunRow[i].there /\ FreeService(s, i)
          /\ TunBegin(r, [TunRest EXCEPT !.step = "save", !.id = i, !.row = [there |-> TRUE, path |-> p, service |-> s]])
    BY <1>3 DEF UpdateTunnel
  <2>2. PICK k \in TunCalls : /\ k = [TunRest EXCEPT !.step = "save", !.id = i, !.row = [there |-> TRUE, path |-> p, service |-> s]]
                              /\ k.step = "save" /\ k.row.service = s /\ k.id = i
    <3>. DEFINE n == [TunRest EXCEPT !.step = "save", !.id = i, !.row = [there |-> TRUE, path |-> p, service |-> s]]
    <3>1. n.step = "save" /\ n.id = i /\ n.row = [there |-> TRUE, path |-> p, service |-> s]
      BY DEF TunRest
    <3>2. n \in TunCalls
      BY <1>1, <3>1, TunRests DEF TunCalls
    <3>3. n.row.service = s
      BY <3>1
    <3>. HIDE DEF n
    <3>4. \E k \in TunCalls : k = n /\ k.step = "save" /\ k.row.service = s /\ k.id = i
      BY <3>1, <3>2, <3>3
    <3>5. QED
      BY <3>4 DEF n
  <2>3. TunPending(k)'
    BY <1>3, <2>1, <2>2 DEF UpdateTunnel, TunPending, FreeService
  <2>4. QED
    BY <1>3, <2>1, <2>2, <2>3, TunBegins DEF UpdateTunnel, TunInv, TunTypes
<1>4. CASE InsertTunnel(r)
  <2>. DEFINE row == tunReq[r].row
  <2>1. /\ tunReq[r].step = "insert" /\ TunDone(r) /\ UNCHANGED <<tunFile, tunAsked, tunBare, tunMet>>
        /\ row \in TunRow /\ row.there /\ row.path \in Paths
    BY <1>4 DEF InsertTunnel, TunAt, TunInv, TunTypes, TunCalls
  <2>2. \/ UNCHANGED tunRow
        \/ /\ \A j \in TunnelIds : tunRow[j].there => tunRow[j].path # row.path
           /\ \E i \in TunnelIds : ~tunRow[i].there /\ tunRow' = [tunRow EXCEPT ![i] = row]
    BY <1>4 DEF InsertTunnel
  <2>3. TunTypes'
    BY <2>1, <2>2, TunRests DEF TunInv, TunTypes, TunDone
  <2>4. ASSUME ~tunMet
        PROVE  RowsApart'
    <3>1. RowsApart /\ FreeService(row.service, 0)
      BY <2>1, <2>4 DEF TunInv, TunCalm, TunPending
    <3>2. \A j \in TunnelIds : tunRow[j].there => row.service = Anything \/ tunRow[j].service # row.service
      BY <3>1, TunnelAssumption DEF FreeService
    <3>3. CASE UNCHANGED tunRow
      BY <3>1, <3>3 DEF RowsApart
    <3>4. ASSUME NEW i \in TunnelIds, tunRow' = [tunRow EXCEPT ![i] = row],
                 \A j \in TunnelIds : tunRow[j].there => tunRow[j].path # row.path
          PROVE  RowsApart'
      <4>1. \A j \in TunnelIds : tunRow'[j] = IF j = i THEN row ELSE tunRow[j]
        BY <3>4 DEF TunInv, TunTypes
      <4>2. QED
        BY <3>1, <3>2, <3>4, <4>1 DEF RowsApart
    <3>5. QED
      BY <2>2, <3>3, <3>4
  <2>5. ASSUME ~tunMet, NEW p \in Paths
        PROVE  FileWhole(p)' /\ Named(tunFile'[p]) = tunAsked'[p]
    <3>1. ~Writing(p)
      BY <2>1, <2>5 DEF Writing, TunInv, TunCalm, TunAlone, TunAt
    <3>2. QED
      BY <2>1, <2>5, <3>1 DEF TunInv, TunCalm, FileWhole
  <2>6. QED
    BY <2>1, <2>3, <2>4, <2>5, TunEnds DEF TunAt
<1>5. CASE SaveTunnel(r)
  <2>. DEFINE row == tunReq[r].row
              i == tunReq[r].id
  <2>1. /\ tunReq[r].step = "save" /\ TunDone(r) /\ UNCHANGED <<tunFile, tunAsked, tunBare, tunMet>>
        /\ row \in TunRow /\ row.there /\ row.path \in Paths
    BY <1>5 DEF SaveTunnel, TunAt, TunInv, TunTypes, TunCalls
  <2>2. \/ UNCHANGED tunRow
        \/ /\ \A j \in TunnelIds \ {i} : tunRow[j].there => tunRow[j].path # row.path
           /\ tunRow' = [tunRow EXCEPT ![i] = row]
    BY <1>5 DEF SaveTunnel
  <2>3. TunTypes'
    BY <2>1, <2>2, TunRests DEF TunInv, TunTypes, TunDone
  <2>4. ASSUME ~tunMet
        PROVE  RowsApart'
    <3>1. RowsApart /\ FreeService(row.service, i)
      BY <2>1, <2>4 DEF TunInv, TunCalm, TunPending
    <3>2. \A j \in TunnelIds \ {i} : tunRow[j].there => row.service = Anything \/ tunRow[j].service # row.service
      BY <3>1 DEF FreeService
    <3>3. CASE UNCHANGED tunRow
      BY <3>1, <3>3 DEF RowsApart
    <3>4. CASE /\ \A j \in TunnelIds \ {i} : tunRow[j].there => tunRow[j].path # row.path
               /\ tunRow' = [tunRow EXCEPT ![i] = row]
      <4>1. \A j \in TunnelIds : tunRow'[j] = IF j = i THEN row ELSE tunRow[j]
        BY <3>4 DEF TunInv, TunTypes
      <4>2. QED
        BY <3>1, <3>2, <3>4, <4>1 DEF RowsApart
    <3>5. QED
      BY <2>2, <3>3, <3>4
  <2>5. ASSUME ~tunMet, NEW p \in Paths
        PROVE  FileWhole(p)' /\ Named(tunFile'[p]) = tunAsked'[p]
    <3>1. ~Writing(p)
      BY <2>1, <2>5 DEF Writing, TunInv, TunCalm, TunAlone, TunAt
    <3>2. QED
      BY <2>1, <2>5, <3>1 DEF TunInv, TunCalm, FileWhole
  <2>6. QED
    BY <2>1, <2>3, <2>4, <2>5, TunEnds DEF TunAt
<1>6. CASE DeleteTunnel(r)
  <2>1. PICK i \in TunnelIds : tunRow[i].there /\ tunRow' = [tunRow EXCEPT ![i] = NoTunnel]
    BY <1>6 DEF DeleteTunnel
  <2>2. /\ tunMet' = (tunMet \/ TunBusy) /\ UNCHANGED <<tunFile, tunAsked, tunBare, tunReq>>
        /\ NoTunnel \in TunRow /\ ~NoTunnel.there
    BY <1>6 DEF DeleteTunnel, NoTunnel, TunRow
  <2>3. TunTypes'
    BY <2>1, <2>2 DEF TunInv, TunTypes, TunBusy, TunAt
  <2>4. ASSUME ~tunMet'
        PROVE  TunCalm'
    <3>1. ~tunMet /\ ~TunBusy
      BY <2>2, <2>4 DEF TunInv, TunTypes, TunBusy, TunAt
    <3>2. TunCalm /\ \A q \in TunnelReqs : TunAt(q, "done")
      BY <3>1 DEF TunInv, TunBusy
    <3>3. \A j \in TunnelIds : tunRow'[j] = IF j = i THEN NoTunnel ELSE tunRow[j]
      BY <2>1 DEF TunInv, TunTypes
    <3>4. RowsApart'
      BY <2>2, <3>2, <3>3 DEF TunCalm, RowsApart
    <3>5. TunAlone' /\ \A q \in TunnelReqs : TunPending(tunReq[q])'
      BY <2>2, <3>2 DEF TunAlone, TunPending, TunAt
    <3>6. \A p \in Paths : (FileWhole(p) /\ (Writing(p) \/ Named(tunFile[p]) = tunAsked[p]))'
      BY <2>2, <3>2 DEF TunCalm, FileWhole, Writing, TunAt
    <3>7. QED
      BY <3>4, <3>5, <3>6 DEF TunCalm
  <2>5. QED
    BY <2>3, <2>4 DEF TunInv
<1>7. QED
  BY <1>2, <1>3, <1>4, <1>5, <1>6 DEF TunnelRows

\* A request on rules goes on to write what was asked for, or goes no further.
LEMMA TunEdits ==
  ASSUME TunInv, NEW r \in TunnelReqs, NEW i \in TunnelIds, tunRow[i].there, NEW rules \in Seq(Rules), NEW bare \in BOOLEAN,
         NEW asked \in SUBSET Rules, TunEdit(r, i, rules, bare, asked),
         ~tunMet /\ ~TunBusy => /\ Named(rules) = asked /\ Distinct(rules)
                                /\ ~bare => \A a \in DOMAIN rules : rules[a] # Fallback
  PROVE  TunInv'
<1>. DEFINE n == [TunRest EXCEPT !.step = "write", !.row = tunRow[i], !.rules = rules, !.bare = bare]
            p == tunRow[i].path
<1>1. p \in Paths /\ tunRow[i] \in TunRow
  BY DEF TunInv, TunTypes
<1>2. n.step = "write" /\ n.row = tunRow[i] /\ n.rules = rules /\ n.bare = bare
  BY DEF TunRest
<1>3. n \in TunCalls
  BY <1>1, <1>2, TunRests DEF TunCalls
<1>4. PICK k \in TunCalls : k = n /\ k.step = "write" /\ k.row.path = p /\ k.rules = rules /\ k.bare = bare
  BY <1>2, <1>3
<1>. HIDE DEF n
<1>5. CASE TunBegin(r, n) /\ tunAsked' = [tunAsked EXCEPT ![p] = asked]
  <2>1. TunBegin(r, k) /\ UNCHANGED <<tunRow, tunFile, tunBare>>
    BY <1>4, <1>5 DEF TunEdit
  <2>2. tunAsked' \in [Paths -> SUBSET Rules] /\ tunAsked'[p] = asked
        /\ \A q \in Paths : tunAsked'[q] = tunAsked[q] \/ (k.step = "write" /\ k.row.path = q)
    BY <1>1, <1>4, <1>5 DEF TunInv, TunTypes
  <2>3. CASE tunMet'
    <3>1. TunTypes'
      BY <2>1, <2>2 DEF TunInv, TunTypes, TunBegin, TunBusy, TunAt
    <3>2. QED
      BY <2>3, <3>1 DEF TunInv
  <2>4. CASE ~tunMet'
    <3>1. ~tunMet /\ ~TunBusy
      BY <2>1, <2>4 DEF TunBegin, TunInv, TunTypes, TunBusy, TunAt
    <3>2. TunPending(k)'
      BY <1>4, <2>2, <3>1 DEF TunPending
    <3>3. QED
      BY <2>1, <2>2, <3>2, TunBegins
  <2>5. QED
    BY <2>3, <2>4
<1>6. CASE UNCHANGED <<tunReq, tunMet, tunAsked>>
  BY <1>6, TunInvSame DEF TunEdit, tunnelVars
<1>7. QED
  BY <1>5, <1>6 DEF TunEdit, n

\* Rules: they are read, and written as they were asked for.
LEMMA TunIngressSteps ==
  ASSUME TunInv, NEW r \in TunnelReqs, TunnelIngress(r)
  PROVE  TunInv'
<1>1. ASSUME NEW p \in Paths
      PROVE  /\ tunFile[p] \in Seq(Rules) /\ tunAsked[p] \in SUBSET Rules
             /\ ~tunMet /\ ~TunBusy => Distinct(tunFile[p]) /\ Named(tunFile[p]) = tunAsked[p]
  BY DEF TunInv, TunTypes, TunCalm, FileWhole, Writing, TunBusy, TunAt
<1>2. \A i \in TunnelIds : tunRow[i].there => tunRow[i].path \in Paths
  BY DEF TunInv, TunTypes
<1>3. ASSUME NEW item \in Rules
      PROVE  Named(<<item>>) \in SUBSET Rules
  BY DEF Named
<1>4. CASE AddIngress(r)
  <2>1. PICK i \in TunnelIds, item \in Rules :
          /\ tunRow[i].there
          /\ item[1] # Anything => \A e \in Range(tunFile[tunRow[i].path]) : e[1] # item[1]
          /\ TunEdit(r, i, Append(filterFallbackIngress(tunFile[tunRow[i].path]), item), item = Fallback,
                     tunAsked[tunRow[i].path] \cup Named(<<item>>))
    BY <1>4 DEF AddIngress
  <2>. DEFINE p == tunRow[i].path
              s == tunFile[p]
              f == filterFallbackIngress(s)
  <2>2. p \in Paths /\ s \in Seq(Rules) /\ tunAsked[p] \in SUBSET Rules
    BY <1>1, <1>2, <2>1
  <2>3. /\ f \in Seq(Rules) /\ Named(f) = Named(s) /\ (Distinct(s) => Distinct(f))
        /\ \A a \in DOMAIN f : f[a] # Fallback
    BY <2>2, FilterRules
  <2>4. item[1] # Anything => \A x \in Named(f) : x[1] # item[1]
    <3>1. \A x \in Named(s) : x \in Range(s)
      BY DEF Named, Range
    <3>2. QED
      BY <2>1, <2>3, <3>1
  <2>. HIDE DEF f
  <2>5. /\ Append(f, item) \in Seq(Rules) /\ Named(Append(f, item)) = Named(f) \cup Named(<<item>>)
        /\ Distinct(f) => Distinct(Append(f, item))
    BY <2>3, <2>4, AppendRule
  <2>6. item # Fallback => \A a \in DOMAIN Append(f, item) : Append(f, item)[a] # Fallback
    <3>1. /\ DOMAIN f = 1 .. Len(f) /\ Len(f) \in Nat /\ DOMAIN Append(f, item) = 1 .. Len(f) + 1
          /\ Append(f, item)[Len(f) + 1] = item /\ \A a \in 1 .. Len(f) : Append(f, item)[a] = f[a]
      BY <2>3, <2>5, LenProperties, AppendProperties
    <3>2. QED
      BY <2>3, <3>1
  <2>7. TunEdit(r, i, Append(f, item), item = Fallback, tunAsked[p] \cup Named(<<item>>))
    BY <2>1 DEF f
  <2>8. (item = Fallback) \in BOOLEAN /\ tunAsked[p] \cup Named(<<item>>) \in SUBSET Rules
    BY <1>3, <2>2
  <2>9. ~tunMet /\ ~TunBusy =>
          /\ Named(Append(f, item)) = tunAsked[p] \cup Named(<<item>>) /\ Distinct(Append(f, item))
          /\ ~(item = Fallback) => \A a \in DOMAIN Append(f, item) : Append(f, item)[a] # Fallback
    BY <1>1, <2>2, <2>3, <2>5, <2>6
  <2>10. QED
    BY <2>1, <2>5, <2>7, <2>8, <2>9, TunEdits
<1>5. CASE UpdateIngress(r)
  <2>0. PICK i \in TunnelIds, item \in Rules :
          /\ tunRow[i].there
          /\ \E k \in DOMAIN tunFile[tunRow[i].path] :
               /\ item[1] # Anything => \A j \in DOMAIN tunFile[tunRow[i].path] \ {k} : tunFile[tunRow[i].path][j][1] # item[1]
               /\ TunEdit(r, i, filterFallbackIngress([tunFile[tunRow[i].path] EXCEPT ![k] = item]), FALSE,
                          (tunAsked[tunRow[i].path] \ {tunFile[tunRow[i].path][k]}) \cup Named(<<item>>))
    BY <1>5 DEF UpdateIngress
  <2>1. PICK k \in DOMAIN tunFile[tunRow[i].path] :
          /\ tunRow[i].there
          /\ item[1] # Anything => \A j \in DOMAIN tunFile[tunRow[i].path] \ {k} : tunFile[tunRow[i].path][j][1] # item[1]
          /\ TunEdit(r, i, filterFallbackIngress([tunFile[tunRow[i].path] EXCEPT ![k] = item]), FALSE,
                     (tunAsked[tunRow[i].path] \ {tunFile[tunRow[i].path][k]}) \cup Named(<<item>>))
    BY <2>0
  <2>. DEFINE p == tunRow[i].path
              s == tunFile[p]
              t == [s EXCEPT ![k] = item]
              f == filterFallbackIngress(t)
              asked == (tunAsked[p] \ {s[k]}) \cup Named(<<item>>)
  <2>2. p \in Paths /\ s \in Seq(Rules) /\ tunAsked[p] \in SUBSET Rules
    BY <1>1, <1>2, <2>1
  <2>3. t \in Seq(Rules)
    BY <2>1, <2>2, ExceptSeq, LenProperties
  <2>4. Distinct(s) => Distinct(t) /\ Named(t) = (Named(s) \ {s[k]}) \cup Named(<<item>>)
    BY <2>1, <2>2, ReplaceRule
  <2>. HIDE DEF t
  <2>5. /\ f \in Seq(Rules) /\ Named(f) = Named(t) /\ (Distinct(t) => Distinct(f))
        /\ \A a \in DOMAIN f : f[a] # Fallback
    BY <2>3, FilterRules
  <2>6. asked \in SUBSET Rules
    BY <1>3, <2>2
  <2>7. ~tunMet /\ ~TunBusy => Named(f) = asked /\ Distinct(f) /\ (~FALSE => \A a \in DOMAIN f : f[a] # Fallback)
    BY <1>1, <2>2, <2>4, <2>5
  <2>8. TunEdit(r, i, f, FALSE, asked)
    BY <2>1 DEF t
  <2>. HIDE DEF f, asked
  <2>9. QED
    BY <2>1, <2>5, <2>6, <2>7, <2>8, TunEdits
<1>6. CASE DeleteIngress(r)
  <2>0. PICK i \in TunnelIds :
          /\ tunRow[i].there
          /\ \E k \in DOMAIN tunFile[tunRow[i].path] :
               TunEdit(r, i, filterFallbackIngress(RemoveAt(tunFile[tunRow[i].path], k)), FALSE,
                       tunAsked[tunRow[i].path] \ {tunFile[tunRow[i].path][k]})
    BY <1>6 DEF DeleteIngress
  <2>1. PICK k \in DOMAIN tunFile[tunRow[i].path] :
          /\ tunRow[i].there
          /\ TunEdit(r, i, filterFallbackIngress(RemoveAt(tunFile[tunRow[i].path], k)), FALSE,
                     tunAsked[tunRow[i].path] \ {tunFile[tunRow[i].path][k]})
    BY <2>0
  <2>. DEFINE p == tunRow[i].path
              s == tunFile[p]
              t == RemoveAt(s, k)
              f == filterFallbackIngress(t)
              asked == tunAsked[p] \ {s[k]}
  <2>2. p \in Paths /\ s \in Seq(Rules) /\ tunAsked[p] \in SUBSET Rules
    BY <1>1, <1>2, <2>1
  <2>3. t \in Seq(Rules) /\ (Distinct(s) => Distinct(t) /\ Named(t) = Named(s) \ {s[k]})
    BY <2>1, <2>2, RemoveRuleAt
  <2>. HIDE DEF t
  <2>4. /\ f \in Seq(Rules) /\ Named(f) = Named(t) /\ (Distinct(t) => Distinct(f))
        /\ \A a \in DOMAIN f : f[a] # Fallback
    BY <2>3, FilterRules
  <2>5. asked \in SUBSET Rules
    BY <2>2
  <2>6. ~tunMet /\ ~TunBusy => Named(f) = asked /\ Distinct(f) /\ (~FALSE => \A a \in DOMAIN f : f[a] # Fallback)
    BY <1>1, <2>2, <2>3, <2>4
  <2>7. TunEdit(r, i, f, FALSE, asked)
    BY <2>1 DEF t
  <2>. HIDE DEF f, asked
  <2>8. QED
    BY <2>1, <2>4, <2>5, <2>6, <2>7, TunEdits
<1>7. CASE WriteIngress(r)
  <2>. DEFINE k == tunReq[r]
              p == k.row.path
              t == serializeConfig(k.rules)
  <2>1. k.step = "write" /\ k \in TunCalls /\ p \in Paths /\ k.rules \in Seq(Rules) /\ k.bare \in BOOLEAN
    BY <1>7 DEF WriteIngress, TunAt, TunInv, TunTypes, TunCalls
  <2>2. /\ tunFile' = [tunFile EXCEPT ![p] = t] /\ TunDone(r) /\ UNCHANGED <<tunRow, tunAsked, tunMet>>
        /\ tunBare' = IF k.bare THEN tunBare \cup {p} ELSE tunBare \ {p}
    BY <1>7 DEF WriteIngress
  <2>3. t \in Seq(Rules)
    BY <2>1, SerializedRules
  <2>4. Distinct(k.rules) => /\ Distinct(t) /\ Named(t) = Named(k.rules)
                             /\ (\A a \in DOMAIN k.rules : k.rules[a] # Fallback) => t # <<>> /\ t[Len(t)] = Fallback
    BY <2>1, SerializedRules
  <2>. HIDE DEF t
  <2>5. TunTypes'
    BY <2>1, <2>2, <2>3, TunRests DEF TunInv, TunTypes, TunDone
  <2>6. ASSUME ~tunMet
        PROVE  RowsApart' /\ \A q \in Paths : FileWhole(q)' /\ Named(tunFile'[q]) = tunAsked'[q]
    <3>1. /\ RowsApart /\ Named(k.rules) = tunAsked[p] /\ Distinct(k.rules)
          /\ ~k.bare => \A a \in DOMAIN k.rules : k.rules[a] # Fallback
      BY <2>1, <2>6 DEF TunInv, TunCalm, TunPending
    <3>2. RowsApart'
      BY <2>2, <3>1 DEF RowsApart
    <3>3. ASSUME NEW q \in Paths
          PROVE  FileWhole(q)' /\ Named(tunFile'[q]) = tunAsked'[q]
      <4>1. CASE q = p
        <5>1. tunFile'[q] = t /\ tunAsked'[q] = tunAsked[p] /\ (q \notin tunBare' => ~k.bare)
          BY <2>1, <2>2, <4>1 DEF TunInv, TunTypes
        <5>2. QED
          BY <2>4, <3>1, <5>1 DEF FileWhole
      <4>2. CASE q # p
        <5>1. tunFile'[q] = tunFile[q] /\ tunAsked'[q] = tunAsked[q] /\ (q \in tunBare' <=> q \in tunBare)
          BY <2>1, <2>2, <4>2 DEF TunInv, TunTypes
        <5>2. ~Writing(q)
          BY <2>1, <2>6, <4>2 DEF Writing, TunInv, TunCalm, TunAlone, TunAt
        <5>3. QED
          BY <2>6, <5>1, <5>2 DEF TunInv, TunCalm, FileWhole
      <4>3. QED
        BY <4>1, <4>2
    <3>4. QED
      BY <3>2, <3>3
  <2>7. QED
    BY <2>1, <2>2, <2>5, <2>6, TunEnds DEF TunAt
<1>8. QED
  BY <1>4, <1>5, <1>6, <1>7 DEF TunnelIngress

\* The panel dies, which counts as a meeting.
LEMMA TunDies == ASSUME TunInv, TunPanelDies PROVE TunInv'
  BY TunRests DEF TunPanelDies, TunInv, TunTypes

\* The invariant is enough for what the run checks.
LEMMA TunInvSound == TunInv => TunnelTypeOK /\ TunnelWhole
<1>. SUFFICES ASSUME TunInv PROVE TunnelTypeOK /\ TunnelWhole
  OBVIOUS
<1>1. TunnelTypeOK
  BY DEF TunInv, TunTypes, TunnelTypeOK, TunCalls
<1>2. ASSUME ~tunMet, ~TunBusy
      PROVE  /\ RowsApart
             /\ \A p \in Paths : FileWhole(p) /\ Named(tunFile[p]) = tunAsked[p]
  BY <1>2 DEF TunInv, TunCalm, Writing, TunBusy, TunAt
<1>3. TunnelWhole
  BY <1>2 DEF TunnelWhole, RowsApart, FileWhole, Distinct, Last
<1>4. QED
  BY <1>1, <1>3

-----------------------------------------------------------------------------
(* Alerts.                                                                 *)

RuleView == [id : AlertIds, duration : 1..MaxDuration, mode : Modes, fired : 0..MaxFirings]
EvalState == [busy : BOOLEAN, left : SUBSET RuleView, fire : SUBSET RuleView]
HealState == [step : {"idle", "check", "diagnose"}, mode : Modes]

AlertTypes ==
  /\ alertRule \in [AlertIds -> AlertRow]
  /\ alertCount \in [AlertIds -> 0..MaxDuration] /\ alertStreak \in [AlertIds -> 0..MaxDuration]
  /\ alertCooled \in [AlertIds -> 0..MaxFirings]
  /\ alertEval \in [CollectLoops -> EvalState]
  /\ alertLock \in CollectLoops \cup {Unlocked}
  /\ alertHeal \in [Handlers -> HealState]
  /\ healRecent \in BOOLEAN /\ healCycles \in Nat /\ healMet \in BOOLEAN

\* Who evaluates has the mutex, and what it has read of the rules' firings is true until it is done; a
\* rule to be fired has been violated for its duration, is not cooling, and is not checked again.
EvalSound(l) ==
  LET e == alertEval[l]
  IN /\ ~e.busy => e = Resting
     /\ e.busy => alertLock = l
     /\ \A x \in e.left \cup e.fire : x.fired = alertRule[x.id].fired
     /\ \A x, y \in e.left : x.id = y.id => x = y
     /\ \A x \in e.fire : /\ \A y \in e.left : y.id # x.id
                          /\ ~Cooling(x) /\ alertStreak[x.id] >= x.duration

\* An action of the self-heal is followed by five minutes in which none begins.
HealSound ==
  /\ ~healRecent => healCycles = 0
  /\ ~healMet => /\ healCycles <= 1
                 /\ \A h \in Handlers : alertHeal[h].step = "diagnose" => healCycles = 0
                 /\ \A h, g \in Handlers : alertHeal[h].step = "diagnose" /\ alertHeal[g].step = "diagnose" => h = g

AlertInv ==
  /\ AlertTypes
  /\ \A i \in AlertIds : alertCount[i] <= alertStreak[i]
  /\ \A l \in CollectLoops : EvalSound(l)
  /\ alertFaults = {}
  /\ HealSound

\* Nobody evaluates, and nobody heals.
LEMMA AlertRests ==
  /\ Resting \in EvalState /\ Resting.busy = FALSE /\ Resting.left = {} /\ Resting.fire = {}
  /\ NoHandler \in HealState /\ NoHandler.step = "idle"
  BY DEF Resting, EvalState, Nobody, NoHandler, HealState, Modes

LEMMA AlertInvInit == AlertInit => AlertInv
<1>. SUFFICES ASSUME AlertInit PROVE AlertInv
  OBVIOUS
<1>1. NoAlertRule \in AlertRow
  BY AlertAssumption DEF NoAlertRule, AlertRow, Modes
<1>2. AlertTypes
  <2>1. 0 \in 0..MaxDuration /\ 0 \in 0..MaxFirings
    BY AlertAssumption
  <2>2. QED
    BY <1>1, <2>1, AlertRests DEF AlertInit, AlertTypes
<1>3. \A l \in CollectLoops : EvalSound(l)
  BY AlertRests DEF AlertInit, EvalSound
<1>4. HealSound /\ alertFaults = {} /\ \A i \in AlertIds : alertCount[i] <= alertStreak[i]
  BY AlertRests DEF AlertInit, HealSound
<1>5. QED
  BY <1>2, <1>3, <1>4 DEF AlertInv

\* Steps that leave the self-heal alone, and steps that are the self-heal's.
LEMMA HealSame == ASSUME HealSound, UNCHANGED healVars PROVE HealSound'
  BY DEF HealSound, healVars
LEMMA EvalSame ==
  ASSUME AlertInv, UNCHANGED evalVars, HealSound', alertHeal' \in [Handlers -> HealState],
         healRecent' \in BOOLEAN, healCycles' \in Nat, healMet' \in BOOLEAN
  PROVE  AlertInv'
  BY DEF AlertInv, AlertTypes, EvalSound, Cooling, evalVars

\* Rules are edited; the number of the last firing stays.
LEMMA RulesEdited ==
  ASSUME AlertInv, CreateAlertRule \/ UpdateAlertRule \/ DeleteAlertRule
  PROVE  AlertInv'
<1>1. alertRule' \in [AlertIds -> AlertRow] /\ \A i \in AlertIds : alertRule'[i].fired = alertRule[i].fired
  <2>1. CASE CreateAlertRule
    BY <2>1 DEF CreateAlertRule, AlertInv, AlertTypes, AlertRow
  <2>2. CASE UpdateAlertRule
    <3>1. PICK i \in AlertIds, on \in BOOLEAN, d \in 1..MaxDuration, m \in Modes :
            alertRule' = [alertRule EXCEPT ![i].on = on, ![i].duration = d, ![i].mode = m]
      BY <2>2 DEF UpdateAlertRule
    <3>2. \A j \in AlertIds : alertRule[j] \in AlertRow
      BY DEF AlertInv, AlertTypes
    <3>3. alertRule \in [AlertIds -> AlertRow]
      BY DEF AlertInv, AlertTypes
    <3>4. PICK a : a = [alertRule EXCEPT ![i].on = on]
      OBVIOUS
    <3>5. a \in [AlertIds -> AlertRow] /\ \A j \in AlertIds : a[j].fired = alertRule[j].fired
      BY <3>2, <3>3, <3>4 DEF AlertRow
    <3>6. PICK b : b = [a EXCEPT ![i].duration = d]
      OBVIOUS
    <3>7. b \in [AlertIds -> AlertRow] /\ \A j \in AlertIds : b[j].fired = a[j].fired
      BY <3>5, <3>6 DEF AlertRow
    <3>8. alertRule' = [b EXCEPT ![i].mode = m]
      BY <3>1, <3>4, <3>6
    <3>9. alertRule' \in [AlertIds -> AlertRow] /\ \A j \in AlertIds : alertRule'[j].fired = b[j].fired
      BY <3>7, <3>8 DEF AlertRow
    <3> QED
      BY <3>5, <3>7, <3>9
  <2>3. CASE DeleteAlertRule
    <3>1. PICK i \in AlertIds : alertRule' = [alertRule EXCEPT ![i].there = FALSE, ![i].on = FALSE]
      BY <2>3 DEF DeleteAlertRule
    <3>2. \A j \in AlertIds : alertRule[j] \in AlertRow
      BY DEF AlertInv, AlertTypes
    <3>3. QED
      BY <3>1, <3>2 DEF AlertInv, AlertTypes, AlertRow
  <2>4. QED
    BY <2>1, <2>2, <2>3
<1>2. UNCHANGED <<alertCount, alertCooled, alertEval, alertLock, alertStreak, alertFaults, healVars>>
  BY DEF CreateAlertRule, UpdateAlertRule, DeleteAlertRule
<1>3. \A l \in CollectLoops : EvalSound(l)'
  BY <1>1, <1>2 DEF AlertInv, AlertTypes, EvalState, RuleView, EvalSound, Cooling
<1>4. QED
  BY <1>1, <1>2, <1>3, HealSame DEF AlertInv, AlertTypes, healVars

LEMMA EvaluateKeeps ==
  ASSUME AlertInv, NEW l \in CollectLoops, Evaluate(l)
  PROVE  AlertInv'
<1>. DEFINE new == [busy |-> TRUE, left |-> Snapshot, fire |-> {}]
<1>1. Snapshot \subseteq RuleView
  BY DEF Snapshot, RuleView, AlertInv, AlertTypes, AlertRow
<1>3. new \in EvalState
  BY <1>1 DEF EvalState
<1>4. alertEval' = [alertEval EXCEPT ![l] = new] /\ alertLock' = l /\ alertLock = Unlocked
  BY DEF Evaluate, Nobody
<1>5. UNCHANGED <<alertRule, alertCount, alertCooled, alertStreak, alertFaults, healVars>>
  BY DEF Evaluate
<1>6. ASSUME NEW k \in CollectLoops PROVE EvalSound(k)'
  <2>1. CASE k = l
    <3>1. alertEval'[l] = [busy |-> TRUE, left |-> Snapshot, fire |-> {}]
      BY <1>4 DEF AlertInv, AlertTypes
    <3>2. \A x \in Snapshot : x.fired = alertRule[x.id].fired
      BY DEF Snapshot
    <3>3. \A x, y \in Snapshot : x.id = y.id => x = y
      BY DEF Snapshot
    <3>4. QED
      BY <2>1, <3>1, <3>2, <3>3, <1>4, <1>5 DEF EvalSound
  <2>2. CASE k # l
    <3>1. alertEval'[k] = alertEval[k]
      BY <1>4, <2>2 DEF AlertInv, AlertTypes
    <3>2. ~alertEval[k].busy
      BY <1>4, AlertAssumption DEF AlertInv, EvalSound, Unlocked
    <3>3. alertEval[k] = Resting
      BY <3>2 DEF AlertInv, EvalSound
    <3>4. QED
      BY <3>1, <3>3, AlertRests DEF EvalSound
  <2>3. QED
    BY <2>1, <2>2
<1>7. AlertTypes'
  BY <1>3, <1>4, <1>5 DEF AlertInv, AlertTypes, healVars
<1>8. QED
  BY <1>5, <1>6, <1>7, HealSame DEF AlertInv, healVars

\* While a loop works on its rules, no other one does.
LEMMA OthersRest ==
  ASSUME AlertInv, NEW l \in CollectLoops, NEW k \in CollectLoops, k # l, alertEval[l] # Resting
  PROVE  alertEval[k] = Resting
<1>1. alertEval[l].busy /\ alertLock = l
  BY DEF AlertInv, EvalSound
<1>2. ~alertEval[k].busy
  BY <1>1 DEF AlertInv, EvalSound
<1>3. QED
  BY <1>2 DEF AlertInv, EvalSound

LEMMA CheckRuleKeeps ==
  ASSUME AlertInv, NEW l \in CollectLoops, CheckRule(l)
  PROVE  AlertInv'
<1>1. PICK x \in alertEval[l].left, violated \in BOOLEAN :
       /\ alertCount' = [alertCount EXCEPT ![x.id] = IF violated THEN Upto(@ + 1) ELSE 0]
       /\ alertStreak' = [alertStreak EXCEPT ![x.id] = IF violated THEN Upto(@ + 1) ELSE 0]
       /\ alertEval' = [alertEval EXCEPT
            ![l] = [busy |-> TRUE, left |-> alertEval[l].left \ {x},
                    fire |-> {y \in {x} : violated /\ alertCount'[x.id] >= x.duration /\ ~Cooling(x)}]]
  BY DEF CheckRule
<1>2. UNCHANGED <<alertRule, alertCooled, alertLock, alertFaults, healVars>> /\ alertEval[l].fire = {}
  BY DEF CheckRule, Nobody
<1>. DEFINE f == {y \in {x} : violated /\ alertCount'[x.id] >= x.duration /\ ~Cooling(x)}
            new == [busy |-> TRUE, left |-> alertEval[l].left \ {x}, fire |-> f]
<1>3. x \in RuleView /\ x.id \in AlertIds /\ x.duration \in 1..MaxDuration /\ alertEval[l] \in EvalState
  BY DEF AlertInv, AlertTypes, EvalState, RuleView
<1>4. f \subseteq {x} /\ (f # {} => violated /\ alertCount'[x.id] >= x.duration /\ ~Cooling(x))
  OBVIOUS
<1>. HIDE DEF f
<1>6. alertEval' = [alertEval EXCEPT ![l] = new] /\ alertEval'[l] = new
  BY <1>1 DEF f, AlertInv, AlertTypes
<1>7. alertEval' \in [CollectLoops -> EvalState]
  BY <1>3, <1>4, <1>6 DEF AlertInv, AlertTypes, EvalState
<1>8. /\ alertCount' \in [AlertIds -> 0..MaxDuration] /\ alertStreak' \in [AlertIds -> 0..MaxDuration]
      /\ \A i \in AlertIds : alertCount'[i] <= alertStreak'[i]
      /\ \A i \in AlertIds : i # x.id => alertStreak'[i] = alertStreak[i]
  BY <1>1, <1>3, AlertAssumption DEF AlertInv, AlertTypes, Upto
<1>9. alertEval[l].busy /\ alertLock = l
  BY <1>1, AlertRests DEF AlertInv, EvalSound
<1>10. ASSUME NEW k \in CollectLoops PROVE EvalSound(k)'
  <2>1. CASE k = l
    <3>1. \A y \in new.left \cup new.fire : y \in alertEval[l].left
      BY <1>4
    <3>2. \A y \in new.left \cup new.fire : y.fired = alertRule'[y.id].fired
      BY <3>1, <1>2 DEF AlertInv, EvalSound
    <3>3. \A y, z \in new.left : y.id = z.id => y = z
      BY DEF AlertInv, EvalSound
    <3>4. \A y \in new.fire : \A z \in new.left : z.id # y.id
      BY <1>4 DEF AlertInv, EvalSound
    <3>5. \A y \in new.fire : ~Cooling(y)' /\ alertStreak'[y.id] >= y.duration
      BY <1>4, <1>8, <1>3, <1>2 DEF Cooling
    <3>6. QED
      BY <2>1, <1>6, <1>9, <1>2, <3>2, <3>3, <3>4, <3>5 DEF EvalSound
  <2>2. CASE k # l
    <3>1. alertEval[k] = Resting
      BY <2>2, <1>9, AlertRests, OthersRest
    <3>2. alertEval'[k] = Resting
      BY <3>1, <2>2, <1>6 DEF AlertInv, AlertTypes
    <3>3. QED
      BY <3>2, AlertRests DEF EvalSound
  <2>3. QED
    BY <2>1, <2>2
<1>11. QED
  BY <1>2, <1>7, <1>8, <1>10, HealSame DEF AlertInv, AlertTypes, healVars

\* What is fired has been violated for long enough, and is not in its cooldown.
LEMMA FireAlertKeeps ==
  ASSUME AlertInv, NEW l \in CollectLoops, FireAlert(l)
  PROVE  AlertInv'
<1>1. PICK x \in alertEval[l].fire :
       /\ alertRule[x.id].fired < MaxFirings
       /\ alertRule' = [alertRule EXCEPT ![x.id].fired = @ + 1]
       /\ alertCount' = [alertCount EXCEPT ![x.id] = 0]
       /\ alertEval' = [alertEval EXCEPT ![l].fire = Nobody]
       /\ alertFaults' = alertFaults
            \cup {f \in {"early"} : alertRule[x.id].there /\ Cooling([x EXCEPT !.fired = alertRule[x.id].fired])}
            \cup {f \in {"short"} : alertStreak[x.id] < x.duration}
       /\ \E h \in Handlers :
            /\ alertHeal[h].step = "idle"
            /\ alertHeal' = IF x.mode = "notify" THEN alertHeal
                            ELSE [alertHeal EXCEPT ![h] = [step |-> "check", mode |-> x.mode]]
  BY DEF FireAlert
<1>2. UNCHANGED <<alertCooled, alertLock, alertStreak, healRecent, healCycles, healMet>>
  BY DEF FireAlert
<1>3. /\ x \in RuleView /\ x.id \in AlertIds /\ x.duration \in 1..MaxDuration /\ x.mode \in Modes
      /\ alertEval[l] \in EvalState
  BY DEF AlertInv, AlertTypes, EvalState, RuleView
<1>4. x.fired = alertRule[x.id].fired /\ ~Cooling(x) /\ alertStreak[x.id] >= x.duration
  BY DEF AlertInv, EvalSound
<1>5. [x EXCEPT !.fired = alertRule[x.id].fired] = x
  BY <1>3, <1>4 DEF RuleView
<1>6. alertFaults' = {}
  BY <1>1, <1>3, <1>4, <1>5 DEF AlertInv, AlertTypes
<1>. DEFINE new == [busy |-> alertEval[l].busy, left |-> alertEval[l].left, fire |-> {}]
<1>7. alertEval' = [alertEval EXCEPT ![l] = new] /\ alertEval'[l] = new
  <2>1. [alertEval[l] EXCEPT !.fire = {}] = new
    BY <1>3 DEF EvalState
  <2>2. QED
    BY <1>1, <2>1 DEF AlertInv, AlertTypes, Nobody
<1>8. alertEval' \in [CollectLoops -> EvalState]
  BY <1>3, <1>7 DEF AlertInv, AlertTypes, EvalState
<1>9. /\ alertRule' \in [AlertIds -> AlertRow]
      /\ \A i \in AlertIds : i # x.id => alertRule'[i].fired = alertRule[i].fired
  <2>1. \A i \in AlertIds : alertRule[i] \in AlertRow
    BY DEF AlertInv, AlertTypes
  <2>2. alertRule[x.id].fired + 1 \in 0..MaxFirings
    BY <1>1, <1>3, <2>1, AlertAssumption DEF AlertRow
  <2>3. [alertRule[x.id] EXCEPT !.fired = @ + 1] \in AlertRow
    BY <1>3, <2>1, <2>2 DEF AlertRow
  <2>4. QED
    BY <1>1, <1>3, <2>3 DEF AlertInv, AlertTypes
<1>10. /\ alertCount' \in [AlertIds -> 0..MaxDuration]
       /\ \A i \in AlertIds : alertCount'[i] <= alertStreak[i]
  BY <1>1, <1>3, AlertAssumption DEF AlertInv, AlertTypes
<1>11. alertEval[l].busy /\ alertLock = l /\ alertEval[l] # Resting
  BY <1>1, AlertRests DEF AlertInv, EvalSound
<1>12. ASSUME NEW k \in CollectLoops PROVE EvalSound(k)'
  <2>1. CASE k = l
    <3>1. \A y \in new.left : y.id # x.id /\ y.id \in AlertIds
      BY <1>3 DEF AlertInv, EvalSound, EvalState, RuleView
    <3>2. \A y \in new.left : y.fired = alertRule'[y.id].fired
      BY <3>1, <1>9 DEF AlertInv, EvalSound
    <3>3. \A y, z \in new.left : y.id = z.id => y = z
      BY DEF AlertInv, EvalSound
    <3>4. QED
      BY <2>1, <1>7, <1>11, <1>2, <3>2, <3>3 DEF EvalSound
  <2>2. CASE k # l
    <3>1. alertEval[k] = Resting
      BY <2>2, <1>11, OthersRest
    <3>2. alertEval'[k] = Resting
      BY <3>1, <2>2, <1>7 DEF AlertInv, AlertTypes
    <3>3. QED
      BY <3>2, AlertRests DEF EvalSound
  <2>3. QED
    BY <2>1, <2>2
<1>13. /\ alertHeal' \in [Handlers -> HealState]
       /\ \A h \in Handlers : alertHeal'[h].step = "diagnose" => alertHeal[h].step = "diagnose"
  BY <1>1, <1>3 DEF AlertInv, AlertTypes, HealState
<1>14. HealSound'
  BY <1>2, <1>13 DEF AlertInv, HealSound
<1>15. QED
  BY <1>2, <1>6, <1>8, <1>9, <1>10, <1>12, <1>13, <1>14 DEF AlertInv, AlertTypes

LEMMA EvaluateEndsKeeps ==
  ASSUME AlertInv, NEW l \in CollectLoops, EvaluateEnds(l)
  PROVE  AlertInv'
<1>1. /\ alertEval[l].busy /\ alertEval' = [alertEval EXCEPT ![l] = Resting] /\ alertLock' = Unlocked
      /\ UNCHANGED <<alertRule, alertCount, alertCooled, alertStreak, alertFaults, healVars>>
  BY DEF EvaluateEnds
<1>2. ASSUME NEW k \in CollectLoops PROVE alertEval'[k] = Resting
  BY <1>1, OthersRest, AlertRests DEF AlertInv, AlertTypes
<1>3. \A k \in CollectLoops : EvalSound(k)'
  BY <1>2, AlertRests DEF EvalSound
<1>4. AlertTypes'
  BY <1>1, AlertRests DEF AlertInv, AlertTypes, healVars
<1>5. QED
  BY <1>1, <1>3, <1>4, HealSame DEF AlertInv

LEMMA CooldownKeeps == ASSUME AlertInv, CooldownEnds PROVE AlertInv'
<1>1. PICK i \in AlertIds : /\ alertCooled[i] < alertRule[i].fired
                            /\ alertCooled' = [alertCooled EXCEPT ![i] = alertRule[i].fired]
  BY DEF CooldownEnds
<1>2. UNCHANGED <<alertRule, alertCount, alertEval, alertLock, alertStreak, alertFaults, healVars>>
  BY DEF CooldownEnds
<1>3. alertRule[i].fired \in 0..MaxFirings
  BY DEF AlertInv, AlertTypes, AlertRow
<1>4. alertCooled' \in [AlertIds -> 0..MaxFirings] /\ \A j \in AlertIds : alertCooled[j] <= alertCooled'[j]
  BY <1>1, <1>3, AlertAssumption DEF AlertInv, AlertTypes
<1>5. \A l \in CollectLoops : \A x \in alertEval[l].fire : x.id \in AlertIds /\ x.fired \in 0..MaxFirings
  BY DEF AlertInv, AlertTypes, EvalState, RuleView
<1>6. \A l \in CollectLoops : \A x \in alertEval[l].fire : ~Cooling(x)'
  BY <1>4, <1>5, AlertAssumption DEF AlertInv, AlertTypes, EvalSound, Cooling
<1>7. \A l \in CollectLoops : EvalSound(l)'
  BY <1>2, <1>6 DEF AlertInv, EvalSound
<1>8. QED
  BY <1>2, <1>4, <1>7, HealSame DEF AlertInv, AlertTypes, healVars

LEMMA HandlersKeep ==
  ASSUME AlertInv, NEW h \in Handlers, HandleAlert(h) \/ executeAutoHeal(h)
  PROVE  AlertInv'
<1>1. CASE HandleAlert(h) /\ healRecent
  <2>1. alertHeal' = [alertHeal EXCEPT ![h] = NoHandler] /\ UNCHANGED <<healMet, evalVars, healRecent, healCycles>>
    BY <1>1 DEF HandleAlert, HealEnds
  <2>2. HealSound' /\ alertHeal' \in [Handlers -> HealState]
    BY <2>1, AlertRests DEF AlertInv, AlertTypes, HealSound
  <2>3. QED
    BY <2>1, <2>2, EvalSame DEF AlertInv, AlertTypes
<1>2. CASE HandleAlert(h) /\ ~healRecent
  <2>1. /\ alertHeal' = [alertHeal EXCEPT ![h].step = "diagnose"]
        /\ healMet' = (healMet \/ \E g \in Handlers : alertHeal[g].step = "diagnose")
        /\ UNCHANGED <<evalVars, healRecent, healCycles>>
    BY <1>2 DEF HandleAlert
  <2>2. healCycles = 0
    BY <1>2 DEF AlertInv, HealSound
  <2>3. alertHeal' \in [Handlers -> HealState]
    BY <2>1 DEF AlertInv, AlertTypes, HealState
  <2>4. ~healMet' => \A g \in Handlers : alertHeal'[g].step = "diagnose" => g = h
    BY <2>1 DEF AlertInv, AlertTypes, HealState
  <2>5. HealSound'
    BY <2>1, <2>2, <2>4 DEF HealSound
  <2>6. QED
    BY <2>1, <2>3, <2>5, EvalSame DEF AlertInv, AlertTypes
<1>3. CASE executeAutoHeal(h)
  <2>1. /\ alertHeal[h].step = "diagnose" /\ alertHeal' = [alertHeal EXCEPT ![h] = NoHandler]
        /\ \/ UNCHANGED <<healRecent, healCycles>>
           \/ healRecent' = TRUE /\ healCycles' = healCycles + 1
        /\ UNCHANGED <<evalVars, healMet>>
    BY <1>3 DEF executeAutoHeal, HealEnds
  <2>2. /\ alertHeal' \in [Handlers -> HealState]
        /\ \A g \in Handlers : alertHeal'[g].step = "diagnose" => alertHeal[g].step = "diagnose" /\ g # h
    BY <2>1, AlertRests DEF AlertInv, AlertTypes
  <2>3. ~healMet => healCycles = 0 /\ \A g \in Handlers : alertHeal'[g].step # "diagnose"
    BY <2>1, <2>2 DEF AlertInv, HealSound
  <2>4. HealSound'
    BY <2>1, <2>3 DEF AlertInv, AlertTypes, HealSound
  <2>5. healRecent \in BOOLEAN /\ healCycles \in Nat /\ healMet \in BOOLEAN
    BY DEF AlertInv, AlertTypes
  <2>6. healRecent' \in BOOLEAN /\ healMet' \in BOOLEAN
    BY <2>1, <2>5
  <2>7. healCycles' \in Nat
    BY <2>1, <2>5
  <2>8. QED
    BY <2>1, <2>2, <2>4, <2>6, <2>7, EvalSame DEF AlertInv, AlertTypes
<1>4. QED
  BY <1>1, <1>2, <1>3

LEMMA FiveMinutesKeep == ASSUME AlertInv, FiveMinutesPass PROVE AlertInv'
<1>1. HealSound'
  BY DEF FiveMinutesPass, AlertInv, HealSound
<1>2. QED
  BY <1>1, EvalSame DEF FiveMinutesPass, AlertInv, AlertTypes

LEMMA AlertDies == ASSUME AlertInv, AlertPanelDies PROVE AlertInv'
<1>1. \A l \in CollectLoops : EvalSound(l)'
  BY AlertRests DEF AlertPanelDies, EvalSound
<1>2. HealSound'
  BY AlertRests DEF AlertPanelDies, HealSound
<1>3. AlertTypes'
  <2>1. 0 \in 0..MaxDuration
    BY AlertAssumption
  <2>2. QED
    BY <2>1, AlertRests DEF AlertPanelDies, AlertInv, AlertTypes
<1>4. \A i \in AlertIds : alertCount'[i] <= alertStreak'[i]
  BY DEF AlertPanelDies, AlertInv, AlertTypes
<1>5. QED
  BY <1>1, <1>2, <1>3, <1>4 DEF AlertPanelDies, AlertInv

LEMMA AlertInvStep == AlertInv /\ AlertNext => AlertInv'
<1>. SUFFICES ASSUME AlertInv, AlertNext PROVE AlertInv'
  OBVIOUS
<1>1. CASE \E l \in CollectLoops : Evaluate(l) \/ CheckRule(l) \/ FireAlert(l) \/ EvaluateEnds(l)
  BY <1>1, EvaluateKeeps, CheckRuleKeeps, FireAlertKeeps, EvaluateEndsKeeps
<1>2. CASE \E h \in Handlers : HandleAlert(h) \/ executeAutoHeal(h)
  BY <1>2, HandlersKeep
<1>3. QED
  BY <1>1, <1>2, RulesEdited, CooldownKeeps, FiveMinutesKeep, AlertDies DEF AlertNext

LEMMA AlertInvSame == AlertInv /\ UNCHANGED alertVars => AlertInv'
<1>. SUFFICES ASSUME AlertInv, UNCHANGED alertVars PROVE AlertInv'
  OBVIOUS
<1>1. HealSound'
  BY HealSame DEF AlertInv, alertVars
<1>2. QED
  BY <1>1, EvalSame DEF AlertInv, AlertTypes, alertVars, healVars

LEMMA AlertInvSound == AlertInv => AlertsOnce
  BY DEF AlertInv, HealSound, AlertsOnce

-----------------------------------------------------------------------------
(* Loops.                                                                  *)

LoopState == [at : {"none", "work", "wait"}, on : 0..MaxChannels]

LoopTypes ==
  /\ lpKind \in Kinds
  /\ lpEnabled \in BOOLEAN /\ lpBlocked \in BOOLEAN /\ lpWanted \in BOOLEAN /\ lpRunning \in BOOLEAN
  /\ lpPanics \in BOOLEAN
  /\ lpMade \in 0..MaxChannels /\ lpChannel \in 0..lpMade /\ lpClosed \subseteq 1..lpMade
  /\ lpLoop \in [LoopIds -> LoopState]
  /\ lpSaver \in [Savers -> {"idle", "saved", "stopped", "fresh"}]
  /\ lpMet \subseteq {"busy", "savers", "unsaved", "again"}

Stopped(l) == lpLoop[l].at = "none"

\* What each kind of loop keeps, whatever has met.
KindsDiffer ==
  /\ lpEnabled \/ lpBlocked
  /\ lpChannel = 0 => lpKind \in {"monitoring", "terminals"} /\ ~lpEnabled /\ \A l \in LoopIds : Stopped(l)
  /\ lpKind # "inspection" => \A s \in Savers : lpSaver[s] = "idle"
  /\ lpKind = "inspection" /\ lpRunning /\ lpChannel \in lpClosed => "again" \in lpMet
  /\ lpKind = "terminals" /\ lpEnabled /\ lpChannel \in lpClosed => "unsaved" \in lpMet

\* One loop goes on at most, and it waits on the channel that the next Stop closes.
LoopCalm ==
  lpMet \cap {"busy", "savers"} = {} =>
    /\ \A l, k \in Lasting : l = k
    /\ lpBlocked => Lasting = {}
    /\ lpKind = "inspection" /\ ~lpRunning => Lasting = {}
    /\ \A l \in Lasting : lpLoop[l].at = "wait" => lpLoop[l].on = lpChannel

\* What an enabled plugin has, unless something has met: an open channel.
LoopOpen ==
  lpKind \in {"monitoring", "terminals"} /\ lpEnabled /\ ~lpBlocked /\ lpMet \subseteq {"again"} /\ ~lpPanics
    => lpChannel \notin lpClosed

LoopInv == LoopTypes /\ KindsDiffer /\ LoopCalm /\ LoopOpen /\ LoopRuns /\ StopSafe

Calm == lpMet \cap {"busy", "savers"} = {}
WorkNew == [at |-> "work", on |-> 0]
Gone == [at |-> "none", on |-> 0]

\* A set whose elements are one has one at most.
LEMMA OneAtMost == ASSUME NEW S, \A x, y \in S : x = y PROVE Cardinality(S) <= 1
<1>1. CASE S = {}
  BY <1>1, FS_EmptySet
<1>2. CASE S # {}
  <2>1. PICK x \in S : TRUE
    BY <1>2
  <2>2. S = {x}
    BY <2>1
  <2>3. QED
    BY <2>2, FS_Singleton
<1>3. QED
  BY <1>1, <1>2

LEMMA LoopInvSound == LoopInv => LoopsSound
<1>. SUFFICES ASSUME LoopInv PROVE LoopsSound
  OBVIOUS
<1>1. ASSUME lpMet \cap {"busy", "savers"} = {} PROVE Cardinality(Lasting) <= 1 /\ (lpBlocked => Lasting = {})
  <2>1. (\A l, k \in Lasting : l = k) /\ (lpBlocked => Lasting = {})
    BY <1>1 DEF LoopInv, LoopCalm
  <2>2. QED
    BY <2>1, OneAtMost
<1>2. QED
  BY <1>1 DEF LoopInv, LoopsSound, OneLoop

LEMMA LoopInvInit == LoopInit => LoopInv
<1>. SUFFICES ASSUME LoopInit PROVE LoopInv
  OBVIOUS
<1>1. Gone \in LoopState /\ Gone.at = "none"
  BY LoopAssumption DEF Gone, LoopState
<1>2. \A l \in LoopIds : lpLoop[l] = Gone
  BY DEF LoopInit, Gone
<1>3. lpLoop \in [LoopIds -> LoopState]
  BY <1>1 DEF LoopInit, Gone
<1>4. lpMade \in 0..MaxChannels /\ lpChannel \in 0..lpMade
  BY LoopAssumption DEF LoopInit
<1>5. LoopTypes
  BY <1>3, <1>4 DEF LoopInit, LoopTypes
<1>6. Lasting = {}
  BY <1>1, <1>2 DEF Lasting
<1>7. KindsDiffer
  BY <1>1, <1>2 DEF LoopInit, KindsDiffer, Stopped, Kinds
<1>8. QED
  BY <1>5, <1>6, <1>7 DEF LoopInit, LoopInv, LoopCalm, LoopOpen, LoopRuns, StopSafe

\* What else is there besides the loops, unchanged.
LEMMA LoopMoves ==
  ASSUME LoopInv, UNCHANGED <<lpKind, lpEnabled, lpBlocked, lpWanted, lpRunning, lpChannel, lpMade, lpClosed, lpSaver, lpPanics>>,
         NEW l \in LoopIds, NEW to \in LoopState, lpLoop' = [lpLoop EXCEPT ![l] = to],
         lpMet' \subseteq {"busy", "savers", "unsaved", "again"}, lpMet \subseteq lpMet', lpMet' \subseteq lpMet \cup {"busy"},
         lpLoop[l].at # "none",
         lpMet' = lpMet => (l \in Lasting' <=> l \in Lasting),
         to.at = "wait" => to.on = lpChannel
  PROVE  LoopInv'
<1>1. LoopTypes'
  BY DEF LoopInv, LoopTypes
<1>2. \A k \in LoopIds : k # l => lpLoop'[k] = lpLoop[k]
  BY DEF LoopInv, LoopTypes
<1>3. \A k \in LoopIds : k # l => (k \in Lasting' <=> k \in Lasting)
  BY <1>2 DEF Lasting
<1>4. Lasting \subseteq LoopIds /\ Lasting' \subseteq LoopIds
  BY DEF Lasting
<1>5. lpMet' = lpMet => Lasting' = Lasting
  BY <1>3, <1>4
<1>6. lpLoop'[l] = to
  BY DEF LoopInv, LoopTypes
<1>7. KindsDiffer'
  BY DEF LoopInv, KindsDiffer, Stopped
<1>8. lpMet' = lpMet \/ "busy" \in lpMet'
  OBVIOUS
<1>9. LoopCalm'
  BY <1>2, <1>5, <1>6, <1>8 DEF LoopInv, LoopCalm
<1>10. LoopRuns'
  BY <1>5, <1>8 DEF LoopInv, LoopRuns
<1>11. LoopOpen' /\ StopSafe'
  BY DEF LoopInv, LoopOpen, StopSafe
<1>12. QED
  BY <1>1, <1>7, <1>9, <1>10, <1>11 DEF LoopInv

LEMMA LoopWaitsKeeps == ASSUME LoopInv, NEW l \in LoopIds, LoopWaits(l) PROVE LoopInv'
<1>. DEFINE to == [at |-> "wait", on |-> lpChannel]
<1>1. lpChannel \in 0..MaxChannels
  BY LoopAssumption DEF LoopInv, LoopTypes
<1>2. to \in LoopState
  BY <1>1 DEF LoopState
<1>3. lpLoop' = [lpLoop EXCEPT ![l] = to] /\ lpLoop'[l] = to /\ lpLoop[l].at = "work"
  BY DEF LoopWaits, LoopInv, LoopTypes
<1>4. UNCHANGED <<lpKind, lpEnabled, lpBlocked, lpWanted, lpRunning, lpChannel, lpMade, lpClosed, lpSaver, lpPanics>> /\ lpMet' = lpMet
  BY DEF LoopWaits
<1>5. l \in Lasting' <=> l \in Lasting
  BY <1>3, <1>4 DEF Lasting
<1>6. lpMet \subseteq {"busy", "savers", "unsaved", "again"}
  BY DEF LoopInv, LoopTypes
<1>. HIDE DEF to
<1>7. to.at = "wait" => to.on = lpChannel
  BY DEF to
<1>8. QED
  BY <1>2, <1>3, <1>4, <1>5, <1>6, <1>7, LoopMoves

\* A loop that wakes although its channel is closed has met a Stop that it does not know of.
LEMMA LoopWakesKeeps == ASSUME LoopInv, NEW l \in LoopIds, LoopWakes(l) PROVE LoopInv'
<1>1. WorkNew \in LoopState /\ WorkNew.at = "work" /\ Gone \in LoopState /\ Gone.at = "none"
  BY LoopAssumption DEF WorkNew, Gone, LoopState
<1>2. /\ lpLoop[l].at = "wait"
      /\ UNCHANGED <<lpKind, lpEnabled, lpBlocked, lpWanted, lpRunning, lpChannel, lpMade, lpClosed, lpSaver, lpPanics>>
  BY DEF LoopWakes
<1>3. lpMet \subseteq {"busy", "savers", "unsaved", "again"}
  BY DEF LoopInv, LoopTypes
<1>4. CASE lpLoop' = [lpLoop EXCEPT ![l] = WorkNew] /\ lpMet' = lpMet \cup {m \in {"busy"} : lpLoop[l].on \in lpClosed}
  <2>1. lpLoop'[l] = WorkNew
    BY <1>4 DEF LoopInv, LoopTypes
  <2>2. CASE Calm' \/ lpMet' = lpMet
    <3>1. lpLoop[l].on \in lpClosed => "busy" \in lpMet'
      BY <1>4
    <3>2. CASE Calm'
      <4>1. lpLoop[l].on \notin lpClosed /\ Calm
        BY <3>1, <3>2, <1>4 DEF Calm
      <4>2. l \in Lasting
        BY <4>1, <1>2 DEF Lasting
      <4>3. lpLoop[l].on = lpChannel
        BY <4>1, <4>2, <1>2 DEF LoopInv, LoopCalm, Calm
      <4>4. l \in Lasting'
        BY <2>1, <1>1, <1>2, <4>1, <4>3 DEF Lasting
      <4>5. QED
        BY <1>1, <1>2, <1>3, <1>4, <4>2, <4>4, LoopMoves
    <3>3. CASE ~Calm'
      <4>1. lpMet' \cap {"busy", "savers"} # {} /\ lpMet' = lpMet
        BY <2>2, <3>3 DEF Calm
      <4>2. QED
        BY <4>1, <2>1, <1>1, <1>2, <1>3, <1>4 DEF LoopInv, LoopTypes, LoopState, KindsDiffer, Stopped, LoopCalm, LoopOpen, LoopRuns, StopSafe
    <3>4. QED
      BY <3>2, <3>3
  <2>3. CASE ~Calm' /\ lpMet' # lpMet
    <3>1. lpMet' \cap {"busy", "savers"} # {} /\ lpMet \subseteq lpMet'
      BY <2>3, <1>4 DEF Calm
    <3>2. lpMet' \subseteq {"busy", "savers", "unsaved", "again"}
      BY <1>3, <1>4
    <3>3. QED
      BY <3>1, <3>2, <2>1, <1>1, <1>2, <1>4 DEF LoopInv, LoopTypes, LoopState, KindsDiffer, Stopped, LoopCalm, LoopOpen, LoopRuns, StopSafe
  <2>4. QED
    BY <2>2, <2>3
<1>5. CASE lpLoop[l].on \in lpClosed /\ lpLoop' = [lpLoop EXCEPT ![l] = Gone] /\ UNCHANGED lpMet
  <2>1. lpLoop'[l] = Gone
    BY <1>5 DEF LoopInv, LoopTypes
  <2>2. l \notin Lasting' /\ l \notin Lasting
    BY <2>1, <1>1, <1>2, <1>5 DEF Lasting
  <2>3. QED
    BY <1>1, <1>2, <1>3, <1>5, <2>2, LoopMoves
<1>6. QED
  BY <1>4, <1>5 DEF LoopWakes, WorkNew, Gone

\* Stop, of whatever kind: the channel is closed where it was not, and nothing is.
StopDone ==
  /\ lpClosed' \in {lpClosed, lpClosed \cup ({lpChannel} \ {0})}
  /\ lpPanics' = (lpPanics \/ StopPanics)
  /\ lpKind # "inspection" => lpClosed' = lpClosed \cup ({lpChannel} \ {0}) /\ lpRunning' = lpRunning
  /\ lpKind = "inspection" => /\ lpRunning' = (lpRunning /\ StopPanics)
                              /\ lpClosed' = IF lpRunning THEN lpClosed \cup {lpChannel} ELSE lpClosed

LEMMA StopIsDone == ASSUME LoopInv, LoopStop PROVE StopDone
<1>1. lpChannel = 0 => lpKind \in {"monitoring", "terminals"}
  BY DEF LoopInv, KindsDiffer
<1>2. QED
  BY <1>1 DEF StopDone, LoopStop, StopMonitoring, StopTerminals, StopUpdater, StopInspection

\* After a Stop nothing goes on, unless the Stop panicked.
LEMMA StopEnds ==
  ASSUME LoopInv, StopDone, UNCHANGED <<lpKind, lpChannel, lpLoop>>
  PROVE  /\ Lasting' \subseteq Lasting
         /\ lpClosed' \subseteq 1..lpMade /\ lpClosed \subseteq lpClosed'
         /\ Calm /\ ~StopPanics => Lasting' = {}
<1>1. lpChannel \in 0..lpMade /\ lpClosed \subseteq 1..lpMade /\ lpMade \in Nat
  BY DEF LoopInv, LoopTypes
<1>2. lpClosed \subseteq lpClosed' /\ lpClosed' \subseteq 1..lpMade
  BY <1>1 DEF StopDone
<1>3. Lasting' \subseteq Lasting
  BY <1>2 DEF Lasting
<1>4. ASSUME Calm, ~StopPanics, NEW l \in Lasting' PROVE FALSE
  <2>1. l \in Lasting /\ l \in LoopIds /\ lpLoop[l].at \in {"work", "wait"}
    BY <1>3 DEF Lasting
  <2>2. lpChannel # 0
    BY <2>1 DEF LoopInv, KindsDiffer, Stopped
  <2>3. lpKind = "inspection" => lpRunning
    BY <1>4, <2>1 DEF LoopInv, LoopCalm, Calm
  <2>4. lpChannel \in lpClosed'
    BY <2>2, <2>3 DEF StopDone
  <2>5. lpLoop[l].at = "wait" => lpLoop[l].on = lpChannel
    BY <1>4, <2>1 DEF LoopInv, LoopCalm, Calm
  <2>6. QED
    BY <2>1, <2>4, <2>5 DEF Lasting
<1>5. QED
  BY <1>2, <1>3, <1>4

LEMMA DisableKeeps == ASSUME LoopInv, DisableLoop PROVE LoopInv'
<1>1. /\ lpEnabled /\ StopDone
      /\ UNCHANGED <<lpKind, lpWanted, lpChannel, lpMade, lpLoop, lpSaver>>
  BY StopIsDone DEF DisableLoop
<1>2. /\ Lasting' \subseteq Lasting
      /\ lpClosed' \subseteq 1..lpMade /\ lpClosed \subseteq lpClosed'
      /\ Calm /\ ~StopPanics => Lasting' = {}
  BY <1>1, StopEnds
<1>3. lpRunning' \in BOOLEAN /\ lpPanics' \in BOOLEAN
  <2>1. lpRunning \in BOOLEAN /\ lpPanics \in BOOLEAN
    BY DEF LoopInv, LoopTypes
  <2>2. StopPanics \in BOOLEAN
    BY DEF StopPanics
  <2>3. lpRunning' = lpRunning \/ lpRunning' = (lpRunning /\ StopPanics)
    BY <1>1 DEF StopDone
  <2>4. lpPanics' = (lpPanics \/ StopPanics)
    BY <1>1 DEF StopDone
  <2>5. QED
    BY <2>1, <2>2, <2>3, <2>4
<1>4. lpChannel # 0
  BY <1>1 DEF LoopInv, KindsDiffer
<1>5. CASE StopPanics
  <2>1. UNCHANGED <<lpEnabled, lpBlocked, lpMet>>
    BY <1>5 DEF DisableLoop
  <2>2. lpChannel \in lpClosed /\ (lpKind = "terminals" \/ (lpKind = "inspection" /\ lpRunning))
    BY <1>5 DEF StopPanics
  <2>3. lpClosed' = lpClosed /\ lpPanics' = TRUE /\ lpRunning' = lpRunning
    <3>1. lpClosed' = lpClosed
      BY <1>1, <2>2, <1>4 DEF StopDone
    <3>2. lpPanics' = TRUE
      BY <1>1, <1>5 DEF StopDone
    <3>3. lpRunning \in BOOLEAN
      BY DEF LoopInv, LoopTypes
    <3>4. lpRunning' = lpRunning
      BY <1>1, <1>5, <2>2, <3>3 DEF StopDone
    <3>5. QED
      BY <3>1, <3>2, <3>4
  <2>4. Lasting' = Lasting
    BY <1>1, <2>3 DEF Lasting
  <2>5. LoopTypes' /\ KindsDiffer' /\ LoopOpen' /\ LoopRuns'
    BY <1>1, <2>1, <2>3 DEF LoopInv, LoopTypes, KindsDiffer, Stopped, LoopOpen, LoopRuns
  <2>6. LoopCalm'
    BY <1>1, <2>1, <2>3, <2>4 DEF LoopInv, LoopCalm
  <2>7. StopSafe'
    BY <1>1, <2>1, <2>2 DEF LoopInv, StopSafe, KindsDiffer
  <2>8. QED
    BY <2>5, <2>6, <2>7 DEF LoopInv
<1>6. CASE ~StopPanics
  <2>1. lpBlocked' = TRUE /\ lpEnabled' \in BOOLEAN /\ lpMet' = lpMet \cup {w \in {"unsaved"} : lpEnabled'}
    BY <1>6 DEF DisableLoop, Meets
  <2>2. lpPanics' = lpPanics
    <3>1. lpPanics \in BOOLEAN
      BY DEF LoopInv, LoopTypes
    <3>2. QED
      BY <1>1, <1>6, <3>1 DEF StopDone
  <2>3. lpMet' \subseteq {"busy", "savers", "unsaved", "again"} /\ lpMet \subseteq lpMet' /\ (Calm' => Calm)
    BY <2>1 DEF LoopInv, LoopTypes, Calm
  <2>4. LoopTypes'
    BY <1>1, <1>2, <1>3, <2>1, <2>3 DEF LoopInv, LoopTypes
  <2>5. KindsDiffer'
    <3>1. lpKind = "inspection" => ~lpRunning'
      BY <1>1, <1>6 DEF StopDone
    <3>2. lpEnabled' => "unsaved" \in lpMet'
      BY <2>1
    <3>3. QED
      BY <1>1, <1>4, <2>1, <2>3, <3>1, <3>2 DEF LoopInv, KindsDiffer, Stopped
  <2>6. LoopCalm'
    BY <1>2, <1>6, <2>3 DEF LoopCalm, Calm
  <2>7. LoopOpen' /\ LoopRuns'
    BY <2>1 DEF LoopOpen, LoopRuns
  <2>8. StopSafe'
    BY <1>1, <2>2, <2>3 DEF LoopInv, StopSafe
  <2>9. QED
    BY <2>4, <2>5, <2>6, <2>7, <2>8 DEF LoopInv
<1>7. QED
  BY <1>5, <1>6

LEMMA Spawned ==
  ASSUME LoopInv, Spawn
  PROVE  \E l \in LoopIds : Stopped(l) /\ lpLoop' = [lpLoop EXCEPT ![l] = WorkNew]
  BY DEF Spawn, Stopped, WorkNew

\* A loop is the only one, if none went on before, none was at work where a channel is replaced, and what
\* is closed stays closed.
LEMMA Alone ==
  ASSUME LoopInv, NEW l \in LoopIds, Stopped(l), lpLoop' = [lpLoop EXCEPT ![l] = WorkNew],
         lpClosed \subseteq lpClosed', Lasting = {}, lpChannel' = lpChannel \/ Busy = {}
  PROVE  \A k \in Lasting' : k = l
<1>. SUFFICES ASSUME NEW k \in Lasting', k # l PROVE FALSE
  OBVIOUS
<1>1. k \in LoopIds /\ lpLoop'[k] = lpLoop[k]
  BY DEF Lasting, LoopInv, LoopTypes
<1>2. k \notin Lasting
  OBVIOUS
<1>3. QED
  BY <1>1, <1>2 DEF Lasting, Busy

\* The loop that Start made: it is there, as are the others, and it goes on if its channel is open.
LEMMA SpawnedTypes ==
  ASSUME LoopInv, NEW l \in LoopIds, lpLoop' = [lpLoop EXCEPT ![l] = WorkNew]
  PROVE  /\ lpLoop' \in [LoopIds -> LoopState] /\ lpLoop'[l].at = "work"
         /\ lpChannel' \notin lpClosed' => l \in Lasting'
<1>1. WorkNew \in LoopState /\ WorkNew.at = "work"
  BY LoopAssumption DEF WorkNew, LoopState
<1>2. lpLoop' \in [LoopIds -> LoopState] /\ lpLoop'[l].at = "work"
  BY <1>1 DEF LoopInv, LoopTypes
<1>3. QED
  BY <1>2 DEF Lasting

LEMMA EnabledWithChannel ==
  ASSUME LoopInv, EnableLoop, StartMonitoring \/ StartTerminals
  PROVE  LoopInv'
<1>1. PICK l \in LoopIds : Stopped(l) /\ lpLoop' = [lpLoop EXCEPT ![l] = WorkNew]
  BY Spawned DEF StartMonitoring, StartTerminals
<1>2. /\ lpLoop' \in [LoopIds -> LoopState] /\ lpLoop'[l].at = "work"
      /\ lpChannel' \notin lpClosed' => l \in Lasting'
  BY <1>1, SpawnedTypes
<1>3. /\ lpMade < MaxChannels /\ lpMade' = lpMade + 1 /\ lpChannel' = lpMade + 1
      /\ lpMet' = lpMet \cup {w \in {"busy"} : Busy # {}}
      /\ lpKind \in {"monitoring", "terminals"} /\ lpRunning' = lpRunning
  BY DEF StartMonitoring, StartTerminals, NewChannel, Meets
<1>4. lpClosed' \in {lpClosed, lpClosed \cup ({lpChannel} \ {0})}
  BY DEF StartMonitoring, StartTerminals
<1>5. /\ ~lpEnabled /\ lpBlocked /\ lpEnabled' = TRUE /\ lpBlocked' = FALSE
      /\ UNCHANGED <<lpKind, lpWanted, lpSaver, lpPanics>>
  BY DEF EnableLoop, LoopInv, KindsDiffer
<1>6. lpMade \in 0..MaxChannels /\ lpChannel \in 0..lpMade /\ lpClosed \subseteq 1..lpMade
  BY DEF LoopInv, LoopTypes
<1>7. /\ lpMade' \in 0..MaxChannels /\ lpChannel' \in 0..lpMade' /\ lpClosed' \subseteq 1..lpMade'
      /\ lpChannel' \notin lpClosed' /\ lpChannel' # 0 /\ lpClosed \subseteq lpClosed'
  BY <1>3, <1>4, <1>6, LoopAssumption
<1>8. l \in Lasting'
  BY <1>2, <1>7
<1>9. LoopTypes'
  BY <1>2, <1>3, <1>5, <1>7 DEF LoopInv, LoopTypes
<1>10. KindsDiffer'
  BY <1>3, <1>5, <1>7 DEF LoopInv, KindsDiffer
<1>11. ASSUME Calm' PROVE \A k \in Lasting' : k = l
  <2>1. Calm /\ Busy = {}
    BY <1>3, <1>11 DEF Calm
  <2>2. Lasting = {}
    BY <1>5, <2>1 DEF LoopInv, LoopCalm, Calm
  <2>3. QED
    BY <1>1, <1>7, <2>1, <2>2, Alone
<1>12. LoopCalm'
  BY <1>11, <1>2, <1>3, <1>5 DEF LoopCalm, Calm
<1>13. LoopOpen' /\ LoopRuns'
  BY <1>7, <1>8 DEF LoopOpen, LoopRuns
<1>14. StopSafe'
  BY <1>3, <1>5 DEF LoopInv, StopSafe
<1>15. QED
  BY <1>9, <1>10, <1>12, <1>13, <1>14 DEF LoopInv

LEMMA EnabledUpdater ==
  ASSUME LoopInv, EnableLoop, StartUpdater
  PROVE  LoopInv'
<1>1. PICK l \in LoopIds : Stopped(l) /\ lpLoop' = [lpLoop EXCEPT ![l] = WorkNew]
  BY Spawned DEF StartUpdater
<1>2. /\ lpLoop' \in [LoopIds -> LoopState] /\ lpLoop'[l].at = "work"
      /\ lpChannel' \notin lpClosed' => l \in Lasting'
  BY <1>1, SpawnedTypes
<1>3. lpKind = "updater" /\ UNCHANGED <<lpChannel, lpMade, lpClosed, lpRunning, lpMet>>
  BY DEF StartUpdater
<1>4. /\ ~lpEnabled /\ lpBlocked /\ lpEnabled' = TRUE /\ lpBlocked' = FALSE
      /\ UNCHANGED <<lpKind, lpWanted, lpSaver, lpPanics>>
  BY DEF EnableLoop, LoopInv, KindsDiffer
<1>5. ASSUME Calm PROVE \A k \in Lasting' : k = l
  <2>1. Lasting = {}
    BY <1>4, <1>5 DEF LoopInv, LoopCalm, Calm
  <2>2. QED
    BY <1>1, <1>3, <2>1, Alone
<1>6. LoopCalm'
  BY <1>5, <1>2, <1>3, <1>4 DEF LoopCalm, Calm
<1>7. LoopTypes' /\ KindsDiffer' /\ LoopOpen' /\ StopSafe'
  BY <1>2, <1>3, <1>4 DEF LoopInv, LoopTypes, KindsDiffer, LoopOpen, StopSafe
<1>8. LoopRuns'
  BY <1>2, <1>3, <1>4 DEF LoopRuns
<1>9. QED
  BY <1>6, <1>7, <1>8 DEF LoopInv

\* The inspection starts: from Enable, or from a request that has saved its settings.
LEMMA InspectionStarts ==
  ASSUME LoopInv, StartInspection, UNCHANGED <<lpKind, lpWanted, lpPanics>>,
         lpEnabled' \in BOOLEAN, lpBlocked' \in BOOLEAN, lpEnabled' \/ lpBlocked', lpBlocked' => lpBlocked,
         lpBlocked \/ lpBlocked' = lpBlocked,
         lpSaver' \in [Savers -> {"idle", "saved", "stopped", "fresh"}]
  PROVE  LoopInv'
<1>1. /\ lpKind = "inspection" /\ UNCHANGED <<lpChannel, lpMade, lpClosed>>
      /\ lpMet' = lpMet \cup {m \in {"savers"} : lpWanted /\ (lpRunning \/ lpBlocked')}
                   \cup {m \in {"again"} : lpWanted /\ lpChannel \in lpClosed}
  BY DEF StartInspection
<1>2. lpMet' \subseteq {"busy", "savers", "unsaved", "again"} /\ lpMet \subseteq lpMet' /\ (Calm' => Calm)
  <2>1. lpMet \subseteq {"busy", "savers", "unsaved", "again"}
    BY DEF LoopInv, LoopTypes
  <2>2. QED
    BY <1>1, <2>1 DEF Calm
<1>3. lpChannel # 0
  BY <1>1 DEF LoopInv, KindsDiffer
<1>4. CASE ~lpWanted
  <2>1. UNCHANGED <<lpLoop, lpRunning>>
    BY <1>4 DEF StartInspection
  <2>2. Lasting' = Lasting
    BY <1>1, <2>1 DEF Lasting
  <2>3. LoopTypes' /\ KindsDiffer'
    BY <1>1, <1>2, <1>3, <2>1 DEF LoopInv, LoopTypes, KindsDiffer
  <2>4. LoopCalm'
    BY <1>1, <1>2, <2>1, <2>2 DEF LoopInv, LoopCalm, Calm
  <2>5. LoopOpen' /\ LoopRuns'
    BY <1>1, <1>4 DEF LoopOpen, LoopRuns
  <2>6. StopSafe'
    BY <1>1, <1>2 DEF LoopInv, StopSafe
  <2>7. QED
    BY <2>3, <2>4, <2>5, <2>6 DEF LoopInv
<1>5. CASE lpWanted
  <2>1. lpRunning' = TRUE /\ Spawn
    BY <1>5 DEF StartInspection
  <2>2. PICK l \in LoopIds : Stopped(l) /\ lpLoop' = [lpLoop EXCEPT ![l] = WorkNew]
    BY <2>1, Spawned
  <2>3. /\ lpLoop' \in [LoopIds -> LoopState] /\ lpLoop'[l].at = "work"
        /\ lpChannel' \notin lpClosed' => l \in Lasting'
    BY <2>2, SpawnedTypes
  <2>4. LoopTypes'
    BY <1>1, <1>2, <2>1, <2>3 DEF LoopInv, LoopTypes
  <2>5. KindsDiffer'
    <3>1. lpChannel \in lpClosed => "again" \in lpMet'
      BY <1>1, <1>5
    <3>2. QED
      BY <1>1, <1>3, <3>1 DEF KindsDiffer
  <2>6. ASSUME Calm' PROVE ~lpBlocked' /\ \A k \in Lasting' : k = l
    <3>1. Calm /\ ~lpRunning /\ ~lpBlocked'
      BY <1>1, <1>2, <1>5, <2>6 DEF Calm
    <3>2. Lasting = {}
      BY <1>1, <3>1 DEF LoopInv, LoopCalm, Calm
    <3>3. QED
      BY <1>1, <2>2, <3>1, <3>2, Alone
  <2>7. LoopCalm'
    BY <2>1, <2>3, <2>6 DEF LoopCalm, Calm
  <2>8. LoopOpen' /\ LoopRuns'
    BY <1>1, <2>3 DEF LoopOpen, LoopRuns
  <2>9. StopSafe'
    BY <1>1, <1>2 DEF LoopInv, StopSafe
  <2>10. QED
    BY <2>4, <2>5, <2>7, <2>8, <2>9 DEF LoopInv
<1>6. QED
  BY <1>4, <1>5

LEMMA EnableKeeps == ASSUME LoopInv, EnableLoop PROVE LoopInv'
<1>1. CASE StartInspection
  <2>1. /\ UNCHANGED <<lpKind, lpWanted, lpPanics, lpSaver>>
        /\ lpEnabled' = TRUE /\ lpBlocked' = FALSE /\ lpBlocked
    BY DEF EnableLoop, LoopInv, KindsDiffer
  <2>2. lpSaver' \in [Savers -> {"idle", "saved", "stopped", "fresh"}]
    BY <2>1 DEF LoopInv, LoopTypes
  <2>3. QED
    BY <1>1, <2>1, <2>2, InspectionStarts
<1>2. QED
  BY <1>1, EnabledWithChannel, EnabledUpdater DEF EnableLoop, LoopStart

LEMMA SaveKeeps == ASSUME LoopInv, NEW s \in Savers, SaveInspection(s) PROVE LoopInv'
<1>1. /\ lpKind = "inspection" /\ lpSaver' = [lpSaver EXCEPT ![s] = "saved"] /\ lpWanted' \in BOOLEAN
      /\ lpMet' = lpMet \cup {w \in {"savers"} : \E t \in Savers : lpSaver[t] # "idle"}
      /\ UNCHANGED <<lpKind, lpEnabled, lpBlocked, lpRunning, lpChannel, lpMade, lpClosed, lpLoop, lpPanics>>
  BY DEF SaveInspection, SaverAt, Meets
<1>2. lpMet' \subseteq {"busy", "savers", "unsaved", "again"} /\ lpMet \subseteq lpMet' /\ (Calm' => Calm)
  <2>1. lpMet \subseteq {"busy", "savers", "unsaved", "again"}
    BY DEF LoopInv, LoopTypes
  <2>2. QED
    BY <1>1, <2>1 DEF Calm
<1>3. Lasting' = Lasting
  BY <1>1 DEF Lasting
<1>4. lpSaver'[s] # "idle"
  BY <1>1 DEF LoopInv, LoopTypes
<1>5. LoopTypes' /\ KindsDiffer' /\ StopSafe'
  BY <1>1, <1>2 DEF LoopInv, LoopTypes, KindsDiffer, Stopped, StopSafe
<1>6. LoopCalm'
  BY <1>1, <1>2, <1>3 DEF LoopInv, LoopCalm, Calm
<1>7. LoopOpen' /\ LoopRuns'
  BY <1>1, <1>4 DEF LoopOpen, LoopRuns
<1>8. QED
  BY <1>5, <1>6, <1>7 DEF LoopInv

LEMMA RescheduleStopKeeps == ASSUME LoopInv, NEW s \in Savers, RescheduleStop(s) PROVE LoopInv'
<1>1. /\ lpSaver[s] = "saved" /\ lpSaver' = [lpSaver EXCEPT ![s] = IF StopPanics THEN "idle" ELSE "stopped"]
      /\ StopDone
      /\ UNCHANGED <<lpKind, lpEnabled, lpBlocked, lpWanted, lpChannel, lpMade, lpLoop, lpMet>>
  BY StopIsDone DEF RescheduleStop, SaverAt
<1>2. /\ Lasting' \subseteq Lasting
      /\ lpClosed' \subseteq 1..lpMade /\ lpClosed \subseteq lpClosed'
      /\ Calm /\ ~StopPanics => Lasting' = {}
  BY <1>1, StopEnds
<1>3. lpKind = "inspection" /\ lpChannel # 0
  BY <1>1 DEF LoopInv, KindsDiffer
<1>4. lpRunning \in BOOLEAN /\ lpPanics \in BOOLEAN /\ StopPanics \in BOOLEAN
  BY DEF LoopInv, LoopTypes, StopPanics
<1>5. lpRunning' = (lpRunning /\ StopPanics) /\ lpPanics' = (lpPanics \/ StopPanics)
  BY <1>1, <1>3 DEF StopDone
<1>6. lpRunning' \in BOOLEAN /\ lpPanics' \in BOOLEAN
  BY <1>4, <1>5
<1>7. LoopTypes'
  BY <1>1, <1>2, <1>6 DEF LoopInv, LoopTypes
<1>8. LoopRuns' /\ LoopOpen'
  <2>1. lpSaver'[s] = IF StopPanics THEN "idle" ELSE "stopped"
    BY <1>1 DEF LoopInv, LoopTypes
  <2>2. lpPanics' \/ lpSaver'[s] # "idle"
    BY <1>4, <1>5, <2>1
  <2>3. QED
    BY <1>1, <1>3, <2>2 DEF LoopRuns, LoopOpen
<1>9. CASE StopPanics
  <2>1. lpChannel \in lpClosed /\ lpRunning
    BY <1>3, <1>9 DEF StopPanics
  <2>2. lpClosed' = lpClosed
    BY <1>1, <1>3, <2>1 DEF StopDone
  <2>3. lpRunning' = lpRunning
    BY <1>4, <1>5, <1>9
  <2>4. Lasting' = Lasting
    BY <1>1, <2>2 DEF Lasting
  <2>5. KindsDiffer' /\ StopSafe'
    BY <1>1, <1>3, <2>1, <2>2, <2>3 DEF LoopInv, KindsDiffer, Stopped, StopSafe
  <2>6. LoopCalm'
    BY <1>1, <2>3, <2>4 DEF LoopInv, LoopCalm
  <2>7. QED
    BY <1>7, <1>8, <2>5, <2>6 DEF LoopInv
<1>10. CASE ~StopPanics
  <2>1. ~lpRunning' /\ lpPanics' = lpPanics
    BY <1>4, <1>5, <1>10
  <2>2. KindsDiffer' /\ StopSafe'
    BY <1>1, <1>3, <2>1 DEF LoopInv, KindsDiffer, Stopped, StopSafe
  <2>3. LoopCalm'
    BY <1>1, <1>2, <1>10 DEF LoopCalm, Calm
  <2>4. QED
    BY <1>7, <1>8, <2>2, <2>3 DEF LoopInv
<1>11. QED
  BY <1>4, <1>9, <1>10

LEMMA RescheduleChannelKeeps == ASSUME LoopInv, NEW s \in Savers, RescheduleChannel(s) PROVE LoopInv'
<1>1. /\ lpSaver[s] = "stopped" /\ lpSaver' = [lpSaver EXCEPT ![s] = "fresh"]
      /\ lpMade < MaxChannels /\ lpMade' = lpMade + 1 /\ lpChannel' = lpMade + 1
      /\ lpMet' = lpMet \cup {m \in {"busy"} : Busy # {}} \cup {m \in {"savers"} : lpRunning}
      /\ UNCHANGED <<lpKind, lpEnabled, lpBlocked, lpWanted, lpRunning, lpClosed, lpLoop, lpPanics>>
  BY DEF RescheduleChannel, SaverAt, NewChannel
<1>2. lpMet' \subseteq {"busy", "savers", "unsaved", "again"} /\ lpMet \subseteq lpMet'
  <2>1. lpMet \subseteq {"busy", "savers", "unsaved", "again"}
    BY DEF LoopInv, LoopTypes
  <2>2. QED
    BY <1>1, <2>1
<1>3. lpKind = "inspection"
  BY <1>1 DEF LoopInv, KindsDiffer
<1>4. lpMade \in 0..MaxChannels /\ lpClosed \subseteq 1..lpMade
  BY DEF LoopInv, LoopTypes
<1>5. /\ lpMade' \in 0..MaxChannels /\ lpChannel' \in 0..lpMade' /\ lpClosed' \subseteq 1..lpMade'
      /\ lpChannel' \notin lpClosed' /\ lpChannel' # 0
  BY <1>1, <1>4, LoopAssumption
<1>6. LoopTypes'
  BY <1>1, <1>2, <1>5 DEF LoopInv, LoopTypes
<1>7. KindsDiffer' /\ StopSafe'
  BY <1>1, <1>2, <1>3, <1>5 DEF LoopInv, KindsDiffer, StopSafe
<1>8. LoopOpen' /\ LoopRuns'
  <2>1. lpSaver'[s] # "idle"
    BY <1>1 DEF LoopInv, LoopTypes
  <2>2. QED
    BY <1>1, <1>3, <2>1 DEF LoopOpen, LoopRuns
<1>9. ASSUME Calm' PROVE Lasting' = {}
  <2>1. Calm /\ Busy = {} /\ ~lpRunning
    BY <1>1, <1>9 DEF Calm
  <2>2. Lasting = {}
    BY <1>3, <2>1 DEF LoopInv, LoopCalm, Calm
  <2>3. QED
    BY <1>1, <2>1, <2>2 DEF Lasting, Busy
<1>10. LoopCalm'
  BY <1>9 DEF LoopCalm, Calm
<1>11. QED
  BY <1>6, <1>7, <1>8, <1>10 DEF LoopInv

LEMMA RescheduleStartKeeps == ASSUME LoopInv, NEW s \in Savers, RescheduleStart(s) PROVE LoopInv'
<1>1. /\ lpSaver' = [lpSaver EXCEPT ![s] = "idle"] /\ StartInspection
      /\ UNCHANGED <<lpKind, lpEnabled, lpBlocked, lpWanted, lpPanics>>
  BY DEF RescheduleStart, SaverAt
<1>2. lpSaver' \in [Savers -> {"idle", "saved", "stopped", "fresh"}]
  BY <1>1 DEF LoopInv, LoopTypes
<1>3. lpEnabled \in BOOLEAN /\ lpBlocked \in BOOLEAN /\ (lpEnabled \/ lpBlocked)
  BY DEF LoopInv, LoopTypes, KindsDiffer
<1>4. QED
  BY <1>1, <1>2, <1>3, InspectionStarts

LEMMA LoopInvStep == LoopInv /\ LoopNext => LoopInv'
  BY EnableKeeps, DisableKeeps, LoopWaitsKeeps, LoopWakesKeeps, SaveKeeps, RescheduleStopKeeps, RescheduleChannelKeeps,
     RescheduleStartKeeps DEF LoopNext

LEMMA LoopInvSame == LoopInv /\ UNCHANGED lpVars => LoopInv'
  BY DEF LoopInv, LoopTypes, KindsDiffer, Stopped, LoopCalm, LoopOpen, LoopRuns, StopSafe, Lasting, lpVars

-----------------------------------------------------------------------------
(* Confirmations.                                                          *)

Waiting(c) == chat[c].step \in {"wait", "answered"}

\* Decisions for a turn are its user's.
ByUser(c, D) == InTurn(c) => \A d \in D : d.by = chat[c].user

\* What a turn knows of itself.
TurnSound(c) ==
  /\ chat[c].step = "idle" => chat[c] = NoTurn
  /\ chat[c].step \in {"call", "wait", "answered"} => chat[c].round # 0
  /\ Waiting(c) => ~ToolRefused(chat[c])
  /\ chat[c].step \in {"asked", "call", "wait"} => chat[c].heard = {}
  /\ \A d, e \in chat[c].heard : d = e
  /\ ByUser(c, chat[c].heard)

\* A channel exists for a round that a turn has come to, and carries answers of the turn's user.
ChannelSound(x) ==
  /\ chatBuffer[x] # {} => chat[x.turn].step # "idle" /\ ByUser(x.turn, chatBuffer[x])
  /\ \A d, e \in chatBuffer[x] : d = e

Sends(k, x) == confirm[k].step = "send" /\ confirm[k].to = x

ConfirmSound(k) ==
  confirm[k].step = "send" =>
    /\ confirm[k].to \in Channel
    /\ chat[confirm[k].to.turn].step # "idle" /\ ByUser(confirm[k].to.turn, confirm[k].says)
    /\ \A d, e \in confirm[k].says : d = e

\* An entry of the map is of a turn that waits under its id.
EntrySound(i) ==
  chatPending[i] # NoChannel =>
    LET c == chatPending[i].turn
    IN c \in Chats /\ Waiting(c) /\ i \in chat[c].id /\ chatPending[i] = ChannelOf(c)

ChatInv ==
  /\ ChatTypeOK /\ chatFaults = {}
  /\ \A c \in Chats : TurnSound(c)
  /\ \A x \in Channel : ChannelSound(x)
  /\ \A k \in Confirms : ConfirmSound(k)
  /\ \A i \in CallIds : EntrySound(i)
  /\ "ids" \notin chatMet => \A c \in Chats : Waiting(c) => \A i \in chat[c].id : chatPending[i] = ChannelOf(c)
  /\ "twice" \notin chatMet =>
       /\ \A k, j \in Confirms : confirm[k].step = "send" /\ Sends(j, confirm[k].to) => k = j
       /\ \A k \in Confirms : confirm[k].step = "send" => chatBuffer[confirm[k].to] = {}
  /\ "deleted" \notin chatMet =>
       /\ \A v \in chatMsgs : chatConvs[v] # NoOwner
       /\ \A c \in Chats : InTurn(c) => \A v \in chat[c].conv : chatConvs[v] # NoOwner

LEMMA ChatRests ==
  /\ NoTurn \in Turn /\ NoTurn.step = "idle" /\ NoTurn.heard = {} /\ NoTurn.conv = {} /\ NoTurn.id = {} /\ NoTurn.tool = {}
  /\ NoTurn.round = 0
  /\ NoAnswer \in Answer /\ NoAnswer.step = "idle"
  /\ NoChannel \notin Channel
  BY ChatAssumption DEF NoTurn, Turn, NoAnswer, Answer, NoChannel, Channel

LEMMA ChatInvInit == ChatInit => ChatInv
<1>. SUFFICES ASSUME ChatInit PROVE ChatInv
  OBVIOUS
<1>1. ChatTypeOK /\ chatFaults = {}
  BY ChatRests DEF ChatInit, ChatTypeOK
<1>2. /\ \A c \in Chats : chat[c] = NoTurn
      /\ \A x \in Channel : chatBuffer[x] = {}
      /\ \A i \in CallIds : chatPending[i] = NoChannel
      /\ \A k \in Confirms : confirm[k].step = "idle"
  BY ChatRests DEF ChatInit
<1>3. \A c \in Chats : TurnSound(c) /\ ~Waiting(c) /\ ~InTurn(c)
  BY <1>2, ChatRests DEF TurnSound, Waiting, ByUser, InTurn
<1>4. (\A x \in Channel : ChannelSound(x)) /\ (\A k \in Confirms : ConfirmSound(k)) /\ (\A i \in CallIds : EntrySound(i))
  BY <1>2 DEF ChannelSound, ConfirmSound, EntrySound
<1>5. QED
  BY <1>1, <1>2, <1>3, <1>4 DEF ChatInv, ChatInit

LEMMA ChatInvSound == ChatInv => ChatsConfirmed
<1>. SUFFICES ASSUME ChatInv PROVE ChatsConfirmed
  OBVIOUS
<1>1. ASSUME NEW i \in CallIds, chatPending[i] # NoChannel
      PROVE  \E c \in Chats : chatPending[i] = ChannelOf(c) /\ chat[c].step \in {"wait", "answered"}
  BY <1>1 DEF ChatInv, EntrySound, Waiting
<1>2. "ids" \in chatMet \/ \A c \in Chats : ChatAt(c, "wait") => \A i \in chat[c].id : chatPending[i] = ChannelOf(c)
  BY DEF ChatInv, ChatAt, Waiting
<1>3. QED
  BY <1>1, <1>2 DEF ChatInv, ChatsConfirmed

\* Who waits has an identifier, and a channel of the round.
LEMMA ChatKnows ==
  ASSUME ChatInv, NEW c \in Chats
  PROVE  /\ chat[c] \in Turn
         /\ chat[c].id \subseteq CallIds
         /\ chat[c].step \in {"call", "wait", "answered"} => ChannelOf(c) \in Channel
<1>1. chat[c] \in Turn
  BY DEF ChatInv, ChatTypeOK
<1>2. chat[c].step \in {"call", "wait", "answered"} => chat[c].round \in 1..MaxRounds
  BY <1>1, ChatAssumption DEF ChatInv, TurnSound, Turn
<1>3. QED
  BY <1>1, <1>2 DEF Turn, ChannelOf, Channel

\* A turn goes on without waiting, and takes its entry out of the map if it has waited.
LEMMA TurnGoes ==
  ASSUME ChatInv, NEW c \in Chats, NEW t \in Turn, chat' = [chat EXCEPT ![c] = t],
         UNCHANGED <<chatBuffer, confirm, chatMet, chatFaults>>,
         t.step \in {"asked", "call", "done"}, t.heard = {}, t.step = "call" => t.round # 0,
         t.user = chat[c].user \/ ~InTurn(c) \/ t.step = "done", chat[c].step # "done",
         chatPending' = IF Waiting(c) THEN Without(c) ELSE chatPending,
         chatConvs' \in [Convs -> ChatUsers \cup {NoOwner}], chatMsgs' \subseteq Convs,
         "deleted" \notin chatMet =>
           /\ \A v \in chatMsgs' : chatConvs'[v] # NoOwner
           /\ \A v \in t.conv : chatConvs'[v] # NoOwner
           /\ \A v \in Convs : chatConvs[v] # NoOwner => chatConvs'[v] # NoOwner
  PROVE  ChatInv'
<1>1. chat'[c] = t /\ \A d \in Chats : d # c => chat'[d] = chat[d]
  BY DEF ChatInv, ChatTypeOK
<1>2. \A i \in CallIds : chatPending'[i] \in {chatPending[i], NoChannel}
  BY DEF Without
<1>3. ChatTypeOK'
  <2>1. chat' \in [Chats -> Turn]
    BY DEF ChatInv, ChatTypeOK
  <2>2. chatPending' \in [CallIds -> Channel \cup {NoChannel}]
    BY DEF ChatInv, ChatTypeOK, Without
  <2>3. QED
    BY <2>1, <2>2 DEF ChatInv, ChatTypeOK
<1>4. \A d \in Chats : TurnSound(d)'
  <2>1. TurnSound(c)'
    BY <1>1 DEF TurnSound, ByUser, Waiting
  <2>2. \A d \in Chats : d # c => TurnSound(d)'
    BY <1>1 DEF ChatInv, TurnSound, ByUser, Waiting, InTurn, ToolRefused
  <2>3. QED
    BY <2>1, <2>2
<1>5. ASSUME NEW x \in Channel PROVE ChannelSound(x)'
  <2>1. x.turn \in Chats /\ ChannelSound(x)
    BY DEF ChatInv, Channel
  <2>2. CASE x.turn # c
    BY <1>1, <2>1, <2>2 DEF ChannelSound, ByUser, InTurn
  <2>3. CASE x.turn = c
    BY <1>1, <2>1, <2>3 DEF ChannelSound, ByUser, InTurn
  <2>4. QED
    BY <2>2, <2>3
<1>6. ASSUME NEW k \in Confirms, confirm[k].step = "send" PROVE ConfirmSound(k)'
  <2>1. confirm[k].to \in Channel /\ confirm[k].to.turn \in Chats /\ ConfirmSound(k)
    BY <1>6 DEF ChatInv, ConfirmSound, Channel
  <2>2. CASE confirm[k].to.turn # c
    BY <1>1, <1>6, <2>1, <2>2 DEF ConfirmSound, ByUser, InTurn
  <2>3. CASE confirm[k].to.turn = c
    BY <1>1, <1>6, <2>1, <2>3 DEF ConfirmSound, ByUser, InTurn
  <2>4. QED
    BY <2>2, <2>3
<1>7. \A k \in Confirms : ConfirmSound(k)'
  BY <1>6 DEF ConfirmSound
<1>8. ASSUME NEW i \in CallIds, chatPending'[i] # NoChannel PROVE EntrySound(i)'
  <2>1. chatPending'[i] = chatPending[i] /\ EntrySound(i) /\ chatPending[i] # NoChannel
    BY <1>2, <1>8 DEF ChatInv
  <2>2. chatPending[i].turn # c
    BY <2>1, <1>8 DEF EntrySound, Without
  <2>3. QED
    BY <1>1, <2>1, <2>2 DEF EntrySound, Waiting, ChannelOf
<1>9. \A i \in CallIds : EntrySound(i)'
  BY <1>8 DEF EntrySound
<1>10. ASSUME "ids" \notin chatMet, NEW d \in Chats, Waiting(d)', NEW i \in chat'[d].id
       PROVE  chatPending'[i] = ChannelOf(d)'
  <2>1. d # c /\ chat'[d] = chat[d]
    BY <1>1, <1>10 DEF Waiting
  <2>2. Waiting(d) /\ i \in chat[d].id /\ i \in CallIds
    BY <2>1, <1>10, ChatKnows DEF Waiting
  <2>3. chatPending[i] = ChannelOf(d)
    BY <2>2, <1>10 DEF ChatInv
  <2>4. Waiting(c) => i \notin chat[c].id
    <3>1. SUFFICES ASSUME Waiting(c), i \in chat[c].id PROVE FALSE
      OBVIOUS
    <3>2. chatPending[i] = ChannelOf(c)
      BY <3>1, <1>10 DEF ChatInv
    <3>3. QED
      BY <2>1, <2>3, <3>2 DEF ChannelOf
  <2>5. chatPending'[i] = chatPending[i]
    BY <2>2, <2>4 DEF Without
  <2>6. QED
    BY <2>1, <2>3, <2>5 DEF ChannelOf
<1>11. "twice" \notin chatMet =>
         /\ \A k, j \in Confirms : confirm'[k].step = "send" /\ Sends(j, confirm[k].to)' => k = j
         /\ \A k \in Confirms : confirm'[k].step = "send" => chatBuffer'[confirm'[k].to] = {}
  BY DEF ChatInv, Sends
<1>12. ASSUME "deleted" \notin chatMet, NEW d \in Chats, InTurn(d)', NEW v \in chat'[d].conv
       PROVE  chatConvs'[v] # NoOwner
  <2>1. CASE d = c
    BY <1>1, <1>12, <2>1
  <2>2. CASE d # c
    <3>1. InTurn(d) /\ v \in chat[d].conv /\ v \in Convs
      BY <1>1, <1>12, <2>2, ChatKnows DEF InTurn, Turn
    <3>2. QED
      BY <3>1, <1>12 DEF ChatInv
  <2>3. QED
    BY <2>1, <2>2
<1>13. QED
  BY <1>3, <1>4, <1>5, <1>7, <1>9, <1>10, <1>11, <1>12 DEF ChatInv


\* A new round: of a new turn, or after a tool was asked for, whether or not it has run.
LEMMA RoundEnds ==
  ASSUME ChatInv, NEW c \in Chats, NextRound(c), chat[c].step \in {"call", "answered"},
         UNCHANGED <<chatBuffer, confirm, chatConvs, chatMsgs, chatFaults, chatMet>>,
         chatPending' = IF Waiting(c) THEN Without(c) ELSE chatPending
  PROVE  ChatInv'
<1>. DEFINE t == Asked(chat[c].user, chat[c].admin, chat[c].conv, chat[c].round)
<1>1. chat[c] \in Turn
  BY ChatKnows
<1>2. /\ chat[c].user \in ChatUsers \cup {NoOwner} /\ chat[c].admin \in BOOLEAN
      /\ chat[c].conv \in SUBSET Convs /\ chat[c].round \in 0..MaxRounds
  BY <1>1 DEF Turn
<1>3. t \in Turn /\ t.step = "asked" /\ t.heard = {} /\ t.user = chat[c].user /\ t.conv = chat[c].conv
  BY <1>2 DEF Asked, Turn
<1>4. chat' = [chat EXCEPT ![c] = t]
  BY DEF NextRound, ChatGo
<1>5. InTurn(c)
  BY DEF InTurn
<1>. HIDE DEF t
<1>6. "deleted" \notin chatMet =>
           /\ \A v \in chatMsgs' : chatConvs'[v] # NoOwner
           /\ \A v \in t.conv : chatConvs'[v] # NoOwner
  BY <1>3, <1>5 DEF ChatInv
<1>7. chatConvs' \in [Convs -> ChatUsers \cup {NoOwner}] /\ chatMsgs' \subseteq Convs
  BY DEF ChatInv, ChatTypeOK
<1>8. QED
  BY <1>3, <1>4, <1>6, <1>7, TurnGoes

LEMMA ChatWithToolsKeeps == ASSUME ChatInv, NEW c \in Chats, ChatWithTools(c) PROVE ChatInv'
<1>1. PICK u \in ChatUsers, v \in Convs, admin \in BOOLEAN :
       /\ chatConvs' = [chatConvs EXCEPT ![v] = u] /\ chatMsgs' = chatMsgs \cup {v}
       /\ chat' = [chat EXCEPT ![c] = Asked(u, admin, {v}, 0)]
  BY DEF ChatWithTools, ChatGo
<1>2. chat[c].step = "idle" /\ UNCHANGED <<chatBuffer, chatPending, confirm, chatFaults, chatMet>>
  BY DEF ChatWithTools, ChatAt
<1>. DEFINE t == Asked(u, admin, {v}, 0)
<1>3. 0 \in 0..MaxRounds /\ {v} \in SUBSET Convs /\ u # NoOwner
  BY ChatAssumption DEF NoOwner
<1>4. t \in Turn /\ t.step = "asked" /\ t.heard = {} /\ t.user = u /\ t.conv = {v}
  BY <1>3 DEF Asked, Turn
<1>. HIDE DEF t
<1>5. chatConvs' \in [Convs -> ChatUsers \cup {NoOwner}] /\ chatMsgs' \subseteq Convs
  BY <1>1 DEF ChatInv, ChatTypeOK
<1>6. "deleted" \notin chatMet =>
           /\ \A w \in chatMsgs' : chatConvs'[w] # NoOwner
           /\ \A w \in t.conv : chatConvs'[w] # NoOwner
           /\ \A w \in Convs : chatConvs[w] # NoOwner => chatConvs'[w] # NoOwner
  BY <1>1, <1>3, <1>4 DEF ChatInv, ChatTypeOK
<1>7. ~InTurn(c) /\ ~Waiting(c) /\ chat[c].step # "done"
  BY <1>2 DEF InTurn, Waiting
<1>8. chat' = [chat EXCEPT ![c] = t]
  BY <1>1 DEF t
<1>9. QED
  BY <1>2, <1>4, <1>5, <1>6, <1>7, <1>8, TurnGoes

LEMMA AskModelKeeps == ASSUME ChatInv, NEW c \in Chats, AskModel(c) PROVE ChatInv'
<1>1. PICK i \in CallIds, tool \in Tools :
        chat' = [chat EXCEPT ![c] = [chat[c] EXCEPT !.step = "call", !.round = @ + 1, !.id = {i}, !.tool = {tool}]]
  BY DEF AskModel, ChatGo
<1>2. /\ chat[c].step = "asked" /\ chat[c].round < MaxRounds
      /\ UNCHANGED <<chatBuffer, chatPending, confirm, chatConvs, chatMsgs, chatFaults, chatMet>>
  BY DEF AskModel, ChatAt
<1>. DEFINE t == [chat[c] EXCEPT !.step = "call", !.round = @ + 1, !.id = {i}, !.tool = {tool}]
<1>3. chat[c] \in Turn /\ chat[c].heard = {}
  BY <1>2, ChatKnows DEF ChatInv, TurnSound
<1>4. chat[c].round + 1 \in 0..MaxRounds /\ chat[c].round + 1 # 0
  BY <1>2, <1>3, ChatAssumption DEF Turn
<1>5. t \in [step : {"call"}, user : {chat[c].user}, admin : BOOLEAN, conv : {chat[c].conv}, round : {chat[c].round + 1},
             id : {{i}}, tool : {{tool}}, heard : {{}}]
  BY <1>3 DEF Turn
<1>. HIDE DEF t
<1>6. /\ chat[c].user \in ChatUsers \cup {NoOwner} /\ chat[c].conv \in SUBSET Convs
      /\ {i} \in SUBSET CallIds /\ {tool} \in SUBSET Tools /\ {} \in SUBSET Decision
  BY <1>3 DEF Turn
<1>7. t \in Turn
  BY <1>4, <1>5, <1>6 DEF Turn
<1>8. t.step = "call" /\ t.heard = {} /\ t.round # 0 /\ t.user = chat[c].user /\ t.conv = chat[c].conv
  BY <1>4, <1>5
<1>9. InTurn(c) /\ ~Waiting(c)
  BY <1>2 DEF InTurn, Waiting
<1>10. "deleted" \notin chatMet =>
           /\ \A v \in chatMsgs' : chatConvs'[v] # NoOwner
           /\ \A v \in t.conv : chatConvs'[v] # NoOwner
  BY <1>2, <1>8, <1>9 DEF ChatInv
<1>11. chatConvs' \in [Convs -> ChatUsers \cup {NoOwner}] /\ chatMsgs' \subseteq Convs
  BY <1>2 DEF ChatInv, ChatTypeOK
<1>12. chat' = [chat EXCEPT ![c] = t]
  BY <1>1 DEF t
<1>13. QED
  BY <1>2, <1>7, <1>8, <1>9, <1>10, <1>11, <1>12, TurnGoes

LEMMA FinishTurnKeeps == ASSUME ChatInv, NEW c \in Chats, FinishTurn(c) PROVE ChatInv'
<1>. DEFINE t == [NoTurn EXCEPT !.step = "done", !.round = chat[c].round]
<1>1. /\ chat[c].step = "asked" /\ chat' = [chat EXCEPT ![c] = t]
      /\ UNCHANGED <<chatBuffer, chatPending, confirm, chatConvs, chatFaults, chatMet>>
      /\ chatMsgs' = chatMsgs \cup chat[c].conv \/ chatMsgs' = chatMsgs
  BY DEF FinishTurn, ChatAt, ChatGo
<1>2. chat[c] \in Turn
  BY ChatKnows
<1>3. t \in [step : {"done"}, user : {NoOwner}, admin : {FALSE}, conv : {{}}, round : {chat[c].round},
             id : {{}}, tool : {{}}, heard : {{}}]
  BY DEF NoTurn
<1>. HIDE DEF t
<1>4. chat[c].conv \subseteq Convs /\ chat[c].round \in 0..MaxRounds
  BY <1>2 DEF Turn
<1>5. t \in Turn
  BY <1>3, <1>4 DEF Turn
<1>6. t.step = "done" /\ t.heard = {} /\ t.conv = {}
  BY <1>3
<1>7. InTurn(c) /\ ~Waiting(c)
  BY <1>1 DEF InTurn, Waiting
<1>8. "deleted" \notin chatMet =>
           /\ \A v \in chatMsgs' : chatConvs'[v] # NoOwner
           /\ \A v \in t.conv : chatConvs'[v] # NoOwner
  BY <1>1, <1>6, <1>7 DEF ChatInv
<1>9. chatConvs' \in [Convs -> ChatUsers \cup {NoOwner}] /\ chatMsgs' \subseteq Convs
  BY <1>1, <1>4 DEF ChatInv, ChatTypeOK
<1>10. QED
  BY <1>1, <1>5, <1>6, <1>7, <1>8, <1>9, TurnGoes

LEMMA RefuseToolKeeps == ASSUME ChatInv, NEW c \in Chats, RefuseTool(c) PROVE ChatInv'
<1>1. chat[c].step = "call" /\ ~Waiting(c) /\ NextRound(c)
  BY DEF RefuseTool, ChatAt, Waiting
<1>2. QED
  BY <1>1, RoundEnds DEF RefuseTool

LEMMA RejectToolKeeps == ASSUME ChatInv, NEW c \in Chats, RejectTool(c) PROVE ChatInv'
<1>1. chat[c].step = "answered" /\ Waiting(c) /\ NextRound(c) /\ chatPending' = Without(c)
  BY DEF RejectTool, ChatAt, Waiting
<1>2. QED
  BY <1>1, RoundEnds DEF RejectTool

\* A tool that must be confirmed runs on the approval of the turn's user, and no other; one for
\* administrators in the turn of one.
LEMMA ExecuteToolKeeps == ASSUME ChatInv, NEW c \in Chats, ExecuteTool(c) PROVE ChatInv'
<1>1. chat[c].step \in {"call", "answered"} /\ NextRound(c)
  BY DEF ExecuteTool, ToolMayRun, ChatAt
<1>2. chatPending' = IF Waiting(c) THEN Without(c) ELSE chatPending
  BY <1>1 DEF ExecuteTool, ChatAt, Waiting
<1>3. ~ToolRefused(chat[c])
  BY DEF ExecuteTool, ToolMayRun, ChatAt, ChatInv, TurnSound, Waiting
<1>4. ASSUME MustConfirm(chat[c]) PROVE chat[c].heard = {[yes |-> TRUE, by |-> chat[c].user]}
  <2>1. chat[c].step = "answered" /\ Approved(chat[c])
    BY <1>4 DEF ExecuteTool, ToolMayRun, ChatAt
  <2>2. PICK d \in chat[c].heard : d.yes
    BY <2>1 DEF Approved
  <2>3. chat[c].heard = {d} /\ d.by = chat[c].user
    BY <2>1, <2>2 DEF ChatInv, TurnSound, ByUser, InTurn
  <2>4. d \in Decision
    BY <2>2, ChatKnows DEF Turn
  <2>5. d = [yes |-> TRUE, by |-> chat[c].user]
    BY <2>2, <2>3, <2>4 DEF Decision
  <2>6. QED
    BY <2>3, <2>5
<1>5. chatFaults' = chatFaults
  BY <1>3, <1>4 DEF ExecuteTool
<1>6. QED
  BY <1>1, <1>2, <1>5, RoundEnds DEF ExecuteTool

\* A turn begins to wait: what waited under its id is no longer found.
LEMMA AwaitConfirmationKeeps == ASSUME ChatInv, NEW c \in Chats, AwaitConfirmation(c) PROVE ChatInv'
<1>. DEFINE t == [chat[c] EXCEPT !.step = "wait"]
<1>1. /\ chat[c].step = "call" /\ ~ToolRefused(chat[c]) /\ chat' = [chat EXCEPT ![c] = t]
      /\ chatPending' = [i \in CallIds |-> IF i \in chat[c].id THEN ChannelOf(c) ELSE chatPending[i]]
      /\ chatMet' = chatMet \cup {m \in {"ids"} : \E i \in chat[c].id : chatPending[i] # NoChannel}
      /\ UNCHANGED <<chatBuffer, confirm, chatConvs, chatMsgs, chatFaults>>
  BY DEF AwaitConfirmation, ChatAt, ChatGo
<1>2. chat[c] \in Turn /\ ChannelOf(c) \in Channel /\ TurnSound(c)
  BY <1>1, ChatKnows DEF ChatInv
<1>3. /\ t \in Turn /\ t.step = "wait" /\ t.user = chat[c].user /\ t.round = chat[c].round /\ t.id = chat[c].id
      /\ t.conv = chat[c].conv /\ t.heard = chat[c].heard /\ t.admin = chat[c].admin /\ t.tool = chat[c].tool
  BY <1>2 DEF Turn
<1>. HIDE DEF t
<1>4. chat'[c] = t /\ \A d \in Chats : d # c => chat'[d] = chat[d]
  BY <1>1 DEF ChatInv, ChatTypeOK
<1>5. ChatTypeOK'
  <2>1. chat' \in [Chats -> Turn]
    BY <1>1, <1>3 DEF ChatInv, ChatTypeOK
  <2>2. chatPending' \in [CallIds -> Channel \cup {NoChannel}]
    BY <1>1, <1>2 DEF ChatInv, ChatTypeOK
  <2>3. QED
    BY <1>1, <2>1, <2>2 DEF ChatInv, ChatTypeOK
<1>6. \A d \in Chats : TurnSound(d)'
  <2>1. TurnSound(c)'
    BY <1>1, <1>2, <1>3, <1>4 DEF TurnSound, ByUser, Waiting, ToolRefused
  <2>2. \A d \in Chats : d # c => TurnSound(d)'
    BY <1>4 DEF ChatInv, TurnSound, ByUser, Waiting, InTurn, ToolRefused
  <2>3. QED
    BY <2>1, <2>2
<1>7. \A d \in Chats : /\ chat'[d].step = "idle" <=> chat[d].step = "idle"
                       /\ InTurn(d)' <=> InTurn(d)
                       /\ chat'[d].user = chat[d].user /\ chat'[d].conv = chat[d].conv /\ ChannelOf(d)' = ChannelOf(d)
  BY <1>1, <1>3, <1>4 DEF InTurn, ChannelOf
<1>8. ASSUME NEW x \in Channel PROVE ChannelSound(x)'
  <2>1. x.turn \in Chats /\ ChannelSound(x)
    BY DEF ChatInv, Channel
  <2>2. QED
    BY <1>1, <1>7, <2>1 DEF ChannelSound, ByUser
<1>9. ASSUME NEW k \in Confirms PROVE ConfirmSound(k)'
  <2>1. confirm[k].step = "send" => confirm[k].to.turn \in Chats
    BY DEF ChatInv, ConfirmSound, Channel
  <2>2. QED
    BY <1>1, <1>7, <2>1 DEF ChatInv, ConfirmSound, ByUser
<1>10. ASSUME NEW i \in CallIds, chatPending'[i] # NoChannel PROVE EntrySound(i)'
  <2>1. CASE i \in chat[c].id
    BY <1>1, <1>3, <1>4, <1>7, <2>1 DEF EntrySound, Waiting, ChannelOf
  <2>2. CASE i \notin chat[c].id
    <3>1. chatPending'[i] = chatPending[i] /\ EntrySound(i)
      BY <1>1, <2>2 DEF ChatInv
    <3>2. chatPending[i].turn \in Chats /\ chatPending[i].turn # c
      BY <1>1, <1>10, <2>2, <3>1 DEF EntrySound
    <3>3. QED
      BY <1>4, <1>7, <1>10, <3>1, <3>2 DEF EntrySound, Waiting
  <2>3. QED
    BY <2>1, <2>2
<1>11. \A i \in CallIds : EntrySound(i)'
  BY <1>10 DEF EntrySound
<1>12. ASSUME "ids" \notin chatMet', NEW d \in Chats, Waiting(d)', NEW i \in chat'[d].id
       PROVE  chatPending'[i] = ChannelOf(d)'
  <2>1. i \in CallIds
    BY <1>5, <1>12 DEF ChatTypeOK, Turn
  <2>2. "ids" \notin chatMet /\ \A j \in chat[c].id : chatPending[j] = NoChannel
    BY <1>1, <1>12
  <2>3. CASE d = c
    BY <1>1, <1>3, <1>4, <1>7, <1>12, <2>1, <2>3
  <2>4. CASE d # c
    <3>1. chatPending[i] = ChannelOf(d)
      BY <1>4, <1>12, <2>2, <2>4 DEF ChatInv, Waiting
    <3>2. ChannelOf(d) # NoChannel
      <4>1. chat[d].step \in {"wait", "answered"}
        BY <1>4, <1>12, <2>4 DEF Waiting
      <4>2. QED
        BY <4>1, ChatKnows, ChatRests
    <3>3. i \notin chat[c].id
      BY <2>2, <3>1, <3>2
    <3>4. QED
      BY <1>1, <1>7, <2>1, <3>1, <3>3
  <2>5. QED
    BY <2>3, <2>4
<1>13. "twice" \notin chatMet' =>
         /\ \A k, j \in Confirms : confirm'[k].step = "send" /\ Sends(j, confirm[k].to)' => k = j
         /\ \A k \in Confirms : confirm'[k].step = "send" => chatBuffer'[confirm'[k].to] = {}
  BY <1>1 DEF ChatInv, Sends
<1>14. "deleted" \notin chatMet' =>
         /\ \A v \in chatMsgs' : chatConvs'[v] # NoOwner
         /\ \A d \in Chats : InTurn(d)' => \A v \in chat'[d].conv : chatConvs'[v] # NoOwner
  BY <1>1, <1>7 DEF ChatInv
<1>15. chatFaults' = {}
  BY <1>1 DEF ChatInv
<1>16. QED
  BY <1>1, <1>5, <1>6, <1>8, <1>9, <1>11, <1>12, <1>13, <1>14, <1>15 DEF ChatInv

\* A turn hears at most one answer, of its own user's.
LEMMA ConfirmationArrivesKeeps == ASSUME ChatInv, NEW c \in Chats, ConfirmationArrives(c) PROVE ChatInv'
<1>1. /\ chat[c].step = "wait" /\ UNCHANGED <<chatPending, confirm, chatConvs, chatMsgs, chatFaults, chatMet>>
      /\ chat[c] \in Turn /\ ChannelOf(c) \in Channel /\ TurnSound(c) /\ ChannelSound(ChannelOf(c))
  <2>1. chat[c].step = "wait" /\ UNCHANGED <<chatPending, confirm, chatConvs, chatMsgs, chatFaults, chatMet>>
    BY DEF ConfirmationArrives, ChatAt
  <2>2. QED
    BY <2>1, ChatKnows DEF ChatInv
<1>2. PICK D \in SUBSET chatBuffer[ChannelOf(c)] :
        /\ chat' = [chat EXCEPT ![c] = [chat[c] EXCEPT !.step = "answered", !.heard = D]]
        /\ chatBuffer' = [chatBuffer EXCEPT ![ChannelOf(c)] = {}] \/ chatBuffer' = chatBuffer
  <2>1. CASE \E d \in chatBuffer[ChannelOf(c)] :
               /\ chat' = [chat EXCEPT ![c] = [chat[c] EXCEPT !.step = "answered", !.heard = {d}]]
               /\ chatBuffer' = [chatBuffer EXCEPT ![ChannelOf(c)] = {}]
    <3>1. PICK d \in chatBuffer[ChannelOf(c)] :
            /\ chat' = [chat EXCEPT ![c] = [chat[c] EXCEPT !.step = "answered", !.heard = {d}]]
            /\ chatBuffer' = [chatBuffer EXCEPT ![ChannelOf(c)] = {}]
      BY <2>1
    <3>2. {d} \in SUBSET chatBuffer[ChannelOf(c)]
      OBVIOUS
    <3>3. QED
      BY <3>1, <3>2
  <2>2. CASE chat' = [chat EXCEPT ![c] = [chat[c] EXCEPT !.step = "answered", !.heard = {}]] /\ chatBuffer' = chatBuffer
    <3>1. {} \in SUBSET chatBuffer[ChannelOf(c)]
      OBVIOUS
    <3>2. QED
      BY <2>2, <3>1
  <2>3. QED
    BY <2>1, <2>2 DEF ConfirmationArrives, ChatGo
<1>3. D \in SUBSET Decision /\ (\A d, e \in D : d = e) /\ \A d \in D : d.by = chat[c].user
  <2>1. chatBuffer[ChannelOf(c)] \subseteq Decision
    BY <1>1 DEF ChatInv, ChatTypeOK
  <2>2. ChannelOf(c).turn = c /\ InTurn(c)
    BY <1>1 DEF ChannelOf, InTurn
  <2>3. QED
    BY <1>1, <2>1, <2>2 DEF ChannelSound, ByUser
<1>. DEFINE t == [chat[c] EXCEPT !.step = "answered", !.heard = D]
<1>4. t \in [step : {"answered"}, user : {chat[c].user}, admin : {chat[c].admin}, conv : {chat[c].conv},
             round : {chat[c].round}, id : {chat[c].id}, tool : {chat[c].tool}, heard : {D}]
  BY <1>1 DEF Turn
<1>5. chat' = [chat EXCEPT ![c] = t]
  BY <1>2
<1>. HIDE DEF t
<1>6. t \in Turn
  BY <1>1, <1>3, <1>4 DEF Turn
<1>7. /\ t.step = "answered" /\ t.user = chat[c].user /\ t.round = chat[c].round /\ t.id = chat[c].id
      /\ t.conv = chat[c].conv /\ t.heard = D /\ t.admin = chat[c].admin /\ t.tool = chat[c].tool
  BY <1>4
<1>8. chat'[c] = t /\ \A d \in Chats : d # c => chat'[d] = chat[d]
  BY <1>5 DEF ChatInv, ChatTypeOK
<1>9. \A x \in Channel : chatBuffer'[x] \in {chatBuffer[x], {}}
  BY <1>2 DEF ChatInv, ChatTypeOK
<1>10. ChatTypeOK'
  <2>1. chat' \in [Chats -> Turn]
    BY <1>5, <1>6 DEF ChatInv, ChatTypeOK
  <2>2. chatBuffer' \in [Channel -> SUBSET Decision]
    BY <1>2 DEF ChatInv, ChatTypeOK
  <2>3. QED
    BY <1>1, <2>1, <2>2 DEF ChatInv, ChatTypeOK
<1>11. \A d \in Chats : TurnSound(d)'
  <2>1. TurnSound(c)'
    BY <1>1, <1>3, <1>7, <1>8 DEF TurnSound, ByUser, Waiting, ToolRefused
  <2>2. \A d \in Chats : d # c => TurnSound(d)'
    BY <1>8 DEF ChatInv, TurnSound, ByUser, Waiting, InTurn, ToolRefused
  <2>3. QED
    BY <2>1, <2>2
<1>12. \A d \in Chats : /\ chat'[d].step = "idle" <=> chat[d].step = "idle"
                        /\ InTurn(d)' <=> InTurn(d)
                        /\ Waiting(d)' <=> Waiting(d)
                        /\ chat'[d].user = chat[d].user /\ chat'[d].conv = chat[d].conv /\ chat'[d].id = chat[d].id
                        /\ ChannelOf(d)' = ChannelOf(d)
  BY <1>1, <1>7, <1>8 DEF InTurn, ChannelOf, Waiting
<1>13. ASSUME NEW x \in Channel PROVE ChannelSound(x)'
  <2>1. x.turn \in Chats /\ ChannelSound(x)
    BY DEF ChatInv, Channel
  <2>2. QED
    BY <1>9, <1>12, <2>1 DEF ChannelSound, ByUser
<1>14. ASSUME NEW k \in Confirms PROVE ConfirmSound(k)'
  <2>1. confirm[k].step = "send" => confirm[k].to.turn \in Chats
    BY DEF ChatInv, ConfirmSound, Channel
  <2>2. QED
    BY <1>1, <1>12, <2>1 DEF ChatInv, ConfirmSound, ByUser
<1>15. \A i \in CallIds : EntrySound(i)'
  BY <1>1, <1>12 DEF ChatInv, EntrySound
<1>16. "ids" \notin chatMet' => \A d \in Chats : Waiting(d)' => \A i \in chat'[d].id : chatPending'[i] = ChannelOf(d)'
  BY <1>1, <1>12 DEF ChatInv
<1>17. "twice" \notin chatMet' =>
         /\ \A k, j \in Confirms : confirm'[k].step = "send" /\ Sends(j, confirm[k].to)' => k = j
         /\ \A k \in Confirms : confirm'[k].step = "send" => chatBuffer'[confirm'[k].to] = {}
  <2>1. \A k \in Confirms : confirm[k].step = "send" => confirm[k].to \in Channel
    BY DEF ChatInv, ConfirmSound
  <2>2. QED
    BY <1>1, <1>9, <2>1 DEF ChatInv, Sends
<1>18. "deleted" \notin chatMet' =>
         /\ \A v \in chatMsgs' : chatConvs'[v] # NoOwner
         /\ \A d \in Chats : InTurn(d)' => \A v \in chat'[d].conv : chatConvs'[v] # NoOwner
  BY <1>1, <1>12 DEF ChatInv
<1>19. chatFaults' = {}
  BY <1>1 DEF ChatInv
<1>20. QED
  BY <1>1, <1>10, <1>11, <1>13, <1>14, <1>15, <1>16, <1>17, <1>18, <1>19 DEF ChatInv

LEMMA DeleteConversationKeeps == ASSUME ChatInv, DeleteConversation PROVE ChatInv'
<1>1. PICK v \in Convs :
        /\ chatConvs' = [chatConvs EXCEPT ![v] = NoOwner] /\ chatMsgs' = chatMsgs \ {v}
        /\ chatMet' = chatMet \cup {m \in {"deleted"} : \E c \in Chats : InTurn(c) /\ v \in chat[c].conv}
  BY DEF DeleteConversation
<1>2. UNCHANGED <<chat, chatBuffer, chatPending, confirm, chatFaults>>
  BY DEF DeleteConversation
<1>3. ChatTypeOK'
  BY <1>1, <1>2 DEF ChatInv, ChatTypeOK
<1>4. /\ \A c \in Chats : TurnSound(c)'
      /\ \A x \in Channel : ChannelSound(x)'
      /\ \A k \in Confirms : ConfirmSound(k)'
      /\ \A i \in CallIds : EntrySound(i)'
  BY <1>2 DEF ChatInv, TurnSound, ChannelSound, ConfirmSound, EntrySound, ByUser, Waiting, InTurn, ChannelOf
<1>5. "ids" \notin chatMet' => \A c \in Chats : Waiting(c)' => \A i \in chat'[c].id : chatPending'[i] = ChannelOf(c)'
  BY <1>1, <1>2 DEF ChatInv, Waiting, ChannelOf
<1>6. "twice" \notin chatMet' =>
         /\ \A k, j \in Confirms : confirm'[k].step = "send" /\ Sends(j, confirm[k].to)' => k = j
         /\ \A k \in Confirms : confirm'[k].step = "send" => chatBuffer'[confirm'[k].to] = {}
  BY <1>1, <1>2 DEF ChatInv, Sends
<1>7. "deleted" \notin chatMet' =>
         /\ \A w \in chatMsgs' : chatConvs'[w] # NoOwner
         /\ \A c \in Chats : InTurn(c)' => \A w \in chat'[c].conv : chatConvs'[w] # NoOwner
  <2>1. SUFFICES ASSUME "deleted" \notin chatMet'
                 PROVE  /\ \A w \in chatMsgs' : chatConvs'[w] # NoOwner
                        /\ \A c \in Chats : InTurn(c)' => \A w \in chat'[c].conv : chatConvs'[w] # NoOwner
    OBVIOUS
  <2>2. "deleted" \notin chatMet /\ \A c \in Chats : InTurn(c) => v \notin chat[c].conv
    BY <1>1, <2>1
  <2>3. \A w \in Convs : w # v => chatConvs'[w] = chatConvs[w]
    BY <1>1 DEF ChatInv, ChatTypeOK
  <2>4. \A c \in Chats : chat[c].conv \subseteq Convs
    BY ChatKnows DEF Turn
  <2>5. \A w \in chatMsgs' : w \in chatMsgs /\ w \in Convs /\ w # v
    BY <1>1 DEF ChatInv, ChatTypeOK
  <2>6. \A w \in chatMsgs' : chatConvs'[w] # NoOwner
    BY <2>2, <2>3, <2>5 DEF ChatInv
  <2>7. \A c \in Chats : InTurn(c)' => \A w \in chat'[c].conv : chatConvs'[w] # NoOwner
    BY <1>2, <2>2, <2>3, <2>4 DEF ChatInv, InTurn
  <2>8. QED
    BY <2>6, <2>7
<1>8. QED
  BY <1>2, <1>3, <1>4, <1>5, <1>6, <1>7 DEF ChatInv

\* Who may confirm is the user of the turn that waits.
LEMMA ResolveConfirmationKeeps == ASSUME ChatInv, NEW k \in Confirms, ResolveConfirmation(k) PROVE ChatInv'
<1>1. PICK i \in CallIds, d \in Decision :
        /\ chatPending[i] # NoChannel /\ d.by = chat[chatPending[i].turn].user
        /\ confirm' = [confirm EXCEPT ![k] = [step |-> "send", to |-> chatPending[i], says |-> {d}]]
        /\ chatMet' = chatMet \cup {m \in {"twice"} : Answered(chatPending[i].turn)}
  BY DEF ResolveConfirmation
<1>2. confirm[k].step = "idle" /\ UNCHANGED <<chat, chatBuffer, chatPending, chatConvs, chatMsgs, chatFaults>>
  BY DEF ResolveConfirmation
<1>. DEFINE x == chatPending[i]
<1>3. x.turn \in Chats /\ Waiting(x.turn) /\ x = ChannelOf(x.turn)
  BY <1>1 DEF ChatInv, EntrySound
<1>4. x \in Channel
  BY <1>3, ChatKnows DEF Waiting
<1>5. confirm'[k] = [step |-> "send", to |-> x, says |-> {d}] /\ \A j \in Confirms : j # k => confirm'[j] = confirm[j]
  BY <1>1 DEF ChatInv, ChatTypeOK
<1>6. [step |-> "send", to |-> x, says |-> {d}] \in Answer
  BY <1>4 DEF Answer
<1>7. ChatTypeOK'
  <2>1. confirm' \in [Confirms -> Answer]
    BY <1>1, <1>6 DEF ChatInv, ChatTypeOK
  <2>2. QED
    BY <1>1, <1>2, <2>1 DEF ChatInv, ChatTypeOK
<1>8. /\ \A c \in Chats : TurnSound(c)'
      /\ \A y \in Channel : ChannelSound(y)'
      /\ \A j \in CallIds : EntrySound(j)'
  BY <1>2 DEF ChatInv, TurnSound, ChannelSound, EntrySound, ByUser, Waiting, InTurn, ChannelOf
<1>9. ASSUME NEW j \in Confirms PROVE ConfirmSound(j)'
  <2>1. CASE j = k
    <3>1. chat[x.turn].step # "idle"
      BY <1>3 DEF Waiting
    <3>2. confirm'[k].to = x /\ confirm'[k].says = {d}
      BY <1>5
    <3>. HIDE DEF x
    <3>3. QED
      BY <1>1, <1>2, <1>4, <2>1, <3>1, <3>2 DEF ConfirmSound, ByUser, InTurn, x
  <2>2. CASE j # k
    BY <1>2, <1>5, <2>2 DEF ChatInv, ConfirmSound, ByUser, InTurn
  <2>3. QED
    BY <2>1, <2>2
<1>10. "ids" \notin chatMet' => \A c \in Chats : Waiting(c)' => \A j \in chat'[c].id : chatPending'[j] = ChannelOf(c)'
  BY <1>1, <1>2 DEF ChatInv, Waiting, ChannelOf
<1>11. ASSUME "twice" \notin chatMet'
       PROVE  /\ \A l, j \in Confirms : confirm'[l].step = "send" /\ Sends(j, confirm[l].to)' => l = j
              /\ \A j \in Confirms : confirm'[j].step = "send" => chatBuffer'[confirm'[j].to] = {}
  <2>1. "twice" \notin chatMet /\ ~Answered(x.turn)
    BY <1>1, <1>11
  <2>2. chatBuffer[x] = {} /\ \A j \in Confirms : confirm[j].step = "send" => confirm[j].to # x
    BY <1>3, <2>1 DEF Answered
  <2>3. confirm'[k].to = x
    BY <1>5
  <2>. HIDE DEF x
  <2>4. ASSUME NEW l \in Confirms, NEW j \in Confirms, confirm'[l].step = "send", confirm'[j].step = "send",
               confirm'[j].to = confirm'[l].to
        PROVE  l = j
    <3>1. CASE l = k
      BY <1>5, <2>2, <2>3, <2>4, <3>1
    <3>2. CASE j = k
      BY <1>5, <2>2, <2>3, <2>4, <3>2
    <3>3. CASE l # k /\ j # k
      BY <1>5, <2>1, <2>4, <3>3 DEF ChatInv, Sends
    <3>4. QED
      BY <3>1, <3>2, <3>3
  <2>5. ASSUME NEW j \in Confirms, confirm'[j].step = "send" PROVE chatBuffer'[confirm'[j].to] = {}
    BY <1>2, <1>5, <2>1, <2>2, <2>3, <2>5 DEF ChatInv
  <2>6. QED
    BY <2>4, <2>5 DEF Sends
<1>12. "deleted" \notin chatMet' =>
         /\ \A v \in chatMsgs' : chatConvs'[v] # NoOwner
         /\ \A c \in Chats : InTurn(c)' => \A v \in chat'[c].conv : chatConvs'[v] # NoOwner
  BY <1>1, <1>2 DEF ChatInv, InTurn
<1>13. QED
  BY <1>2, <1>7, <1>8, <1>9, <1>10, <1>11, <1>12 DEF ChatInv

\* The answer is in the channel, whose turn may be over.
LEMMA SendAnswerKeeps == ASSUME ChatInv, NEW k \in Confirms, SendAnswer(k) PROVE ChatInv'
<1>. DEFINE x == confirm[k].to
            n == [NoAnswer EXCEPT !.step = "done"]
<1>1. /\ confirm[k].step = "send" /\ chatBuffer[x] = {} /\ confirm' = [confirm EXCEPT ![k] = n]
      /\ chatBuffer' = [chatBuffer EXCEPT ![x] = confirm[k].says]
      /\ UNCHANGED <<chat, chatPending, chatConvs, chatMsgs, chatFaults, chatMet>>
  BY DEF SendAnswer
<1>2. /\ x \in Channel /\ confirm[k].says \subseteq Decision
      /\ chat[x.turn].step # "idle" /\ ByUser(x.turn, confirm[k].says) /\ \A d, e \in confirm[k].says : d = e
  BY <1>1 DEF ChatInv, ConfirmSound, ChatTypeOK, Answer
<1>3. n \in Answer /\ n.step = "done"
  BY DEF NoAnswer, Answer
<1>. HIDE DEF x, n
<1>4. confirm'[k] = n /\ \A j \in Confirms : j # k => confirm'[j] = confirm[j]
  BY <1>1 DEF ChatInv, ChatTypeOK
<1>5. chatBuffer'[x] = confirm[k].says /\ \A y \in Channel : y # x => chatBuffer'[y] = chatBuffer[y]
  BY <1>1, <1>2 DEF ChatInv, ChatTypeOK
<1>6. ChatTypeOK'
  <2>1. confirm' \in [Confirms -> Answer]
    BY <1>1, <1>3 DEF ChatInv, ChatTypeOK
  <2>2. chatBuffer' \in [Channel -> SUBSET Decision]
    BY <1>1, <1>2 DEF ChatInv, ChatTypeOK
  <2>3. QED
    BY <1>1, <2>1, <2>2 DEF ChatInv, ChatTypeOK
<1>7. /\ \A c \in Chats : TurnSound(c)'
      /\ \A j \in CallIds : EntrySound(j)'
  BY <1>1 DEF ChatInv, TurnSound, EntrySound, ByUser, Waiting, InTurn, ChannelOf
<1>8. ASSUME NEW y \in Channel PROVE ChannelSound(y)'
  <2>1. CASE y = x
    BY <1>1, <1>2, <1>5, <2>1 DEF ChannelSound, ByUser, InTurn
  <2>2. CASE y # x
    BY <1>1, <1>5, <2>2 DEF ChatInv, ChannelSound, ByUser, InTurn
  <2>3. QED
    BY <2>1, <2>2
<1>9. ASSUME NEW j \in Confirms PROVE ConfirmSound(j)'
  <2>1. CASE j = k
    BY <1>3, <1>4, <2>1 DEF ConfirmSound
  <2>2. CASE j # k
    BY <1>1, <1>4, <2>2 DEF ChatInv, ConfirmSound, ByUser, InTurn
  <2>3. QED
    BY <2>1, <2>2
<1>10. "ids" \notin chatMet' => \A c \in Chats : Waiting(c)' => \A j \in chat'[c].id : chatPending'[j] = ChannelOf(c)'
  BY <1>1 DEF ChatInv, Waiting, ChannelOf
<1>11. ASSUME "twice" \notin chatMet'
       PROVE  /\ \A l, j \in Confirms : confirm'[l].step = "send" /\ Sends(j, confirm[l].to)' => l = j
              /\ \A j \in Confirms : confirm'[j].step = "send" => chatBuffer'[confirm'[j].to] = {}
  <2>1. \A j \in Confirms : confirm'[j].step = "send" => j # k /\ confirm'[j] = confirm[j]
    BY <1>3, <1>4
  <2>2. \A j \in Confirms : confirm[j].step = "send" => confirm[j].to \in Channel
    BY DEF ChatInv, ConfirmSound
  <2>3. \A j \in Confirms : confirm[j].step = "send" /\ confirm[j].to = x => j = k
    BY <1>1, <1>11 DEF ChatInv, Sends, x
  <2>4. \A j \in Confirms : confirm'[j].step = "send" => chatBuffer'[confirm'[j].to] = chatBuffer[confirm[j].to]
    BY <1>5, <2>1, <2>2, <2>3
  <2>5. \A j \in Confirms : confirm[j].step = "send" => chatBuffer[confirm[j].to] = {}
    BY <1>1, <1>11 DEF ChatInv
  <2>6. \A j \in Confirms : confirm'[j].step = "send" => chatBuffer'[confirm'[j].to] = {}
    BY <2>1, <2>4, <2>5
  <2>7. ASSUME NEW l \in Confirms, NEW j \in Confirms, confirm'[l].step = "send", confirm'[j].step = "send",
               confirm'[j].to = confirm'[l].to
        PROVE  l = j
    BY <1>1, <1>11, <2>1, <2>7 DEF ChatInv, Sends
  <2>8. QED
    BY <2>6, <2>7 DEF Sends
<1>12. "deleted" \notin chatMet' =>
         /\ \A v \in chatMsgs' : chatConvs'[v] # NoOwner
         /\ \A c \in Chats : InTurn(c)' => \A v \in chat'[c].conv : chatConvs'[v] # NoOwner
  BY <1>1 DEF ChatInv, InTurn
<1>13. chatFaults' = {}
  BY <1>1 DEF ChatInv
<1>14. QED
  BY <1>6, <1>7, <1>8, <1>9, <1>10, <1>11, <1>12, <1>13 DEF ChatInv

LEMMA ChatInvStep == ChatInv /\ ChatNext => ChatInv'
<1>. SUFFICES ASSUME ChatInv, ChatNext PROVE ChatInv'
  OBVIOUS
<1>1. ASSUME NEW c \in Chats,
             \/ ChatWithTools(c) \/ AskModel(c) \/ RefuseTool(c) \/ AwaitConfirmation(c)
             \/ ConfirmationArrives(c) \/ RejectTool(c) \/ ExecuteTool(c) \/ FinishTurn(c)
      PROVE  ChatInv'
  BY <1>1, ChatWithToolsKeeps, AskModelKeeps, RefuseToolKeeps, AwaitConfirmationKeeps,
     ConfirmationArrivesKeeps, RejectToolKeeps, ExecuteToolKeeps, FinishTurnKeeps
<1>2. ASSUME NEW k \in Confirms, ResolveConfirmation(k) \/ SendAnswer(k) PROVE ChatInv'
  BY <1>2, ResolveConfirmationKeeps, SendAnswerKeeps
<1>3. QED
  BY <1>1, <1>2, DeleteConversationKeeps DEF ChatNext

LEMMA ChatInvSame == ChatInv /\ UNCHANGED chatVars => ChatInv'
<1>. SUFFICES ASSUME ChatInv, UNCHANGED chatVars PROVE ChatInv'
  OBVIOUS
<1>1. UNCHANGED <<chat, chatBuffer, chatPending, confirm, chatConvs, chatMsgs, chatFaults, chatMet>>
  BY DEF chatVars
<1>2. /\ \A c \in Chats : TurnSound(c)'
      /\ \A x \in Channel : ChannelSound(x)'
      /\ \A k \in Confirms : ConfirmSound(k)'
      /\ \A i \in CallIds : EntrySound(i)'
  BY <1>1 DEF ChatInv, TurnSound, ChannelSound, ConfirmSound, EntrySound, ByUser, Waiting, InTurn, ChannelOf, ToolRefused
<1>3. ChatTypeOK' /\ chatFaults' = {}
  BY <1>1 DEF ChatInv, ChatTypeOK
<1>4. QED
  BY <1>1, <1>2, <1>3 DEF ChatInv, Sends, Waiting, InTurn, ChannelOf

-----------------------------------------------------------------------------
(* Memories.                                                               *)

Inserters(u) == {c \in Chats : MemAt(c, "insert") /\ memSaver[c].user = u}
Touchers(u) == {c \in Chats : MemAt(c, "touch") /\ memSaver[c].user = u}

\* Facts that an extraction has found among the user's, and that have been deleted since: it will save
\* them again.
Revived(u) == {f \in Facts : memories[u][f] = 0 /\ \E c \in Touchers(u) : f \in memSaver[c].fact}

MemBound == MaxMemories + (IF memMet THEN Cardinality(Chats) - 1 ELSE 0)

\* What an extraction knows of itself, and that it is alone with its user until two have met.
SaverSound(c) ==
  /\ MemAt(c, "idle") => memSaver[c] = NotSaving
  /\ ~MemAt(c, "idle") => memSaver[c].user \in ChatUsers
  /\ memSaver[c].step \in {"idle", "facts"} => memSaver[c].fact = {}
  /\ memSaver[c].step \in {"touch", "prune", "insert"} => \E f \in Facts : memSaver[c].fact = {f}

MemShape ==
  /\ MemTypeOK
  /\ \A c \in Chats : SaverSound(c)
  /\ ~memMet => \A c, d \in Chats : ~MemAt(c, "idle") /\ ~MemAt(d, "idle") /\ memSaver[c].user = memSaver[d].user => c = d

\* Who is to insert, and who will save again what is gone, have their place already.
RoomKept(u) == CountForUser(u) + Cardinality(Inserters(u)) + Cardinality(Revived(u)) <= MemBound

MemInv ==
  /\ MemShape
  /\ \A u \in ChatUsers : RoomKept(u)
  /\ ~memMet =>
       /\ \A u \in ChatUsers, f \in Facts : memories[u][f] <= 1
       /\ \A c \in Chats : memSaver[c].step \in {"prune", "insert"} =>
            \A f \in memSaver[c].fact : memories[memSaver[c].user][f] = 0

\* The rows of a user: finitely many, as many more as a fact gets.
LEMMA RowsAre == ASSUME NEW m, NEW p PROVE p \in RowsOf(m) <=> \E f \in Facts : \E n \in 1..m[f] : p = <<f, n>>
  BY DEF RowsOf

LEMMA RowsFinite == ASSUME NEW m \in [Facts -> Nat] PROVE IsFiniteSet(RowsOf(m)) /\ Cardinality(RowsOf(m)) \in Nat
<1>. DEFINE T == {{f} \X (1..m[f]) : f \in Facts}
            g == [f \in Facts |-> {f} \X (1..m[f])]
<1>1. g \in Surjection(Facts, T)
  BY DEF Surjection
<1>. HIDE DEF T, g
<1>2. IsFiniteSet(T)
  <2>1. IsFiniteSet(Facts)
    BY MemoryAssumption
  <2>2. QED
    BY <1>1, <2>1, FS_Surjection
<1>3. ASSUME NEW f \in Facts PROVE IsFiniteSet({f} \X (1..m[f]))
  <2>1. IsFiniteSet({f})
    BY FS_Singleton
  <2>2. 1 \in Int /\ m[f] \in Int
    OBVIOUS
  <2>3. IsFiniteSet(1..m[f])
    BY <2>2, FS_Interval
  <2>4. QED
    BY <2>1, <2>3, FS_Product
<1>4. \A S \in T : IsFiniteSet(S)
  BY <1>3 DEF T
<1>5. IsFiniteSet(UNION T)
  BY <1>2, <1>4, FS_UNION
<1>6. QED
  BY <1>5, FS_CardinalityType DEF RowsOf, T

LEMMA RowsFewer ==
  ASSUME NEW m \in [Facts -> Nat], NEW k \in [Facts -> Nat], \A f \in Facts : k[f] <= m[f]
  PROVE  Cardinality(RowsOf(k)) <= Cardinality(RowsOf(m))
<1>1. \A f \in Facts : 1..k[f] \subseteq 1..m[f]
  OBVIOUS
<1>2. RowsOf(k) \subseteq RowsOf(m)
  BY <1>1, RowsAre
<1>3. QED
  BY <1>2, RowsFinite, FS_Subset

LEMMA RowsOneMore ==
  ASSUME NEW m \in [Facts -> Nat], NEW k \in [Facts -> Nat], NEW f \in Facts,
         k[f] = m[f] + 1, \A e \in Facts : e # f => k[e] = m[e]
  PROVE  Cardinality(RowsOf(k)) = Cardinality(RowsOf(m)) + 1
<1>. DEFINE p == <<f, m[f] + 1>>
<1>1. p \notin RowsOf(m)
  BY RowsAre
<1>2. RowsOf(k) = RowsOf(m) \cup {p}
  <2>1. ASSUME NEW q \in RowsOf(k) PROVE q \in RowsOf(m) \cup {p}
    <3>. PICK e \in Facts : \E n \in 1..k[e] : q = <<e, n>>
      BY RowsAre
    <3>1. PICK n \in 1..k[e] : q = <<e, n>>
      OBVIOUS
    <3>2. CASE e # f
      BY <3>1, <3>2, RowsAre
    <3>3. CASE e = f
      <4>1. n \in 1..m[f] \/ n = m[f] + 1
        BY <3>1, <3>3
      <4>2. QED
        BY <3>1, <3>3, <4>1, RowsAre
    <3>4. QED
      BY <3>2, <3>3
  <2>2. ASSUME NEW q \in RowsOf(m) PROVE q \in RowsOf(k)
    <3>. PICK e \in Facts : \E n \in 1..m[e] : q = <<e, n>>
      BY RowsAre
    <3>1. PICK n \in 1..m[e] : q = <<e, n>>
      OBVIOUS
    <3>2. n \in 1..k[e]
      BY <3>1
    <3>3. QED
      BY <3>1, <3>2, RowsAre
  <2>3. p \in RowsOf(k)
    <3>1. m[f] + 1 \in 1..k[f]
      OBVIOUS
    <3>2. QED
      BY <3>1, RowsAre
  <2>4. QED
    BY <2>1, <2>2, <2>3
<1>. HIDE DEF p
<1>3. QED
  BY <1>1, <1>2, RowsFinite, FS_AddElement

LEMMA RowsNone == ASSUME NEW m \in [Facts -> Nat], \A f \in Facts : m[f] = 0 PROVE Cardinality(RowsOf(m)) = 0
<1>1. \A f \in Facts : 1..m[f] = {}
  OBVIOUS
<1>2. RowsOf(m) = {}
  BY <1>1, RowsAre
<1>3. QED
  BY <1>2, FS_EmptySet

\* Each extraction inserts or saves again one row at most.
LEMMA RoomAtMost ==
  MemShape =>
    \A u \in ChatUsers :
      /\ Cardinality(Inserters(u)) \in Nat /\ Cardinality(Revived(u)) \in Nat
      /\ Cardinality(Inserters(u)) + Cardinality(Revived(u)) <= IF memMet THEN Cardinality(Chats) ELSE 1
<1>. SUFFICES ASSUME MemShape, NEW u \in ChatUsers
              PROVE  /\ Cardinality(Inserters(u)) \in Nat /\ Cardinality(Revived(u)) \in Nat
                     /\ Cardinality(Inserters(u)) + Cardinality(Revived(u)) <= IF memMet THEN Cardinality(Chats) ELSE 1
  OBVIOUS
<1>. DEFINE I == Inserters(u)
            R == {c \in Touchers(u) : \E f \in Revived(u) : f \in memSaver[c].fact}
            V == Revived(u)
            g == [c \in R |-> CHOOSE f \in V : f \in memSaver[c].fact]
<1>1. IsFiniteSet(Chats) /\ Cardinality(Chats) \in Nat
  BY MemoryAssumption, FS_CardinalityType
<1>2. I \subseteq Chats /\ R \subseteq Chats
  BY DEF Inserters, Touchers
<1>3. IsFiniteSet(I) /\ IsFiniteSet(R) /\ Cardinality(I) \in Nat /\ Cardinality(R) \in Nat
  <2>1. IsFiniteSet(I) /\ IsFiniteSet(R)
    BY <1>1, <1>2, FS_Subset
  <2>2. QED
    BY <2>1, FS_CardinalityType
<1>4. I \cap R = {}
  BY DEF Inserters, Touchers, MemAt
<1>5. IsFiniteSet(I \cup R) /\ Cardinality(I \cup R) = Cardinality(I) + Cardinality(R)
  BY <1>3, <1>4, FS_Union, FS_EmptySet
<1>6. g \in Surjection(R, V)
  <2>1. ASSUME NEW c \in R PROVE \E f \in V : memSaver[c].fact = {f}
    <3>1. PICK f \in V : f \in memSaver[c].fact
      OBVIOUS
    <3>2. MemAt(c, "touch") /\ c \in Chats
      BY DEF Touchers
    <3>3. PICK e \in Facts : memSaver[c].fact = {e}
      BY <3>2 DEF MemShape, SaverSound, MemAt
    <3>4. QED
      BY <3>1, <3>3
  <2>2. \A c \in R : g[c] \in V /\ memSaver[c].fact = {g[c]}
    BY <2>1
  <2>3. \A f \in V : \E c \in R : f \in memSaver[c].fact
    BY DEF Revived
  <2>. HIDE DEF R, V
  <2>4. g \in [R -> V]
    BY <2>2
  <2>5. \A f \in V : \E c \in R : g[c] = f
    BY <2>2, <2>3
  <2>. HIDE DEF g
  <2>6. QED
    BY <2>4, <2>5 DEF Surjection
<1>. HIDE DEF g, R
<1>7. IsFiniteSet(V) /\ Cardinality(V) <= Cardinality(R)
  BY <1>3, <1>6, FS_Surjection
<1>8. Cardinality(V) \in Nat
  BY <1>7, FS_CardinalityType
<1>9. CASE memMet
  <2>1. Cardinality(I \cup R) <= Cardinality(Chats)
    BY <1>1, <1>2, FS_Subset
  <2>2. QED
    BY <1>1, <1>3, <1>5, <1>7, <1>8, <1>9, <2>1
<1>10. CASE ~memMet
  <2>1. \A c, d \in I \cup R : c = d
    BY <1>10 DEF MemShape, Inserters, Touchers, MemAt, R
  <2>. HIDE DEF I
  <2>2. I \cup R = {} \/ \E c : I \cup R = {c}
    <3>1. SUFFICES ASSUME I \cup R # {} PROVE \E c : I \cup R = {c}
      OBVIOUS
    <3>2. PICK c : c \in I \cup R
      BY <3>1
    <3>3. I \cup R = {c}
      BY <2>1, <3>2
    <3>4. QED
      BY <3>3
  <2>3. Cardinality(I \cup R) = 0 \/ Cardinality(I \cup R) = 1
    <3>1. CASE I \cup R = {}
      BY <3>1, FS_EmptySet
    <3>2. CASE \E c : I \cup R = {c}
      BY <3>2, FS_Singleton
    <3>3. QED
      BY <2>2, <3>1, <3>2
  <2>4. QED
    BY <1>3, <1>5, <1>7, <1>8, <1>10, <2>3 DEF I
<1>11. QED
  BY <1>9, <1>10

LEMMA RoomFinite ==
  \A u \in ChatUsers : /\ IsFiniteSet(Inserters(u)) /\ Cardinality(Inserters(u)) \in Nat
                       /\ IsFiniteSet(Revived(u)) /\ Cardinality(Revived(u)) \in Nat
<1>. SUFFICES ASSUME NEW u \in ChatUsers
              PROVE  /\ IsFiniteSet(Inserters(u)) /\ Cardinality(Inserters(u)) \in Nat
                     /\ IsFiniteSet(Revived(u)) /\ Cardinality(Revived(u)) \in Nat
  OBVIOUS
<1>1. Inserters(u) \subseteq Chats /\ Revived(u) \subseteq Facts
  BY DEF Inserters, Revived
<1>2. IsFiniteSet(Inserters(u)) /\ IsFiniteSet(Revived(u))
  BY <1>1, MemoryAssumption, FS_Subset
<1>3. QED
  BY <1>2, FS_CardinalityType

LEMMA RoomFiniteNext ==
  (\A u \in ChatUsers : /\ IsFiniteSet(Inserters(u)) /\ Cardinality(Inserters(u)) \in Nat
                        /\ IsFiniteSet(Revived(u)) /\ Cardinality(Revived(u)) \in Nat)'
  BY RoomFinite, PTL

LEMMA RoomAtMostNext ==
  MemShape' =>
    (\A u \in ChatUsers :
      /\ Cardinality(Inserters(u)) \in Nat /\ Cardinality(Revived(u)) \in Nat
      /\ Cardinality(Inserters(u)) + Cardinality(Revived(u)) <= IF memMet THEN Cardinality(Chats) ELSE 1)'
  BY RoomAtMost, PTL

LEMMA BoundIs == MemBound \in Nat /\ MaxMemories \in Nat \ {0} /\ Cardinality(Chats) \in Nat
<1>1. MaxMemories \in Nat \ {0} /\ Cardinality(Chats) \in Nat
  BY MemoryAssumption, FS_CardinalityType
<1>2. QED
  BY <1>1 DEF MemBound

LEMMA BoundGrows ==
  ASSUME NEW c \in Chats, memMet \in BOOLEAN, memMet' \in BOOLEAN, memMet => memMet'
  PROVE  MemBound \in Nat /\ MemBound' \in Nat /\ MemBound <= MemBound' /\ MaxMemories \in Nat \ {0}
<1>1. MaxMemories \in Nat \ {0}
  BY MemoryAssumption
<1>2. Cardinality(Chats) \in Nat /\ Cardinality(Chats) # 0
  BY MemoryAssumption, FS_CardinalityType, FS_EmptySet
<1>3. QED
  BY <1>1, <1>2 DEF MemBound

\* Where nothing is added, there is as much room as before.
LEMMA RoomStays ==
  ASSUME MemShape, NEW u \in ChatUsers, RoomKept(u), MemBound <= MemBound', MemBound \in Nat, MemBound' \in Nat,
         memories'[u] = memories[u], Inserters(u)' \subseteq Inserters(u), Revived(u)' \subseteq Revived(u)
  PROVE  RoomKept(u)'
<1>1. /\ Cardinality(Inserters(u)') <= Cardinality(Inserters(u))
      /\ Cardinality(Revived(u)') <= Cardinality(Revived(u))
  BY RoomFinite, FS_Subset
<1>2. Cardinality(Inserters(u)') \in Nat /\ Cardinality(Revived(u)') \in Nat
  BY RoomFiniteNext
<1>3. Cardinality(Inserters(u)) \in Nat /\ Cardinality(Revived(u)) \in Nat
  BY RoomFinite
<1>4. CountForUser(u)' = CountForUser(u)
  BY DEF CountForUser
<1>5. CountForUser(u) \in Nat
  BY RowsFinite DEF MemShape, MemTypeOK, CountForUser
<1>6. QED
  BY <1>1, <1>2, <1>3, <1>4, <1>5 DEF RoomKept

LEMMA MemInvInit == MemInit => MemInv
<1>. SUFFICES ASSUME MemInit PROVE MemInv
  OBVIOUS
<1>1. MemShape
  <2>1. memSaver = [c \in Chats |-> NotSaving] /\ memMet = FALSE /\ memories = [u \in ChatUsers |-> [f \in Facts |-> 0]]
    BY DEF MemInit
  <2>2. MemTypeOK
    BY <2>1 DEF MemTypeOK, NotSaving
  <2>3. \A c \in Chats : memSaver[c] = NotSaving
    BY <2>1
  <2>4. \A c \in Chats : SaverSound(c) /\ MemAt(c, "idle")
    BY <2>3 DEF SaverSound, MemAt, NotSaving
  <2>5. QED
    BY <2>2, <2>4 DEF MemShape
<1>2. ASSUME NEW u \in ChatUsers PROVE RoomKept(u)
  <2>1. Inserters(u) = {} /\ Revived(u) = {}
    BY DEF MemInit, Inserters, Revived, Touchers, MemAt, NotSaving
  <2>2. memories[u] \in [Facts -> Nat] /\ \A f \in Facts : memories[u][f] = 0
    BY DEF MemInit
  <2>3. CountForUser(u) = 0
    BY <2>2, RowsNone DEF CountForUser
  <2>4. ~memMet
    BY DEF MemInit
  <2>5. MaxMemories \in Nat
    BY MemoryAssumption
  <2>6. Cardinality(Inserters(u)) = 0 /\ Cardinality(Revived(u)) = 0
    BY <2>1, FS_EmptySet
  <2>7. QED
    BY <2>3, <2>4, <2>5, <2>6 DEF RoomKept, MemBound
<1>3. /\ \A u \in ChatUsers, f \in Facts : memories[u][f] <= 1
      /\ \A c \in Chats : memSaver[c].step = "idle"
  BY DEF MemInit, NotSaving
<1>4. QED
  BY <1>1, <1>2, <1>3 DEF MemInv

LEMMA MemInvSound == MemInv => MemoriesKept
<1>. SUFFICES ASSUME MemInv, NEW u \in ChatUsers
              PROVE  /\ CountForUser(u) <= MemBound
                     /\ memMet \/ \A f \in Facts : memories[u][f] <= 1
  BY DEF MemoriesKept, MemBound
<1>1. Cardinality(Inserters(u)) \in Nat /\ Cardinality(Revived(u)) \in Nat
  BY RoomFinite
<1>2. CountForUser(u) \in Nat
  BY RowsFinite DEF MemInv, MemShape, MemTypeOK, CountForUser
<1>3. MemBound \in Int
  <2>1. MaxMemories \in Nat /\ Cardinality(Chats) \in Nat
    BY MemoryAssumption, FS_CardinalityType
  <2>2. QED
    BY <2>1 DEF MemBound
<1>4. CountForUser(u) <= MemBound
  BY <1>1, <1>2, <1>3 DEF MemInv, RoomKept
<1>5. QED
  BY <1>4 DEF MemInv

\* What changes with a step of one extraction, to a record s of the same user.
LEMMA SaverGoes ==
  ASSUME MemInv, NEW c \in Chats, ~MemAt(c, "idle"), NEW step \in {"facts", "touch", "prune", "insert"}, NEW fact,
         SaverGo(c, step, fact), IF step = "facts" THEN fact = {} ELSE \E f \in Facts : fact = {f},
         memories' \in [ChatUsers -> [Facts -> Nat]], memMet' = memMet
  PROVE  /\ MemShape' /\ memSaver[c].user \in ChatUsers
         /\ memSaver'[c].step = step /\ memSaver'[c].fact = fact /\ memSaver'[c].user = memSaver[c].user
         /\ \A d \in Chats : d # c => memSaver'[d] = memSaver[d]
<1>. DEFINE s == [step |-> step, user |-> memSaver[c].user, fact |-> fact]
<1>1. memSaver' = [memSaver EXCEPT ![c] = s]
  BY DEF SaverGo
<1>2. memSaver[c].user \in ChatUsers
  BY DEF MemInv, MemShape, SaverSound
<1>3. s.step = step /\ s.fact = fact /\ s.user = memSaver[c].user
  OBVIOUS
<1>4. s \in [step : {"idle", "facts", "touch", "prune", "insert"}, user : ChatUsers \cup {NoOwner}, fact : SUBSET Facts]
  BY <1>2
<1>. HIDE DEF s
<1>5. memSaver'[c] = s /\ \A d \in Chats : d # c => memSaver'[d] = memSaver[d]
  BY <1>1 DEF MemInv, MemShape, MemTypeOK
<1>6. MemTypeOK'
  BY <1>1, <1>4 DEF MemInv, MemShape, MemTypeOK
<1>7. \A d \in Chats : SaverSound(d)'
  <2>1. SaverSound(c)'
    BY <1>2, <1>3, <1>5 DEF SaverSound, MemAt
  <2>2. \A d \in Chats : d # c => SaverSound(d)'
    BY <1>5 DEF MemInv, MemShape, SaverSound, MemAt
  <2>3. QED
    BY <2>1, <2>2
<1>8. \A d \in Chats : memSaver'[d].user = memSaver[d].user /\ (MemAt(d, "idle")' <=> MemAt(d, "idle"))
  BY <1>3, <1>5 DEF MemAt
<1>9. MemShape'
  BY <1>6, <1>7, <1>8 DEF MemInv, MemShape
<1>10. QED
  BY <1>2, <1>3, <1>5, <1>9

\* A second extraction of the same user makes the bound of two hold.
LEMMA ExtractKeeps == ASSUME MemInv, NEW c \in Chats, extractMemories(c) PROVE MemInv'
<1>1. PICK u \in ChatUsers :
        /\ memSaver' = [memSaver EXCEPT ![c] = [step |-> "facts", user |-> u, fact |-> {}]]
        /\ memMet' = (memMet \/ \E d \in Chats : memSaver[d].step # "idle" /\ memSaver[d].user = u)
  BY DEF extractMemories
<1>2. MemAt(c, "idle") /\ memories' = memories
  BY DEF extractMemories
<1>. DEFINE s == [step |-> "facts", user |-> u, fact |-> {}]
<1>3. s.step = "facts" /\ s.fact = {} /\ s.user = u
  OBVIOUS
<1>4. s \in [step : {"idle", "facts", "touch", "prune", "insert"}, user : ChatUsers \cup {NoOwner}, fact : SUBSET Facts]
  OBVIOUS
<1>5. memSaver' = [memSaver EXCEPT ![c] = s]
  BY <1>1
<1>. HIDE DEF s
<1>6. memSaver'[c] = s /\ \A d \in Chats : d # c => memSaver'[d] = memSaver[d]
  BY <1>5 DEF MemInv, MemShape, MemTypeOK
<1>7. memMet \in BOOLEAN /\ memMet' \in BOOLEAN /\ (memMet => memMet')
  BY <1>1 DEF MemInv, MemShape, MemTypeOK
<1>8. MemTypeOK'
  BY <1>2, <1>4, <1>5, <1>7 DEF MemInv, MemShape, MemTypeOK
<1>9. \A d \in Chats : SaverSound(d)'
  <2>1. SaverSound(c)'
    BY <1>3, <1>6 DEF SaverSound, MemAt
  <2>2. \A d \in Chats : d # c => SaverSound(d)'
    BY <1>6 DEF MemInv, MemShape, SaverSound, MemAt
  <2>3. QED
    BY <2>1, <2>2
<1>10. ASSUME ~memMet'
       PROVE  \A d, e \in Chats : ~MemAt(d, "idle")' /\ ~MemAt(e, "idle")' /\ memSaver'[d].user = memSaver'[e].user => d = e
  <2>1. ~memMet /\ \A d \in Chats : memSaver[d].step # "idle" => memSaver[d].user # u
    BY <1>1, <1>10
  <2>2. QED
    BY <1>3, <1>6, <2>1 DEF MemInv, MemShape, MemAt
<1>11. MemShape'
  BY <1>8, <1>9, <1>10 DEF MemShape
<1>12. ASSUME NEW w \in ChatUsers PROVE RoomKept(w)'
  <2>1. Inserters(w)' \subseteq Inserters(w)
    BY <1>3, <1>6 DEF Inserters, MemAt
  <2>2. \A d \in Chats : MemAt(d, "touch")' => d # c
    BY <1>3, <1>6 DEF MemAt
  <2>3. Revived(w)' \subseteq Revived(w)
    BY <1>2, <1>6, <2>2 DEF Revived, Touchers, MemAt
  <2>4. QED
    BY <1>2, <1>7, <2>1, <2>3, BoundGrows, RoomStays DEF MemInv
<1>13. ~memMet' =>
         /\ \A w \in ChatUsers, f \in Facts : memories'[w][f] <= 1
         /\ \A d \in Chats : memSaver'[d].step \in {"prune", "insert"} =>
              \A f \in memSaver'[d].fact : memories'[memSaver'[d].user][f] = 0
  <2>1. \A d \in Chats : memSaver'[d].step \in {"prune", "insert"} => d # c
    BY <1>3, <1>6
  <2>2. QED
    BY <1>2, <1>6, <1>7, <2>1 DEF MemInv
<1>14. QED
  BY <1>11, <1>12, <1>13 DEF MemInv

LEMMA SaveMemoryKeeps == ASSUME MemInv, NEW c \in Chats, SaveMemory(c) PROVE MemInv'
<1>. DEFINE u == memSaver[c].user
<1>1. PICK f \in Facts : SaverGo(c, IF memories[u][f] > 0 THEN "touch" ELSE "prune", {f})
  BY DEF SaveMemory
<1>. DEFINE step == IF memories[u][f] > 0 THEN "touch" ELSE "prune"
<1>2. MemAt(c, "facts") /\ memories' = memories /\ memMet' = memMet /\ SaverGo(c, step, {f})
  BY <1>1 DEF SaveMemory
<1>3. step \in {"facts", "touch", "prune", "insert"} /\ step # "facts" /\ step # "insert" /\ ~MemAt(c, "idle")
  BY <1>2 DEF MemAt
<1>4. memories' \in [ChatUsers -> [Facts -> Nat]]
  BY <1>2 DEF MemInv, MemShape, MemTypeOK
<1>5. step = "touch" => memories[u][f] > 0
  OBVIOUS
<1>6. u \in ChatUsers /\ memories[u][f] \in Nat
  BY <1>3, <1>2 DEF MemInv, MemShape, MemTypeOK, SaverSound
<1>7. step = "prune" => memories[u][f] = 0
  BY <1>6
<1>. HIDE DEF step
<1>8. /\ MemShape'
      /\ memSaver'[c].step = step /\ memSaver'[c].fact = {f} /\ memSaver'[c].user = u
      /\ \A d \in Chats : d # c => memSaver'[d] = memSaver[d]
  BY <1>2, <1>3, <1>4, SaverGoes
<1>. HIDE DEF u
<1>9. ASSUME NEW w \in ChatUsers PROVE RoomKept(w)'
  <2>1. Inserters(w)' \subseteq Inserters(w)
    BY <1>3, <1>8 DEF Inserters, MemAt
  <2>2. \A g \in Facts : memories'[w][g] = 0 => ~(c \in Touchers(w)' /\ g \in memSaver'[c].fact)
    BY <1>2, <1>5, <1>6, <1>8 DEF Touchers, MemAt
  <2>3. \A d \in Chats : d # c /\ d \in Touchers(w)' => d \in Touchers(w) /\ memSaver'[d] = memSaver[d]
    BY <1>8 DEF Touchers, MemAt
  <2>4. Revived(w)' \subseteq Revived(w)
    <3>1. ASSUME NEW g \in Revived(w)' PROVE g \in Revived(w)
      <4>1. g \in Facts /\ memories'[w][g] = 0
        BY DEF Revived
      <4>2. PICK d \in Touchers(w)' : g \in memSaver'[d].fact
        BY DEF Revived
      <4>3. d \in Chats /\ d # c
        BY <2>2, <4>1, <4>2 DEF Touchers
      <4>4. QED
        BY <1>2, <2>3, <4>1, <4>2, <4>3 DEF Revived
    <3>2. QED
      BY <3>1
  <2>5. memMet \in BOOLEAN
    BY DEF MemInv, MemShape, MemTypeOK
  <2>6. QED
    BY <1>2, <2>1, <2>4, <2>5, BoundGrows, RoomStays DEF MemInv
<1>10. ~memMet' =>
         /\ \A w \in ChatUsers, g \in Facts : memories'[w][g] <= 1
         /\ \A d \in Chats : memSaver'[d].step \in {"prune", "insert"} =>
              \A g \in memSaver'[d].fact : memories'[memSaver'[d].user][g] = 0
  <2>1. memSaver'[c].step \in {"prune", "insert"} => step = "prune"
    BY <1>3, <1>8
  <2>2. QED
    BY <1>2, <1>7, <1>8, <2>1 DEF MemInv
<1>11. QED
  BY <1>8, <1>9, <1>10 DEF MemInv

LEMMA ExtractionEndsKeeps == ASSUME MemInv, NEW c \in Chats, ExtractionEnds(c) PROVE MemInv'
<1>1. MemAt(c, "facts") /\ memSaver' = [memSaver EXCEPT ![c] = NotSaving] /\ memories' = memories /\ memMet' = memMet
  BY DEF ExtractionEnds
<1>2. memSaver'[c] = NotSaving /\ \A d \in Chats : d # c => memSaver'[d] = memSaver[d]
  BY <1>1 DEF MemInv, MemShape, MemTypeOK
<1>3. NotSaving \in [step : {"idle", "facts", "touch", "prune", "insert"}, user : ChatUsers \cup {NoOwner}, fact : SUBSET Facts]
  BY DEF NotSaving
<1>4. MemTypeOK'
  BY <1>1, <1>3 DEF MemInv, MemShape, MemTypeOK
<1>5. \A d \in Chats : SaverSound(d)'
  <2>1. SaverSound(c)'
    BY <1>2 DEF SaverSound, MemAt, NotSaving
  <2>2. \A d \in Chats : d # c => SaverSound(d)'
    BY <1>2 DEF MemInv, MemShape, SaverSound, MemAt
  <2>3. QED
    BY <2>1, <2>2
<1>6. MemAt(c, "idle")' /\ ~MemAt(c, "insert")' /\ ~MemAt(c, "touch")' /\ memSaver'[c].step \notin {"prune", "insert"}
  BY <1>2 DEF MemAt, NotSaving
<1>7. MemShape'
  BY <1>1, <1>2, <1>4, <1>5, <1>6 DEF MemInv, MemShape, MemAt
<1>8. ASSUME NEW w \in ChatUsers PROVE RoomKept(w)'
  <2>1. Inserters(w)' \subseteq Inserters(w)
    BY <1>2, <1>6 DEF Inserters, MemAt
  <2>2. Revived(w)' \subseteq Revived(w)
    BY <1>1, <1>2, <1>6 DEF Revived, Touchers, MemAt
  <2>3. memMet \in BOOLEAN
    BY DEF MemInv, MemShape, MemTypeOK
  <2>4. QED
    BY <1>1, <2>1, <2>2, <2>3, BoundGrows, RoomStays DEF MemInv
<1>9. ~memMet' =>
         /\ \A w \in ChatUsers, g \in Facts : memories'[w][g] <= 1
         /\ \A d \in Chats : memSaver'[d].step \in {"prune", "insert"} =>
              \A g \in memSaver'[d].fact : memories'[memSaver'[d].user][g] = 0
  BY <1>1, <1>2, <1>6 DEF MemInv
<1>10. QED
  BY <1>7, <1>8, <1>9 DEF MemInv

LEMMA MemInvSame == MemInv /\ UNCHANGED memVars => MemInv'
  BY DEF MemInv, memVars, MemShape, MemTypeOK, SaverSound, MemAt, RoomKept, CountForUser, Inserters, Revived, Touchers, MemBound

\* Users but the one whose memories change.
LEMMA OthersKeep ==
  ASSUME MemInv, NEW c \in Chats, NEW u \in ChatUsers, NEW w \in ChatUsers, w # u, memories'[w] = memories[w], memMet' = memMet,
         \A d \in Chats : d # c => memSaver'[d] = memSaver[d], memSaver[c].user = u, memSaver'[c].user = u
  PROVE  RoomKept(w)'
<1>1. Inserters(w)' \subseteq Inserters(w)
  BY DEF Inserters, MemAt
<1>2. Revived(w)' \subseteq Revived(w)
  BY DEF Revived, Touchers, MemAt
<1>3. memMet \in BOOLEAN
  BY DEF MemInv, MemShape, MemTypeOK
<1>4. QED
  BY <1>1, <1>2, <1>3, BoundGrows, RoomStays DEF MemInv

\* Who is alone with its user changes no row that another has looked at.
LEMMA AloneKeeps ==
  ASSUME MemInv, NEW c \in Chats, NEW u \in ChatUsers, memSaver[c].user = u, ~MemAt(c, "idle"), memMet' = memMet,
         memSaver'[c].user = u, \A d \in Chats : d # c => memSaver'[d] = memSaver[d],
         \A w \in ChatUsers : w # u => memories'[w] = memories[w],
         ~memMet => \A f \in Facts : memories'[u][f] <= 1,
         memSaver'[c].step = "insert" /\ ~memMet => \A f \in memSaver'[c].fact : memories'[u][f] = 0,
         memSaver'[c].step # "prune"
  PROVE  ~memMet' =>
           /\ \A w \in ChatUsers, f \in Facts : memories'[w][f] <= 1
           /\ \A d \in Chats : memSaver'[d].step \in {"prune", "insert"} =>
                \A f \in memSaver'[d].fact : memories'[memSaver'[d].user][f] = 0
<1>. SUFFICES ASSUME ~memMet
              PROVE  /\ \A w \in ChatUsers, f \in Facts : memories'[w][f] <= 1
                     /\ \A d \in Chats : memSaver'[d].step \in {"prune", "insert"} =>
                          \A f \in memSaver'[d].fact : memories'[memSaver'[d].user][f] = 0
  OBVIOUS
<1>1. \A w \in ChatUsers, f \in Facts : memories'[w][f] <= 1
  BY DEF MemInv
<1>2. ASSUME NEW d \in Chats, memSaver'[d].step \in {"prune", "insert"}, d # c
      PROVE  \A f \in memSaver'[d].fact : memories'[memSaver'[d].user][f] = 0
  <2>1. memSaver'[d] = memSaver[d] /\ ~MemAt(d, "idle")
    BY <1>2 DEF MemAt
  <2>2. memSaver[d].user \in ChatUsers /\ memSaver[d].user # u
    BY <1>2, <2>1 DEF MemInv, MemShape, SaverSound
  <2>3. QED
    BY <1>2, <2>1, <2>2 DEF MemInv
<1>3. QED
  BY <1>1, <1>2

\* A fact that was known and is gone is inserted again.
LEMMA TouchKeeps == ASSUME MemInv, NEW c \in Chats, TouchMemory(c) PROVE MemInv'
<1>0. PICK u \in ChatUsers : memSaver[c].user = u
  BY DEF TouchMemory, MemAt, MemInv, MemShape, SaverSound
<1>. DEFINE k == [f \in Facts |-> IF f \in memSaver[c].fact /\ memories[u][f] = 0 THEN 1 ELSE memories[u][f]]
<1>1. MemAt(c, "touch") /\ memories' = [memories EXCEPT ![u] = k] /\ SaverGo(c, "facts", {}) /\ memMet' = memMet
  BY <1>0 DEF TouchMemory
<1>2. PICK f \in Facts : memSaver[c].fact = {f}
  BY <1>1 DEF MemInv, MemShape, SaverSound, MemAt
<1>3. ~MemAt(c, "idle")
  BY <1>1 DEF MemAt
<1>4. u \in ChatUsers
  OBVIOUS
<1>5. memories[u] \in [Facts -> Nat]
  BY <1>4 DEF MemInv, MemShape, MemTypeOK
<1>6. /\ k \in [Facts -> Nat] /\ \A e \in Facts : e # f => k[e] = memories[u][e]
      /\ k[f] = IF memories[u][f] = 0 THEN 1 ELSE memories[u][f]
  BY <1>2, <1>5
<1>. HIDE DEF k
<1>7. memories' \in [ChatUsers -> [Facts -> Nat]] /\ memories'[u] = k /\ \A w \in ChatUsers : w # u => memories'[w] = memories[w]
  BY <1>1, <1>4, <1>6 DEF MemInv, MemShape, MemTypeOK
<1>8. /\ MemShape' /\ memSaver'[c].step = "facts" /\ memSaver'[c].fact = {} /\ memSaver'[c].user = u
      /\ \A d \in Chats : d # c => memSaver'[d] = memSaver[d]
  BY <1>0, <1>1, <1>3, <1>7, SaverGoes
<1>9. \A w \in ChatUsers : w # u => RoomKept(w)'
  BY <1>0, <1>1, <1>4, <1>7, <1>8, OthersKeep
<1>10. Inserters(u)' \subseteq Inserters(u) /\ Revived(u)' \subseteq Revived(u) \ {f}
  <2>1. Inserters(u)' \subseteq Inserters(u)
    BY <1>8 DEF Inserters, MemAt
  <2>2. \A d \in Touchers(u)' : d \in Touchers(u) /\ memSaver'[d] = memSaver[d]
    BY <1>8 DEF Touchers, MemAt
  <2>3. \A e \in Facts : memories'[u][e] = 0 => e # f /\ memories[u][e] = 0
    BY <1>6, <1>7
  <2>4. QED
    BY <2>1, <2>2, <2>3 DEF Revived
<1>11. memMet \in BOOLEAN /\ MemBound' = MemBound
  BY <1>1 DEF MemInv, MemShape, MemTypeOK, MemBound
<1>12. RoomKept(u)'
  <2>1. CASE memories[u][f] = 0
    <3>1. f \in Revived(u)
      BY <1>0, <1>1, <1>2, <2>1 DEF Revived, Touchers
    <3>2. CountForUser(u)' = CountForUser(u) + 1
      BY <1>5, <1>6, <1>7, <2>1, RowsOneMore DEF CountForUser
    <3>3. IsFiniteSet(Revived(u) \ {f}) /\ Cardinality(Revived(u) \ {f}) = Cardinality(Revived(u)) - 1
      BY <1>4, <3>1, RoomFinite, FS_RemoveElement
    <3>4. Cardinality(Revived(u)') <= Cardinality(Revived(u)) - 1
      BY <1>10, <3>3, FS_Subset
    <3>5. Cardinality(Inserters(u)') <= Cardinality(Inserters(u))
      BY <1>4, <1>10, RoomFinite, FS_Subset
    <3>6. /\ Cardinality(Inserters(u)') \in Nat /\ Cardinality(Revived(u)') \in Nat
          /\ Cardinality(Inserters(u)) \in Nat /\ Cardinality(Revived(u)) \in Nat
      BY <1>4, RoomFinite, RoomFiniteNext
    <3>7. CountForUser(u) \in Nat /\ MemBound \in Nat
      BY <1>5, RowsFinite, BoundIs DEF CountForUser
    <3>8. RoomKept(u)
      BY <1>4 DEF MemInv
    <3>9. QED
      BY <1>11, <3>2, <3>4, <3>5, <3>6, <3>7, <3>8 DEF RoomKept
  <2>2. CASE memories[u][f] # 0
    <3>1. k = memories[u]
      BY <1>5, <1>6, <2>2
    <3>2. RoomKept(u) /\ MemShape
      BY <1>4 DEF MemInv
    <3>3. MemBound \in Nat /\ MemBound' \in Nat /\ MemBound <= MemBound'
      BY <1>1, <1>11, BoundGrows
    <3>4. QED
      BY <1>4, <1>7, <1>10, <3>1, <3>2, <3>3, RoomStays
  <2>3. QED
    BY <2>1, <2>2
<1>13. ~memMet => \A e \in Facts : memories'[u][e] <= 1
  BY <1>4, <1>6, <1>7 DEF MemInv
<1>14. ~memMet' =>
         /\ \A w \in ChatUsers, e \in Facts : memories'[w][e] <= 1
         /\ \A d \in Chats : memSaver'[d].step \in {"prune", "insert"} =>
              \A e \in memSaver'[d].fact : memories'[memSaver'[d].user][e] = 0
  <2>1. memSaver'[c].step = "facts" => memSaver'[c].step # "insert" /\ memSaver'[c].step # "prune"
    OBVIOUS
  <2>2. QED
    BY <1>0, <1>1, <1>3, <1>4, <1>7, <1>8, <1>13, <2>1, AloneKeeps
<1>15. QED
  BY <1>8, <1>9, <1>12, <1>14 DEF MemInv

\* At the limit, room is made for one more; for each other extraction of the user's one is over it.
LEMMA PruneKeeps == ASSUME MemInv, NEW c \in Chats, pruneIfNeeded(c) PROVE MemInv'
<1>0. PICK u \in ChatUsers : memSaver[c].user = u
  BY DEF pruneIfNeeded, MemAt, MemInv, MemShape, SaverSound
<1>. DEFINE n == CountForUser(u)
<1>1. MemAt(c, "prune") /\ SaverGo(c, "insert", memSaver[c].fact) /\ memMet' = memMet /\ ~MemAt(c, "idle")
  BY DEF pruneIfNeeded, MemAt
<1>2. u \in ChatUsers /\ \E f \in Facts : memSaver[c].fact = {f}
  BY <1>1 DEF MemInv, MemShape, SaverSound, MemAt
<1>3. memories[u] \in [Facts -> Nat]
  BY <1>2 DEF MemInv, MemShape, MemTypeOK
<1>4. n \in Nat /\ MaxMemories \in Nat \ {0} /\ Headroom \in Nat \ {0}
  BY <1>3, RowsFinite, MemoryAssumption DEF CountForUser
<1>5. PICK k \in [Facts -> Nat] :
        /\ memories' = [memories EXCEPT ![u] = k]
        /\ \A f \in Facts : k[f] <= memories[u][f]
        /\ Cardinality(RowsOf(k)) <= MaxMemories - 1
  <2>1. CASE n < MaxMemories
    <3>1. memories' = memories
      BY <1>0, <2>1 DEF pruneIfNeeded
    <3>2. memories' = [memories EXCEPT ![u] = memories[u]]
      BY <1>2, <3>1 DEF MemInv, MemShape, MemTypeOK
    <3>3. Cardinality(RowsOf(memories[u])) <= MaxMemories - 1
      BY <1>4, <2>1 DEF CountForUser
    <3>4. \A f \in Facts : memories[u][f] <= memories[u][f]
      BY <1>3
    <3>5. QED
      BY <1>3, <3>2, <3>3, <3>4
  <2>2. CASE ~(n < MaxMemories)
    <3>1. PICK k \in [Facts -> 0..n] :
            /\ \A f \in Facts : k[f] <= memories[u][f]
            /\ Cardinality(RowsOf(k)) = IF n + Headroom - MaxMemories > n THEN 0 ELSE n - (n + Headroom - MaxMemories)
            /\ memories' = [memories EXCEPT ![u] = k]
      BY <1>0, <2>2 DEF pruneIfNeeded
    <3>2. Cardinality(RowsOf(k)) <= MaxMemories - 1
      BY <1>4, <3>1
    <3>3. k \in [Facts -> Nat]
      BY <1>4
    <3>4. QED
      BY <3>1, <3>2, <3>3
  <2>3. QED
    BY <2>1, <2>2
<1>6. memories' \in [ChatUsers -> [Facts -> Nat]] /\ memories'[u] = k /\ \A w \in ChatUsers : w # u => memories'[w] = memories[w]
  BY <1>2, <1>5 DEF MemInv, MemShape, MemTypeOK
<1>7. /\ MemShape' /\ memSaver'[c].step = "insert" /\ memSaver'[c].fact = memSaver[c].fact /\ memSaver'[c].user = u
      /\ \A d \in Chats : d # c => memSaver'[d] = memSaver[d]
  BY <1>0, <1>1, <1>2, <1>6, SaverGoes
<1>8. memSaver[c].user = u
  BY <1>0
<1>. HIDE DEF n
<1>9. \A w \in ChatUsers : w # u => RoomKept(w)'
  BY <1>1, <1>2, <1>6, <1>7, <1>8, OthersKeep
<1>10. RoomKept(u)'
  <2>1. Cardinality(Inserters(u)') + Cardinality(Revived(u)') <= IF memMet' THEN Cardinality(Chats) ELSE 1
    BY <1>2, <1>7, RoomAtMostNext
  <2>2. Cardinality(Inserters(u)') \in Nat /\ Cardinality(Revived(u)') \in Nat
    BY <1>2, RoomFiniteNext
  <2>3. CountForUser(u)' <= MaxMemories - 1 /\ CountForUser(u)' \in Nat
    BY <1>5, <1>6, RowsFinite DEF CountForUser
  <2>4. Cardinality(Chats) \in Nat
    BY MemoryAssumption, FS_CardinalityType
  <2>5. CASE memMet'
    BY <1>4, <2>1, <2>2, <2>3, <2>4, <2>5 DEF RoomKept, MemBound
  <2>6. CASE ~memMet'
    BY <1>4, <2>1, <2>2, <2>3, <2>6 DEF RoomKept, MemBound
  <2>7. QED
    BY <2>5, <2>6
<1>11. ~memMet => /\ \A e \in Facts : memories'[u][e] <= 1
                  /\ \A e \in memSaver'[c].fact : memories'[u][e] = 0
  <2>1. SUFFICES ASSUME ~memMet PROVE /\ \A e \in Facts : memories'[u][e] <= 1
                                      /\ \A e \in memSaver'[c].fact : memories'[u][e] = 0
    OBVIOUS
  <2>2. \A e \in Facts : memories[u][e] <= 1
    BY <1>2, <2>1 DEF MemInv
  <2>3. \A e \in memSaver[c].fact : e \in Facts /\ memories[u][e] = 0
    BY <1>1, <1>2, <1>8, <2>1 DEF MemInv, MemAt
  <2>4. \A e \in Facts : memories'[u][e] \in Nat /\ memories'[u][e] <= memories[u][e] /\ memories[u][e] \in Nat
    BY <1>3, <1>5, <1>6
  <2>5. \A e \in Facts : memories'[u][e] <= 1
    BY <2>2, <2>4
  <2>6. \A e \in memSaver'[c].fact : memories'[u][e] = 0
    BY <1>7, <2>3, <2>4
  <2>7. QED
    BY <2>5, <2>6
<1>12. ~memMet' =>
         /\ \A w \in ChatUsers, e \in Facts : memories'[w][e] <= 1
         /\ \A d \in Chats : memSaver'[d].step \in {"prune", "insert"} =>
              \A e \in memSaver'[d].fact : memories'[memSaver'[d].user][e] = 0
  BY <1>1, <1>2, <1>6, <1>7, <1>8, <1>11, AloneKeeps
<1>13. QED
  BY <1>7, <1>9, <1>10, <1>12 DEF MemInv

LEMMA InsertKeeps == ASSUME MemInv, NEW c \in Chats, InsertMemory(c) PROVE MemInv'
<1>0. PICK u \in ChatUsers : memSaver[c].user = u
  BY DEF InsertMemory, MemAt, MemInv, MemShape, SaverSound
<1>. DEFINE k == [f \in Facts |-> memories[u][f] + (IF f \in memSaver[c].fact THEN 1 ELSE 0)]
<1>1. /\ MemAt(c, "insert") /\ memories' = [memories EXCEPT ![u] = k] /\ SaverGo(c, "facts", {}) /\ memMet' = memMet
      /\ ~MemAt(c, "idle")
  BY <1>0 DEF InsertMemory, MemAt
<1>2. PICK f \in Facts : memSaver[c].fact = {f}
  BY <1>1 DEF MemInv, MemShape, SaverSound, MemAt
<1>3. u \in ChatUsers
  OBVIOUS
<1>4. memories[u] \in [Facts -> Nat]
  BY <1>3 DEF MemInv, MemShape, MemTypeOK
<1>5. k \in [Facts -> Nat] /\ k[f] = memories[u][f] + 1 /\ \A e \in Facts : e # f => k[e] = memories[u][e]
  BY <1>2, <1>4
<1>. HIDE DEF k
<1>6. memories' \in [ChatUsers -> [Facts -> Nat]] /\ memories'[u] = k /\ \A w \in ChatUsers : w # u => memories'[w] = memories[w]
  BY <1>1, <1>3, <1>5 DEF MemInv, MemShape, MemTypeOK
<1>7. /\ MemShape' /\ memSaver'[c].step = "facts" /\ memSaver'[c].fact = {} /\ memSaver'[c].user = u
      /\ \A d \in Chats : d # c => memSaver'[d] = memSaver[d]
  BY <1>0, <1>1, <1>6, SaverGoes
<1>8. memSaver[c].user = u
  BY <1>0
<1>9. \A w \in ChatUsers : w # u => RoomKept(w)'
  BY <1>1, <1>3, <1>6, <1>7, <1>8, OthersKeep
<1>10. Inserters(u)' \subseteq Inserters(u) \ {c} /\ Revived(u)' \subseteq Revived(u) /\ c \in Inserters(u)
  <2>1. Inserters(u)' \subseteq Inserters(u) \ {c}
    BY <1>7 DEF Inserters, MemAt
  <2>2. \A d \in Touchers(u)' : d \in Touchers(u) /\ memSaver'[d] = memSaver[d]
    BY <1>7 DEF Touchers, MemAt
  <2>3. \A e \in Facts : memories'[u][e] = 0 => memories[u][e] = 0
    BY <1>4, <1>5, <1>6
  <2>4. Revived(u)' \subseteq Revived(u)
    BY <2>2, <2>3 DEF Revived
  <2>5. QED
    BY <1>1, <1>8, <2>1, <2>4 DEF Inserters
<1>11. memMet \in BOOLEAN /\ MemBound' = MemBound
  BY <1>1 DEF MemInv, MemShape, MemTypeOK, MemBound
<1>12. RoomKept(u)'
  <2>1. CountForUser(u)' = CountForUser(u) + 1
    BY <1>2, <1>4, <1>5, <1>6, RowsOneMore DEF CountForUser
  <2>2. IsFiniteSet(Inserters(u) \ {c}) /\ Cardinality(Inserters(u) \ {c}) = Cardinality(Inserters(u)) - 1
    BY <1>3, <1>10, RoomFinite, FS_RemoveElement
  <2>3. Cardinality(Inserters(u)') <= Cardinality(Inserters(u)) - 1
    BY <1>10, <2>2, FS_Subset
  <2>4. Cardinality(Revived(u)') <= Cardinality(Revived(u))
    BY <1>3, <1>10, RoomFinite, FS_Subset
  <2>5. /\ Cardinality(Inserters(u)') \in Nat /\ Cardinality(Revived(u)') \in Nat
        /\ Cardinality(Inserters(u)) \in Nat /\ Cardinality(Revived(u)) \in Nat
    BY <1>3, RoomFinite, RoomFiniteNext
  <2>6. CountForUser(u) \in Nat /\ MemBound \in Nat
    BY <1>4, RowsFinite, BoundIs DEF CountForUser
  <2>7. RoomKept(u)
    BY <1>3 DEF MemInv
  <2>8. QED
    BY <1>11, <2>1, <2>3, <2>4, <2>5, <2>6, <2>7 DEF RoomKept
<1>13. ~memMet => \A e \in Facts : memories'[u][e] <= 1
  <2>1. SUFFICES ASSUME ~memMet PROVE \A e \in Facts : memories'[u][e] <= 1
    OBVIOUS
  <2>2. memories[u][f] = 0
    BY <1>1, <1>2, <1>8, <2>1 DEF MemInv, MemAt
  <2>3. \A e \in Facts : memories[u][e] <= 1
    BY <1>3, <2>1 DEF MemInv
  <2>4. QED
    BY <1>4, <1>5, <1>6, <2>2, <2>3
<1>14. ~memMet' =>
         /\ \A w \in ChatUsers, e \in Facts : memories'[w][e] <= 1
         /\ \A d \in Chats : memSaver'[d].step \in {"prune", "insert"} =>
              \A e \in memSaver'[d].fact : memories'[memSaver'[d].user][e] = 0
  BY <1>1, <1>3, <1>6, <1>7, <1>8, <1>13, AloneKeeps
<1>15. QED
  BY <1>7, <1>9, <1>12, <1>14 DEF MemInv

\* What no extraction does: the user deletes a memory, or all.
LEMMA RowsGo ==
  ASSUME MemInv, NEW u \in ChatUsers, NEW k \in [Facts -> Nat], memories' = [memories EXCEPT ![u] = k],
         \A f \in Facts : k[f] <= memories[u][f], UNCHANGED <<memSaver, memMet>>, RoomKept(u)'
  PROVE  MemInv'
<1>1. memories' \in [ChatUsers -> [Facts -> Nat]] /\ memories'[u] = k /\ \A w \in ChatUsers : w # u => memories'[w] = memories[w]
  BY DEF MemInv, MemShape, MemTypeOK
<1>2. MemShape'
  BY <1>1 DEF MemInv, MemShape, MemTypeOK, SaverSound, MemAt
<1>3. ASSUME NEW w \in ChatUsers PROVE RoomKept(w)'
  <2>1. CASE w = u
    BY <2>1
  <2>2. CASE w # u
    <3>1. Inserters(w)' \subseteq Inserters(w) /\ Revived(w)' \subseteq Revived(w)
      BY <1>1, <2>2 DEF Inserters, Revived, Touchers, MemAt
    <3>2. MemBound' = MemBound /\ memMet \in BOOLEAN
      BY DEF MemBound, MemInv, MemShape, MemTypeOK
    <3>3. MemBound \in Nat
      BY BoundIs
    <3>4. QED
      BY <1>1, <2>2, <3>1, <3>2, <3>3, RoomStays DEF MemInv
  <2>3. QED
    BY <2>1, <2>2
<1>4. ASSUME NEW w \in ChatUsers, NEW f \in Facts
      PROVE memories'[w][f] \in Nat /\ memories[w][f] \in Nat /\ memories'[w][f] <= memories[w][f]
  <2>1. memories[w] \in [Facts -> Nat] /\ memories'[w] \in [Facts -> Nat]
    BY <1>1 DEF MemInv, MemShape, MemTypeOK
  <2>2. CASE w = u
    BY <1>1, <2>1, <2>2
  <2>3. CASE w # u
    BY <1>1, <2>1, <2>3
  <2>4. QED
    BY <2>2, <2>3
<1>5. ~memMet' => \A w \in ChatUsers, f \in Facts : memories'[w][f] <= 1
  BY <1>4 DEF MemInv
<1>6. ASSUME ~memMet', NEW d \in Chats, memSaver'[d].step \in {"prune", "insert"}, NEW f \in memSaver'[d].fact
      PROVE  memories'[memSaver'[d].user][f] = 0
  <2>1. memSaver[d].user \in ChatUsers /\ f \in Facts
    BY <1>6 DEF MemInv, MemShape, SaverSound, MemAt
  <2>2. memories[memSaver[d].user][f] = 0
    BY <1>6 DEF MemInv
  <2>3. memories'[memSaver[d].user][f] \in Nat /\ memories'[memSaver[d].user][f] <= memories[memSaver[d].user][f]
    BY <1>4, <2>1
  <2>4. QED
    BY <2>2, <2>3
<1>7. QED
  BY <1>2, <1>3, <1>5, <1>6 DEF MemInv

LEMMA DeleteMemoryKeeps == ASSUME MemInv, DeleteMemory PROVE MemInv'
<1>1. PICK u \in ChatUsers, f \in Facts : memories[u][f] > 0 /\ memories' = [memories EXCEPT ![u][f] = @ - 1]
  BY DEF DeleteMemory
<1>2. UNCHANGED <<memSaver, memMet>> /\ memories[u] \in [Facts -> Nat] /\ memories \in [ChatUsers -> [Facts -> Nat]]
  BY DEF DeleteMemory, MemInv, MemShape, MemTypeOK
<1>. DEFINE k == [memories[u] EXCEPT ![f] = memories[u][f] - 1]
<1>3. memories' = [memories EXCEPT ![u] = k]
  BY <1>1, <1>2
<1>4. k \in [Facts -> Nat] /\ memories[u][f] = k[f] + 1 /\ \A e \in Facts : e # f => k[e] = memories[u][e]
  BY <1>1, <1>2
<1>. HIDE DEF k
<1>5. \A e \in Facts : k[e] <= memories[u][e]
  BY <1>2, <1>4
<1>6. memories'[u] = k
  BY <1>2, <1>3
<1>7. Inserters(u)' = Inserters(u) /\ Revived(u)' \subseteq Revived(u) \cup {f} /\ MemBound' = MemBound
  BY <1>2, <1>4, <1>6 DEF Inserters, Revived, Touchers, MemAt, MemBound
<1>8. CountForUser(u) = CountForUser(u)' + 1
  <2>1. \A e \in Facts : e # f => memories[u][e] = k[e]
    BY <1>4
  <2>2. Cardinality(RowsOf(memories[u])) = Cardinality(RowsOf(k)) + 1
    BY <1>2, <1>4, <2>1, RowsOneMore
  <2>3. QED
    BY <1>6, <2>2 DEF CountForUser
<1>9. RoomKept(u)'
  <2>1. IsFiniteSet(Revived(u) \cup {f}) /\ Cardinality(Revived(u) \cup {f}) <= Cardinality(Revived(u)) + 1
    <3>1. IsFiniteSet(Revived(u)) /\ Cardinality(Revived(u)) \in Nat
      BY RoomFinite
    <3>2. /\ IsFiniteSet(Revived(u) \cup {f})
          /\ Cardinality(Revived(u) \cup {f}) = IF f \in Revived(u) THEN Cardinality(Revived(u)) ELSE Cardinality(Revived(u)) + 1
      BY <3>1, FS_AddElement
    <3>3. QED
      BY <3>1, <3>2
  <2>2. Cardinality(Revived(u)') <= Cardinality(Revived(u) \cup {f})
    BY <1>7, <2>1, FS_Subset
  <2>3. Cardinality(Revived(u) \cup {f}) \in Nat
    BY <2>1, FS_CardinalityType
  <2>4. /\ Cardinality(Revived(u)') \in Nat
        /\ Cardinality(Inserters(u)) \in Nat /\ Cardinality(Revived(u)) \in Nat
    BY RoomFinite, RoomFiniteNext
  <2>5. CountForUser(u)' \in Nat
    BY <1>4, <1>6, RowsFinite DEF CountForUser
  <2>6. RoomKept(u)
    BY DEF MemInv
  <2>7. QED
    BY <1>7, <1>8, <2>1, <2>2, <2>3, <2>4, <2>5, <2>6, BoundIs DEF RoomKept
<1>10. QED
  BY <1>2, <1>3, <1>4, <1>5, <1>9, RowsGo

LEMMA ClearAllKeeps == ASSUME MemInv, ClearAll PROVE MemInv'
<1>1. PICK u \in ChatUsers : memories' = [memories EXCEPT ![u] = [f \in Facts |-> 0]]
  BY DEF ClearAll
<1>. DEFINE k == [f \in Facts |-> 0]
<1>2. UNCHANGED <<memSaver, memMet>> /\ memories[u] \in [Facts -> Nat] /\ memories \in [ChatUsers -> [Facts -> Nat]]
  BY DEF ClearAll, MemInv, MemShape, MemTypeOK
<1>3. k \in [Facts -> Nat] /\ \A f \in Facts : k[f] = 0
  OBVIOUS
<1>4. memories' = [memories EXCEPT ![u] = k]
  BY <1>1
<1>. HIDE DEF k
<1>5. memories'[u] = k /\ memories' \in [ChatUsers -> [Facts -> Nat]]
  BY <1>2, <1>3, <1>4
<1>6. \A f \in Facts : k[f] <= memories[u][f]
  BY <1>2, <1>3
<1>7. RoomKept(u)'
  <2>1. MemShape'
    BY <1>2, <1>5 DEF MemInv, MemShape, MemTypeOK, SaverSound, MemAt
  <2>2. Cardinality(Inserters(u)') + Cardinality(Revived(u)') <= IF memMet' THEN Cardinality(Chats) ELSE 1
    BY <2>1, RoomAtMostNext
  <2>3. Cardinality(Inserters(u)') \in Nat /\ Cardinality(Revived(u)') \in Nat
    BY RoomFiniteNext
  <2>4. CountForUser(u)' = 0
    BY <1>3, <1>5, RowsNone DEF CountForUser
  <2>5. CASE memMet'
    BY <2>2, <2>3, <2>4, <2>5, BoundIs DEF RoomKept, MemBound
  <2>6. CASE ~memMet'
    BY <2>2, <2>3, <2>4, <2>6, BoundIs DEF RoomKept, MemBound
  <2>7. QED
    BY <2>5, <2>6
<1>8. QED
  BY <1>2, <1>3, <1>4, <1>6, <1>7, RowsGo

LEMMA MemInvStep == MemInv /\ MemNext => MemInv'
<1>. SUFFICES ASSUME MemInv, MemNext PROVE MemInv'
  OBVIOUS
<1>1. ASSUME NEW c \in Chats,
             \/ extractMemories(c) \/ SaveMemory(c) \/ TouchMemory(c)
             \/ pruneIfNeeded(c) \/ InsertMemory(c) \/ ExtractionEnds(c)
      PROVE  MemInv'
  BY <1>1, ExtractKeeps, SaveMemoryKeeps, TouchKeeps, PruneKeeps, InsertKeeps, ExtractionEndsKeeps
<1>2. QED
  BY <1>1, DeleteMemoryKeeps, ClearAllKeeps DEF MemNext

-----------------------------------------------------------------------------
(* Together.                                                               *)

PlatformInv ==
  /\ focus \in Foci
  /\ focus \in {"tunnels", "ingress"} => TunInv
  /\ focus = "firewall" => FwInv
  /\ focus = "tools" => ToolInv
  /\ focus = "accounts" => AcctInv
  /\ focus = "parts" => PartInv
  /\ focus = "catalog" => CatInv
  /\ focus \in {"alerts", "heal"} => AlertInv
  /\ focus = "loops" => LoopInv
  /\ focus = "chat" => ChatInv
  /\ focus = "memory" => MemInv
  /\ focus = "databases" => DbInv
  /\ focus = "apps" => AppInv
  /\ PhpInv
  /\ focus = "sites" => SiteInv
  /\ focus # "sites" => \A n \in PhpNames : ~phpSite[n].there

\* Where everything starts.
LEMMA PlatformInvInit == PlatformInit => PlatformInv
<1>. SUFFICES ASSUME PlatformInit PROVE PlatformInv
  OBVIOUS
<1>1. /\ focus \in {"tunnels", "ingress"} => TunInv
      /\ focus = "firewall" => FwInv
      /\ focus = "tools" => ToolInv
      /\ focus = "accounts" => AcctInv
      /\ focus = "parts" => PartInv
      /\ focus = "catalog" => CatInv
      /\ focus \in {"alerts", "heal"} => AlertInv
      /\ focus = "loops" => LoopInv
      /\ focus = "chat" => ChatInv
      /\ focus = "memory" => MemInv
  BY TunInvInit, FwInvInit, ToolInvInit, AcctInvInit, PartInvInit, CatInvInit, AlertInvInit, LoopInvInit,
     ChatInvInit, MemInvInit DEF PlatformInit
<1>2. (focus = "databases" => DbInv) /\ (focus = "apps" => AppInv)
  BY DbInvInit, AppInvInit DEF PlatformInit
<1>3. SiteInv /\ PhpInv
  BY SiteInvInit, PhpInvInit DEF PlatformInit, SiteInit
<1>4. \A n \in PhpNames : ~phpSite[n].there
  BY DEF PlatformInit, SiteInit, PhpInit, NoPhpSite
<1>5. QED
  BY <1>1, <1>2, <1>3, <1>4 DEF PlatformInv, PlatformInit

\* The settings of the runtime are no site's.
LEMMA RuntimesLeaveSites == ASSUME PhpNext PROVE phpSite' = phpSite
<1>1. ASSUME NEW r \in PhpReqs, SettingsRequest(r) PROVE phpSite' = phpSite
  BY <1>1 DEF SettingsRequest, UpdateConfig, WriteIni, WriteFpm, SaveRuntime, RestartAfterConfig, RestoreRow,
     RestoreFiles, InstallExtensions, RemoveExtension, WriteDockerfile, RebuildRuntime, PutBackExtensions
<1>2. QED
  BY <1>1, RuntimeLeavesSites DEF PhpNext, PhpPanelDies

\* Runtimes move, alone or among sites, or rest.
LEMMA PhpMoves ==
  ASSUME PlatformInv, [PlatformNext]_platformVars
  PROVE  /\ PhpInv'
         /\ PhpNext \/ phpReq' = phpReq
         /\ focus # "sites" => phpSite' = phpSite
<1>1. CASE focus = "runtimes" /\ PlatformNext
  <2>1. PhpNext
    BY <1>1 DEF PlatformNext, Move, RuntimesNext
  <2>2. QED
    BY <2>1, PhpInvStep, RuntimesLeaveSites DEF PlatformInv
<1>2. CASE focus = "sites" /\ PlatformNext
  <2>1. SiteNext
    BY <1>2 DEF PlatformNext, Move, SitesNext
  <2>2. PhpInv'
    BY <2>1, PhpInvSites DEF PlatformInv
  <2>3. CASE RuntimeMoves
    BY <1>2, <2>2, <2>3 DEF RuntimeMoves, PhpNext
  <2>4. CASE ~RuntimeMoves
    <3>1. phpReq' = phpReq
      BY <2>1, <2>4 DEF SiteNext, SitePanelDies, CreateSite, StartFranken, CreateSiteHost, InsertSite, UndoSite,
         DeleteSite, UnserveSite, ForgetSite, UpdateSite, SyncSite, phpVars
    <3>2. QED
      BY <1>2, <2>2, <3>1
  <2>5. QED
    BY <2>3, <2>4
<1>3. CASE UNCHANGED phpVars
  BY <1>3, PhpInvSame DEF PlatformInv, phpVars
<1>4. focus \notin {"runtimes", "sites"} /\ PlatformNext => UNCHANGED phpVars
  BY DEF PlatformNext, Move
<1>5. UNCHANGED platformVars => UNCHANGED phpVars
  BY DEF platformVars
<1>6. QED
  BY <1>1, <1>2, <1>3, <1>4, <1>5

\* One component moves; for the others nothing is claimed while they rest.
LEMMA PlatformInvStep == PlatformInv /\ [PlatformNext]_platformVars => PlatformInv'
<1>. SUFFICES ASSUME PlatformInv, [PlatformNext]_platformVars PROVE PlatformInv'
  OBVIOUS
<1>1. focus' = focus
  BY DEF PlatformNext, Move, platformVars
<1>p. PhpInv' /\ (focus' # "sites" => \A n \in PhpNames : ~phpSite'[n].there)
  BY <1>1, PhpMoves DEF PlatformInv
<1>2. CASE focus \in {"tunnels", "ingress"} /\ PlatformNext
  <2>1. TunPanelDies \/ \E r \in TunnelReqs : TunnelRows(r) \/ TunnelIngress(r)
    BY <1>2 DEF PlatformNext, Move, TunnelsNext
  <2>2. TunInv'
    BY <1>2, <2>1, TunDies, TunRowSteps, TunIngressSteps DEF PlatformInv
  <2>3. QED
    BY <1>1, <1>2, <2>2, <1>p DEF PlatformInv
<1>3. CASE focus = "firewall" /\ PlatformNext
  <2>1. FwNext
    BY <1>3 DEF PlatformNext, Move, FirewallNext
  <2>2. QED
    BY <1>1, <1>3, <2>1, <1>p, FwInvStep DEF PlatformInv
<1>4. CASE focus = "tools" /\ PlatformNext
  <2>1. ToolNext
    BY <1>4 DEF PlatformNext, Move
  <2>2. QED
    BY <1>1, <1>4, <2>1, <1>p, ToolInvStep DEF PlatformInv
<1>5. CASE focus = "accounts" /\ PlatformNext
  <2>1. AcctNext
    BY <1>5 DEF PlatformNext, Move, AccountsNext
  <2>2. QED
    BY <1>1, <1>5, <2>1, <1>p, AcctInvStep DEF PlatformInv
<1>6. CASE focus = "parts" /\ PlatformNext
  <2>1. PartNext
    BY <1>6 DEF PlatformNext, Move, PartsNext
  <2>2. QED
    BY <1>1, <1>6, <2>1, <1>p, PartInvStep DEF PlatformInv
<1>7. CASE focus = "catalog" /\ PlatformNext
  <2>1. CatNext
    BY <1>7 DEF PlatformNext, Move, CatalogNext
  <2>2. QED
    BY <1>1, <1>7, <2>1, <1>p, CatInvStep DEF PlatformInv
<1>8. CASE focus \in {"alerts", "heal"} /\ PlatformNext
  <2>1. AlertNext
    BY <1>8 DEF PlatformNext, Move, AlertsNext, HealNext
  <2>2. QED
    BY <1>1, <1>8, <2>1, <1>p, AlertInvStep DEF PlatformInv
<1>9. CASE focus = "loops" /\ PlatformNext
  <2>1. LoopNext
    BY <1>9 DEF PlatformNext, Move, OneLoopNext
  <2>2. QED
    BY <1>1, <1>9, <2>1, <1>p, LoopInvStep DEF PlatformInv
<1>10. CASE focus = "chat" /\ PlatformNext
  <2>1. ChatNext
    BY <1>10 DEF PlatformNext, Move, ChatsNext
  <2>2. QED
    BY <1>1, <1>10, <2>1, <1>p, ChatInvStep DEF PlatformInv
<1>11. CASE focus = "memory" /\ PlatformNext
  <2>1. MemNext
    BY <1>11 DEF PlatformNext, Move
  <2>2. QED
    BY <1>1, <1>11, <2>1, <1>p, MemInvStep DEF PlatformInv
<1>12. CASE focus = "databases" /\ PlatformNext
  <2>1. DbNext
    BY <1>12 DEF PlatformNext, Move
  <2>2. QED
    BY <1>1, <1>12, <2>1, <1>p, DbInvStep DEF PlatformInv
<1>13. CASE focus = "apps" /\ PlatformNext
  <2>1. AppNext
    BY <1>13 DEF PlatformNext, Move, AppsNext
  <2>2. QED
    BY <1>1, <1>13, <2>1, <1>p, AppInvStep DEF PlatformInv
<1>14. CASE focus = "runtimes" /\ PlatformNext
  BY <1>1, <1>14, <1>p DEF PlatformInv
<1>15. CASE focus = "sites" /\ PlatformNext
  <2>1. SiteNext
    BY <1>15 DEF PlatformNext, Move, SitesNext
  <2>2. SiteInv'
    BY <1>15, <2>1, SiteInvStep DEF PlatformInv
  <2>3. QED
    BY <1>1, <1>15, <1>p, <2>2 DEF PlatformInv
<1>16. CASE UNCHANGED platformVars
  <2>1. UNCHANGED <<focus, tunnelVars, fwVars, toolVars, acctVars, partVars, catVars, alertVars, lpVars, chatVars, memVars>>
    BY <1>16 DEF platformVars
  <2>2. UNCHANGED <<dbVars, appVars, siteVars>>
    BY <1>16 DEF platformVars, siteOwn, siteVars
  <2>3. (focus' = "databases" => DbInv') /\ (focus' = "apps" => AppInv') /\ (focus' = "sites" => SiteInv')
    BY <2>1, <2>2, DbInvSame, AppInvSame, SiteInvSame DEF PlatformInv
  <2>4. QED
    BY <1>p, <2>1, <2>3, TunInvSame, FwInvSame, ToolInvSame, AcctInvSame, PartInvSame, CatInvSame, AlertInvSame,
       LoopInvSame, ChatInvSame, MemInvSame DEF PlatformInv
<1>17. QED
  BY <1>2, <1>3, <1>4, <1>5, <1>6, <1>7, <1>8, <1>9, <1>10, <1>11, <1>12, <1>13, <1>14, <1>15, <1>16
     DEF PlatformInv, Foci

\* The invariant holds throughout.
LEMMA PlatformInvHolds == PlatformSpec => []PlatformInv
  BY PlatformInvInit, PlatformInvStep, PTL DEF PlatformSpec

-----------------------------------------------------------------------------
(* Types.                                                                  *)

\* Handlers that have acted in these five minutes, and those that still ask the AI, are handlers.
Diagnosing == {h \in Handlers : alertHeal[h].step = "diagnose"}
HealCounted == healCycles + Cardinality(Diagnosing) <= Cardinality(Handlers)

\* Sets of handlers.
LEMMA HandlersFinite ==
  ASSUME NEW S \in SUBSET Handlers
  PROVE  /\ IsFiniteSet(S) /\ Cardinality(S) \in Nat /\ Cardinality(S) <= Cardinality(Handlers)
         /\ Cardinality(Handlers) \in Nat
<1>1. IsFiniteSet(Handlers)
  BY AlertAssumption DEF AlertAssumption
<1>2. IsFiniteSet(S) /\ Cardinality(S) <= Cardinality(Handlers)
  BY <1>1, FS_Subset
<1> QED
  BY <1>1, <1>2, FS_CardinalityType

\* A count that starts anew fits.
LEMMA HealCountedAnew == healCycles' = 0 => HealCounted'
<1>1. Diagnosing' \in SUBSET Handlers
  BY DEF Diagnosing
<1>2. Cardinality(Diagnosing') \in Nat /\ Cardinality(Diagnosing') <= Cardinality(Handlers)
  BY <1>1, HandlersFinite
<1> QED
  BY <1>2 DEF HealCounted

\* Nobody begins to ask while one has acted; who acts asks no longer.
LEMMA HealCountedStep == ASSUME AlertInv, HealCounted, AlertNext PROVE HealCounted'
<1>1. CASE UNCHANGED healVars
  BY <1>1 DEF healVars, HealCounted, Diagnosing
<1>2. ASSUME NEW l \in CollectLoops, FireAlert(l) PROVE HealCounted'
  <2>a. healCycles' = healCycles /\ alertHeal \in [Handlers -> HealState]
    BY <1>2 DEF FireAlert, AlertInv, AlertTypes
  <2>b. PICK x \in alertEval[l].fire, h \in Handlers :
          /\ alertHeal[h].step = "idle"
          /\ alertHeal' = IF x.mode = "notify" THEN alertHeal
                          ELSE [alertHeal EXCEPT ![h] = [step |-> "check", mode |-> x.mode]]
    BY <1>2 DEF FireAlert
  <2>1. /\ alertHeal[h].step = "idle" /\ healCycles' = healCycles
        /\ \A g \in Handlers : g # h => alertHeal'[g].step = alertHeal[g].step
        /\ alertHeal'[h].step \in {"idle", "check"}
    BY <2>a, <2>b
  <2>2. Diagnosing' = Diagnosing
    BY <2>1 DEF Diagnosing
  <2> QED
    BY <2>1, <2>2 DEF HealCounted
<1>3. ASSUME NEW h \in Handlers, HandleAlert(h) PROVE HealCounted'
  <2>1. CASE healRecent
    <3>1. healCycles' = healCycles /\ Diagnosing' = Diagnosing
      BY <1>3, <2>1 DEF HandleAlert, HealEnds, Diagnosing, AlertInv, AlertTypes, NoHandler
    <3> QED
      BY <3>1 DEF HealCounted
  <2>2. CASE ~healRecent
    <3>1. healCycles' = 0
      BY <1>3, <2>2 DEF HandleAlert, AlertInv, HealSound
    <3> QED
      BY <3>1, HealCountedAnew
  <2> QED
    BY <2>1, <2>2
<1>4. ASSUME NEW h \in Handlers, executeAutoHeal(h) PROVE HealCounted'
  <2>1. h \in Diagnosing /\ Diagnosing' = Diagnosing \ {h} /\ healCycles \in Nat /\ Diagnosing \in SUBSET Handlers
    BY <1>4 DEF executeAutoHeal, HealEnds, Diagnosing, AlertInv, AlertTypes, NoHandler
  <2>2. healCycles' = healCycles \/ healCycles' = healCycles + 1
    BY <1>4 DEF executeAutoHeal
  <2>3. Cardinality(Diagnosing \ {h}) = Cardinality(Diagnosing) - 1
    BY <2>1, HandlersFinite, FS_RemoveElement
  <2>4. Cardinality(Diagnosing') = Cardinality(Diagnosing) - 1
    BY <2>1, <2>3
  <2> QED
    BY <2>1, <2>2, <2>4, HandlersFinite DEF HealCounted
<1>5. CASE FiveMinutesPass \/ AlertPanelDies
  BY <1>5, HealCountedAnew DEF FiveMinutesPass, AlertPanelDies
<1>6. CASE CreateAlertRule \/ UpdateAlertRule \/ DeleteAlertRule \/ CooldownEnds
  BY <1>1, <1>6 DEF CreateAlertRule, UpdateAlertRule, DeleteAlertRule, CooldownEnds
<1>7. ASSUME NEW l \in CollectLoops, Evaluate(l) \/ CheckRule(l) \/ EvaluateEnds(l) PROVE HealCounted'
  BY <1>1, <1>7 DEF Evaluate, CheckRule, EvaluateEnds
<1> QED
  BY <1>2, <1>3, <1>4, <1>5, <1>6, <1>7 DEF AlertNext

\* The types that the other invariants leave out.
TypesBesides ==
  /\ focus \in {"alerts", "heal"} => HealCounted
  /\ focus = "runtimes" => SiteTypeOK

\* At first there are no counts and no sites.
LEMMA TypesBesidesInit == PlatformInit => TypesBesides
<1> SUFFICES ASSUME PlatformInit PROVE TypesBesides
  OBVIOUS
<1>1. focus \in {"alerts", "heal"} => HealCounted
  <2>0. Diagnosing \in SUBSET Handlers
    BY DEF Diagnosing
  <2>1. Cardinality(Diagnosing) <= Cardinality(Handlers) /\ Cardinality(Diagnosing) \in Nat
    BY <2>0, HandlersFinite
  <2>2. focus \in {"alerts", "heal"} => healCycles = 0
    BY DEF PlatformInit, AlertInit
  <2> QED
    BY <2>1, <2>2 DEF HealCounted
<1>2. SiteTypeOK
  BY SiteInvInit DEF PlatformInit, SiteInv
<1> QED
  BY <1>1, <1>2 DEF TypesBesides

\* Runtimes by themselves leave the sites, and only alerts move handlers.
LEMMA TypesBesidesStep == PlatformInv /\ TypesBesides /\ [PlatformNext]_platformVars => TypesBesides'
<1> SUFFICES ASSUME PlatformInv, TypesBesides, [PlatformNext]_platformVars PROVE TypesBesides'
  OBVIOUS
<1>0. focus' = focus
  BY DEF PlatformNext, Move, platformVars
<1>1. ASSUME focus \in {"alerts", "heal"} PROVE HealCounted'
  <2>1. AlertInv /\ HealCounted
    BY <1>1 DEF PlatformInv, TypesBesides
  <2>2. AlertNext \/ UNCHANGED alertVars
    BY <1>1 DEF PlatformNext, Move, AlertsNext, HealNext, platformVars
  <2>3. UNCHANGED alertVars => HealCounted'
    BY <2>1 DEF alertVars, healVars, HealCounted, Diagnosing
  <2> QED
    BY <2>1, <2>2, <2>3, HealCountedStep
<1>2. ASSUME focus = "runtimes" PROVE SiteTypeOK'
  <2>1. SiteTypeOK
    BY <1>2 DEF TypesBesides
  <2>2. UNCHANGED siteOwn
    BY <1>2 DEF PlatformNext, Move, platformVars
  <2>3. phpSite' = phpSite
    BY <1>2, PhpMoves
  <2> QED
    BY <2>1, <2>2, <2>3 DEF SiteTypeOK, siteOwn
<1> QED
  BY <1>0, <1>1, <1>2 DEF TypesBesides

\* Alerts.
LEMMA AlertTyped == AlertInv /\ HealCounted => AlertTypeOK
<1> SUFFICES ASSUME AlertInv, HealCounted PROVE AlertTypeOK
  OBVIOUS
<1>1. healCycles \in 0 .. Cardinality(Handlers)
  <2>1. Diagnosing \in SUBSET Handlers
    BY DEF Diagnosing
  <2>2. Cardinality(Diagnosing) \in Nat /\ Cardinality(Handlers) \in Nat
    BY <2>1, HandlersFinite
  <2> QED
    BY <2>2 DEF AlertInv, AlertTypes, HealCounted
<1>2. ASSUME NEW l \in CollectLoops
      PROVE  /\ \A x \in alertEval[l].left \cup alertEval[l].fire : x.id \in AlertIds
             /\ alertEval[l].busy \in BOOLEAN
  <2>1. alertEval[l] \in EvalState
    BY DEF AlertInv, AlertTypes
  <2> QED
    BY <2>1 DEF EvalState, RuleView
<1> QED
  BY <1>1, <1>2 DEF AlertInv, AlertTypes, HealState, AlertTypeOK

\* Loops.
LEMMA LoopTyped == LoopInv => LoopTypeOK
BY DEF LoopInv, LoopTypes, LoopState, LoopTypeOK

\* The catalog.
LEMMA CatTyped == CatInv => CatTypeOK
<1> SUFFICES ASSUME CatInv PROVE CatTypeOK
  OBVIOUS
<1>1. \A r \in CatReqs : catReq[r].row \in HostRow /\ catReq[r].tags \subseteq CatTags /\ catReq[r].flag \in BOOLEAN
  BY DEF CatInv, CatCalls
<1>2. \A d \in CertDirs : catFiles[d] \subseteq CatCerts \X {"cert", "key"}
  BY DEF CatInv, CatRowsOK, CertFiles
<1> QED
  BY <1>1, <1>2 DEF CatInv, CatRowsOK, CatTypeOK

\* Upstreams and routes.
LEMMA PartTyped == PartInv => PartTypeOK
<1> SUFFICES ASSUME PartInv PROVE PartTypeOK
  OBVIOUS
<1>1. ASSUME NEW h \in PartHosts
      PROVE  /\ partHost[h].there \in BOOLEAN /\ partHost[h].ups \in Seq(PartIdSet)
             /\ \A p \in RoutePaths : partHost[h].routes[p] \in [up : {0} \cup PartIdSet, pos : Nat]
  <2>1. partHost[h] \in PartRows
    BY DEF PartInv, PartRowsOK
  <2> QED
    BY <2>1 DEF PartRows
<1>2. \A r \in PartReqs : partReq[r].step \in PartSteps
  BY DEF PartInv, PartRowsOK, PartCalls
<1> QED
  BY <1>1, <1>2 DEF PartInv, PartRowsOK, PartSteps, PartTypeOK

\* Every variable keeps its type, of whichever component moves: rows and the copies that requests hold are
\* rows, numbers stay within their bounds, and no more handlers act than there are.
THEOREM PlatformTypes == PlatformSpec => []PlatformTypeOK
<1>1. PlatformSpec => [](PlatformInv /\ TypesBesides)
  BY PlatformInvInit, PlatformInvStep, TypesBesidesInit, TypesBesidesStep, PTL DEF PlatformSpec
<1>2. PlatformInv /\ TypesBesides => PlatformTypeOK
  <2> SUFFICES ASSUME PlatformInv, TypesBesides PROVE PlatformTypeOK
    OBVIOUS
  <2>1. /\ focus \in {"tunnels", "ingress"} => TunnelTypeOK
        /\ focus \in {"alerts", "heal"} => AlertTypeOK
        /\ focus = "loops" => LoopTypeOK
        /\ focus = "catalog" => CatTypeOK
        /\ focus = "parts" => PartTypeOK
        /\ focus = "firewall" => FwTypeOK
    BY TunInvSound, AlertTyped, LoopTyped, CatTyped, PartTyped, FwInvSound DEF PlatformInv, TypesBesides
  <2>2. /\ focus = "accounts" => AcctTypeOK
        /\ focus = "tools" => ToolTypeOK
    BY AcctInvSound, ToolInvSound DEF PlatformInv
  <2>3. /\ focus = "chat" => ChatTypeOK
        /\ focus = "memory" => MemTypeOK
    BY DEF PlatformInv, ChatInv, MemInv, MemShape
  <2>4. /\ focus = "databases" => DbTypeOK
        /\ focus = "apps" => AppTypeOK
        /\ focus \in {"runtimes", "sites"} => PhpTypeOK /\ SiteTypeOK
    BY DEF PlatformInv, TypesBesides, DbInv, AppInv, AppGround, PhpInv, SiteInv
  <2> QED
    BY <2>1, <2>2, <2>3, <2>4 DEF PlatformInv, PlatformTypeOK
<1> QED
  BY <1>1, <1>2, PTL

\* A tunnel's file has the rules that were asked for and ends in a rule for everything else, and no two
\* tunnels share a path or a service, unless two requests have met or the panel died in one; what the
\* firewall is told to forget is never the way in.
THEOREM NetworkIsWhole == PlatformSpec => []NetworkWhole
<1>1. PlatformInv => NetworkWhole
  BY TunInvSound, FwInvSound DEF PlatformInv, NetworkWhole
<1>2. QED
  BY PlatformInvHolds, <1>1, PTL

\* Tools change only what their callers' rights allow, and only once a person has confirmed it; an answer
\* that everything went well is given when everything was done.
THEOREM CallsAreSound == PlatformSpec => []CallsSound
<1>1. PlatformInv => CallsSound
  BY ToolInvSound DEF PlatformInv, CallsSound
<1>2. QED
  BY PlatformInvHolds, <1>1, PTL

\* What rows say of each other: an account keeps its one second factor and each code opens it once, a
\* route leads to an upstream of its own host, and a host refers to groups, tags, providers and
\* certificates that are there, unless two requests have met or the panel died in one.
THEOREM RecordsAreSound == PlatformSpec => []RecordsSound
<1>1. PlatformInv => RecordsSound
  BY AcctInvSound, PartInvSound, CatInvSound DEF PlatformInv, RecordsSound
<1>2. QED
  BY PlatformInvHolds, <1>1, PTL

\* In memory and in goroutines: a rule fires once in a cooldown, only after its duration, and self-healing
\* acts once in five minutes unless two alerts were handled together; a plugin that is to run has its
\* loop, and no second one unless a channel was replaced under a loop at work or settings were saved
\* twice at once; a tool that must be confirmed runs on the approval of the turn's own user; a user has MaxMemories memories, and one more for each
\* extraction besides the first where they have met.
THEOREM GoroutinesAreSound == PlatformSpec => []GoroutinesSound
<1>1. PlatformInv => GoroutinesSound
  BY AlertInvSound, LoopInvSound, ChatInvSound, MemInvSound DEF PlatformInv, GoroutinesSound
<1>2. QED
  BY PlatformInvHolds, <1>1, PTL

\* What is installed is what its row says: a database instance has its directory and its volume with its
\* own password, a slug that no other row has, and all that the plugin lists inside; an app has its stack,
\* its containers, its host and its files to itself, with its domain and its version; unless two requests
\* have met at the name, or one was cut short or failed where the code does not take it back.
THEOREM InstallsAreWhole == PlatformSpec => []InstallsWhole
<1>1. PlatformInv => InstallsWhole
  BY DbInvSound, AppInvSound DEF PlatformInv, InstallsWhole
<1>2. QED
  BY PlatformInvHolds, <1>1, PTL

\* The settings that the panel shows of a PHP runtime are those of the files it is built from, and a PHP
\* site that is listed is served, by a host, a runtime and a container of its own.
THEOREM PhpIsWhole == PlatformSpec => []PhpWhole
<1>1. PlatformInv => PhpWhole
  <2>1. PlatformInv => PhpFilesMatch
    BY DEF PlatformInv, PhpInv
  <2>2. PlatformInv => SitesServed
    BY SiteInvSound DEF PlatformInv, SitesServed
  <2>3. QED
    BY <2>1, <2>2 DEF PhpWhole
<1>2. QED
  BY PlatformInvHolds, <1>1, PTL

\* A change of the configuration and the removal of an extension that fail leave the runtime's row as they
\* found it, if no other request has met them.
THEOREM PhpIsUndone == PlatformSpec => PhpUndone
<1>1. ASSUME PlatformInv, [PlatformNext]_platformVars, NEW r \in PhpReqs,
             phpReq[r].step # "failed", phpReq'[r].step = "failed", phpReq[r].op \in {"config", "remove"}, ~phpReq[r].met
      PROVE  phpRow' = phpReq[r].was
  <2>1. PhpNext
    BY <1>1, PhpMoves
  <2>2. QED
    BY <1>1, <2>1, PhpUndoes DEF PlatformInv
<1>2. PlatformInv /\ [PlatformNext]_platformVars =>
        [\A r \in PhpReqs :
           /\ phpReq[r].step # "failed" /\ phpReq'[r].step = "failed"
           /\ phpReq[r].op \in {"config", "remove"} /\ ~phpReq[r].met
           => phpRow' = phpReq[r].was]_phpVars
  BY <1>1
<1>3. QED
  BY PlatformInvHolds, <1>2, PTL DEF PlatformSpec, PhpUndone
=============================================================================
