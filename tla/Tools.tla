----------------------------------- MODULE Tools -----------------------------------
(***************************************************************************)
(* The tools by which others than the web interface work the panel: those  *)
(* the model of a chat calls (src/plugins/ai/tools_builtin.go), and those  *)
(* an MCP client calls with an API token (src/plugins/mcpserver).          *)
(*                                                                         *)
(* A tool is described by what its registration says of it and by what its *)
(* handler does, in order: each change is made by the core API before it   *)
(* returns ("core"), by whoever subscribes to an event the core API        *)
(* publishes ("event"), or by a request to the panel's own HTTP server     *)
(* ("http"), which looks at the token again. Arguments and answers' texts  *)
(* are left out; the turn of a chat and its confirmations are AiChat's.    *)
(***************************************************************************)
EXTENDS Naturals, Sequences

CONSTANTS ApiTokens, Callers,
          Permissions  \* the lists of scopes a token is created with

VARIABLES apiToken,    \* the rows: what each token may do, and whether it is there and in time
          call,        \* the calls of tools
          toolFaults   \* see ToolTypeOK

toolVars == <<apiToken, call, toolFaults>>

NoToken == "none"
ASSUME TokenAssumption == NoToken \notin ApiTokens

-----------------------------------------------------------------------------
(* Descriptions.                                                           *)

Change(via, what) == [via |-> via, what |-> what]
Core(what) == <<Change("core", what)>>
Event(what) == <<Change("event", what)>>
Http(what) == <<Change("http", what)>>

\* A chat's tools: read only; for administrators; and to be confirmed as well.
Tool(n, does, admin, asks) == [name |-> n, does |-> does, admin |-> admin, asks |-> asks]
ReadOnly(names) == {Tool(n, <<>>, FALSE, FALSE) : n \in names}
AdminOnly(n, does) == {Tool(n, does, TRUE, FALSE)}
NeedsConfirmation(n, does) == {Tool(n, does, TRUE, TRUE)}

createHostHandler == Core("host") \o Core("reload")
createProjectHandler == Core("project") \o Event("build")
updateHostHandler == Core("host")
FileReaders == {"read_file", "list_dir"}

HostTools == ReadOnly({"list_hosts", "get_host"}) \cup NeedsConfirmation("create_host", createHostHandler)
ProjectReads == ReadOnly({"list_projects", "get_project", "get_build_log", "get_runtime_log"})
ProjectTools ==
  ReadOnly({"suggest_env_vars", "generate_dockerfile"})
  \cup NeedsConfirmation("deploy_project", Event("build")) \cup NeedsConfirmation("create_project", createProjectHandler)
SystemTools == ReadOnly({"docker_ps", "docker_logs", "get_system_metrics"}) \cup NeedsConfirmation("run_command", Core("command"))
PanelTools == ReadOnly(FileReaders) \cup NeedsConfirmation("trigger_backup", Event("backup"))
              \cup NeedsConfirmation("update_host", updateHostHandler)
registerBatch4Tools == ReadOnly({"diagnose_runtime", "review_code", "suggest_rollback", "summarize_alerts"})
DatabaseTools == ReadOnly({"database_list_instances"})
                 \cup NeedsConfirmation("database_create_instance", Event("instance"))
                 \cup NeedsConfirmation("database_create_database", Core("database"))
QueryTools == NeedsConfirmation("database_create_user", Core("database")) \cup ReadOnly({"database_execute_query"})
ContainerTools == ReadOnly({"docker_list_stacks"})
                  \cup NeedsConfirmation("docker_manage_container", Core("container"))
                  \cup NeedsConfirmation("docker_run_container", Core("container"))
ImageTools == NeedsConfirmation("docker_pull_image", Core("container")) \cup ReadOnly({"docker_get_container_stats"})
registerAppStoreTools == ReadOnly({"appstore_search_apps", "appstore_list_installed"})
                         \cup NeedsConfirmation("appstore_install_app", Event("app"))
registerFileWriteTools == UNION {NeedsConfirmation(n, Core("file")) : n \in {"write_file", "delete_file", "rename_file"}}

\* save_memory is the only tool that anyone may call and that changes something.
DeleteUnasked == ReadOnly({"search_memory", "list_memories"}) \cup {Tool("save_memory", Core("memory"), FALSE, FALSE)}
                 \cup AdminOnly("delete_memory", Core("forget"))
registerMemoryTools ==
  ReadOnly({"search_memory", "list_memories"}) \cup {Tool("save_memory", Core("memory"), FALSE, FALSE)}
  \cup NeedsConfirmation("delete_memory", Core("forget"))
FirewallTools == ReadOnly({"firewall_status", "list_firewall_rules"}) \cup NeedsConfirmation("manage_firewall_rule", Core("firewall"))
registerPHPTools == ReadOnly({"php_list_runtimes", "php_list_sites"})

\* clone_host goes by CoreAPI.CreateHost.
HostOperations == UNION {NeedsConfirmation(n, Core("host")) : n \in {"delete_host", "toggle_host", "clone_host"}}
CaddyTools == ReadOnly({"caddy_status"}) \cup NeedsConfirmation("caddy_restart", Core("caddy"))
              \cup AdminOnly("caddy_reload", Core("reload"))
LifecycleTools == NeedsConfirmation("start_project", Event("start")) \cup NeedsConfirmation("stop_project", Event("stop"))
                  \cup NeedsConfirmation("rollback_project", Event("rollback"))
CleanupTools == NeedsConfirmation("docker_remove_container", Core("container")) \cup NeedsConfirmation("docker_prune", Core("container"))
NotifyTools == ReadOnly({"list_notify_channels"}) \cup AdminOnly("test_notify_channel", Event("test"))
RulesUnasked == ReadOnly({"list_alert_rules"}) \cup NeedsConfirmation("create_alert_rule", Core("rule"))
                \cup AdminOnly("delete_alert_rule", Core("rule"))
AlertRuleTools == ReadOnly({"list_alert_rules"}) \cup NeedsConfirmation("create_alert_rule", Core("rule"))
                  \cup NeedsConfirmation("delete_alert_rule", Core("rule"))

\* run_inspection says it is read only; it keeps its report, and its report is announced.
DeployTools == ReadOnly({"get_system_info"}) \cup NeedsConfirmation("auto_deploy", createProjectHandler)
               \cup AdminOnly("run_inspection", Core("report"))
CronReads == ReadOnly({"list_cron_jobs", "get_cron_job_logs"}) \cup NeedsConfirmation("create_cron_job", Core("task"))
CronOperations == NeedsConfirmation("update_cron_job", Core("task")) \cup NeedsConfirmation("delete_cron_job", Core("task"))
                  \cup NeedsConfirmation("trigger_cron_job", Event("run"))

RegisterBuiltinTools ==
  UNION {HostTools, ProjectReads, ProjectTools, SystemTools, PanelTools, registerBatch4Tools, DatabaseTools, QueryTools,
         ContainerTools, ImageTools, registerAppStoreTools, registerFileWriteTools, registerMemoryTools, FirewallTools,
         registerPHPTools, HostOperations, CaddyTools, LifecycleTools, CleanupTools, NotifyTools, AlertRuleTools,
         DeployTools, CronReads, CronOperations}

-----------------------------------------------------------------------------
(* MCP: each handler asks for a scope first.                               *)

Scope(category, action) == [category |-> category, action |-> action]
Mcp(category, action, does, names) ==
  {[name |-> n, scope |-> Scope(category, action), does |-> does] : n \in names}

HostCalls == Mcp("hosts", "read", <<>>, {"list_hosts"}) \cup Mcp("hosts", "write", Core("host"), {"create_host", "delete_host"})
             \cup Mcp("hosts", "write", Http("host"), {"toggle_host"})
ProjectCalls == Mcp("deploy", "read", <<>>, {"list_projects", "get_project", "get_build_logs"})
                \cup Mcp("deploy", "write", Http("project") \o Http("build"), {"deploy_project"})
                \cup Mcp("deploy", "write", Http("build"), {"build_project"})
StackCalls == Mcp("docker", "read", <<>>, {"list_stacks", "get_stack_logs"})
              \cup Mcp("docker", "write", Http("stack"), {"create_stack", "control_stack"})
DatabaseCalls == Mcp("database", "read", <<>>, {"list_db_instances"}) \cup Mcp("database", "write", Http("instance"), {"create_db_instance"})
                 \cup Mcp("database", "write", <<>>, {"execute_query"})
AiCalls == Mcp("ai", "read", <<>>, {"generate_compose", "diagnose_error"})
UpdateHostCall == Mcp("hosts", "write", Core("host"), {"update_host"})
MonitoringCalls == Mcp("monitoring", "read", <<>>, {"get_system_metrics", "list_alert_rules", "get_alert_history"})
                   \cup Mcp("monitoring", "write", Core("rule"), {"create_alert_rule"})
DeleteAsRead == Mcp("files", "read", <<>>, {"read_file", "list_directory"}) \cup Mcp("files", "read", Core("file"), {"delete_file"})
FileCalls == Mcp("files", "read", <<>>, {"read_file", "list_directory"})
             \cup Mcp("files", "write", Core("file"), {"write_file", "delete_file"})
SystemCalls == Mcp("system", "read", <<>>, {"get_system_info"}) \cup Mcp("system", "write", Core("command"), {"run_command"})
BackupCall == Mcp("backup", "write", Event("backup"), {"trigger_backup"})
FirewallCalls == Mcp("firewall", "read", <<>>, {"firewall_status"}) \cup Mcp("firewall", "write", Core("firewall"), {"manage_firewall_rule"})
ContainerCalls == Mcp("docker", "read", <<>>, {"docker_ps", "docker_logs"}) \cup Mcp("docker", "write", Core("container"), {"docker_run"})
AutoDeployCall == Mcp("deploy", "write", createProjectHandler, {"auto_deploy"})
NotifyCall == Mcp("notify", "read", <<>>, {"list_notify_channels"})
InspectionCall == Mcp("ai", "write", Http("report"), {"run_inspection"})
CronCalls == Mcp("cronjob", "read", <<>>, {"list_cron_jobs", "get_cron_job_logs"})
             \cup Mcp("cronjob", "write", Core("task"), {"create_cron_job", "update_cron_job", "delete_cron_job"})
             \cup Mcp("cronjob", "write", Event("run"), {"trigger_cron_job"})

RegisterTools ==
  UNION {HostCalls, ProjectCalls, StackCalls, DatabaseCalls, AiCalls, UpdateHostCall, MonitoringCalls, FileCalls, SystemCalls,
         BackupCall, FirewallCalls, ContainerCalls, AutoDeployCall, NotifyCall, InspectionCall, CronCalls}

\* A scope without an action stands for every action; "*" is any.
splitScope(p) == IF "action" \in DOMAIN p THEN p ELSE Scope(p.category, "*")

checkPermission(may, s) ==
  \E p \in may : splitScope(p).category \in {"*", s.category} /\ splitScope(p).action \in {"*", s.action}

-----------------------------------------------------------------------------
(* State.                                                                  *)

Everything == {Scope("*", "*")}
Free == [step |-> "free", admin |-> FALSE, asks |-> FALSE, yes |-> FALSE, may |-> {}, token |-> NoToken, name |-> NoToken, does |-> <<>>,
         at |-> 1, made |-> {}, told |-> NoToken]

ToolTypeOK ==
  /\ \A t \in ApiTokens : /\ apiToken[t].state \in {"none", "valid", "expired", "deleted"}
                          /\ apiToken[t].may \in Permissions \cup {Everything, {}}
  /\ \A c \in Callers : /\ DOMAIN call[c] = DOMAIN Free
                        /\ call[c].step \in {"free", "scope", "role", "confirm", "run", "done"}
                        /\ call[c].made \subseteq DOMAIN call[c].does
                        /\ call[c].told \in {NoToken, "refused", "error", "warning", "ok"}
  /\ toolFaults \subseteq {"unasked",  \* a change nobody was asked about
                           "viewer",   \* a change for one who is not an administrator
                           "scope",    \* a change the token's scopes do not allow
                           "token"}    \* a change for a token that was not valid when the panel looked last

ToolInit ==
  /\ apiToken = [t \in ApiTokens |-> [state |-> "none", may |-> {}]]
  /\ call = [c \in Callers |-> Free]
  /\ toolFaults = {}

ToolAt(c, step) == call[c].step = step
ToolGo(c, r) == call' = [call EXCEPT ![c] = r]
Tell(c, told) == ToolGo(c, [call[c] EXCEPT !.step = "done", !.told = told])
Valid(t) == apiToken[t].state = "valid"

-----------------------------------------------------------------------------
(* Tokens.                                                                 *)

\* No list of scopes, and an empty one, mean all of them.
CreateToken ==
  /\ \E t \in ApiTokens, may \in Permissions :
       /\ apiToken[t].state = "none"
       /\ apiToken' = [apiToken EXCEPT ![t] = [state |-> "valid", may |-> IF may = {} THEN Everything ELSE may]]
  /\ UNCHANGED <<call, toolFaults>>

DeleteToken ==
  /\ \E t \in ApiTokens : /\ apiToken[t].state \in {"valid", "expired"}
                          /\ apiToken' = [apiToken EXCEPT ![t] = [state |-> "deleted", may |-> {}]]
  /\ UNCHANGED <<call, toolFaults>>

\* Time passes.
TokenExpires ==
  /\ \E t \in ApiTokens : Valid(t) /\ apiToken' = [apiToken EXCEPT ![t].state = "expired"]
  /\ UNCHANGED <<call, toolFaults>>

-----------------------------------------------------------------------------
(* Calls.                                                                  *)

\* A chat's model asks for a tool; the role is the one its turn began with.
AskTool(c) ==
  /\ ToolAt(c, "free")
  /\ \E x \in RegisterBuiltinTools, admin \in BOOLEAN :
       ToolGo(c, [Free EXCEPT !.step = "role", !.admin = admin, !.asks = x.asks, !.name = x.name, !.does = x.does,
                              !.may = IF x.admin THEN {"admin"} ELSE {"anyone"}])
  /\ UNCHANGED <<apiToken, toolFaults>>

CheckRole(c) ==
  /\ ToolAt(c, "role")
  /\ IF "admin" \in call[c].may /\ ~call[c].admin THEN Tell(c, "refused")
     ELSE ToolGo(c, [call[c] EXCEPT !.step = IF call[c].asks THEN "confirm" ELSE "run"])
  /\ UNCHANGED <<apiToken, toolFaults>>

Decide(c) ==
  /\ ToolAt(c, "confirm")
  /\ \/ ToolGo(c, [call[c] EXCEPT !.step = "run", !.yes = TRUE])
     \/ Tell(c, "refused")
  /\ UNCHANGED <<apiToken, toolFaults>>

\* The token is looked up, and what it may do goes with the request.
mcpMiddleware(c) ==
  /\ ToolAt(c, "free")
  /\ \E t \in ApiTokens, x \in RegisterTools :
       /\ Valid(t)
       /\ ToolGo(c, [Free EXCEPT !.step = "scope", !.token = t, !.may = apiToken[t].may, !.name = x.name, !.does = x.does])
  /\ UNCHANGED <<apiToken, toolFaults>>

ScopeOf(c) == (CHOOSE x \in RegisterTools : x.name = call[c].name).scope

AskNothing(c) ==
  /\ ToolAt(c, "scope")
  /\ ToolGo(c, [call[c] EXCEPT !.step = "run"])
  /\ UNCHANGED <<apiToken, toolFaults>>

requirePerm(c) ==
  /\ ToolAt(c, "scope")
  /\ IF checkPermission(call[c].may, ScopeOf(c)) THEN ToolGo(c, [call[c] EXCEPT !.step = "run"])
     ELSE Tell(c, "refused")
  /\ UNCHANGED <<apiToken, toolFaults>>

ByMcp(c) == call[c].token # NoToken
Harmless == {"memory", "reload", "test", "report"}

\* What the next change, if it is made, is to be blamed for.
Faults(c, x) ==
  IF ByMcp(c)
  THEN {f \in {"scope"} : ~checkPermission(call[c].may, Scope(ScopeOf(c).category, "write"))}
       \cup {f \in {"token"} : x.via = "http" /\ ~Valid(call[c].token)}
  ELSE {f \in {"unasked"} : ~call[c].yes /\ x.what \notin Harmless}
       \cup {f \in {"viewer"} : ~call[c].admin /\ x.what # "memory"}

NextChange(c) == call[c].does[call[c].at]
Make(c, made, r) ==
  /\ ToolGo(c, [r EXCEPT !.made = @ \cup {i \in {call[c].at} : made}, !.at = @ + 1])
  /\ toolFaults' = toolFaults \cup (IF made THEN Faults(c, NextChange(c)) ELSE {})

\* The second change of a handler that fails is told as a warning, but for the build that
\* deploy_project asks for, whose answer is not looked at.
AfterError(c) ==
  IF call[c].at = 1 THEN [call[c] EXCEPT !.step = "done", !.told = "error"]
  ELSE IF NextChange(c).via = "http" THEN call[c]
  ELSE [call[c] EXCEPT !.step = "done", !.told = "warning"]

Running(c, via) == ToolAt(c, "run") /\ call[c].at <= Len(call[c].does) /\ NextChange(c).via = via

\* What fails may have been done in part.
CallCore(c) ==
  /\ Running(c, "core")
  /\ \/ Make(c, TRUE, call[c])
     \/ \E made \in BOOLEAN : Make(c, made, AfterError(c))
  /\ UNCHANGED apiToken

\* Nobody subscribes to the other events; who does may refuse, and only logs it.
Subscribed == {"build", "backup", "run"}
PublishEvent(c) ==
  /\ Running(c, "event")
  /\ \E made \in BOOLEAN : (made => NextChange(c).what \in Subscribed) /\ Make(c, made, call[c])
  /\ UNCHANGED apiToken

RequestUnchecked(c) ==
  /\ Running(c, "http")
  /\ \/ Make(c, TRUE, call[c])
     \/ \E made \in BOOLEAN : Make(c, made, AfterError(c))
  /\ UNCHANGED apiToken

\* The panel's own request is let in as any other; after that it may fail, or take longer than
\* the caller waits.
RequestSelf(c) ==
  /\ Running(c, "http")
  /\ \/ Valid(call[c].token) /\ Make(c, TRUE, call[c])
     \/ \E made \in BOOLEAN : (made => Valid(call[c].token)) /\ Make(c, made, AfterError(c))
  /\ UNCHANGED apiToken

AnswerCall(c) ==
  /\ ToolAt(c, "run") /\ call[c].at > Len(call[c].does)
  /\ \/ Tell(c, "ok")
     \/ call[c].does = <<>> /\ Tell(c, "error")
  /\ UNCHANGED <<apiToken, toolFaults>>

CallEnds(c) ==
  /\ ToolAt(c, "done") /\ ToolGo(c, Free)
  /\ UNCHANGED <<apiToken, toolFaults>>

ToolNext ==
  \/ CreateToken \/ DeleteToken \/ TokenExpires
  \/ \E c \in Callers : \/ AskTool(c) \/ CheckRole(c) \/ Decide(c) \/ mcpMiddleware(c) \/ requirePerm(c)
                        \/ CallCore(c) \/ PublishEvent(c) \/ RequestSelf(c) \/ AnswerCall(c) \/ CallEnds(c)

\* Whoever works the panel by a tool changes nothing but what was asked for: in a chat, nothing
\* the user has not confirmed, save the user's memories, a reload of Caddy, a test message and an
\* inspection's report, and for a viewer nothing but memories; by an API token, nothing its
\* scopes do not let it write, and nothing by a request of the panel to itself once the token is
\* deleted or out of date. An answer that all is done is true of all but what was only announced
\* as an event, and the build of a project just created.
ToolsSound ==
  /\ toolFaults = {}
  /\ \A c \in Callers : call[c].told = "ok" =>
       \A i \in DOMAIN call[c].does \ call[c].made :
         \/ call[c].does[i].via = "event"
         \/ i > 1 /\ call[c].does[i] = Change("http", "build")
=============================================================================
