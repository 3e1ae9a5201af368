-------------------------------- MODULE Events --------------------------------
(***************************************************************************)
(* internal/plugin/eventbus.go, internal/notify and who uses them: plugins *)
(* subscribe when the panel starts them, main subscribes the notifier      *)
(* after they have started, and the core API asks for the work of a plugin *)
(* by publishing.                                                          *)
(*                                                                         *)
(* Publish looks the handlers up under the lock and calls them one after   *)
(* the other outside it; a handler that panics is passed over.  A type is  *)
(* written as the sequence of its words: deploy.build.failed is            *)
(* <<"deploy", "build", "failed">>, the filter deploy.* <<"deploy", "*">>. *)
(***************************************************************************)
EXTENDS Naturals, FiniteSets, SequencesExt

CONSTANTS
  Channels,   \* notification channels
  Filters,    \* what a channel may listen to: sets of patterns, {} for everything
  MaxPubs     \* publications in a behaviour

ASSUME EventsAssumption == MaxPubs \in Nat

VARIABLES
  evBoot,     \* "off", "plugins", "started", "up": how far main has come
  evCron,     \* whether the cronjob plugin is enabled: the only one whose handler asks
  evSubs,     \* type -> the handlers subscribed to it, in order
  evChan,     \* channel -> [there, enabled, events]
  evPub,      \* the publications: [type, up, left, ran, calm, did]
  evSends     \* [pub, ch, step]: the goroutines of Send; step "sending", "sent", "failed"

evVars == <<evBoot, evCron, evSubs, evChan, evPub, evSends>>

TriggerBuild == <<"deploy", "trigger_build">>
BuildFailed == <<"deploy", "build", "failed">>
BackupTrigger == <<"backup", "trigger">>
AlertFired == <<"monitoring", "alert", "fired">>
CronTrigger == <<"cronjob", "trigger">>
TaskFailed == <<"cronjob", "task", "failed">>
CreateInstance == <<"database", "create_instance">>

\* What the core API publishes for a caller, and what plugins publish by themselves.
CoreCommands == {TriggerBuild, BackupTrigger, CronTrigger, CreateInstance}
Background == {AlertFired, TaskFailed}

\* The patterns main subscribes the notifier to: the bus knows each as a type of that name.
NotifierTypes == {<<"deploy", "*">>, <<"backup", "*">>, <<"monitoring", "alert", "*">>, <<"system", "inspection", "*">>,
                  <<"system", "selfheal", "*">>, TaskFailed}

Subscribe(subs, type, who) == [subs EXCEPT ![type] = Append(@, who)]

EvTypes == CoreCommands \cup Background \cup {BuildFailed} \cup NotifierTypes

EvInit ==
  /\ evBoot = "off"
  /\ evCron \in BOOLEAN
  /\ evSubs = [t \in EvTypes |-> <<>>]
  /\ evChan \in [Channels -> [there : {FALSE}, enabled : {FALSE}, events : {{}}]]
  /\ evPub = <<>>
  /\ evSends = {}

(***************************************************************************)
(* Starting the panel.                                                     *)
(***************************************************************************)

\* InitAll: a disabled plugin is initialised too, so its handlers are subscribed.
InitAll ==
  /\ evBoot = "off"
  /\ evBoot' = "plugins"
  /\ evSubs' = Subscribe(Subscribe(Subscribe(Subscribe(evSubs, AlertFired, "selfheal"), BuildFailed, "diagnose"),
                                   BackupTrigger, "backup"), TriggerBuild, "deploy")
  /\ UNCHANGED <<evCron, evChan, evPub, evSends>>

SubscribeAgain(subs) == Subscribe(subs, CronTrigger, "cron")

\* The cronjob plugin subscribes in Start, once: the bus cannot unsubscribe.
CronSubscribe(subs) ==
  IF subs[CronTrigger] = <<>> THEN Subscribe(subs, CronTrigger, "cron") ELSE subs

StartAll ==
  /\ evBoot = "plugins"
  /\ evBoot' = "started"
  /\ evSubs' = IF evCron THEN CronSubscribe(evSubs) ELSE evSubs
  /\ UNCHANGED <<evCron, evChan, evPub, evSends>>

\* main subscribes the notifier when plugins already run, then serves requests.
SubscribeNotifier ==
  /\ evBoot = "started"
  /\ evBoot' = "up"
  /\ evSubs' = [t \in EvTypes |-> IF t \in NotifierTypes THEN Append(evSubs[t], "notifier") ELSE evSubs[t]]
  /\ UNCHANGED <<evCron, evChan, evPub, evSends>>

EnableCron ==
  /\ evBoot = "up" /\ ~evCron
  /\ evCron' = TRUE
  /\ evSubs' = CronSubscribe(evSubs)
  /\ UNCHANGED <<evBoot, evChan, evPub, evSends>>

\* A disabled plugin keeps its handlers.
DisableCron ==
  /\ evBoot = "up" /\ evCron
  /\ evCron' = FALSE
  /\ UNCHANGED <<evBoot, evSubs, evChan, evPub, evSends>>

(***************************************************************************)
(* Publishing.                                                             *)
(***************************************************************************)

\* A channel's filter: no pattern is every event; "*" is; a type is itself; x.* is what begins with x.
matchesEvent(events, type) ==
  \/ events = {}
  \/ \E p \in events :
       \/ p = <<"*">> \/ p = type
       \/ /\ Last(p) = "*" /\ Len(p) > 1
          /\ IsStrictPrefix(Front(p), type)

Listening(c, type) == evChan[c].there /\ evChan[c].enabled /\ matchesEvent(evChan[c].events, type)

\* Publish: the handlers of exactly this type, then those of "*", of which there are none.
Publish(type) ==
  /\ Len(evPub) < MaxPubs
  /\ evPub' = Append(evPub, [type |-> type, up |-> evBoot = "up", left |-> evSubs[type], ran |-> <<>>,
                             calm |-> [c \in Channels |-> IF Listening(c, type) THEN "on" ELSE "off"], did |-> {}])
  /\ UNCHANGED <<evBoot, evCron, evSubs, evChan, evSends>>

\* What a plugin publishes from its own goroutines, from when it was started.
PublishBackground(type) ==
  /\ type \in Background /\ evBoot \in {"started", "up"}
  /\ type = TaskFailed => evCron
  /\ Publish(type)

\* A build has failed; builds begin with a request.
PublishBuildFailed == evBoot = "up" /\ Publish(BuildFailed)

\* The core API: success means that the event was published.
PublishCommand(type) == evBoot = "up" /\ type \in CoreCommands /\ Publish(type)

\* The handlers.  cron looks at the plugin's stop channel; the others do not know whether
\* their plugin is enabled.  diagnose wants the deployment's number as a float64 and the
\* event carries a uint: it returns.  notifier only takes what the bus gives it.
Effect(who) ==
  CASE who = "cron" -> IF evCron THEN {"run"} ELSE {}
    [] who = "deploy" -> {"build"}
    [] who = "backup" -> {"backup"}
    [] who = "selfheal" -> {"heal"}
    [] who = "diagnose" -> {}
    [] who = "notifier" -> {"notify"}

SendToDisabled(n) ==
  {[pub |-> n, ch |-> c, step |-> "sending"] : c \in {c \in Channels : evChan[c].there /\ matchesEvent(evChan[c].events, evPub[n].type)}}

\* Send: the enabled channels as they are now, and a goroutine for each that matches.
Send(n) ==
  {[pub |-> n, ch |-> c, step |-> "sending"] : c \in {c \in Channels : Listening(c, evPub[n].type)}}

\* The next handler of publication n runs, or panics before it has done anything.
CallHandler(n) ==
  LET who == Head(evPub[n].left) IN
  /\ evPub[n].left # <<>>
  /\ \/ /\ evPub' = [evPub EXCEPT ![n].left = Tail(@), ![n].ran = Append(@, who), ![n].did = @ \cup Effect(who)]
        /\ evSends' = IF who = "notifier" THEN evSends \cup Send(n) ELSE evSends
     \/ /\ evPub' = [evPub EXCEPT ![n].left = Tail(@), ![n].did = @ \cup {"panic"}]
        /\ UNCHANGED evSends
  /\ UNCHANGED <<evBoot, evCron, evSubs, evChan>>

\* A goroutine of Send ends; what its channel needs may be missing, the other side may refuse.
Deliver(s) ==
  /\ s \in evSends /\ s.step = "sending"
  /\ \E result \in {"sent", "failed"} : evSends' = (evSends \ {s}) \cup {[s EXCEPT !.step = result]}
  /\ UNCHANGED <<evBoot, evCron, evSubs, evChan, evPub>>

(***************************************************************************)
(* Channels.                                                               *)
(***************************************************************************)

\* A channel that changes: who was on or off when a publication began no longer is for certain.
Touch(c) == evPub' = [n \in DOMAIN evPub |-> IF evPub[n].left # <<>> THEN [evPub[n] EXCEPT !.calm[c] = "touched"] ELSE evPub[n]]

\* The row is made enabled whatever the request says: false is the zero value, which gorm leaves to the default.
CreateChannel(c) ==
  /\ evBoot = "up" /\ ~evChan[c].there
  /\ \E f \in Filters : evChan' = [evChan EXCEPT ![c] = [there |-> TRUE, enabled |-> TRUE, events |-> f]]
  /\ Touch(c)
  /\ UNCHANGED <<evBoot, evCron, evSubs, evSends>>

\* Only the columns that the request names.
UpdateChannel(c) ==
  /\ evBoot = "up" /\ evChan[c].there
  /\ \/ \E b \in BOOLEAN : evChan' = [evChan EXCEPT ![c].enabled = b]
     \/ \E f \in Filters : evChan' = [evChan EXCEPT ![c].events = f]
  /\ Touch(c)
  /\ UNCHANGED <<evBoot, evCron, evSubs, evSends>>

DeleteChannel(c) ==
  /\ evBoot = "up" /\ evChan[c].there
  /\ evChan' = [evChan EXCEPT ![c] = [there |-> FALSE, enabled |-> FALSE, events |-> {}]]
  /\ Touch(c)
  /\ UNCHANGED <<evBoot, evCron, evSubs, evSends>>

EvNext ==
  \/ InitAll \/ StartAll \/ SubscribeNotifier
  \/ EnableCron \/ DisableCron
  \/ \E t \in Background : PublishBackground(t)
  \/ \E t \in CoreCommands : PublishCommand(t)
  \/ PublishBuildFailed
  \/ \E n \in DOMAIN evPub : CallHandler(n)
  \/ \E s \in evSends : Deliver(s)
  \/ \E c \in Channels : CreateChannel(c) \/ UpdateChannel(c) \/ DeleteChannel(c)

EvSpec == EvInit /\ [][EvNext]_evVars

Whos == {"selfheal", "diagnose", "backup", "deploy", "cron", "notifier"}

EvTypeOK ==
  /\ evBoot \in {"off", "plugins", "started", "up"}
  /\ evCron \in BOOLEAN
  /\ \A t \in EvTypes : evSubs[t] \in Seq(Whos)
  /\ \A c \in Channels : evChan[c].there \in BOOLEAN /\ evChan[c].enabled \in BOOLEAN
  /\ Len(evPub) <= MaxPubs
  /\ \A n \in DOMAIN evPub : evPub[n].type \in EvTypes /\ evPub[n].left \in Seq(Whos)
  /\ \A s \in evSends : s.pub \in DOMAIN evPub /\ s.ch \in Channels /\ s.step \in {"sending", "sent", "failed"}

(***************************************************************************)
(* Properties.                                                             *)
(***************************************************************************)

\* The channels that publication n was sent to.
SentTo(n) == {s.ch : s \in {s \in evSends : s.pub = n}}

\* One publication is handled once: a handler is not called twice for it, although a plugin
\* is stopped and started and the bus cannot unsubscribe (eventbus.go, cronjob Start).
HandledOnce == \A n \in DOMAIN evPub : IsInjective(evPub[n].ran)

\* A failed task that is published when the panel is up reaches each channel that was on when
\* it was published and was left alone, and no channel that was off, unless the handler
\* panicked (main.go, notifier.go Send and matchesEvent).
FailuresNotified ==
  \A n \in DOMAIN evPub :
    LET p == evPub[n] IN
    (p.type = TaskFailed /\ p.up /\ p.left = <<>> /\ "panic" \notin p.did) =>
      \A c \in Channels : /\ p.calm[c] = "on" => c \in SentTo(n)
                          /\ p.calm[c] = "off" => c \notin SentTo(n)

\* The bus and the notifier: each event handled once, each failed task sent where it should be.
EventsSound == HandledOnce /\ FailuresNotified

\* What main.go says above its subscriptions: the notifier is subscribed to the bus for deploy,
\* backup and monitoring events, so each of them that is published when the panel is up is
\* handed to it.
NotifierHears ==
  \A n \in DOMAIN evPub :
    LET p == evPub[n] IN
    (p.left = <<>> /\ "panic" \notin p.did /\ p.up /\ Head(p.type) \in {"deploy", "backup", "monitoring"}) => "notify" \in p.did
=============================================================================
