---------------------------------- MODULE Alerts ----------------------------------
(***************************************************************************)
(* Alert rules (src/plugins/monitoring/alerter.go, service.go) and what    *)
(* the AI plugin does about a fired alert (src/plugins/ai/selfheal.go).    *)
(*                                                                         *)
(* Collection loops evaluate the rules, one loop at a time under the       *)
(* alerter's mutex; the counts of violations are in memory. An alert is an *)
(* event, and a goroutine handles it; disabling the AI plugin does not     *)
(* unsubscribe its handler, which therefore has no guard here.             *)
(*                                                                         *)
(* A rule's last_fired_at is the number of its last firing, and            *)
(* alertCooled the last firing whose cooldown is over. The metric's value  *)
(* is a choice at each evaluation.                                         *)
(***************************************************************************)
EXTENDS Naturals, FiniteSets

CONSTANTS AlertIds,
          CollectLoops, \* collection loops that may evaluate at the same time
          Handlers,     \* goroutines that may handle an alert at the same time
          MaxDuration, MaxFirings

ASSUME AlertAssumption ==
  "none" \notin CollectLoops /\ MaxDuration \in Nat \ {0} /\ MaxFirings \in Nat /\ IsFiniteSet(Handlers)

VARIABLES alertRule,   \* the rows
          alertCount,  \* violations in a row, in memory
          alertCooled,
          alertEval,   \* the loops: rules left to check, and the rule to be fired
          alertLock,   \* the loop that has the mutex, or "none"
          alertStreak, \* evaluations in a row that have seen the rule violated
          alertFaults, \* "early": fired in the cooldown; "short": fired without its duration
          alertHeal,   \* the handlers
          healRecent,  \* lastHealTime is less than five minutes ago
          healCycles,  \* handlers that have acted in these five minutes
          healMet      \* two handlers have been at work at the same time

evalVars == <<alertRule, alertCount, alertCooled, alertEval, alertLock, alertStreak, alertFaults>>
healVars == <<alertHeal, healRecent, healCycles, healMet>>
alertVars == <<evalVars, healVars>>

Modes == {"notify", "suggest", "auto"}
AlertRow == [there : BOOLEAN, on : BOOLEAN, duration : 1..MaxDuration, mode : Modes, fired : 0..MaxFirings]
NoAlertRule == [there |-> FALSE, on |-> FALSE, duration |-> 1, mode |-> "notify", fired |-> 0]
Unlocked == "none"
Nobody == {}

AlertTypeOK ==
  /\ alertRule \in [AlertIds -> AlertRow]
  /\ alertCount \in [AlertIds -> 0..MaxDuration] /\ alertStreak \in [AlertIds -> 0..MaxDuration]
  /\ alertCooled \in [AlertIds -> 0..MaxFirings]
  /\ \A l \in CollectLoops : /\ \A x \in alertEval[l].left \cup alertEval[l].fire : x.id \in AlertIds
                             /\ alertEval[l].busy \in BOOLEAN
  /\ alertLock \in CollectLoops \cup {Unlocked}
  /\ alertFaults \subseteq {"early", "short"}
  /\ alertHeal \in [Handlers -> [step : {"idle", "check", "diagnose"}, mode : Modes]]
  /\ healRecent \in BOOLEAN /\ healCycles \in 0..Cardinality(Handlers) /\ healMet \in BOOLEAN

Resting == [busy |-> FALSE, left |-> Nobody, fire |-> Nobody]
NoHandler == [step |-> "idle", mode |-> "notify"]

AlertInit ==
  /\ alertRule = [i \in AlertIds |-> NoAlertRule]
  /\ alertCount = [i \in AlertIds |-> 0] /\ alertStreak = [i \in AlertIds |-> 0]
  /\ alertCooled = [i \in AlertIds |-> 0]
  /\ alertEval = [l \in CollectLoops |-> Resting] /\ alertLock = Unlocked /\ alertFaults = {}
  /\ alertHeal = [h \in Handlers |-> NoHandler]
  /\ healRecent = FALSE /\ healCycles = 0 /\ healMet = FALSE

-----------------------------------------------------------------------------
(* Rules. A count outlives its rule's being switched off.                  *)

CreateAlertRule ==
  /\ \E i \in AlertIds, d \in 1..MaxDuration, m \in Modes :
       /\ ~alertRule[i].there
       /\ alertRule[i].fired = 0  \* ids are not used again
       /\ alertRule' = [alertRule EXCEPT ![i] = [there |-> TRUE, on |-> TRUE, duration |-> d, mode |-> m,
                                                 fired |-> 0]]
  /\ UNCHANGED <<alertCount, alertCooled, alertEval, alertLock, alertStreak, alertFaults, healVars>>

UpdateAlertRule ==
  /\ \E i \in AlertIds, on \in BOOLEAN, d \in 1..MaxDuration, m \in Modes :
       /\ alertRule[i].there
       /\ alertRule' = [alertRule EXCEPT ![i].on = on, ![i].duration = d, ![i].mode = m]
  /\ UNCHANGED <<alertCount, alertCooled, alertEval, alertLock, alertStreak, alertFaults, healVars>>

\* The number of the last firing stays in the model, so that the id is not used again.
DeleteAlertRule ==
  /\ \E i \in AlertIds : alertRule[i].there /\ alertRule' = [alertRule EXCEPT ![i].there = FALSE, ![i].on = FALSE]
  /\ UNCHANGED <<alertCount, alertCooled, alertEval, alertLock, alertStreak, alertFaults, healVars>>

-----------------------------------------------------------------------------
(* Evaluate.                                                               *)

Snapshot == {[id |-> i, duration |-> alertRule[i].duration, mode |-> alertRule[i].mode,
              fired |-> alertRule[i].fired] : i \in {j \in AlertIds : alertRule[j].there /\ alertRule[j].on}}

EvaluateUnlocked(l) ==
  /\ ~alertEval[l].busy /\ UNCHANGED alertLock
  /\ alertEval' = [alertEval EXCEPT ![l] = [busy |-> TRUE, left |-> Snapshot, fire |-> Nobody]]
  /\ UNCHANGED <<alertRule, alertCount, alertCooled, alertStreak, alertFaults, healVars>>

\* The rules are loaded under the mutex, once for the whole evaluation.
Evaluate(l) ==
  /\ ~alertEval[l].busy
  /\ alertLock = Unlocked /\ alertLock' = l
  /\ alertEval' = [alertEval EXCEPT ![l] = [busy |-> TRUE, left |-> Snapshot, fire |-> Nobody]]
  /\ UNCHANGED <<alertRule, alertCount, alertCooled, alertStreak, alertFaults, healVars>>

Upto(n) == IF n > MaxDuration THEN MaxDuration ELSE n
Cooling(x) == x.fired # 0 /\ x.fired > alertCooled[x.id]

\* A violation counts, also in the cooldown; anything else starts from nought.
CheckRule(l) ==
  /\ alertEval[l].fire = Nobody
  /\ \E x \in alertEval[l].left, violated \in BOOLEAN :
       /\ alertCount' = [alertCount EXCEPT ![x.id] = IF violated THEN Upto(@ + 1) ELSE 0]
       /\ alertStreak' = [alertStreak EXCEPT ![x.id] = IF violated THEN Upto(@ + 1) ELSE 0]
       /\ alertEval' = [alertEval EXCEPT
            ![l] = [busy |-> TRUE, left |-> alertEval[l].left \ {x},
                    fire |-> {y \in {x} : violated /\ alertCount'[x.id] >= x.duration /\ ~Cooling(x)}]]
  /\ UNCHANGED <<alertRule, alertCooled, alertLock, alertFaults, healVars>>

\* After the webhook: the history, last_fired_at, the count, and the event.
FireAlert(l) ==
  /\ \E x \in alertEval[l].fire :
       /\ alertRule[x.id].fired < MaxFirings
       /\ alertRule' = [alertRule EXCEPT ![x.id].fired = @ + 1]
       /\ alertCount' = [alertCount EXCEPT ![x.id] = 0]
       /\ alertEval' = [alertEval EXCEPT ![l].fire = Nobody]
       /\ alertFaults' = alertFaults
            \cup {f \in {"early"} : alertRule[x.id].there /\ Cooling([x EXCEPT !.fired = alertRule[x.id].fired])}
            \cup {f \in {"short"} : alertStreak[x.id] < x.duration}
       /\ \E h \in Handlers :
            /\ alertHeal[h].step = "idle"
            /\ alertHeal' = IF x.mode = "notify" THEN alertHeal
                            ELSE [alertHeal EXCEPT ![h] = [step |-> "check", mode |-> x.mode]]
  /\ UNCHANGED <<alertCooled, alertLock, alertStreak, healRecent, healCycles, healMet>>

EvaluateEnds(l) ==
  /\ alertEval[l].busy /\ alertEval[l].left = Nobody /\ alertEval[l].fire = Nobody
  /\ alertEval' = [alertEval EXCEPT ![l] = Resting]
  /\ alertLock' = Unlocked
  /\ UNCHANGED <<alertRule, alertCount, alertCooled, alertStreak, alertFaults, healVars>>

CooldownEnds ==
  /\ \E i \in AlertIds : /\ alertCooled[i] < alertRule[i].fired
                         /\ alertCooled' = [alertCooled EXCEPT ![i] = alertRule[i].fired]
  /\ UNCHANGED <<alertRule, alertCount, alertEval, alertLock, alertStreak, alertFaults, healVars>>

-----------------------------------------------------------------------------
(* Self-heal.                                                              *)

HealEnds(h) == alertHeal' = [alertHeal EXCEPT ![h] = NoHandler]

\* Not within five minutes of the last action; then the AI is asked, for up to 90 seconds.
HandleAlert(h) ==
  /\ alertHeal[h].step = "check"
  /\ IF healRecent THEN HealEnds(h) /\ UNCHANGED healMet
     ELSE /\ alertHeal' = [alertHeal EXCEPT ![h].step = "diagnose"]
          /\ healMet' = (healMet \/ \E g \in Handlers : alertHeal[g].step = "diagnose")
  /\ UNCHANGED <<evalVars, healRecent, healCycles>>

HealForgotten(h) ==
  /\ alertHeal[h].step = "diagnose" /\ HealEnds(h) /\ healCycles' = healCycles + 1
  /\ UNCHANGED <<evalVars, healRecent, healMet>>

\* The diagnosis fails, or is saved; in "auto" mode the safe actions in it are executed,
\* and the time is taken if one of them succeeded.
executeAutoHeal(h) ==
  /\ alertHeal[h].step = "diagnose" /\ HealEnds(h)
  /\ \/ UNCHANGED <<healRecent, healCycles>>
     \/ /\ alertHeal[h].mode = "auto"
        /\ healRecent' = TRUE /\ healCycles' = healCycles + 1
  /\ UNCHANGED <<evalVars, healMet>>

FiveMinutesPass ==
  /\ healRecent /\ healRecent' = FALSE /\ healCycles' = 0
  /\ UNCHANGED <<evalVars, alertHeal, healMet>>

AlertPanelDies ==
  /\ \E l \in CollectLoops : alertEval[l].busy
  /\ alertEval' = [l \in CollectLoops |-> Resting] /\ alertLock' = Unlocked
  /\ alertCount' = [i \in AlertIds |-> 0]
  /\ alertHeal' = [h \in Handlers |-> NoHandler] /\ healRecent' = FALSE /\ healCycles' = 0
  /\ UNCHANGED <<alertRule, alertCooled, alertStreak, alertFaults, healMet>>

AlertNext ==
  \/ CreateAlertRule \/ UpdateAlertRule \/ DeleteAlertRule \/ CooldownEnds
  \/ \E l \in CollectLoops : Evaluate(l) \/ CheckRule(l) \/ FireAlert(l) \/ EvaluateEnds(l)
  \/ \E h \in Handlers : HandleAlert(h) \/ executeAutoHeal(h)
  \/ FiveMinutesPass \/ AlertPanelDies

AlertSpec == AlertInit /\ [][AlertNext]_alertVars

-----------------------------------------------------------------------------
\* With any number of loops a rule fires once in a cooldown, and only if as many evaluations
\* in a row as its duration asks for have seen it violated. The self-heal acts once in five
\* minutes, unless two alerts were handled at the same time.
AlertsOnce == alertFaults = {} /\ (~healMet => healCycles <= 1)
=============================================================================
