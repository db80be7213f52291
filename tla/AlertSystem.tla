---------------------------- MODULE AlertSystem ----------------------------
(***************************************************************************)
(* The threshold alerting core of nyx-daemon (alert_system.rs).            *)
(*                                                                         *)
(* State: the thresholds HashMap, the active_alerts map, the bounded       *)
(* alert_history vector, the suppression_rules vector and what has been    *)
(* broadcast on alert_sender.  check_thresholds runs as a task per         *)
(* Checker: it evaluates every threshold against one metrics snapshot in   *)
(* one step (that loop holds no await), then handles each new alert in     *)
(* process_alert, whose three lock sections (active_alerts, history,       *)
(* thresholds) are separate steps because another thread of the           *)
(* multi-threaded executor may run between them, and whose route/broadcast *)
(* follows an await.  resolve_alert, add_threshold, remove_threshold and   *)
(* add_suppression_rule run atomically under their locks.  Time is a       *)
(* clock in whole ticks; metric values are abstract levels.                *)
(***************************************************************************)
EXTENDS Integers, Sequences, FiniteSets, SequencesExt

CONSTANTS
  Checkers,        \* tasks that call check_thresholds
  ThresholdIds,    \* keys of the thresholds HashMap
  ConfigIds,       \* ids add_threshold / remove_threshold are called with
  GlobalMetrics,   \* metrics extract_metric_value reads whatever the layer
  OptionalMetrics, \* global metrics that may be absent (a zero divisor)
  LayerMetrics,    \* metrics read from layer_metrics[layer]
  Layers,          \* LayerType values
  Values,          \* abstract metric levels, integers
  InitThresholds,  \* thresholds after setup_default_thresholds
  ThresholdChoices,\* thresholds add_threshold may be given
  RuleChoices,     \* suppression rules add_suppression_rule may be given
  MatchesPattern(_, _), \* metric.contains(pattern)
  MaxHistory,      \* max_history_size
  MaxAlerts,       \* bound: alerts created in one behaviour
  MaxTime,         \* bound: clock ticks
  MaxRules,        \* bound: suppression rules added
  InitRoutes,      \* routes after setup_default_routes
  RouteChoices,    \* routes add_route may be given
  MaxRoutes,       \* bound: length of the routes vector
  Retries,         \* NYX_ALERT_WEBHOOK_RETRIES (default 2)
  NoLayer, NoValue, Never, Absent

Metrics == GlobalMetrics \cup LayerMetrics
Severities == {"Info", "Warning", "Critical"}
Comparisons == {"GreaterThan", "LessThan", "Equal"}
Times == 0..MaxTime

ThresholdRec ==
  [metric: Metrics, threshold: Values, severity: Severities,
   comparison: Comparisons, layer: Layers \cup {NoLayer},
   enabled: BOOLEAN, cooldown: Nat, last: Times \cup {Never}]

AlertRec ==
  [id: 1..MaxAlerts, thr: ThresholdIds, metric: Metrics,
   layer: Layers \cup {NoLayer}, severity: Severities, ts: Times]

ASSUME /\ InitThresholds \in [ThresholdIds -> ThresholdRec \cup {Absent}]
       /\ ThresholdChoices \subseteq ThresholdRec
       /\ ConfigIds \subseteq ThresholdIds
       /\ MaxHistory \in Nat \ {0}

VARIABLES
  now,         \* SystemTime::now()
  thresholds,  \* threshold id -> AlertThreshold, or Absent
  active,      \* set of active alerts (the values of active_alerts)
  history,     \* alert_history: sequence of [alert, action]
  rules,       \* suppression_rules
  pc,          \* per checker: where check_thresholds is
  pending,     \* per checker: new_alerts still to be processed
  broadcast,   \* ids sent on alert_sender, in order
  nextId,      \* source of fresh Uuids
  fired,       \* ghost: per threshold, creation times of its alerts since it was last set
  routes,      \* the routes vector
  rsnap,       \* per checker: route_alert's clone of routes
  ri,          \* per checker: index of the route being handled
  attempt,     \* per checker: send_webhook_http's loop counter
  wlast        \* per checker: result of the last webhook attempt

rvars == <<routes, rsnap, ri, attempt, wlast>>
vars == <<now, thresholds, active, history, rules, pc, pending, broadcast,
          nextId, fired, rvars>>

-----------------------------------------------------------------------------
(* Helpers of check_thresholds.                                            *)

\* extract_metric_value: global metrics ignore the layer; the others need a
\* layer and that layer's entry in the snapshot.
SnapKeys == (GlobalMetrics \X {NoLayer}) \cup (LayerMetrics \X Layers)
Snapshots ==
  {s \in [SnapKeys -> Values \cup {NoValue}] :
     \A m \in GlobalMetrics \ OptionalMetrics : s[<<m, NoLayer>>] # NoValue}

extract_metric_value(snap, metric, layer) ==
  IF metric \in GlobalMetrics THEN snap[<<metric, NoLayer>>]
  ELSE IF layer # NoLayer THEN snap[<<metric, layer>>]
  ELSE NoValue

Exceeded(th, v) ==
  CASE th.comparison = "GreaterThan" -> v > th.threshold
    [] th.comparison = "LessThan"    -> v < th.threshold
    [] th.comparison = "Equal"       -> v = th.threshold

\* Mutation: the cooldown test off by one tick.
CooledDownEarly(th) == th.last = Never \/ now - th.last >= th.cooldown - 1

\* duration_since(last_triggered) < cooldown_duration means "skip".
CooledDown(th) == th.last = Never \/ now - th.last >= th.cooldown

RuleLive(r) == now - r.created < r.duration

should_suppress_alert(metric, layer) ==
  \E r \in Range(rules) :
     /\ MatchesPattern(metric, r.pattern)
     /\ r.layer = NoLayer \/ r.layer = layer
     /\ RuleLive(r)
     /\ Cardinality({a \in active : MatchesPattern(a.metric, r.pattern)}) >= r.max

Fires(th, snap) ==
  /\ th # Absent
  /\ th.enabled
  /\ CooledDown(th)
  /\ LET v == extract_metric_value(snap, th.metric, th.layer)
     IN  v # NoValue /\ Exceeded(th, v)
  /\ ~should_suppress_alert(th.metric, th.layer)

create_alert(t, id) ==
  [id |-> id, thr |-> t, metric |-> thresholds[t].metric,
   layer |-> thresholds[t].layer, severity |-> thresholds[t].severity,
   ts |-> now]

\* Mutation: the push without the trim to max_history_size.
add_to_history_untrimmed(h, alert, action) ==
  Append(h, [alert |-> alert, action |-> action])

add_to_history(h, alert, action) ==
  LET h2 == Append(h, [alert |-> alert, action |-> action])
  IN  IF Len(h2) > MaxHistory THEN Tail(h2) ELSE h2

Cur(c) == Head(pending[c])

-----------------------------------------------------------------------------
(* check_thresholds: snapshot the thresholds, evaluate each (HashMap order *)
(* is arbitrary), create the alerts; then process them one by one.         *)
CheckThresholds(c) ==
  /\ pc[c] = "Idle"
  /\ \E snap \in Snapshots :
       LET fire == {t \in ThresholdIds : Fires(thresholds[t], snap)}
           n    == Cardinality(fire)
       IN  /\ n > 0
           /\ nextId + n - 1 <= MaxAlerts
           /\ \E order \in SetToSeqs(fire) :
                pending' = [pending EXCEPT ![c] =
                              [i \in 1..n |-> create_alert(order[i], nextId + i - 1)]]
           /\ nextId' = nextId + n
           /\ fired' = [t \in ThresholdIds |->
                          IF t \in fire THEN fired[t] \cup {now} ELSE fired[t]]
           /\ pc' = [pc EXCEPT ![c] = "Insert"]
  /\ UNCHANGED rvars /\ UNCHANGED <<now, thresholds, active, history, rules, broadcast>>

\* process_alert, first lock section: insert into active_alerts.
InsertActive(c) ==
  /\ pc[c] = "Insert"
  /\ active' = active \cup {Cur(c)}
  /\ pc' = [pc EXCEPT ![c] = "History"]
  /\ UNCHANGED rvars /\ UNCHANGED <<now, thresholds, history, rules, pending, broadcast, nextId, fired>>

\* process_alert, second: add_to_history(alert, Created).
RecordCreated(c) ==
  /\ pc[c] = "History"
  /\ history' = add_to_history(history, Cur(c), "Created")
  /\ pc' = [pc EXCEPT ![c] = "Stamp"]
  /\ UNCHANGED rvars /\ UNCHANGED <<now, thresholds, active, rules, pending, broadcast, nextId, fired>>

\* process_alert, third: every threshold with the alert's metric and layer
\* gets last_triggered = alert.timestamp.
StampThresholds(c) ==
  /\ pc[c] = "Stamp"
  /\ thresholds' =
       [t \in ThresholdIds |->
          IF /\ thresholds[t] # Absent
             /\ thresholds[t].metric = Cur(c).metric
             /\ thresholds[t].layer = Cur(c).layer
          THEN [thresholds[t] EXCEPT !.last = Cur(c).ts]
          ELSE thresholds[t]]
  /\ pc' = [pc EXCEPT ![c] = "Route"]
  /\ UNCHANGED rvars /\ UNCHANGED <<now, active, history, rules, pending, broadcast, nextId, fired>>

\* State the routing steps of process_alert leave alone.
core == <<now, thresholds, active, history, rules, nextId, fired>>

\* route_alert's filters: an empty severity_filter passes every severity;
\* a non-empty layer_filter needs the alert to have one of its layers.
RouteMatches(r, a) ==
  /\ r.sev = {} \/ a.severity \in r.sev
  /\ r.layers = {} \/ (a.layer # NoLayer /\ a.layer \in r.layers)

\* The first index from k on whose route takes the alert to a webhook, or
\* past the end.  The routes before it are skipped by the filters or
\* handled by Console, Log or Email (send_email_smtp, whose error is only
\* logged), none of which changes state here.
RECURSIVE NextWebhook(_, _, _)
NextWebhook(snap, a, k) ==
  IF k > Len(snap) THEN k
  ELSE IF RouteMatches(snap[k], a) /\ snap[k].handler = "Webhook" THEN k
  ELSE NextWebhook(snap, a, k + 1)

\* Go on with the route at index k: a webhook's attempt loop starts with
\* attempt 0; past the last route the alert is broadcast.
HandleFrom(c, snap, k) ==
  LET n == NextWebhook(snap, Cur(c), k)
  IN  /\ ri' = [ri EXCEPT ![c] = n]
      /\ attempt' = [attempt EXCEPT ![c] = 0]
      /\ pc' = [pc EXCEPT ![c] = IF n <= Len(snap) THEN "Attempt" ELSE "Send"]

\* process_alert awaits route_alert, which first clones routes under the
\* read lock (routes added later do not see this alert), then runs the
\* loop over the clone.
RouteAlert(c) ==
  /\ pc[c] = "Route"
  /\ rsnap' = [rsnap EXCEPT ![c] = routes]
  /\ HandleFrom(c, routes, 1)
  /\ UNCHANGED <<routes, wlast, pending, broadcast>> /\ UNCHANGED core

\* What one pass of the attempt loop can give: over http the connect (or
\* its timeout), or the write, may fail; https returns its error at once;
\* any other scheme is an error on every attempt.
Outcomes(scheme) ==
  CASE scheme = "http"  -> {"ok", "connect_err", "write_err"}
    [] scheme = "https" -> {"https"}
    [] OTHER            -> {"unsupported"}

\* An attempt that returns from send_webhook_http: Ok, the `return Err` of
\* a failed write or of https, and the last attempt's error.
EndsDelivery(res, n) == res \in {"ok", "write_err", "https"} \/ n = Retries

\* for attempt in 0..=retries: one attempt; when it does not end the
\* delivery, the loop sleeps for its backoff.
SendWebhookAttempt(c) ==
  /\ pc[c] = "Attempt"
  /\ \E res \in Outcomes(rsnap[c][ri[c]].scheme) :
       /\ wlast' = [wlast EXCEPT ![c] = res]
       /\ IF EndsDelivery(res, attempt[c])
          THEN HandleFrom(c, rsnap[c], ri[c] + 1)
          ELSE /\ pc' = [pc EXCEPT ![c] = "Backoff"]
               /\ UNCHANGED <<ri, attempt>>
  /\ UNCHANGED <<routes, rsnap, pending, broadcast>> /\ UNCHANGED core

\* sleep(200 ms * min(2^attempt, 8)), then the next attempt.
WebhookBackoff(c) ==
  /\ pc[c] = "Backoff"
  /\ attempt' = [attempt EXCEPT ![c] = @ + 1]
  /\ pc' = [pc EXCEPT ![c] = "Attempt"]
  /\ UNCHANGED <<routes, rsnap, ri, wlast, pending, broadcast>> /\ UNCHANGED core

\* route_alert's locals go out of scope.
RoutingDone(c) ==
  /\ rsnap' = [rsnap EXCEPT ![c] = <<>>]
  /\ ri' = [ri EXCEPT ![c] = 1]
  /\ attempt' = [attempt EXCEPT ![c] = 0]
  /\ wlast' = [wlast EXCEPT ![c] = "none"]
  /\ UNCHANGED routes /\ UNCHANGED core

\* Mutation: the loop over new_alerts ends after the first one.
BroadcastFirstOnly(c) ==
  /\ pc[c] = "Send"
  /\ broadcast' = Append(broadcast, Cur(c).id)
  /\ pending' = [pending EXCEPT ![c] = <<>>]
  /\ pc' = [pc EXCEPT ![c] = "Idle"]
  /\ RoutingDone(c)

\* route_alert has handled every route: alert_sender.send, and the loop
\* over new_alerts moves on.
BroadcastAlert(c) ==
  /\ pc[c] = "Send"
  /\ broadcast' = Append(broadcast, Cur(c).id)
  /\ pending' = [pending EXCEPT ![c] = Tail(@)]
  /\ pc' = [pc EXCEPT ![c] = IF Tail(pending[c]) = <<>> THEN "Idle" ELSE "Insert"]
  /\ RoutingDone(c)

-----------------------------------------------------------------------------
(* The operations of the public API.                                       *)

\* resolve_alert(id): under the active_alerts write lock, remove it and add
\* a Resolved history entry; an unknown id is an error and changes nothing.
ResolveAlert(a) ==
  /\ a \in active
  /\ active' = active \ {a}
  /\ history' = add_to_history(history, a, "Resolved")
  /\ UNCHANGED rvars /\ UNCHANGED <<now, thresholds, rules, pc, pending, broadcast, nextId, fired>>

add_threshold(t, th) ==
  /\ thresholds' = [thresholds EXCEPT ![t] = th]
  /\ fired' = [fired EXCEPT ![t] = {}]
  /\ UNCHANGED rvars /\ UNCHANGED <<now, active, history, rules, pc, pending, broadcast, nextId>>

\* remove_threshold returns false and changes nothing for an unknown id.
remove_threshold(t) ==
  /\ thresholds[t] # Absent
  /\ thresholds' = [thresholds EXCEPT ![t] = Absent]
  /\ fired' = [fired EXCEPT ![t] = {}]
  /\ UNCHANGED rvars /\ UNCHANGED <<now, active, history, rules, pc, pending, broadcast, nextId>>

\* add_suppression_rule: the caller stamps created_at with the current time.
\* since (ghost) is the first alert id created while the rule is in place.
add_suppression_rule(r) ==
  /\ Len(rules) < MaxRules
  /\ rules' = Append(rules, [r EXCEPT !.created = now, !.since = nextId])
  /\ UNCHANGED rvars /\ UNCHANGED <<now, thresholds, active, history, pc, pending, broadcast,
                 nextId, fired>>

add_route(r) ==
  /\ Len(routes) < MaxRoutes
  /\ routes' = Append(routes, r)
  /\ UNCHANGED <<rsnap, ri, attempt, wlast>>
  /\ UNCHANGED <<now, thresholds, active, history, rules, pc, pending, broadcast,
                 nextId, fired>>

Tick ==
  /\ now < MaxTime
  /\ now' = now + 1
  /\ UNCHANGED rvars /\ UNCHANGED <<thresholds, active, history, rules, pc, pending, broadcast,
                 nextId, fired>>

-----------------------------------------------------------------------------
Init ==
  /\ now = 0
  /\ thresholds = InitThresholds
  /\ active = {}
  /\ history = <<>>
  /\ rules = <<>>
  /\ pc = [c \in Checkers |-> "Idle"]
  /\ pending = [c \in Checkers |-> <<>>]
  /\ broadcast = <<>>
  /\ nextId = 1
  /\ fired = [t \in ThresholdIds |-> {}]
  /\ routes = InitRoutes
  /\ rsnap = [c \in Checkers |-> <<>>]
  /\ ri = [c \in Checkers |-> 1]
  /\ attempt = [c \in Checkers |-> 0]
  /\ wlast = [c \in Checkers |-> "none"]

Next ==
  \/ \E c \in Checkers :
       \/ CheckThresholds(c)
       \/ InsertActive(c)
       \/ RecordCreated(c)
       \/ StampThresholds(c)
       \/ RouteAlert(c)
       \/ SendWebhookAttempt(c)
       \/ WebhookBackoff(c)
       \/ BroadcastAlert(c)
  \/ \E a \in active : ResolveAlert(a)
  \/ \E t \in ConfigIds, th \in ThresholdChoices : add_threshold(t, th)
  \/ \E t \in ConfigIds : remove_threshold(t)
  \/ \E r \in RuleChoices : add_suppression_rule(r)
  \/ \E r \in RouteChoices : add_route(r)
  \/ Tick

\* A started check_thresholds call runs to completion: its handlers all
\* return (SMTP and webhook I/O are bounded by timeouts or OS limits).
Fairness ==
  \A c \in Checkers :
     WF_vars(\/ InsertActive(c) \/ RecordCreated(c) \/ StampThresholds(c)
             \/ RouteAlert(c) \/ SendWebhookAttempt(c)
             \/ WebhookBackoff(c) \/ BroadcastAlert(c))

Spec == Init /\ [][Next]_vars /\ Fairness

-----------------------------------------------------------------------------
TypeOK ==
  /\ now \in Times
  /\ thresholds \in [ThresholdIds -> ThresholdRec \cup {Absent}]
  /\ active \subseteq AlertRec
  /\ history \in Seq([alert: AlertRec, action: {"Created", "Resolved"}])
  /\ Len(history) <= MaxHistory
  /\ pc \in [Checkers -> {"Idle", "Insert", "History", "Stamp", "Route",
                           "Attempt", "Backoff", "Send"}]
  /\ Len(routes) <= MaxRoutes
  /\ attempt \in [Checkers -> 0..Retries]
  /\ pending \in [Checkers -> Seq(AlertRec)]
  /\ nextId \in 1..MaxAlerts + 1
  /\ fired \in [ThresholdIds -> SUBSET Times]

(* Cooldown (spec 4.11, "check last_triggered + cooldown <= now"; the      *)
(* cooldown test in check_thresholds and the stamp in process_alert): two   *)
(* alerts of one threshold are never created closer together than its      *)
(* cooldown_duration.                                                       *)
CooldownRespected ==
  \A t \in ThresholdIds :
     thresholds[t] # Absent =>
        \A x, y \in fired[t] : x < y => y - x >= thresholds[t].cooldown

(* Every alert check_thresholds creates is eventually routed and sent on    *)
(* alert_sender (process_alert runs for each of new_alerts).                *)
AlertsEventuallyBroadcast ==
  \A i \in 1..MaxAlerts :
     (i < nextId) ~> (\E k \in 1..Len(broadcast) : broadcast[k] = i)

(* Spec 3 (Alert): at most one active alert per (metric, layer) tuple, as   *)
(* kept by check_thresholds and process_alert.                              *)
AtMostOneActivePerKey ==
  \A a, b \in active : a.metric = b.metric /\ a.layer = b.layer => a = b

(* Spec 8 (suppression): under a live rule with max_alerts k, at most k     *)
(* alerts matching its pattern and created while the rule was in place are *)
(* active (should_suppress_alert as used by check_thresholds).              *)
SuppressionLimit ==
  \A r \in Range(rules) :
     RuleLive(r) =>
        Cardinality({a \in active : MatchesPattern(a.metric, r.pattern)
                                    /\ a.id >= r.since}) <= r.max

(* Spec 3 lifecycle created -> active -> resolved -> history: no alert's    *)
(* Resolved entry precedes its Created entry in alert_history              *)
(* (process_alert versus resolve_alert).                                    *)
CreatedBeforeResolved ==
  \A i, j \in 1..Len(history) :
     /\ i < j
     /\ history[i].action = "Resolved"
     /\ history[j].action = "Created"
     => history[i].alert.id # history[j].alert.id

=============================================================================
