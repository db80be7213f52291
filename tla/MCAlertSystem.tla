--------------------------- MODULE MCAlertSystem ---------------------------
(***************************************************************************)
(* Instance of AlertSystem for TLC.  The thresholds mirror the two default *)
(* cpu_usage thresholds of setup_default_thresholds (Warning above 80,     *)
(* Critical above 95, cooldowns 300 s and 60 s, both layer None) with the  *)
(* metric scaled to levels 0 (<= 80), 1 (80..95), 2 (> 95) and the         *)
(* cooldowns to 2 and 1 ticks.  A third id starts absent; add_threshold    *)
(* and remove_threshold set and clear it as a per-layer queue_depth one.   *)
(***************************************************************************)
EXTENDS AlertSystem

MCThresholdIds == {"cpu_usage", "cpu_usage_critical", "queue_depth"}

CpuWarning ==
  [metric |-> "cpu_usage", threshold |-> 0, severity |-> "Warning",
   comparison |-> "GreaterThan", layer |-> NoLayer, enabled |-> TRUE,
   cooldown |-> 2, last |-> Never]

CpuCritical ==
  [metric |-> "cpu_usage", threshold |-> 1, severity |-> "Critical",
   comparison |-> "GreaterThan", layer |-> NoLayer, enabled |-> TRUE,
   cooldown |-> 1, last |-> Never]

QueueDepth ==
  [metric |-> "queue_depth", threshold |-> 1, severity |-> "Warning",
   comparison |-> "GreaterThan", layer |-> "Transport", enabled |-> TRUE,
   cooldown |-> 1, last |-> Never]

MCInitThresholds ==
  [t \in MCThresholdIds |->
     CASE t = "cpu_usage"          -> CpuWarning
       [] t = "cpu_usage_critical" -> CpuCritical
       [] OTHER                    -> Absent]

MCThresholdChoices == {QueueDepth}

MCRuleChoices ==
  {[pattern |-> "cpu", layer |-> NoLayer, max |-> 1, duration |-> 2,
    created |-> 0, since |-> 0]}

\* setup_default_routes: Console and Log, every severity, every layer.
MCInitRoutes ==
  << [sev |-> {"Info", "Warning", "Critical"}, layers |-> {},
      handler |-> "Console", scheme |-> "none"],
     [sev |-> {"Info", "Warning", "Critical"}, layers |-> {},
      handler |-> "Log", scheme |-> "none"] >>

\* add_route: a webhook for warnings and criticals, over http or over an
\* unsupported scheme.
MCRouteChoices ==
  {[sev |-> {"Warning", "Critical"}, layers |-> {}, handler |-> "Webhook",
    scheme |-> s] : s \in {"http"}}

\* metric.contains(pattern) over the names used here
MCMatches(metric, pattern) ==
  <<metric, pattern>> \in {<<"cpu_usage", "cpu">>}

=============================================================================
