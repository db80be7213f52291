CONSTANTS
  Checkers = {c1}
  ThresholdIds <- MCThresholdIds
  GlobalMetrics = {"cpu_usage"}
  OptionalMetrics = {}
  LayerMetrics = {"queue_depth"}
  Layers = {"Transport"}
  Values = {0, 1, 2}
  ConfigIds = {"queue_depth"}
  InitThresholds <- MCInitThresholds
  ThresholdChoices <- MCThresholdChoices
  RuleChoices <- MCRuleChoices
  MatchesPattern <- MCMatches
  MaxHistory = 2
  MaxAlerts = 2
  MaxTime = 3
  MaxRules = 1
  InitRoutes <- MCInitRoutes
  RouteChoices <- MCRouteChoices
  MaxRoutes = 3
  Retries = 2
  NoLayer = NoLayer
  NoValue = NoValue
  Never = Never
  Absent = Absent

SPECIFICATION Spec
INVARIANT TypeOK
INVARIANT CooldownRespected
PROPERTY AlertsEventuallyBroadcast
