CONSTANTS
  notion = notion
  n8n = n8n
  dashboard = dashboard
  ghost = ghost
  Agents = {notion, n8n, dashboard, ghost}
  Catalog = {notion, n8n, dashboard}
  Phase <- PhaseOfAgent
  Answers <- AllAnswers
  MaxTries = 2
SPECIFICATION PlannerSpec
CHECK_DEADLOCK FALSE
INVARIANTS
  PlannerTypeOK
  PlanMatchesAnswer
  PlanIsInOrder
