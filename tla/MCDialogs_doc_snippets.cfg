SPECIFICATION Spec
CONSTANTS
  Webhooks <- OneWebhook
  Presets = {"github_push"}
  Slots = {c1}
  None = None
INVARIANT SnippetRuns
CHECK_DEADLOCK FALSE
