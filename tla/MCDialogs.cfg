SPECIFICATION Spec
CONSTANTS
  Webhooks <- SomeWebhooks
  Presets = {"github_push"}
  Slots = {c1}
  None = None
INVARIANTS
  TypeOK
  UntouchedReplaysStored
  
  EditSends
  DialogsTrue
CHECK_DEADLOCK FALSE
