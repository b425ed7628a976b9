CONSTANTS
  client = client
  Clients = {client}
  Actions = {"add_note", "start_review", "simulate_release"}
  Sorts = {"severity", "updated_at"}
  Filters = {"all", "critical", "open"}
  PageSize = 3
  MaxActions = 2
  MaxResets = 1
SPECIFICATION Spec
INVARIANTS StatusIsExplained BonusIsEvidenced OnlyResetsHideProvenance PagesCoverTheList
