SPECIFICATION ToolSpec
CONSTANTS
  FileCount = 2
  Releases = 3
  Rendered <- MCRendered
  Texts = {"a", "b", "c"}
  LocalEdit = "edit"
  NoText = "none"
  MaxChanges = 2
  SnakeNames = {"id", "name", "title", "done", "price", "due", "password", "user_id", "title_"}
  Pascal <- MCPascal
  CredentialLike = {"password"}
  KeyLike = {"user_id"}
  PersonLike = {"name"}
  PhraseLike = {"title", "title_"}
  LinkLike = {}
  PriceLike = {"price"}
  GoNames = {"task", "job", "note"}
  Runs = {1, 2}
  Orders <- SomeOrders
  Projects <- SomeProjects
  Edited <- SomePaths
  Human = human
  MaxHuman = 1
  MaxStamp = 1
INVARIANTS MembersDiffer
CHECK_DEADLOCK FALSE
