SPECIFICATION Spec

CONSTANTS
  Profiles = {"a", "b"}
  Efforts = {"low", "high"}
  MaxAsked = 3
  MaxProviderFaults = 1
  Chats = {"a", "b"}
  Texts = {"x"}
  History = 3
  Habits = {{"older", "reply"}, {"send", "reply"}, {"send", "choose"}, {"context"}, {"cancel"}, {"create"}}
  PageLimit = 2
  EventCapacity = 2
  MaxStored = 4
  MaxClicks = 4
  MaxOpen = 3
  MaxChatFaults = 1
  Accounts = {"a", "b"}
  Workers = {"w1", "w2"}
  MaxPuts = 2
  MaxRenewals = 2
  MaxLosses = 1
  ToolNames = {"t"}
  MaxVersion = 2
  MaxCatalogCalls = 2
  MaxReplacements = 2
  Runs = {"r1", "r2"}
  Letters = {"a", "b"}
  MaxText = 3
  MaxPermits = 2
  MaxOutput = 2
  PageSize = 1
  MaxCalls = 2
  MaxInputs = 2
  MaxReplies = 3
  MaxRejections = 2
  ResultSizes = {1, 4}
  SummarySize = 6
  KeepTokens = 4
  SummaryBudget = 12
  ToolLimit = 2
  TextLimit = 3
  AttemptLimit = 2
  Characters = {"emoji", "accent"}
  MaxLength = 3
  Apis = {"responses", "completions", "messages"}
  Items = {"text", "object", "scalar", "broken"}
  MaxItems = 2
  Parts = 2
  ProfileIds = {1, 2}
  Subscribed = {2}
  Pairs = {"fast", "deep"}
  Quotas = {0, 1, 2}
  Choosers = {1, 2}
  Sessions = {1, 2}
  MaxOddities = 1
  MaxChoices = 2
  MaxShelfChanges = 1
  MaxCuts = 1

INVARIANTS
  CodexExact
  ChatHonest
  ProfileHonest
  CatalogHonest
  WorkspaceHonest
  RetentionHonest
  EditorHonest
  AnswersExact
  ChoiceHonest

CHECK_DEADLOCK FALSE
