SPECIFICATION CodexSpec

CONSTANTS
  Profiles = {"a", "b"}
  Efforts = {"low", "high"}
  MaxAsked = 3
  MaxProviderFaults = 1

INVARIANTS
  AnswerOwn

CHECK_DEADLOCK FALSE
