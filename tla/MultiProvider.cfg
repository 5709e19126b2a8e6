SPECIFICATION MCSpec
CONSTANTS
  N = 3
  Values = {"v", "w"}
  Contexts = {"c1", "c2"}
  Changes = {1, 2}
  Names = {"a", "b", "a-1"}
  MaxProviders = 3
  indexed <- MCIndexed
  Lists <- MCLists
INVARIANTS SdkFollowsTracker ContextIsolated AnswersJustified WebAnswers ContextsFollow EntriesDistinct
PROPERTY CallsSettle
