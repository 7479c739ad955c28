SPECIFICATION NFairSpec
CONSTANTS
  Shapes <- Pairs
  NoModel = NoModel
  MaxRequests = 3
  Fields = 2
  Values = {"a", "b"}
  MaxReads = 2
INVARIANTS ImplOutlivesCallback AnsweredUnlessGone ReadyIsUsable PrefixStored ResumedWithAnswer
PROPERTIES RequestsAnswered ImplementsNet
