\* Every door with every backend: texts and plans with and
\* without enforcement, and windows and options around their limits.
SPECIFICATION FairSpec
CONSTANTS
  Nil = Nil
  None = None
  Bad = Bad
  Depth = 4
  String <- Strings
  LogQLPlans <- ParseLogQL
  LucenePredicates <- ParseLucene
  Overread <- Overreads
  Identifier = {"app", "tenant", "message", "abs"}
  Asks <- AllAsks
  Storage <- Records2
  Substrings <- SubstringsOf
  Terms <- TermsOf
  Phrases <- PhrasesOf
  SingleTerms <- OneTerm
  Entry <- Listed
  LabelNames <- ABNames
  Now = 10
  Lookback = 3
  DefaultStep = 1
  MaxLimit = 3
INVARIANTS
  TypeOK
  ShippedMeansAsked
  WindowIsAsked
  LimitsHold
  SuccessIsComplete
  EntriesKeepTheirLabels
PROPERTIES
  EveryAskIsAnswered
CHECK_DEADLOCK FALSE
