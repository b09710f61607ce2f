\* OTQP windows with modifiers: offsets, lookbacks and excluded bounds.
SPECIFICATION Spec
CONSTANTS
  Nil = Nil
  None = None
  Bad = Bad
  Depth = 4
  String <- Strings
  LogQLPlans <- ParseLogQL
  LucenePredicates <- ParseLucene
  Overread <- Overreads
  Identifier = {"app", "tenant", "message", "abs"}
  Asks <- ModifiedAsks
  Storage <- Records2
  Substrings <- SubstringsOf
  Terms <- TermsOf
  Phrases <- PhrasesOf
  SingleTerms <- OneTerm
  Entry <- Listed
  LabelNames <- ABNames
  Now = 10
  Lookback = 3
  DefaultStep = 1
  MaxLimit = 3
INVARIANTS
  ModifiersApply
CHECK_DEADLOCK FALSE
