CONSTANTS
  Refused = Refused
  Radix = 2
  Width = 3
  TERM_BASE = 8
  Alphabet = {1, 2}
  Tokens <- MCTokens
  Values = {1, 2}
  Names <- MCNames
  Words <- MCWords
  Exprs <- MCExprs
  Files <- MCFiles
  TxnRows <- MCTxnRows
  RuleTexts <- MCRuleTexts
  Modulus = 4
  MAX_FRAMES = 3
  MinSlots = 4
  FirstConst = 10
  RuleKinds <- MCRuleKinds
  MaxRows = 3
  MaxOps = 2
SPECIFICATION Spec
INVARIANTS KindsEarned KindsPersist RulesFit ReadsExact PermutedReadsExact CursorsExact MemoryExact ListsExact PatternsExact TupleSetsExact RulesExact
