SPECIFICATION Spec
CONSTANTS
  Files = {1, 2, 3, 4}
  WordsOf <- MCWordsOf
  EndsWith <- MCEndsWith
  PathsWith <- MCPathsWith
  Searches = {"cut", "without", "ending"}
  QueryOf <- MCQueryOf
  SharesOf <- MCSharesOf
  ResultCap <- MCResultCap
  Phrases = {"live"}
  Cap = 2
  TokenSpace = 8
  FirstTokens = {1, 6}
INVARIANTS
  AskedHasOneAnswer
  AnswersAreRight
PROPERTIES
  IndexNotBehindQuiet
CHECK_DEADLOCK FALSE
