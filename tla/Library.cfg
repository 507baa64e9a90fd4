SPECIFICATION Spec
CONSTANTS
  RrfK = 60
  FusedDepth = 2
  HybridDepth = 2
  Seeds = 1
  Times = 2
  AtLeast = 1
  AtMost = 2
  Scores <- MCScores
  Longest = 3
  Labels = {"tech"}
  MinShingles = 8
  Factor = 4
  Corpus <- MCCorpus
  Scopes <- MCScopes
  Alphabet <- MCAlphabet
  MaxNotes = 3
  MaxMatches = 2
  MaxDepth = 2
  MaxShown = 2
  NoAnswer = NoAnswer
INVARIANTS
  AnswersNameNoHidden
  GraphAnswersAgree
  SearchIsOrderly
  
  CurateIsComplete
