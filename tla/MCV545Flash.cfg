SPECIFICATION FairSpec
CONSTANTS
  NumWords = 2
  NumPages = 2
  Zero = Zero
  A = A
  Word <- MCWord
  File <- MCFile
INVARIANTS
  PagesInOrder
  LoadIsTrue
  VerifyIsTrue
PROPERTIES
  ProgramEnds
