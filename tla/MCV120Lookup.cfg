SPECIFICATION LookupSpec
CONSTANTS
  Spelling <- MCSpelling
  MaxDev = 2
  MaxCardsInChassis = 2
  DevName <- MCDevName
  Command <- MCCommand
  Input <- MCInput
  Leftover <- MCLeftover
  World <- MCWorld
  Name <- MCName
  Nothing = Nothing
  NotListed = NotListed
  Trouble = Trouble
  Wild = Wild
INVARIANTS
  LookTypeOK
  ListingIsTrue
PROPERTY ImplementsDirectory
\* Without an output file nothing is looked up.
CHECK_DEADLOCK FALSE
