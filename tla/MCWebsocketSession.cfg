CONSTANTS
  Repos <- MCRepos
  Readable <- MCReadable
  NoRepo = "none"
  Messages <- MCMessages
  MaxTexts = 2
  MaxMessages = 3

SPECIFICATION FairSpec

INVARIANTS
  TypeOK
  OnlyItsMessages
  AtMostTwoLate

PROPERTY SessionEnds

\* The session ends or waits for a message.
CHECK_DEADLOCK FALSE
