\* Every kind of request, three between two restarts.
SPECIFICATION FairSpec
CONSTANTS
  pay = pay
  Order = 5
  MaxKeyBytes = 2
  Plaintexts <- MCPlaintexts
  Texts <- MCTexts
  BadHex = BadHex
  Empty = Empty
  None = None
  Malformed = Malformed
  Inputs <- WideInputs
  MaxRequests = 3
INVARIANTS
  TypeOK
  ReadsLastInstalled
PROPERTIES
  IsKeyBox
  AnsweredIfNodeAnswers
