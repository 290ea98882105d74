CONSTANTS
  Ids = {1, 3}
  MaxPieces = 2
  MaxCredit = 2
  MaxControl = 2
  MaxMessages = 2
  MsgCallable <- AllFunctions
  WordBits = 4
  Names <- MCNames
  ODataNames = {"@odata.id"}
  JsonValues <- MCJsonValues
  AskedLists <- MCAskedLists
  Urls = {"https://host/events"}
  MaxSubscribers = 2
  FileBytes = {27, 228, 255}
  MaxFile = 6
SPECIFICATION PartsSpec
INVARIANTS
  Http2TypeOK
  WireInOrder
  OpenIsRead
  AnswersWhole
  NoneForgotten
  MessagesAsNamedButOne
  CodeSpeaks
  NoErrorLost
  ReadTells
  ReadAsSent
  FileServed
PROPERTIES
  Drains
  Freed
\* A connection, a file and the program may come to an end.
CHECK_DEADLOCK FALSE
