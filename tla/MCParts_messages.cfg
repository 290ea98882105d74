CONSTANTS
  Ids = {1}
  MaxPieces = 1
  MaxCredit = 1
  MaxControl = 1
  MaxMessages = 1
  MsgCallable <- AllFunctions
  WordBits = 4
  Names <- MCNames
  ODataNames = {"@odata.id"}
  JsonValues = {}
  AskedLists = {}
  Urls = {}
  MaxSubscribers = 0
  FileBytes = {27}
  MaxFile = 1
SPECIFICATION PartsSpec
INVARIANTS
  MessagesAsNamed
CHECK_DEADLOCK FALSE
