CONSTANTS
  MaxDepth = 3
  MaxBytes = 9
  Ids = {"i1", "i2"}
  Texts <- MCTexts
  Names <- MCNames
  MaxEvents = 2
  Letters = {"g", "G"}
  Upper <- MCUpper
  ReadVerbs <- MCReadVerbs
  MaxArgs = 3
  MaxLen = 1
  MaxParams = 2
  None = None
  WhileConnected = FALSE
  Columns <- MCColumns
  NoValue = NoValue
  Catalogs <- MCCatalogs
  Targets <- MCTargets
  Expression = Expression
  Nothing = Nothing
SPECIFICATION InputsSpec
CHECK_DEADLOCK FALSE
INVARIANTS
  ParserBounded
  OnlyDeepRefused
  ExchangeSound
  EventsArriveWhole
  CommandSentAsWritten
  SessionAsAsked
  ExportReadsBack
  
