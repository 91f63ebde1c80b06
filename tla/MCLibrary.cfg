SPECIFICATION MCSpec
CONSTANTS
  IntModulus = 16
  CODE_LEN = 6
  First_qtr = 16
  Max_frequency = 15
  Min_frequency = 5
  EndCharShare = 10
  Coders <- MCCoders
  Texts <- MCCodedTexts
  LogThreads = {t1, t2}
  LogHandles = {h}
  Default = default
  NoLog = null
  MaxPool = 1
  MaxMessages = 2
  MaxLogCalls = 3
  StructThreads = {"t1", "t2"}
  StructHandles = {1, 2, 3}
  owner <- MCOwner
  Structs = {s1, s2, s3}
  NoStruct = null
  NoHandle = 0
  Values = {1, 2}
  MaxStructCalls = 2
  PoolThreads = {t1, t2}
  NoThread = null
  MaxPoolCalls = 2
  EnvKeys <- MCEnvKeys
  EnvTexts <- MCEnvTexts
  EnvOuter <- MCEnvOuter
  EnvFold <- MCEnvFold
  EnvFiles <- MCEnvFiles
  MaxEnvSets = 2
  MaxPasses = 6
  MaxEnvText = 24
  Documents <- MCDocuments
  FiledirName <- MCFiledirName
  FiledirText <- MCFiledirText
  DisableKey <- MCDisable
  HoconTexts <- MCHoconTexts
  MaxHoconText = 6
  PrgDir <- MCPrgDir
  CfgDir <- MCCfgDir
  CfgFiles <- MCCfgFiles
  MapSize = 7
  MaxMapAdds = 4
  Bits <- MCBits
  DfaWords <- MCDfaWords
  MaxDfaWords = 3
  CommandFold <- MCCommandFold
  UpperUnit <- MCUpperUnit
  CaseBuffer = 2
  FormatBuffer = 4
  NumberBuffer = 12
  MaxSpaces = 3
  DirBuffer = 4
  FileBuffer = 2
INVARIANTS
  TextComesBack
  LogOutlivesItsUse
  CounterCovers
  ResourcesApart
  ExpansionMeansValues
  HoconMeetsGrammar
  MapHoldsWhatWasAdded
  DfaFindsItsWords
  SchemaMeansWhatItSays
  TextsMeanWhatTheySay
  CommandsMeanWhatTheySay
  DigestsAndCiphersMeetStandard
PROPERTY WritesOwn
CHECK_DEADLOCK FALSE
