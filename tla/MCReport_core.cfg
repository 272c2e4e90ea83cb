SPECIFICATION MCSpec
CONSTANTS
  main = main
  worker = worker
  late = late
  a = a
  b = b
  c = c
  plain = plain
  secret = secret
  text = text
  NoName = NoName
  NULL = NULL
  ThreadLists <- MCThreadLists
  MaxUpdates = 2
  Memories <- MCMemories
  Roots <- MCRoots
  References <- MCReferences
  SearchDepth = 6
  MaxIvars = 2
  MaxThreadCount = 2
  UserInfos <- MCUserInfos
  ClassLists <- MCClassLists
INVARIANTS
  NamesAreReadable
  ObjectsStayClosed
  OneCrashedThread
  DecodesWhatWasWritten
  CopyStaysWellFormed
CHECK_DEADLOCK FALSE
