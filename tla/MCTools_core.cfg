SPECIFICATION Spec
CHECK_DEADLOCK FALSE
CONSTANTS
  AddressBits = 5
  IntBits = 4
  WordSize = 1
  TestBufferSize = 2
  Pushed = 3
  Popped = 2
  GrowDirection <- Downwards
  Nil = Nil
  MaxPath = 10
  Grows = 12
  SignalCount = 3
  MaskCount = 2
  MaxReserved = 2
  CacheSize = 2
  ObjectShift = 1
  Unnamed = Unnamed
  TAG_MASK = 100
  TextWord = 77
  BlockBaseName = 99
  kMaxDepth = 3
  IndexLimit = 64
  PunycodeTexts <- OneEncodedText
  NonASCII = {"~"}
INVARIANTS
  OnlyReadableIsRead
  StackIsTold
  TextsAreTheirs
  MangledNamesAreTold
  NamesOfTheSystem
  PlacesAreGivenBack
  DeadAreKnown
  FixedAtItsPaths
