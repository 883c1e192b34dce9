SPECIFICATION EEISpec
CHECK_DEADLOCK FALSE
CONSTANTS
  ByteBase = 4
  WordBytes = 2
  MaxBytes = 8
  Handles = {0, 1}
  ApiCost = 1
  DataCopyPerByte = 1
  StorePerByte = 1
  PersistPerByte = 1
  ReleasePerByte = 1
  NormalLength = 1
  Plain = {"k"}
  ReadableAccounts = {"other"}
  ShiftBits <- MCShiftBits
  MemoryStrings <- MCStrings
  ContractInts <- MCContractInts
  ArgumentIds <- MCArgumentIds
  NumberKeys <- MCNumberKeys
  CryptoLengths <- MCLengths
  ContractKeys <- MCContractKeys
  ReadKeys <- MCReadKeys
  LockTimes <- MCLockTimes
  TokenNameLength = 2
  MaxFrames = 2
  MaxReadOnlyDepth = 2
  MaxLogs = 1
  Contracts <- MCContracts
  Balance = 3
  Width = 8
  PageSize = 1
  MaxPages = 3
  MemOffsets <- MCInt32
  MemLengths <- MCInt32
INVARIANTS EEITypeOK SliceWithinMemory RefundBacked LockReported ReservedReadsFresh SizesPaid NumbersKept
PROPERTIES ReadOnlyHolds HandlesKept
