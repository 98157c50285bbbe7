SPECIFICATION MCSpec
CONSTANTS
  Keys <- MCCacheKeys
  PathKeys <- MCPathKeys
  ListKeys <- MCListKeys
  TableKeys <- MCTableKeys
  ctoi <- MCctoi
  Values = {v1, v2}
  CacheSize = 3
  MaxUses = 6
  MaxListed = 5
  MaxTall = 3
  MaxRows = 4
  MaxCalls = 4
  Letters = {"a", "1"}
  Names <- MCNames
  Counts = {1, 2, 11}
  Width = 2
  Contents <- MCContents
  Zero = 48
  BufSize = 27
  ByteSize = 256
  FixedLen = 4
  VarintLen = 5
  Aborted = Aborted
  Crc <- MCCrc
  Magic <- MCMagic
  BlockSize = 5
  GroupSize = 2
  HighBit = 8
  LetterZ = 3
  Nil = Nil
  Start = Start
  Missing = Missing
  NotFound = NotFound
INVARIANT RingLogReopens
CHECK_DEADLOCK FALSE
