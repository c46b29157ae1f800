SPECIFICATION Spec
CONSTANTS
  TotalBlocks = 5
  BLOCK_SIZE = 64
  WordSize = 4096
  Requests = {60, 121}
  InnerWords <- AnyWords
  TailWords <- EntryWords
INVARIANTS
  TypeOK
  Tiling
  FooterMarksFree
  AllocFindsGap
  BufferFits
  StatusExact
PROPERTY
  ImplementsHeap
