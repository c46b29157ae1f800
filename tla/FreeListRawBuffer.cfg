SPECIFICATION Spec
CONSTANTS
  TotalBlocks = 3
  BLOCK_SIZE = 64
  WordSize = 4096
  Requests = {60}
  InnerWords <- RawWords
  TailWords <- RawWords
INVARIANT
  FooterMarksFree
