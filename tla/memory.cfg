CONSTANTS
  Blocks = {b1, b2}
  Sizes = {1, 2}
  HeaderSize = 1
  ObjectSize = 5
  MaxCalls = 3
SPECIFICATION Spec
INVARIANTS
  TypeOK
  EveryByteCounted
  AllGivenBack
