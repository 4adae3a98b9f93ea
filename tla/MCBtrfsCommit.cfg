CONSTANTS
  b1 = b1
  b2 = b2
  b3 = b3
  Blocks <- MCBlocks
  FirstTree <- MCFirstTree
  NCopies = 2
  MaxWrites = 4
SYMMETRY FreeBlocksAreAlike
SPECIFICATION Spec
INVARIANTS BuiltOnFound CrashSafe
 
CHECK_DEADLOCK FALSE
