\* Every first line of up to eight characters followed by one of five second
\* lines, with failing reads for those of up to three, buffers of seven and four
\* characters and three arguments; and every image of up to two segments on
\* pages of three bytes.
SPECIFICATION Spec
CONSTANTS
  LineLength = 8
  MaxVaddr = 6
  MaxMemsz = 4
  PageSize = 3
  Pages = 4
  Characters <- MCCharacters
  Sessions <- MCSessions
  BufferSize = 8
  GrepSize = 5
  MaxArgs = 3
\* quit and the failures of open and mmap end the program.
CHECK_DEADLOCK FALSE
INVARIANTS LineAtATime ArgsAreWords ImageLoaded NothingMappedAtPrompt
