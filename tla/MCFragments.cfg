\* Recordings one after the other with every kind of max_files, a clock that may
\* be set back, and a thread that parses what it finds.
SPECIFICATION Spec
CONSTANTS
  Parser = {p1}
  MaxFilesArgs <- AnyMaxFiles
  SizeMod = 16
  MaxSecond = 3
  MaxFragments = 4
CHECK_DEADLOCK FALSE
INVARIANTS
  TypeOK
  FilesBounded
  NewestKept
  LostToNamesake
  BinGoesWithVideo
PROPERTY
  ParseReturns
