\* What a failed download of a bad package leaves behind.
SPECIFICATION Spec
CONSTANTS
  MaxInt = 2
  NoVersion = NoVersion
  Client = {c1}
  Dir = {c1}
  DirOf <- OwnDir
  Content <- MCContent
  Empty = ""
  SizeOf <- MCSizeOf
  Hash <- MCHash
  Sha256 <- MCSha256
  RawTables <- TwoTables
  ForceVersions <- SomeForce
  FirstVersion <- FirstV
  MAX_RETRIES = 2
  NoFile = NoFile
  NoToken = NoToken
  NoRow = NoRow
  NoTicket = NoTicket
  NoRequest = NoRequest
INVARIANT
  InvalidHashLeavesNoFile
