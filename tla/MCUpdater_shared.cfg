\* Two processes that use the same update directory.
SPECIFICATION Spec
CONSTANTS
  MaxInt = 2
  NoVersion = NoVersion
  Client = {c1, c2}
  Dir <- SharedDirs
  DirOf <- SharedDir
  Content <- TinyContent
  Empty = ""
  SizeOf <- MCSizeOf
  Hash <- MCHash
  Sha256 <- MCSha256
  RawTables <- SmallTables
  ForceVersions <- NoForce
  FirstVersion <- FirstV
  MAX_RETRIES = 1
  NoFile = NoFile
  NoToken = NoToken
  NoRow = NoRow
  NoTicket = NoTicket
  NoRequest = NoRequest
CONSTRAINTS
  OneLate
  TokensGiven
SYMMETRY Clients
INVARIANTS
  SuccessIsInstalled
  UpgradesOnly
PROPERTY ImplementsContract
