\* One process, run again and again, killed at any point, every table.
SPECIFICATION Spec
CONSTANTS
  MaxInt = 2
  NoVersion = NoVersion
  Client = {c1}
  Dir = {c1}
  DirOf <- OwnDir
  Content <- MCContent
  Empty = ""
  SizeOf <- MCSizeOf
  Hash <- MCHash
  Sha256 <- MCSha256
  RawTables <- AllTables
  ForceVersions <- OlderForce
  FirstVersion <- FirstV
  MAX_RETRIES = 3
  NoFile = NoFile
  NoToken = NoToken
  NoRow = NoRow
  NoTicket = NoTicket
  NoRequest = NoRequest
PROPERTIES
  DowngradeHasCause
  RunsAreShort
  Termination
INVARIANTS
  TypeOK
  VerifiedUploads
  SuccessIsInstalled
  SuccessInitialisesResult
  UpgradesOnly
  UpdateFileKept
