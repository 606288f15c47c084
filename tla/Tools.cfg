SPECIFICATION MCSpec
CONSTANTS
  Folders <- MCFolders
  Texts <- MCTexts
  Hidden = {4}
  Forbidden = {8}
  Skipped <- MCSkipped
  Named <- MCNamed
  Bare <- MCBare
  Globs <- MCGlobs
  Word <- MCWord
  Ceiling = 4
  Tokens <- MCTokens
  Commands <- MCCommands
  MaxLines = {1, 3}
  TextSizes = {0, 4, 7}
  Caps = {9, 12}
  Overhead = 4
  Envelope = 2
  Marker = 1
  Added = 2
  c1 = c1
  c2 = c2
  s1 = s1
  s2 = s2
  Clients = {c1, c2}
  Stores = {s1, s2}
  Installs <- MCInstalls
  Names = {0, 1, 2}
  IndexName = 0
  Types = {"user"}
  Contents = {"", "x"}
  Authored <- MCAuthored
  Values <- MCValues
CHECK_DEADLOCK FALSE
INVARIANTS
  WholeOrSaid
  FindIsComplete
  GateSeesEveryPath
  NoLineSkipped
  IndexMatches
  ListingIsHonest
  SchemaIsEnforced
PROPERTY
  CountReaderEnds
