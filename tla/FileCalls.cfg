SPECIFICATION Spec
CONSTANTS
  Roots <- MCRoots
  Readable <- MCReadable
  Links <- MCLinks
  Wild <- MCWild
  Padded <- MCPadded
  Directories <- MCDirs
  Files <- MCFiles
  DeniedNames = {".env"}
  DeniedParts = {".ssh"}
  Protected = {".git"}
  Args <- MCArgs
  Policies = {"reject_when_required", "ask_when_required", "ask_for_everything", "allow_all"}
  MaxPaths = 2
  MaxWritten = 1
  MaxWriting = 1
  MaxRequests = 2
  MaxMoves = 1
INVARIANTS
  ConsentCovers
  BoundariesHold
