SPECIFICATION Spec
CONSTANTS
  Local = Local
  None = None
  Loaded = {X}
  Externals = {X, Y}
  MaxChanges = 2
PROPERTIES
  LiveMountIsSafe
