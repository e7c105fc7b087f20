SPECIFICATION Spec
CONSTANTS
  NsPerMs = 3
  MsPerJiffy = 2
  IntMax = 3
  MaxJiffyOffset = 3
  U64Max = 14
INVARIANT NoStrayTimeout
INVARIANT WaitAsAsked
