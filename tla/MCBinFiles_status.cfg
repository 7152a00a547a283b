\* A file with a long name is listed, and a status request about it refused.
SPECIFICATION BinFilesSpec
CONSTANTS
  t1 = t1
  t2 = t2
  Tasks = {t1, t2}
  Nobody = Nobody
  n1 = n1
  Names = {n1}
  v1 = v1
  v2 = v2
  Versions = {v1, v2}
  Absent = Absent
  Size = 3
  Chunk = 2
  MaxTimeouts = 1
  Count = 2
  NameChars = 2
  NameBytes = 8
  BoardChars = 3
  BoardBytes = 9
  MaxFile = 102
  Space <- Blank
  Projects <- MCProjects
  OtherBytes <- MCOtherBytes
  UserNames <- MCNames
  CharWidth <- MCWidth
  Hex <- MCHex
  Escaped <- MCEscaped
  HexDigits <- MCHexDigits
  BadChars = {"/", "other"}
  MaxPath = 320
  FormBuf = 1536
  MaxLfn = 255
  MountSize = 5
  IdSize = 1
  ValuesSize = 1067
  MaxFiles = 1
INVARIANTS
  EveryRequestServed
