SPECIFICATION Spec
CONSTANTS
  MaxHops = 2
  MaxRetries = 1
  Mib = 4
  Overhead = 1
  MaxChunks = 3
  Layouts <- MCLayouts
INVARIANTS
  TypeOK
  KeysOutliveBody
  SentIsTheFile
  FragmentsStartAtMoof
  PlaintextGone
PROPERTIES
  TransferEnds
