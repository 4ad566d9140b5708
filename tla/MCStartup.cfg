SPECIFICATION Spec
CONSTANTS
  Device = {f1, d1, d2, d3}
  Foreign = {f1}
  MaxDevices = 3
  Signal = {TERM, INT}
  NoDevice = none
INVARIANTS
  TypeOK
  ForeignStay
  LeaksExplained
PROPERTIES
  LeftoversGo
