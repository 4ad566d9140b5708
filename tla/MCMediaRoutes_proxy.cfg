SPECIFICATION Spec
CONSTANTS
  None = None
  User = {u1}
  Req = {q1, q2, q3}
  FfmpegSlots = 1
  ExtractSlots = 2
  FfmpegQueue = 1
  ExtractQueue = 1
  StreamCap = 1
  ThumbCap = 2
  ExtractCap = 1
  SseCap = 1
SYMMETRY Symmetry
INVARIANTS
  ProxyRespected
