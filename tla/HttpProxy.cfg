\* Three requests for two bodies, one of them whole or in part; uploads are tried
\* twice.
SPECIFICATION HttpFairSpec
CONSTANTS
  b1 = b1
  b2 = b2
  whole = whole
  part = part
  Request = {r1, r2, r3}
  Body = {b1, b2}
  Variant = {whole, part}
  Asked <- Mixed
  MaxAttempts = 2
INVARIANTS
  UploadsSound
  DownloadsSound
PROPERTIES
  EveryRequestEnds
CHECK_DEADLOCK FALSE
