\* Two downloads that may ask for different parts of a reference.
SPECIFICATION HttpSpec
CONSTANTS
  b1 = b1
  b2 = b2
  whole = whole
  part = part
  Request = {r1, r2}
  Body = {b1, b2}
  Variant = {whole, part}
  Asked <- OneReference
  MaxAttempts = 2
INVARIANTS
  SameBytes
CHECK_DEADLOCK FALSE
