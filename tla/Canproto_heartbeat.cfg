SPECIFICATION LinkSpec
CONSTANTS
  Words = {0, 255, 256, 65535}
  FlagBytes = {0, 1, 2, 255}
  Sizes = {7, 8}
INVARIANTS
  BytesAsInC
  RoundTrip
\* Each behaviour is one pack and one unpack.
CHECK_DEADLOCK FALSE
