\* Up to two attributes, every prefix of their encoding, and a failed lookup.
\* detect_bitrates returns once the scan is done: no step follows.
CONSTANTS
  Types = {1, 9, 3}
  Values <- MCValues
  MaxAttrs = 2
  Default = 500000
SPECIFICATION Spec
INVARIANTS ParseFaithful BitratesFaithful
CHECK_DEADLOCK FALSE
