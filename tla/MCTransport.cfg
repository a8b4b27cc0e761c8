CONSTANTS
  Flows = {f1, f2}
  Ips = {i1, i2}
  Dcids = {d1, d2}
SPECIFICATION MCSpec
INVARIANTS  QuicExact EndpointExact
PROPERTIES NobodyStarves
CHECK_DEADLOCK FALSE
