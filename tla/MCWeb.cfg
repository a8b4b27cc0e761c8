SPECIFICATION MCSpec
INVARIANTS  TlsExact WireReadsBack BringUpAgrees CongestionExact
CHECK_DEADLOCK FALSE
