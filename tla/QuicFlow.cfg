SPECIFICATION Spec
CONSTANT MaxChunks = 2
INVARIANT OnlySilenceTimesOut
CHECK_DEADLOCK FALSE
