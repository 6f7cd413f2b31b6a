SPECIFICATION Spec
CONSTANT Byte = {0, 1, 127, 128, 254, 255}
INVARIANTS MixNearMean BytesReadBack
CHECK_DEADLOCK FALSE
