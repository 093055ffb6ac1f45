\* Keys of up to two bytes with byte values 0..3.
CONSTANTS
    Bytes = {0, 1, 2, 3}
    MaxKeyLen = 2
INIT Init
NEXT Next
INVARIANT EqIsByteEquality
