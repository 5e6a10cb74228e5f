SPECIFICATION Spec
CONSTANTS
    Needles <- LongNeedle
    Texts <- ScatteredTexts
    Tails <- NoTail
    MaxText = 11
INVARIANT BestForEveryNeedle
CHECK_DEADLOCK FALSE
