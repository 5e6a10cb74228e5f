SPECIFICATION Spec
CONSTANTS
    Needles <- ShortNeedle
    Texts <- MixedTexts
    Tails <- NoTail
    MaxText = 5
INVARIANT PositionsAreOptimal
CHECK_DEADLOCK FALSE
