CONSTANTS
    Chars = {".", " "}
    MaxLen = 1
    Tails = {10000}
SPECIFICATION Spec
INVARIANTS
    ShortNameWellFormed
