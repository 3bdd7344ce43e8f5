SPECIFICATION Spec
CONSTANTS
    IntMod = 1700
    SrcSizes = {1, 17, 18, 60, 300, 350, 800}
    Slack <- MCSlack
    LitLens <- MCLits
    MatchLens <- MCMatches
INVARIANTS NeverFails WithinBound
CHECK_DEADLOCK FALSE
