\* Units of up to three fragments, which is as many as fit; two units joined
\* after a loss may not.
CONSTANTS
    MaxNal = 3
    Heads <- MCHeads
    OddHeads <- MCOddHeads
    FragmentCounts = {2, 3}
    MaxUnits = 3
    MaxOthers = 1
SPECIFICATION Spec
CHECK_DEADLOCK FALSE
INVARIANTS TypeOK DamageNeedsGap
PROPERTY NoSilentLoss
