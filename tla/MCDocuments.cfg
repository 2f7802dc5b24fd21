SPECIFICATION Spec
CHECK_DEADLOCK FALSE
CONSTANTS
    MaxPages = 16
    MaxCount = 4
    MaxRanges = 3
    Numbers <- MCNumbers
    MaxItems = 3
    MaxMarked = 2
    Names = {"a", "b", "c"}
INVARIANTS
    PlanBalanced
    HalvesToPages
    SelectExact
    FormatReadBack
    MergeUndoesCut
    AnswersStitched
    ReadingOrderKept
    OrderKept
