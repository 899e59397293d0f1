SPECIFICATION Spec
CONSTANTS
    Feeds = {f, g}
    Texts = {text, untitled}
    Nameless = {untitled}
    None = None
    NoindexAfter = 0
    MaxRuns = 3
    MaxDay = 1
    FailingRuns <- Second
SYMMETRY Symmetry
INVARIANT CompletedRunLeavesItsPages
CHECK_DEADLOCK FALSE
