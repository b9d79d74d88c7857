CONSTANTS
    Types <- AllTypes
    Edits = {0, 1, 2}
    MaxLost = 2
    MaxResets = 1
    SarPrices <- SomePrices
    Levels = {0, 1, 2}
    Periods = {1, 2, 3}
    Widths = {0, 1, 2}
    MaxBars = 4
    Times = {1, 2, 3}
    Closes = {0, 1}
    Labels = {"a"}
    MaxSeries = 3
    MaxSlots = 1
    BarsAfter <- SomeBarsAfter
    Histories <- SomeHistories
    PivotSize = 1
    FlagLookback = 10
    MaxWindow = 11
    Centre <- TheCentre
    Sticks <- SomeSticks
    Openings <- SomeOpenings
    MaxSticks = 10
    Scripts <- SomeScripts
    TaInputs <- SomeInputs
    Raises = TRUE
    MaxTaBars = 5
SPECIFICATION MCSpec
INVARIANTS WarmUp PatternsSound
PROPERTIES SarFollows ValuesAgree ChartInStep
CHECK_DEADLOCK FALSE
