CONSTANTS
    Strategies <- AllStrategies
    MtfNames <- AllMtf
SPECIFICATION AllSpec
INVARIANTS Parities
PROPERTIES SignalDiscipline
