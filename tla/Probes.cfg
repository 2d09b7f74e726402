\* Each command with everything it may meet. A command ends, and then nothing happens.
SPECIFICATION Spec
CONSTANTS
    Filters <- MCFilters
    Machines <- MCMachines
    Published <- MCPublished
    Lines <- MCLines
    Echoes <- MCEchoes
    BufSize = 40
    Width = 4096
    Options <- MCOptions
    Interfaces <- MCInterfaces
    Registry <- MCRegistry
    Answers <- MCAnswers
    Calls <- MCCalls
    Supported <- MCSupported
    Texts <- MCTexts
    Foreign <- MCForeign
INVARIANTS
    TypeOK
    ListIsExact NothingHeldBack VetoIsRelated
    WalkCovers NothingDropped CutIsNoticed
    OnlyWhatWasAsked VerdictsAreFounded
    SweepIsExact OneAtATime DrainLosesNothing DecodeIsExact
    ExchangeIsExact
PROPERTY ProbeEnds
CHECK_DEADLOCK FALSE
