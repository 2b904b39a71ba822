SPECIFICATION FairSpec
CONSTANTS
    MaxBodyBytes = 1
    Connections = {c1, c2}
    c1 = c1
    c2 = c2
    Inputs <- MCInputs
    SinkAnswers <- SinkAnswer
INVARIANTS Inv PoolOutlivesHandlers CleanExit ScrapesAreCoherent HandoverIsValid
PROPERTY SignalEndsProcess
CHECK_DEADLOCK FALSE
