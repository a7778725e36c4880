SPECIFICATION Spec
CONSTANTS
    new = new
    older = older
    image = image
    chromeId = chromeId
    edgeId = edgeId
    devId = devId
    Copies = {new, older, image}
    Location <- MCLocation
    ProductionIDs <- MCProductionIDs
    DevelopmentIDs = {devId}
    FirefoxExtensionID = firefoxId
    Legacy = Legacy
    NoHost = NoHost
    Processes = {1, 2}
    InitialDisks <- MCInitialDisks
    Contributors = {new}
    Moved = {new}
    TouchedLeaves <- MCTouchedLeaves
    MaxStarts = 3
    MaxByHand = 1
    MaxTroubles = 1
INVARIANTS Inv AllOrNothing ShownIsTrue ContractAgrees
PROPERTIES OperationEnds
CHECK_DEADLOCK FALSE
