SPECIFICATION FairSpec
CONSTANTS
    Outputs <- MixedOutputs
    Others <- AllOthers
    HoldLimit = 1
    MaxCallbacks = 2
    MaxInputs = 1
    MaxScopes = 2
INVARIANTS
    CallsComplete
    OutputOrder
PROPERTIES
    EffectsInOrder
    CallbacksSettle
    HeldOutputReplays
