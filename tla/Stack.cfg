\* A device from its provisioning on, counters around the wraps of seq_zero.
CONSTANTS
    Lengths <- SomeLengths
    InitialSeq <- AroundWraps
    Span = 60
    VirtualAddressOf <- Hash
    LogOf <- Log
    Nid <- NidOf
    AidOf <- AidBits
    Descriptors <- Sensors
    CadenceDescriptors <- SomeCadences
    SettingDescriptors <- SomeSettings
    Elements <- FiveElements
    Pdus <- SomePdus
    Provisionings <- SomeProvisionings
    Frames <- SomeFrames
    Requests <- SomeRequests
    Sayings <- SomeSayings
SPECIFICATION StackSpec
INVARIANTS
    ParsesUpToEight ProvisioningReadsBack Understood AnswerReachesAsker ReadsBack
    CompositionFits StatusTellsApart RequestsAreRead
CHECK_DEADLOCK FALSE
