SPECIFICATION PipelineSpec
CONSTANTS
    PipeQPs = 1
    MaxWr = 5
    Settings <- MCSettings
    Sizes = {1, 4, 7}
    MaxPosts = 12
INVARIANTS
    PipelineTypeOK
    SlotsSuffice
    AllDelivered
CHECK_DEADLOCK FALSE
