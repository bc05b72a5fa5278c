CONSTANTS
    Foreign = "other"
    Second = 3
    Low = 4
    Micro = 4
    High = 4
    Recordings <- SomeRecordings
    Speeds <- SomeSpeeds
    MaxDelay = 4
    MaxKeys = 2
    Sizes = {1, 2}
    MaxResizes = 2
    MaxLocks = 2
SPECIFICATION PartsSpec
INVARIANTS KeyboardTypeOK CodesAreTyped WindowTypeOK SizeFollows PlaybackTypeOK FileKeepsTimes DelayIsInDrift DriftIsDelay 
PROPERTIES CodesWork WaitsNoLongerThanRecorded
CHECK_DEADLOCK FALSE
