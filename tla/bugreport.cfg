SPECIFICATION FairSpec
CONSTANTS
    MaxSends = 2
    Disturb = {"close"}
INVARIANT ThanksMeanReceived
INVARIANT NothingPulledAway
INVARIANT CancelHonoured
PROPERTY SendEnds
CHECK_DEADLOCK FALSE
