SPECIFICATION Spec
CONSTANTS
    NTx = 2
    Senders = {s1, s2}
    NoSender = nobody
    NoFrame = none
    Modes = {fast}
    MaxSends = 2
INVARIANT OkMeansSent
