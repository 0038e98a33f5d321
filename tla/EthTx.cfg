SPECIFICATION FairSpec
CONSTANTS
    NTx = 2
    Senders = {s1, s2}
    NoSender = nobody
    NoFrame = none
    Modes = {fast, slow}
    MaxSends = 3
INVARIANTS SentAsAsked LinkMatchesTransmitter
PROPERTIES SendReturns LinkComesUp
