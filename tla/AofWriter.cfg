\* Two databases, a channel of two, one failed write and two
\* crashes at any step.  The run ends when the bounds are used up.
CONSTANTS
    Databases = 2
    aofBufferSize = 2
    MaxCmds = 5
    MaxErrors = 1
    MaxRestarts = 2
SPECIFICATION FairSpec
CHECK_DEADLOCK FALSE
INVARIANTS
    TypeOK
    MisfiledOnlyWhileSkewed
    FileInSendingOrder
    LossWindow
PROPERTIES
    SentIsWritten
