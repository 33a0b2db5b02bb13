SPECIFICATION ConsoleFairSpec
CONSTANTS
    Char <- MCChar
    InterruptKey <- MCInterruptKey
    MaxPending = 3
INVARIANTS OneReader DequeueNeverWaits
PROPERTIES KeysSpec JoinReturns InterruptKeyWorks
