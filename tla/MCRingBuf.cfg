SPECIFICATION FairSpec
CONSTANTS
    Capacity = 4
    WriteSizes <- MCWriteSizes
    ReadSizes <- MCReadSizes
    Tries <- MCTries
    Unwinds <- MCUnwinds
    MaxTotal = 12
INVARIANTS NoOverrun ReadPublished NoDataRace BytesIntact
PROPERTIES ImplementsPipe WriterUnblocks ReaderUnblocks
CHECK_DEADLOCK FALSE
