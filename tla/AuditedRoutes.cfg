SPECIFICATION FairRoutesSpec
CONSTANTS
    t1 = t1
    t2 = t2
    t3 = t3
    Txns = {t1, t2, t3}
    BatchSizes = {2}
INVARIANTS ChainIntact PublishedInOrder LogTellsHistory
PROPERTIES RevokedStaysOut EveryTxnEnds
CHECK_DEADLOCK FALSE
