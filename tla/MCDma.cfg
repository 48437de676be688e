SPECIFICATION LiveSpec
CONSTANTS
    Lengths = {0, 4}
    Whole = 2
    SectorWords = 3
    ListWords = {1}
    MaxTransfer = 3
    CyclesPerWord <- MCCyclesPerWord
    MaxAccum = 3
    MaxAvail = 2
    Charges = {1, 3}
    Enables <- MCEnables
    Controls <- MCControls
    Programs <- MCPrograms
INVARIANTS TypeOK JobBusy IrqNotLost NothingDueEarly SlicesAgree
PROPERTIES TransferEnds
CHECK_DEADLOCK FALSE
