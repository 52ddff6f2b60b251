CONSTANTS
    Ctxs = {x1, x2}
    NoCtx = NoCtx
    Stmts = {s1, s2}
    Prepared = {s1}
    TxBegins = {"none", "BEGIN_immediate"}
    MaxWrites = 1
SPECIFICATION FairDriverSpec
INVARIANTS RowsOpen OneWaiter Restored Honoured
PROPERTIES Sticky OwnContext SetInterruptReturns TxEnds AllOrNothing CallEnds
CHECK_DEADLOCK FALSE
