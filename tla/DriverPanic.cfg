CONSTANTS
    Ctxs = {x1, x2}
    NoCtx = NoCtx
    Stmts = {s1}
    Prepared = {s1}
    TxBegins = {"BEGIN_immediate"}
    MaxWrites = 1
SPECIFICATION DriverSpec
INVARIANT DriverNoPanic
CHECK_DEADLOCK FALSE
