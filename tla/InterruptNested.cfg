CONSTANTS
    Ctxs = {x1, x2}
    NoCtx = NoCtx
    Stmts = {}
SPECIFICATION Spec
PROPERTY StickyInAnyOrder
