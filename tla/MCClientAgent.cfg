CONSTANTS
    stop = stop
    chat = chat
    Messages = {stop, chat}
    OptOuts = {stop}
    e1 = e1
    e2 = e2
    e3 = e3
    Events = {e1, e2, e3}
    MessageOf <- MCMessageOf
    Deliveries = {x1, x2}
    Brokers = {b1}
    None = None
SPECIFICATION Spec
SYMMETRY Symmetric
INVARIANTS
    TypeOK
    AnsweredOnce
    SilenceKept
    StrayThreadsOverlap
PROPERTY
    CorrespondenceSpec
