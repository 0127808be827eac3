CONSTANTS
    Msg = {m1, m2}
    NoMsg = NoMsg
    MaxSends = 4
SPECIFICATION Spec
INVARIANTS TypeOK OnlyEmptyPollPanics
PROPERTIES IsMailbox Delivered
CHECK_DEADLOCK FALSE
