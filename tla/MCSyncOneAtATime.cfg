SPECIFICATION Spec
CONSTANTS
    d = d
    m = m
    Runner = {d, m}
    Daemon = d
INVARIANTS
    OneAtATime
