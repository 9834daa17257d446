SPECIFICATION FairSpec
CONSTANTS
    term = term
    sock = sock
    h1 = h1
    Admins = {term, sock}
    Terminal = term
    Hosts = {h1}
    MaxPuts = 3
CHECK_DEADLOCK FALSE
INVARIANTS SameOrder OnlyHandlersSelfWait
PROPERTY NothingElseJams
