SPECIFICATION FairSpec
CONSTANTS
    c1 = c1
    c2 = c2
    w1 = w1
    w2 = w2
    w3 = w3
    Callers = {c1, c2}
    Workers = {w1, w2, w3}
    NoThread = NoThread
    Disciplined = TRUE
INVARIANTS
    SoleThread
    HandleKnowsThread
PROPERTIES
    ExitObeyed
