\* One query may outlive its call: a later call then finds the table full or
\* the name cached.
CONSTANT MaxDns = 1
SPECIFICATION FairSpec
INVARIANTS
    TrueMeansSet
    ClosedOutside
PROPERTIES
    LoopGoesOn
    Resyncs
