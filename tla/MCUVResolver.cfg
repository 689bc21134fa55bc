CONSTANTS
    a = a
    b = b
    r1 = r1
    r2 = r2
    r3 = r3
    None = None
    Obj <- TwoResolvers
    Req <- ThreeCalls
    MaxRefs = 2
SPECIFICATION FairSpec
INVARIANTS
    RefCountExact
    ResolverOutlivesRequests
    MisdeliveredOnlyWhenOvertaken
PROPERTIES
    EveryRequestAnswered
    AnsweredOnce
CHECK_DEADLOCK FALSE
