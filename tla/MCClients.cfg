SPECIFICATION FairSpec
CONSTANTS
    a = a
    b = b
    d = d
    Client <- ThreeClients
    Founder = a
    Setups <- SixSetups
    Retention = 2
INVARIANTS TypeOK SecretsAgree ResumptionKept CommitProcessable WelcomeNotLost ResumptionJoin
PROPERTY WelcomeLeadsToMember
CHECK_DEADLOCK FALSE
