CONSTANTS
    Thread = {t1, t2, t3, t4, t5, t6}
    MaxConnections = 3
SPECIFICATION FairSpec
INVARIANTS TypeOK PermitsConserved NoLostWakeup
PROPERTIES FreePermitIsTaken ImplementsSemaphore
