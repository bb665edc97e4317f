SPECIFICATION FairSpec
CONSTANTS
    Rows = {1}
    Tenants = {t1}
    tenantOf <- SameTenant
    Destinations = {d1}
    destinationOf <- SameDestination
    Workers = {w1}
    workerOf <- OneProcess
    Sweeps = {s1, s2}
    NoRow = NoRow
    NoWorker = NoWorker
    leaseTTL = 3
    deliveryTimeout = 1
    claimLatency = 1
    backoffCap = 1
    maxAttempts = 3
    maxInFlightPerDestination = 2
    maxInFlightPerTenant = 2
    circuitFailureThreshold = 1
    circuitOpenDuration = 3
    MaxFaults = 2
INVARIANTS
    DeadLetteredAfterMaxAttempts
    OneProbe
PROPERTIES
    ImplementsDelivery
    EveryRowSettles
