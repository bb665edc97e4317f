SPECIFICATION Spec
CONSTANTS
    Rows = {1}
    Tenants = {t1}
    tenantOf <- SameTenant
    Destinations = {d1}
    destinationOf <- SameDestination
    Workers = {w1}
    workerOf <- OneProcess
    Sweeps = {s1, s2}
    NoRow = NoRow
    NoWorker = NoWorker
    leaseTTL = 3
    deliveryTimeout = 1
    claimLatency = 1
    backoffCap = 1
    maxAttempts = 2
    maxInFlightPerDestination = 2
    maxInFlightPerTenant = 2
    circuitFailureThreshold = 2
    circuitOpenDuration = 3
    MaxFaults = 1
INVARIANT SingleDeliverer
