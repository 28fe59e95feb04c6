SPECIFICATION FairThrottleSpec
CONSTANTS
    ip1 = ip1
    alice = alice
    member = member
    Anonymous = Anonymous
    Rate <- MCRate
    Period <- MCPeriod
    Requests <- MCRequests
    Workers = {w1, w2}
INVARIANTS ThrottleIInv LimitKept
PROPERTY BucketsReopen
