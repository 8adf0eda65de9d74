SPECIFICATION MCDrainedSpec
CONSTANTS
    Callers = {1}
    MaxAbandoned = 1
    Workers = {1, 2, 3}
    Conns = {1, 2, 3, 4}
PROPERTIES
    ReadinessRecovers
