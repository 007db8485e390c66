SPECIFICATION FairSpec
CONSTANTS
    Alert = {a1}
    Sync = {sync}
    Batch = {batch}
    Sweep = {sweep}
    Button = {button}
    MaxFaults = 1
PROPERTY EveryDeliveryAttempted
PROPERTY IgnoredCriticalEscalates
