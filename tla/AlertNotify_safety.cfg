SPECIFICATION Spec
CONSTANTS
    Alert = {a1, a2}
    Sync = {sync}
    Batch = {batch}
    Sweep = {sweep}
    Button = {button}
    MaxFaults = 1
SYMMETRY Alerts
CONSTRAINT Casts
INVARIANT AlertsAreTold
PROPERTY EscalationNeverRegresses
