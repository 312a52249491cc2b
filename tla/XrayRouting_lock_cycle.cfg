SPECIFICATION Spec
CONSTANTS
    Profiles = {}
    Operations = {"xray_save", "cascade_save"}
    Firewalls = {"ufw"}
    Faults = {}
    MaxFaults = 0
INVARIANTS
    NoLockCycle
