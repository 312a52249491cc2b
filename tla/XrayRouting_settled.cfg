SPECIFICATION FairSpec
CONSTANTS
    Profiles = {p1}
    Operations = {"vless_create", "vless_delete", "xray_save", "warp_sync", "cascade_save", "cascade_restart", "geofiles", "restore"}
    Firewalls = {"ufw"}
    Faults = {"reboot"}
    MaxFaults = 1
INVARIANTS
    Agreement
PROPERTIES
    LockReleased
    LeftoverRemoved
