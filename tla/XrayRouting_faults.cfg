SPECIFICATION Spec
CONSTANTS
    Profiles = {p1}
    Operations = {"vless_create", "vless_delete", "xray_save", "warp_sync", "cascade_save", "cascade_restart", "geofiles", "restore"}
    Firewalls = {"ufw", "firewalld", "iptables"}
    Faults = {"command_failed", "io_error", "killed", "reboot"}
    MaxFaults = 1
INVARIANTS
    FilesExclusive
PROPERTIES
    SuccessMeansApplied
    VlessAllOrNothing
