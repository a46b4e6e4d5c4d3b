SPECIFICATION ReportSpec
CONSTANTS
    Permissions = {"sms", "accessibility", "device_admin", "camera"}
    MaxApps = 2
    MaxLogs = 3
INVARIANTS
    LevelAgrees
PROPERTIES
    EvidenceOnlyAdds
CHECK_DEADLOCK FALSE
