SPECIFICATION Spec
CONSTANTS
    Paths <- ThreePaths
    Versions = {"v1", "v2"}
    Disks <- SomeDisks
    Views <- SomeViews
    MaxDrives = 2
    MaxEntries = 2
INVARIANT CleanDriveIsAccepted
INVARIANT AsSent
INVARIANT TempsAccounted
INVARIANT DiskIsSound
CHECK_DEADLOCK FALSE
