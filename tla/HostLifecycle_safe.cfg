SPECIFICATION Spec
CONSTANTS
    Package <- ThreePackages
    ImagesOf <- SharedImages
    ProbesOf <- ThreeRoles
    MaxOps = 5
    MaxCrashes = 2
INVARIANTS DataOwned  StartedServes ImagesKept
CHECK_DEADLOCK FALSE
