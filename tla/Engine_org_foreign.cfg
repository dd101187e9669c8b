\* A stale organisation head names a reused slot
CONSTANTS
    TotalSlots = 3
    MaxProducts = 1
    MaxOrg = 2
    Prices = {1, 2}
    Clients <- OrgClients
SPECIFICATION Spec
CHECK_DEADLOCK FALSE
PROPERTIES CancelOrgOwnOnly
