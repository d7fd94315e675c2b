\* The two owners of a tenant, two requests at a time, no fault.
SPECIFICATION Spec

CONSTANTS
    system = system
    acme = acme
    ann = ann
    bob = bob
    root = root
    Processes = {p1, p2}
    Slugs = {system, acme}
    System = system
    Emails = {ann, bob, root}
    Portal = Portal
    Nobody = Nobody
    NoJob = NoJob
    Jobs <- TwoOwners
    MaxUsers = 4
    MaxFaults = 0

INVARIANT
    AlwaysOwned
