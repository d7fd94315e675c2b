\* Two processes at a time: set-ups, seeds, new tenants and users, changes
\* and removals of users; one fault.
SPECIFICATION FairSpec

CONSTANTS
    system = system
    acme = acme
    ann = ann
    bob = bob
    root = root
    Processes = {p1, p2}
    Slugs = {system, acme}
    System = system
    Emails = {ann, bob, root}
    Portal = Portal
    Nobody = Nobody
    NoJob = NoJob
    Jobs <- AllJobs
    MaxUsers = 4
    MaxFaults = 1

INVARIANTS
    SetupOnce
    CompleteMeansDone
    ServedAfterSetup
    NoCircularWait

PROPERTIES
    OwnerlessNeedsOverlap
    EveryRequestEnds
