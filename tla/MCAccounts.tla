----------------------------- MODULE MCAccounts -----------------------------
(***************************************************************************)
(* Instances of Accounts for TLC: what is requested and seeded.  System is *)
(* set up by ann or root, acme belongs to bob.  User i is the i-th row     *)
(* that is inserted.                                                       *)
(***************************************************************************)
EXTENDS Accounts

CONSTANTS system, acme, ann, bob, root

Job(kind, slug, email, id, role) ==
    [kind |-> kind, slug |-> slug, email |-> email, id |-> id, role |-> role]
OwnerJob(kind, slug, email) == Job(kind, slug, email, 1, "owner")

Foundings == {OwnerJob("setup", system, ann), OwnerJob("setup", system, root),
              OwnerJob("seedSuperadmin", system, root),
              OwnerJob("seedTenant", acme, bob),
              OwnerJob("createTenant", acme, bob), OwnerJob("createTenant", acme, ann)}
Additions == {OwnerJob("create", system, root), OwnerJob("create", acme, ann)}
Changes(ids) ==
    {Job("update", system, ann, i, r) : i \in ids, r \in Roles \cup {NoRole}}
    \cup {Job("delete", s, ann, i, NoRole) : i \in ids, s \in {system, acme}}

AllJobs == Foundings \cup Additions \cup Changes(1..2)
TwoOwners == {OwnerJob("setup", system, ann), OwnerJob("create", system, bob)}
             \cup Changes(1..2)
=============================================================================
