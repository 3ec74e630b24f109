------------------------- MODULE MCWorkspaceCleanup -------------------------
EXTENDS WorkspaceCleanup, TLC

CONSTANTS i1, i2

MCWorkspace == {i1, i2}
Symmetry == Permutations(MCWorkspace)

\* Left over; the same with work in it; with a process at work in it; registered
\* with git and gone; owned, with a lease and a session.
Abandoned ==
    [registration |-> "registered", existence |-> "present", dirtiness |-> "clean",
     head |-> "branch", upstream |-> "up_to_date", reachability |-> "reachable",
     lease |-> "absent", process |-> "absent", session |-> "absent", disk |-> "measured"]
MCCondition ==
    {Abandoned,
     [Abandoned EXCEPT !.dirtiness = "dirty"],
     [Abandoned EXCEPT !.process = "present", !.lease = "expired",
                       !.registration = "unregistered"],
     [Abandoned EXCEPT !.existence = "missing"],
     [Abandoned EXCEPT !.lease = "active", !.session = "present",
                       !.registration = "unregistered"]}

MCBlind == {{}, {"dirtiness"}, {"process", "lease", "session", "reachability"}}

MCAuthorizations == {<<i, j>> : i \in MCWorkspace, j \in MCWorkspace}
=============================================================================
