---------------------------- MODULE MCHostHooks ----------------------------
(* HostHooks for TLC: two updaters, a host with Nginx and one without.     *)
EXTENDS HostHooks

CONSTANTS u1, u2, good, bad

MCUpdaters == {u1, u2}
MCReleases == {good, bad}
MCSound    == {good}
MCModes    == {"normal", "observe-only", "safe-disabled"}
MCSteps    == {"stop", "xray", "nginx"}
MCRemovals == {"xray", "nginx"}
MCHosts    == { [nginx |-> FALSE, good |-> Parts \ {"nginx"}],
                [nginx |-> TRUE,  good |-> Parts \ {"nginx"}] }
=============================================================================
