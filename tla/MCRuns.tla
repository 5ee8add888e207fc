------------------------------- MODULE MCRuns -------------------------------
EXTENDS Runs

CONSTANTS p1, c1

Job(kind, tty, bridged, discard) ==
    [kind |-> kind, tty |-> tty, bridged |-> bridged, discard |-> discard]

\* An interactive app with the loopback bridge, a plain one, and an install script
AllJobs == {Job("app", TRUE, TRUE, FALSE), Job("app", FALSE, FALSE, FALSE),
            Job("build", FALSE, FALSE, FALSE)}
=============================================================================
