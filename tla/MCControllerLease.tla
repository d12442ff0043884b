-------------------------- MODULE MCControllerLease --------------------------
(* ControllerLease with two controllers and three jobs.                    *)
EXTENDS ControllerLease

CONSTANTS c1, c2, j1, j2, j3

MCControllers == {c1, c2}
MCJobIds == {j1, j2, j3}
=============================================================================
