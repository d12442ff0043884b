-------------------------- MODULE MCJobSupervisor --------------------------
(* JobSupervisor on one job of one owner, asked for by an A2A client.      *)
EXTENDS JobSupervisor

CONSTANTS j1, o1

OneJob == {j1}
MCOwners == {o1}
NoCrash == {}
=============================================================================
