---------------------------- MODULE MCResumeLease ----------------------------
(* Three processes of one host, of which one dies while two ask for its      *)
(* folder.                                                                   *)
EXTENDS ResumeLease, TLC

CONSTANTS p, q, r, t, u, v, here, onePid, otherPid, thirdPid

OneTaskEach == (t :> p) @@ (u :> q) @@ (v :> r)
OneHost == [x \in Processes |-> here]
DistinctPids == (p :> onePid) @@ (q :> otherPid) @@ (r :> thirdPid)
=============================================================================
