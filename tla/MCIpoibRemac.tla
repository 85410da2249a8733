---------------------------- MODULE MCIpoibRemac ----------------------------
(***************************************************************************)
(* Instances of the IPoIB REMAC cache for TLC.                             *)
(***************************************************************************)
EXTENDS IpoibRemac, TLC

CONSTANTS d1, d2, r1, r2, r3, m1, m2

(* Port d1 is probed and d2 is still to be probed (a second HCA port       *)
(* registered later), or both are probed.                                  *)
OneProbed == (d1 :> "ipoib") @@ (d2 :> "none")
BothProbed == (d1 :> "ipoib") @@ (d2 :> "ipoib")

(* One port probed on a 3-block heap (the heap fills before a device can  *)
(* reach three peers, so allocations fail); both probed on a 5-block heap *)
(* (one device reaches three peers while the other holds some, so the     *)
(* discarder drops entries and allocations also fail).                    *)
StartStates == {[heap |-> 3, owner |-> OneProbed], [heap |-> 5, owner |-> BothProbed]}

(* One port probed, three peers fill a 4-block heap, then d2 is probed.    *)
SecondPortToProbe == {[heap |-> 4, owner |-> OneProbed]}
====
