-------------------------- MODULE MCEventAttendance --------------------------
(***************************************************************************)
(* Instances of EventAttendance for TLC: two members with a device each,   *)
(* and one member alone; the administrator is there in both.               *)
(***************************************************************************)
EXTENDS EventAttendance, TLC

CONSTANTS alice, bob, d1, d2

TwoMembers == (d1 :> alice) @@ (d2 :> bob)

OneMember == d1 :> alice
=============================================================================
