---------------------------- MODULE InitContract ----------------------------
(***************************************************************************)
(* What the initialisation of 32 bits drivers and file systems promises,   *)
(* whatever route it takes (samples.im): a client's init routine runs only *)
(* after mwdd32.sys served the client, it runs at most once, and the       *)
(* kernel accepts a client only if its init routine said it is fine.       *)
(***************************************************************************)
CONSTANT Clients

VARIABLE phase

Phases == {"new", "served", "initialised", "refused", "accepted", "rejected"}
Final == {"accepted", "rejected"}

Init == phase = [c \in Clients |-> "new"]

Move(c, from, to) == phase[c] \in from /\ phase' = [phase EXCEPT ![c] = to]

Serve(c) == Move(c, {"new"}, "served")
RunInit(c) == Move(c, {"served"}, "initialised") \/ Move(c, {"served"}, "refused")
Accept(c) == Move(c, {"initialised"}, "accepted")
Reject(c) == Move(c, Phases \ Final, "rejected")

Next == \E c \in Clients : Serve(c) \/ RunInit(c) \/ Accept(c) \/ Reject(c)

Spec == Init /\ [][Next]_phase

(* The kernel's configuration of a boot always comes to an end.            *)
FairSpec == Spec /\ \A c \in Clients : WF_phase(Accept(c) \/ Reject(c))
=============================================================================
