---------------------------- MODULE MCCloudRelay ----------------------------
(* A small instance of CloudRelay for TLC. *)
EXTENDS CloudRelay, TLC

CONSTANTS t1, t2, d1, d2

\* A Workshop step and a spoken instruction of one account, whose desktops name
\* every kind.
Kinds == [t \in Task |-> IF t = t1 THEN "workshop-call" ELSE "app-execute"]
Creators == [t \in Task |-> "founder"]
Accounts == [d \in Desktop |-> "founder"]
Served == [d \in Desktop |-> AppKinds]
=============================================================================
