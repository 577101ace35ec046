-------------------------- MODULE MCSetpointControl --------------------------
(***************************************************************************)
(* An instance of SetpointControl for TLC: setpoints one and several       *)
(* degrees apart, and an air temperature that leaves them behind.          *)
(***************************************************************************)
EXTENDS SetpointControl

\* Each within the range of 10, the first two a small change apart.
SomeRequests ==
    {[glycol |-> 9, heaters |-> 10],
     [glycol |-> 10, heaters |-> 11],
     [glycol |-> 12, heaters |-> 10]}

SomeAir == {4, 10, NaN}

\* Missing, complete, and without a setpoint for the heaters.
SomeFiles ==
    {[stamp |-> "none", setpoints |-> NoSetpoints],
     [stamp |-> "zoned", setpoints |-> [glycol |-> 8, heaters |-> 9]],
     [stamp |-> "zoned", setpoints |-> [glycol |-> 8, heaters |-> NaN]]}

\* A count that starts anywhere, and one that starts where it should.
AnyErrors == 0..(ErrorLimit + 1)
OnlyZero == {0}
=============================================================================
