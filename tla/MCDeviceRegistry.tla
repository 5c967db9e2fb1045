-------------------------- MODULE MCDeviceRegistry --------------------------
(* TLC instance of DeviceRegistry: two devices, two addresses.             *)
EXTENDS DeviceRegistry

CONSTANTS m1, m2

MCMacs == {m1, m2}
MCAddrs == 1..2

\* No file yet, or a file that knows the first device.
MCFiles == {[a \in MCAddrs |-> NoMac],
            [a \in MCAddrs |-> IF a = 1 THEN m1 ELSE NoMac]}
=============================================================================
