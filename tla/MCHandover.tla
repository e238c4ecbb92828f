----------------------------- MODULE MCHandover -------------------------------
EXTENDS Handover

CONSTANTS u1, u2, d1, d2, d3

MCUsers == {u1, u2}
MCDevices == {d1, d2, d3}
MCUser == [d \in MCDevices |-> IF d = d3 THEN u2 ELSE u1]
===============================================================================
