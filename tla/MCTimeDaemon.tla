---- MODULE MCTimeDaemon ----
EXTENDS TimeDaemon
\* The second boot reuses the port of the first.
Ports == [b \in Boots |-> IF b < 3 THEN 1 ELSE 2]
====
