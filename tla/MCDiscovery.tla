----------------------------- MODULE MCDiscovery ------------------------------
EXTENDS Discovery

CONSTANTS home, office, phone, tool

MCScore == [a \in Addresses |-> IF a = home THEN 0 ELSE 1]
MCTargets == [c \in Seekers |-> IF c = tool THEN {1} ELSE Ports]

\* No option, and --no-discovery.
MCCommandLines == {[DefaultOptions(2) EXCEPT !.discover = d] : d \in BOOLEAN}
==============================================================================
