----------------------------- MODULE MCDiscovery -----------------------------
EXTENDS Discovery

CONSTANTS a, b

\* b offers nothing to connect to, so only a is seen.
MCInfo == [c \in Clients |->
             [endpoint |-> IF c = a THEN "there" ELSE "", role |-> "edge",
              zone |-> IF c = a THEN "" ELSE "z", qos |-> "reliable"]]
=============================================================================
