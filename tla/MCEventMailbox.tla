--------------------------- MODULE MCEventMailbox ---------------------------
EXTENDS EventMailbox, TLC

Interests == ("t1" :> {"w1", "w2"}) @@ ("t2" :> {})
=============================================================================
