----------------------------- MODULE MCMailbox -----------------------------
EXTENDS Mailbox, TLC

OneBox == "two" :> 2
TwoBoxes == ("narrow" :> 1) @@ ("wide" :> Unbounded)
=============================================================================
