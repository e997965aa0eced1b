--------------------------- MODULE MCNonLocalExit ---------------------------
EXTENDS NonLocalExit, TLC

Names == {"nil", "a"}
CatchTags == {"t"}
Payloads == {"v"}
=============================================================================
