-------------------------- MODULE MCRuntimeMailbox --------------------------
EXTENDS RuntimeMailbox

CONSTANTS s1, t1, r1, r2

AllCommands == AllKinds

=============================================================================
