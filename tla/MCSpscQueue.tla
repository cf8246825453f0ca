---------------------------- MODULE MCSpscQueue ----------------------------
EXTENDS SpscQueue, QueueProgress
=============================================================================
