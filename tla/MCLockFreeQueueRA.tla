------------------------- MODULE MCLockFreeQueueRA -------------------------
EXTENDS LockFreeQueueRA
=============================================================================
