----------------------------- MODULE MCSpscTest ----------------------------
EXTENDS MCQueueTests, SpscTest
=============================================================================
