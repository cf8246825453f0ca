---------------------------- MODULE MCQueueTests ---------------------------
EXTENDS QueueTests

\* TLC cannot take a set of tuples from a .cfg file.
MCItems == Producers \X (0 .. PerProducer - 1)
=============================================================================
