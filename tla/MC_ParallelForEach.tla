------------------------- MODULE MC_ParallelForEach -------------------------
\* Instance of ParallelForEach for TLC; the constants are in the .cfg file.
EXTENDS ParallelForEach
=============================================================================
