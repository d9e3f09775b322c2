---------------------- MODULE MCIncrementalSimilarity ----------------------
EXTENDS IncrementalSimilarity
MCItems == 0..2
=============================================================================
