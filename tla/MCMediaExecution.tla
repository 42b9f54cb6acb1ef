-------------------------- MODULE MCMediaExecution --------------------------
EXTENDS MediaExecution, TLC

WorkerSymmetry == Permutations(Workers)
=============================================================================
