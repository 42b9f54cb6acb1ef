------------------------------ MODULE MCOutbox ------------------------------
EXTENDS Outbox, TLC

DispatcherSymmetry == Permutations(Dispatchers)
=============================================================================
