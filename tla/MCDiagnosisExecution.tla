------------------------ MODULE MCDiagnosisExecution ------------------------
EXTENDS DiagnosisExecution, TLC

\* Workers are interchangeable: no action compares them.
WorkerSymmetry == Permutations(Workers)

\* Faults the executor answers by itself.
AbsorbedFaults == {"prepare_error", "outcome_error", "outcome_ack_lost"}
=============================================================================
