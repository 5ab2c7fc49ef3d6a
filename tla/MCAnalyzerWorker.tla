-------------------------- MODULE MCAnalyzerWorker --------------------------
(***************************************************************************)
(* Instances of AnalyzerWorker for TLC.                                    *)
(***************************************************************************)
EXTENDS AnalyzerWorker, TLC

\* Activations are interchangeable: no property names one.
WorkerSymmetry == Permutations(Workers)

=============================================================================
