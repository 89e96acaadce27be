---------------------------- MODULE MCSequencer ----------------------------
(* Small instances of Sequencer. *)
EXTENDS Sequencer

\* A single transaction; an empty, a full and an oversized batch.
MCRequests == {SubmitTx, SubmitBatch(0), SubmitBatch(2), SubmitBatch(3)}
OnlySubmitTx == {SubmitTx}
=============================================================================
