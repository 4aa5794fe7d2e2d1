----------------------------- MODULE StoredBytes -----------------------------
(* The store's bytes, whichever way they come in: through the calls of the   *)
(* object store, or with a PUT that the server takes in.                     *)
EXTENDS ObjectStore, BlobIntake

\* Bytes that are stored, by the object store or by the server's intake, are whole.
StoredBytesAreWhole == ObjectsAreSound /\ IntakeIsWhole
==============================================================================
