------------------------------ MODULE BlobIntake ------------------------------
(* PUT /blobs/:hash on the server: requests for one blob at the same time.    *)
(* They share a temporary file, which the first rename makes the blob.  A     *)
(* file is the set of the blob's chunks that are in it.                       *)
EXTENDS Naturals, FiniteSets

CONSTANTS
  Puts,     \* the requests
  Chunks    \* in the body of each

ASSUME IntakeAssumption == IsFiniteSet(Puts) /\ Puts # {} /\ Chunks \in Nat

VARIABLES
  put,      \* request -> [at, inode, sent]
  inode,    \* file -> the chunks in it; one for each creation
  entry,    \* "tmp", "blob" -> the file of that name, 0 if there is none
  dropped   \* history: a connection was lost
intakeVars == <<put, inode, entry, dropped>>

Named(name, f) == entry' = [entry EXCEPT ![name] = f]

IntakeInit ==
  /\ put = [p \in Puts |-> [at |-> "new", inode |-> 0, sent |-> 0]]
  /\ inode = [f \in 1..Cardinality(Puts) |-> {}]
  /\ entry = [n \in {"tmp", "blob"} |-> 0]
  /\ dropped = FALSE

Answer(p, a) == put' = [put EXCEPT ![p].at = a]

\* What exists already is not sent again.
Known(p) ==
  /\ put[p].at = "new"
  /\ Answer(p, IF entry["blob"] # 0 THEN "ok" ELSE "create")
  /\ UNCHANGED <<inode, entry, dropped>>

\* File::create: a new file, or the one of that name cut to nothing.
Create(p) ==
  /\ put[p].at = "create"
  /\ LET used == {put[q].inode : q \in Puts}
         f == IF entry["tmp"] # 0 THEN entry["tmp"] ELSE CHOOSE g \in DOMAIN inode : g \notin used
     IN /\ put' = [put EXCEPT ![p] = [at |-> "body", inode |-> f, sent |-> 0]]
        /\ inode' = [inode EXCEPT ![f] = {}]
        /\ Named("tmp", f)
  /\ UNCHANGED dropped

\* Each chunk goes to the request's own offset, in whatever its file is named now.
Chunk(p) ==
  /\ put[p].at = "body" /\ put[p].sent < Chunks
  /\ inode' = [inode EXCEPT ![put[p].inode] = @ \cup {put[p].sent + 1}]
  /\ put' = [put EXCEPT ![p].sent = @ + 1]
  /\ UNCHANGED <<entry, dropped>>

\* The hash of what was received is right when all of it was.
Received(p) == put[p].sent = Chunks

\* The temporary name is renamed, whichever file it names; if there is none, 500.
Publish(p) ==
  /\ put[p].at = "body" /\ Received(p)
  /\ IF entry["tmp"] # 0
     THEN Answer(p, "ok") /\ entry' = [entry EXCEPT !["tmp"] = 0, !["blob"] = entry["tmp"]]
     ELSE Answer(p, "failed") /\ UNCHANGED entry
  /\ UNCHANGED <<inode, dropped>>

\* The connection is lost: the handler removes the temporary name, or is gone itself.
Disconnect(p) ==
  /\ put[p].at = "body" /\ ~dropped
  /\ dropped' = TRUE
  /\ Answer(p, "failed")
  /\ Named("tmp", 0) \/ UNCHANGED entry
  /\ UNCHANGED inode

IntakeNext == \E p \in Puts : Known(p) \/ Create(p) \/ Chunk(p) \/ Publish(p) \/ Disconnect(p)

IntakeSpec == IntakeInit /\ [][IntakeNext]_intakeVars

\* Requests for one blob that share its temporary file still leave it whole when
\* all have ended, if no connection was lost; and a request that was answered OK
\* means that the blob is there (server.rs:128: idempotent).
IntakeIsWhole ==
  /\ (~dropped /\ \A p \in Puts : put[p].at \in {"ok", "failed"}) => inode[entry["blob"]] = 1..Chunks
  /\ (\E p \in Puts : put[p].at = "ok") => entry["blob"] # 0
==============================================================================
