----------------------------- MODULE Acquisition -----------------------------
(***************************************************************************)
(* SatDownloadClient.download_and_ingest: one execution of the download,   *)
(* then the ingestion of each package it returned.  Whatever raises leaves *)
(* through it, and the packages that were still to come are not ingested.  *)
(* The process may die at any step; the caller may call again.             *)
(* Translated from facade/client.py and persistence/memory.py.             *)
(***************************************************************************)
EXTENDS Download, SourceArchive

\* What the SAT lists is what it has.
ASSUME PackageAssumption == \A reply \in Replies : \A i \in DOMAIN reply.ids : reply.ids[i] \in Contents

VARIABLE client   \* the facade: what it does, the packages of the outcome, the next one

acquisitionVars == <<downloadVars, archiveVars, client>>

NoCall == [pc |-> "idle", packages |-> <<>>, next |-> 1]

Init ==
    /\ DownloadInit
    /\ ArchiveInit
    /\ client = NoCall

Begin ==
    /\ client.pc = "idle"
    /\ Execute
    /\ client' = [NoCall EXCEPT !.pc = "execute"]
    /\ UNCHANGED archiveVars

\* The outcome is handed to the ingester package by package.
HandOver ==
    /\ client.pc = "execute" /\ job.pc = "done"
    /\ client' = [NoCall EXCEPT !.pc = "ingest", !.packages = job.packages]
    /\ job' = NoJob /\ clock' = 0
    /\ UNCHANGED <<issued, saved, archiveVars>>

IngestNext ==
    /\ client.pc = "ingest"
    /\ client.next <= Len(client.packages)
    /\ Ingest(client.packages[client.next])
    /\ UNCHANGED <<downloadVars, client>>

Ingested ==
    /\ client.pc = "ingest" /\ ingest.pc = "returned"
    /\ ingest' = NoIngest
    /\ client' = [client EXCEPT !.next = @ + 1]
    /\ UNCHANGED <<downloadVars, zips, manifests, files>>

\* The call is over: nothing of it is left but what is saved and stored.
Over ==
    /\ job' = NoJob /\ clock' = 0
    /\ ingest' = NoIngest
    /\ client' = NoCall
    /\ UNCHANGED <<issued, zips, manifests, files>>

Return ==
    /\ client.pc = "ingest" /\ ingest.pc = "idle"
    /\ client.next > Len(client.packages)
    /\ Over /\ UNCHANGED saved

Propagate ==
    /\ job.pc = "raised" \/ ingest.pc = "raised"
    /\ Over /\ UNCHANGED saved

\* The request repository is in memory.
Crash ==
    /\ client.pc # "idle"
    /\ Over /\ saved' = {}

Step ==
    \/ DownloadStep /\ UNCHANGED <<archiveVars, client>>
    \/ ArchiveStep /\ UNCHANGED <<downloadVars, client>>
    \/ HandOver \/ IngestNext \/ Ingested \/ Return \/ Propagate

Passes == Tick /\ UNCHANGED <<archiveVars, client>>

Next == Begin \/ Step \/ Passes \/ Crash

Spec == Init /\ [][Next]_acquisitionVars

\* A call that has begun goes on, and time passes.  Nothing is assumed of the
\* SAT, of the file system or of the caller.
FairSpec == Spec /\ WF_acquisitionVars(Step) /\ WF_acquisitionVars(Passes)

-----------------------------------------------------------------------------

TypeOK ==
    /\ DownloadTypeOK
    /\ ArchiveTypeOK
    /\ client.pc \in {"idle", "execute", "ingest"}
    /\ ingest.pc # "idle" => client.pc = "ingest"
    /\ client.pc = "ingest" => job.pc = "idle" /\ client.next \in 1..Len(client.packages) + 1

\* Every call ends, with an outcome or an exception, whatever the SAT answers:
\* even one that asks to be asked again for ever is given up.
EveryCallEnds == client.pc # "idle" ~> client.pc = "idle"
=============================================================================
