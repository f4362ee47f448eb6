---------------------------- MODULE SourceArchive ----------------------------
(***************************************************************************)
(* IngestDownloadedPackageUseCase over the file system: the sink writes    *)
(* <sha>.zip and then <sha>.manifest.json, the extractor writes the XML    *)
(* members of the package one by one.  Translated from                     *)
(* ingest_downloaded_package.py, filesystem_sink.py and extractor.py.      *)
(*                                                                         *)
(* write_bytes and write_text open, fill and close a file, and an OSError  *)
(* or a crash may come in between: a file is absent, torn (opened but not  *)
(* whole) or whole.  Content stands for its hash.  The manifest's hash is  *)
(* computed from the content it is stored with, so the guard that compares *)
(* them cannot fire and is left out.                                       *)
(***************************************************************************)
EXTENDS Integers, Sequences

CONSTANTS
    Contents,       \* the packages that may be downloaded
    ContentOf,      \* per package, [broken, members]; a member is
                    \* [kind, size, dest, body], kind "xml", "other" or "unsafe"
    MaxEntries, MaxTotalBytes   \* ExtractionPolicy

ASSUME ExtractionAssumption ==
    MaxEntries \in Nat \ {0} /\ MaxTotalBytes \in Nat \ {0}

\* A package is a list of members, and a body is not one of the marks of a file
\* that has none.
ASSUME ContentAssumption ==
    \A p \in Contents :
        LET members == ContentOf[p].members
        IN  /\ members \in Seq({members[i] : i \in DOMAIN members})
            /\ \A i \in DOMAIN members :
                   /\ members[i].kind \in {"xml", "other", "unsafe"}
                   /\ members[i].body \notin {"absent", "torn"}

VARIABLES
    zips, manifests,  \* per package, "absent", "torn" or "whole"
    files,            \* per destination, "absent", "torn" or a body
    ingest            \* the ingestion under way

archiveVars == <<zips, manifests, files, ingest>>

Members(p) == ContentOf[p].members

Destinations ==
    UNION {{Members(p)[i].dest : i \in {j \in DOMAIN Members(p) : Members(p)[j].kind = "xml"}} :
           p \in Contents}

NoIngest == [pc |-> "idle", package |-> "", at |-> 0, total |-> 0, why |-> ""]

ArchiveInit ==
    /\ zips = [p \in Contents |-> "absent"]
    /\ manifests = [p \in Contents |-> "absent"]
    /\ files = [d \in Destinations |-> "absent"]
    /\ ingest = NoIngest

\* Mutant: a package is extracted before it is archived.
IngestExtractFirst(p) ==
    /\ ingest.pc = "idle"
    /\ ingest' = [NoIngest EXCEPT !.pc = "extract", !.package = p]
    /\ UNCHANGED <<zips, manifests, files>>

Ingest(p) ==
    /\ ingest.pc = "idle"
    /\ ingest' = [NoIngest EXCEPT !.pc = "store", !.package = p]
    /\ UNCHANGED <<zips, manifests, files>>

GoTo(pc) == ingest' = [ingest EXCEPT !.pc = pc]

Fail(why) == ingest' = [ingest EXCEPT !.pc = "raised", !.why = why]

\* Mutant: an artifact that is there is written again.
StoreOverwrites ==
    /\ ingest.pc = "store"
    /\ GoTo("zip") /\ zips' = [zips EXCEPT ![ingest.package] = "torn"]
    /\ UNCHANGED <<manifests, files>>

\* A zip that is there is a duplicate, whatever it holds; otherwise it is opened.
Store ==
    /\ ingest.pc = "store"
    /\ IF zips[ingest.package] # "absent"
       THEN GoTo("extract") /\ UNCHANGED zips
       ELSE GoTo("zip") /\ zips' = [zips EXCEPT ![ingest.package] = "torn"]
    /\ UNCHANGED <<manifests, files>>

CloseZip ==
    /\ ingest.pc = "zip"
    /\ zips' = [zips EXCEPT ![ingest.package] = "whole"]
    /\ GoTo("open manifest")
    /\ UNCHANGED <<manifests, files>>

OpenManifest ==
    /\ ingest.pc = "open manifest"
    /\ manifests' = [manifests EXCEPT ![ingest.package] = "torn"]
    /\ GoTo("manifest")
    /\ UNCHANGED <<zips, files>>

CloseManifest ==
    /\ ingest.pc = "manifest"
    /\ manifests' = [manifests EXCEPT ![ingest.package] = "whole"]
    /\ GoTo("extract")
    /\ UNCHANGED <<zips, files>>

\* extract opens the archive in memory and counts its entries.
OpenArchive ==
    /\ ingest.pc = "extract"
    /\ LET content == ContentOf[ingest.package]
       IN  IF content.broken THEN Fail("BadZipFile")
           ELSE IF Len(content.members) > MaxEntries THEN Fail("ExtractionError")
           ELSE ingest' = [ingest EXCEPT !.pc = "member", !.at = 1]
    /\ UNCHANGED <<zips, manifests, files>>

Skipped(member) == member.kind = "other"

Rejected(member) ==
    \/ member.kind = "unsafe"
    \/ member.size > MaxTotalBytes
    \/ ingest.total + member.size > MaxTotalBytes

\* Mutant: a file that is there is taken for the member.
ConflictsNever(member) == FALSE

\* What is there is something else: other content, or a torn file.
Conflicts(member) == files[member.dest] \notin {"absent", member.body}

\* Read one member and open its file, unless it is there with the same content.
ReadMember ==
    /\ ingest.pc = "member"
    /\ ingest.at <= Len(Members(ingest.package))
    /\ LET member == Members(ingest.package)[ingest.at]
           next == [ingest EXCEPT !.at = @ + 1, !.total = @ + member.size]
       IN  \/ /\ Skipped(member)
              /\ ingest' = [ingest EXCEPT !.at = @ + 1]
              /\ UNCHANGED files
           \/ /\ ~Skipped(member) /\ Rejected(member)
              /\ Fail("ExtractionError")
              /\ UNCHANGED files
           \/ /\ ~Skipped(member) /\ ~Rejected(member)
              /\ Conflicts(member)
              /\ Fail("conflict")
              /\ UNCHANGED files
           \/ /\ ~Skipped(member) /\ ~Rejected(member)
              /\ files[member.dest] # "absent" /\ ~Conflicts(member)
              /\ ingest' = next
              /\ UNCHANGED files
           \/ /\ ~Skipped(member) /\ ~Rejected(member)
              /\ files[member.dest] = "absent"
              /\ ingest' = [next EXCEPT !.at = ingest.at, !.pc = "write"]
              /\ files' = [files EXCEPT ![member.dest] = "torn"]
    /\ UNCHANGED <<zips, manifests>>

CloseMember ==
    /\ ingest.pc = "write"
    /\ LET member == Members(ingest.package)[ingest.at]
       IN  files' = [files EXCEPT ![member.dest] = member.body]
    /\ ingest' = [ingest EXCEPT !.pc = "member", !.at = @ + 1]
    /\ UNCHANGED <<zips, manifests>>

Extracted ==
    /\ ingest.pc = "member"
    /\ ingest.at > Len(Members(ingest.package))
    /\ GoTo("returned")
    /\ UNCHANGED <<zips, manifests, files>>

\* A read or a write fails: before the file was opened or with it half written.
FileFails ==
    /\ ingest.pc \in {"store", "zip", "open manifest", "manifest", "member", "write"}
    /\ ingest.pc = "member" =>
           /\ ingest.at <= Len(Members(ingest.package))
           /\ ~Skipped(Members(ingest.package)[ingest.at])
    /\ Fail("OSError")
    /\ UNCHANGED <<zips, manifests, files>>

ArchiveStep ==
    \/ Store \/ CloseZip \/ OpenManifest \/ CloseManifest \/ OpenArchive
    \/ ReadMember \/ CloseMember \/ Extracted \/ FileFails

-----------------------------------------------------------------------------

\* The type invariant; a manifest is only there for a zip that is.
ArchiveTypeOK ==
    /\ zips \in [Contents -> {"absent", "torn", "whole"}]
    /\ manifests \in [Contents -> {"absent", "torn", "whole"}]
    /\ DOMAIN files = Destinations
    /\ ingest.pc \in {"idle", "store", "zip", "open manifest", "manifest", "extract",
                      "member", "write", "returned", "raised"}
    /\ ingest.pc # "idle" => ingest.package \in Contents
    /\ \A p \in Contents : manifests[p] # "absent" => zips[p] = "whole"

\* "The immutable raw store is written FIRST" (ingest_downloaded_package.py:4):
\* whatever fails or crashes, and however often a package comes again, a file
\* that was extracted has a package in the raw store that lists it.
EvidenceFirst ==
    \A d \in Destinations :
        files[d] # "absent" =>
            \E p \in Contents :
                /\ zips[p] # "absent"
                /\ \E i \in DOMAIN Members(p) :
                       /\ Members(p)[i].kind = "xml" /\ Members(p)[i].dest = d
                       /\ files[d] \in {"torn", Members(p)[i].body}

\* Evidence that is whole is never written again: not by the same package
\* coming again, nor by another that holds a member of the same name.
EvidenceIsImmutable ==
    [][/\ \A p \in Contents :
            /\ zips[p] = "whole" => zips'[p] = "whole"
            /\ manifests[p] = "whole" => manifests'[p] = "whole"
       /\ \A d \in Destinations :
            files[d] \notin {"absent", "torn"} => files'[d] = files[d]]_archiveVars

\* A package that returns from ingest was read to its end: all of its XML is
\* there as it holds it, whoever wrote it.
ReturnedIsExtracted ==
    ingest.pc = "returned" =>
        \A i \in DOMAIN Members(ingest.package) :
            LET member == Members(ingest.package)[i]
            IN  member.kind = "xml" => files[member.dest] = member.body
=============================================================================
