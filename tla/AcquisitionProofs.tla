-------------------------- MODULE AcquisitionProofs --------------------------
(***************************************************************************)
(* The download and the facade for any replies, policy and packages.  The  *)
(* inductive invariant says of each step of an execution what the steps    *)
(* before it have ensured: that the request polled is saved, that what is  *)
(* downloaded is a prefix of what a resolving answer lists, and that the   *)
(* wait is the sum of the delays of the polls so far.  That sum and the    *)
(* powers it is made of are recursive functions, whose existence is proved *)
(* before they are used.                                                   *)
(*                                                                         *)
(* The source archive comes first.  Its invariant follows an ingestion:    *)
(* each step relies on what the steps before it left on disk, which a      *)
(* crash, an OSError or another package may leave torn but never take away.*)
(***************************************************************************)
EXTENDS Acquisition, RecursionTheorems, SequenceTheorems, TLAPS

(************************** The source archive *****************************)

Archived == {"extract", "member", "write", "returned"}
Reading == {"member", "write", "returned"}

FilesInv ==
    /\ zips \in [Contents -> {"absent", "torn", "whole"}]
    /\ manifests \in [Contents -> {"absent", "torn", "whole"}]
    /\ files = [d \in Destinations |-> files[d]]
    /\ \A p \in Contents : manifests[p] # "absent" => zips[p] = "whole"

\* The XML before this place is there as the package holds it.
ReadTo(p, place) ==
    \A i \in DOMAIN Members(p) :
        i < place /\ Members(p)[i].kind = "xml" => files[Members(p)[i].dest] = Members(p)[i].body

IngestInv ==
    /\ DOMAIN ingest = {"pc", "package", "at", "total", "why"}
    /\ ingest.pc \in {"idle", "store", "zip", "open manifest", "manifest", "extract",
                      "member", "write", "returned", "raised"}
    /\ ingest.pc # "idle" => ingest.package \in Contents
    /\ ingest.pc \in {"zip", "open manifest"} => manifests[ingest.package] = "absent"
    /\ ingest.pc = "manifest" => manifests[ingest.package] # "whole"
    /\ ingest.pc = "zip" => zips[ingest.package] # "whole"
    /\ ingest.pc \in {"open manifest", "manifest"} => zips[ingest.package] = "whole"
    /\ ingest.pc \in Archived => zips[ingest.package] # "absent"
    /\ ingest.pc \in Reading => ingest.at \in Nat \ {0} /\ ReadTo(ingest.package, ingest.at)
    /\ ingest.pc = "write" =>
          /\ ingest.at \in DOMAIN Members(ingest.package)
          /\ Members(ingest.package)[ingest.at].kind = "xml"
          /\ files[Members(ingest.package)[ingest.at].dest] = "torn"
    /\ ingest.pc = "returned" => ingest.at > Len(Members(ingest.package))

ArchiveInv == FilesInv /\ IngestInv /\ EvidenceFirst

\* Evidence that is whole stays.
EvidenceStays ==
    /\ \A p \in Contents :
          /\ zips[p] = "whole" => zips'[p] = "whole"
          /\ manifests[p] = "whole" => manifests'[p] = "whole"
    /\ \A d \in Destinations : files[d] \notin {"absent", "torn"} => files'[d] = files[d]

(*************************** Packages **************************************)

LEMMA MembersOfPackage ==
    ASSUME NEW p \in Contents
    PROVE  /\ Len(Members(p)) \in Nat /\ DOMAIN Members(p) = 1..Len(Members(p))
           /\ \A i \in DOMAIN Members(p) :
                 /\ Members(p)[i].kind \in {"xml", "other", "unsafe"}
                 /\ Members(p)[i].body \notin {"absent", "torn"}
                 /\ Members(p)[i].kind = "xml" => Members(p)[i].dest \in Destinations
<1>1. Members(p) \in Seq({Members(p)[i] : i \in DOMAIN Members(p)})
  BY ContentAssumption DEF Members
<1>2. Len(Members(p)) \in Nat /\ DOMAIN Members(p) = 1..Len(Members(p))
  BY <1>1, LenProperties
<1>3. \A i \in DOMAIN Members(p) :
         /\ Members(p)[i].kind \in {"xml", "other", "unsafe"}
         /\ Members(p)[i].body \notin {"absent", "torn"}
  BY ContentAssumption DEF Members
<1>4. ASSUME NEW i \in DOMAIN Members(p), Members(p)[i].kind = "xml"
      PROVE  Members(p)[i].dest \in Destinations
  BY <1>4 DEF Destinations
<1>5. QED
  BY <1>2, <1>3, <1>4

(*************************** The steps *************************************)

\* A file system that stays as it is leaves its evidence as it is.
LEMMA SameFiles ==
    ASSUME FilesInv, EvidenceFirst, UNCHANGED <<zips, manifests, files>>
    PROVE  FilesInv' /\ EvidenceFirst' /\ EvidenceStays
BY DEF FilesInv, EvidenceFirst, EvidenceStays

\* The zip and its manifest, in this order, each opened and closed.
LEMMA EvidenceStep ==
    ASSUME ArchiveInv, Store \/ CloseZip \/ OpenManifest \/ CloseManifest
    PROVE  ArchiveInv' /\ EvidenceStays
<1> DEFINE p == ingest.package
<1> USE DEF ArchiveInv
<1>1. /\ p \in Contents /\ ingest'.package = p /\ UNCHANGED files
      /\ DOMAIN ingest' = {"pc", "package", "at", "total", "why"}
  BY DEF IngestInv, Store, CloseZip, OpenManifest, CloseManifest, GoTo
<1>2. EvidenceStays /\ FilesInv'
  <2>1. /\ zips \in [Contents -> {"absent", "torn", "whole"}]
        /\ manifests \in [Contents -> {"absent", "torn", "whole"}]
        /\ \A q \in Contents : manifests[q] # "absent" => zips[q] = "whole"
        /\ files' = [d \in Destinations |-> files'[d]]
    BY <1>1 DEF FilesInv
  <2>2. CASE Store
    BY <1>1, <2>1, <2>2 DEF FilesInv, EvidenceStays, Store
  <2>3. CASE CloseZip
    BY <1>1, <2>1, <2>3 DEF FilesInv, EvidenceStays, CloseZip
  <2>4. CASE OpenManifest
    BY <1>1, <2>1, <2>4 DEF FilesInv, IngestInv, EvidenceStays, OpenManifest
  <2>5. CASE CloseManifest
    BY <1>1, <2>1, <2>5 DEF FilesInv, IngestInv, EvidenceStays, CloseManifest
  <2>6. QED
    BY <2>2, <2>3, <2>4, <2>5
<1>3. \A q \in Contents : zips[q] # "absent" => zips'[q] # "absent"
  BY DEF FilesInv, IngestInv, Store, CloseZip, OpenManifest, CloseManifest
<1>4. EvidenceFirst'
  BY <1>1, <1>3 DEF EvidenceFirst
<1>5. IngestInv'
  <2> USE <1>1 DEF FilesInv, IngestInv, GoTo, Archived, Reading
  <2>1. CASE Store
    <3>1. CASE zips[p] # "absent"
      <4>1. /\ ingest' = [ingest EXCEPT !.pc = "extract"] /\ UNCHANGED <<zips, manifests, files>>
            /\ ingest.pc = "store"
        BY <2>1, <3>1 DEF Store
      <4>2. QED
        BY <3>1, <4>1
    <3>2. CASE zips[p] = "absent"
      <4>1. /\ ingest' = [ingest EXCEPT !.pc = "zip"] /\ UNCHANGED <<manifests, files>>
            /\ zips'[p] = "torn" /\ ingest.pc = "store"
        BY <2>1, <3>2 DEF Store
      <4>2. manifests[p] = "absent"
        BY <3>2
      <4>3. QED
        BY <4>1, <4>2
    <3>3. QED
      BY <3>1, <3>2
  <2>2. CASE CloseZip
    BY <2>2 DEF CloseZip
  <2>3. CASE OpenManifest
    BY <2>3 DEF OpenManifest
  <2>4. CASE CloseManifest
    BY <2>4 DEF CloseManifest
  <2>5. QED
    BY <2>1, <2>2, <2>3, <2>4
<1>6. QED
  BY <1>2, <1>4, <1>5

\* The archive is opened, or it is read to its end, or something fails: nothing is written.
LEMMA PlainStep ==
    ASSUME ArchiveInv, OpenArchive \/ Extracted \/ FileFails
    PROVE  ArchiveInv' /\ EvidenceStays
<1> USE DEF ArchiveInv
<1>1. UNCHANGED <<zips, manifests, files>>
  BY DEF OpenArchive, Extracted, FileFails
<1>2. FilesInv' /\ EvidenceFirst' /\ EvidenceStays
  BY <1>1, SameFiles
<1>3. CASE OpenArchive
  <2>1. ingest.package \in Contents
    BY <1>3 DEF OpenArchive, IngestInv
  <2>2. ReadTo(ingest.package, 1)
    BY <2>1, MembersOfPackage DEF ReadTo
  <2>3. CASE \E why : Fail(why)
    BY <1>1, <1>2, <2>1, <2>3 DEF Fail, IngestInv, Archived, Reading
  <2>4. CASE ingest' = [ingest EXCEPT !.pc = "member", !.at = 1]
    <3>1. /\ ingest'.pc = "member" /\ ingest'.package = ingest.package /\ ingest'.at = 1
          /\ DOMAIN ingest' = {"pc", "package", "at", "total", "why"}
          /\ zips[ingest.package] # "absent"
      BY <1>3, <2>4 DEF IngestInv, OpenArchive, Archived
    <3>2. ReadTo(ingest.package, ingest.at)'
      BY <1>1, <2>2, <3>1 DEF ReadTo, Members
    <3>3. IngestInv'
      <4>1. ingest'.at \in Nat \ {0} /\ zips'[ingest'.package] # "absent"
        BY <1>1, <3>1
      <4>2. QED
        BY <2>1, <3>1, <3>2, <4>1, Zenon DEF IngestInv, Archived, Reading
    <3>4. QED
      BY <1>2, <3>3
  <2>5. QED
    BY <1>3, <2>3, <2>4 DEF OpenArchive
<1>4. CASE Extracted
  BY <1>1, <1>2, <1>4 DEF Extracted, GoTo, IngestInv, ReadTo, Archived, Reading
<1>5. CASE FileFails
  BY <1>1, <1>2, <1>5 DEF FileFails, Fail, IngestInv, Archived, Reading
<1>6. QED
  BY <1>3, <1>4, <1>5

\* One place further.
LEMMA ReadOneMore ==
    ASSUME NEW p \in Contents, NEW i \in DOMAIN Members(p), ReadTo(p, i),
           Members(p)[i].kind = "xml" => files[Members(p)[i].dest] = Members(p)[i].body
    PROVE  ReadTo(p, i + 1)
<1>1. i \in Nat /\ DOMAIN Members(p) \subseteq Nat
  BY MembersOfPackage
<1>2. \A j \in Nat : j < i + 1 => j < i \/ j = i
  BY <1>1
<1>3. QED
  BY <1>1, <1>2 DEF ReadTo

\* A member that is skipped, refused, there already, or opened where nothing was.
LEMMA MemberStep ==
    ASSUME ArchiveInv, ReadMember
    PROVE  ArchiveInv' /\ EvidenceStays
<1> DEFINE p == ingest.package
           member == Members(p)[ingest.at]
<1> USE DEF ArchiveInv
<1>1. /\ p \in Contents /\ ingest.at \in DOMAIN Members(p) /\ ingest.at + 1 \in Nat \ {0}
      /\ ReadTo(p, ingest.at) /\ zips[p] # "absent" /\ ingest.pc = "member"
  BY MembersOfPackage DEF ReadMember, IngestInv, Reading, Archived
<1>2. /\ member.kind \in {"xml", "other", "unsafe"} /\ member.body \notin {"absent", "torn"}
      /\ member.kind = "xml" => member.dest \in Destinations
  BY <1>1, MembersOfPackage
<1>3. UNCHANGED <<zips, manifests>>
  BY DEF ReadMember
<1>4. CASE /\ UNCHANGED files
           /\ \E why : Fail(why)
  <2>1. IngestInv'
    BY <1>1, <1>3, <1>4 DEF IngestInv, Fail, Archived, Reading
  <2>2. QED
    BY <1>3, <1>4, <2>1, SameFiles
<1>5. CASE /\ UNCHANGED files
           /\ member.kind = "xml" => files[member.dest] = member.body
           /\ \E total : ingest' = [ingest EXCEPT !.at = @ + 1, !.total = total]
  <2>1. ReadTo(p, ingest.at + 1)
    BY <1>1, <1>5, ReadOneMore
  <2>2. /\ ingest'.pc = "member" /\ ingest'.package = p /\ ingest'.at = ingest.at + 1
        /\ DOMAIN ingest' = {"pc", "package", "at", "total", "why"}
    BY <1>1, <1>5 DEF IngestInv
  <2>3. IngestInv'
    BY <1>1, <1>3, <2>1, <2>2, <1>5 DEF IngestInv, ReadTo, Archived, Reading
  <2>4. QED
    BY <1>3, <1>5, <2>3, SameFiles
<1>6. CASE /\ member.kind = "xml" /\ files[member.dest] = "absent"
           /\ files' = [files EXCEPT ![member.dest] = "torn"]
           /\ \E total : ingest' = [ingest EXCEPT !.pc = "write", !.at = ingest.at, !.total = total]
  <2>1. /\ member.dest \in Destinations /\ files'[member.dest] = "torn"
        /\ \A d \in Destinations \ {member.dest} : files'[d] = files[d]
        /\ files' = [d \in Destinations |-> files'[d]]
    BY <1>2, <1>6 DEF FilesInv
  <2>2. FilesInv' /\ EvidenceStays
    BY <1>3, <1>6, <2>1 DEF FilesInv, EvidenceStays
  <2>3. EvidenceFirst'
    <3> SUFFICES ASSUME NEW d \in Destinations, files'[d] # "absent"
                 PROVE  \E q \in Contents :
                           /\ zips'[q] # "absent"
                           /\ \E i \in DOMAIN Members(q) :
                                 /\ Members(q)[i].kind = "xml" /\ Members(q)[i].dest = d
                                 /\ files'[d] \in {"torn", Members(q)[i].body}
      BY DEF EvidenceFirst
    <3>1. CASE d = member.dest
      BY <1>1, <1>3, <1>6, <2>1, <3>1
    <3>2. CASE d # member.dest
      BY <1>3, <2>1, <3>2 DEF EvidenceFirst
    <3>3. QED
      BY <3>1, <3>2
  <2>4. /\ ingest'.pc = "write" /\ ingest'.package = p /\ ingest'.at = ingest.at
        /\ DOMAIN ingest' = {"pc", "package", "at", "total", "why"}
    BY <1>6 DEF IngestInv
  <2>5. \A i \in DOMAIN Members(p) :
           i < ingest.at /\ Members(p)[i].kind = "xml" =>
               files'[Members(p)[i].dest] = Members(p)[i].body
    <3> SUFFICES ASSUME NEW i \in DOMAIN Members(p), i < ingest.at, Members(p)[i].kind = "xml"
                 PROVE  files'[Members(p)[i].dest] = Members(p)[i].body
      OBVIOUS
    <3>1. /\ Members(p)[i].dest \in Destinations /\ Members(p)[i].body # "absent"
          /\ files[Members(p)[i].dest] = Members(p)[i].body
      BY <1>1, MembersOfPackage DEF ReadTo
    <3>2. QED
      BY <1>6, <2>1, <3>1
  <2>6. IngestInv'
    BY <1>1, <1>3, <1>6, <2>1, <2>4, <2>5 DEF IngestInv, ReadTo, Archived, Reading
  <2>7. QED
    BY <2>2, <2>3, <2>6
<1>7. QED
  <2> DEFINE further == [ingest EXCEPT !.at = @ + 1]
             next == [ingest EXCEPT !.at = @ + 1, !.total = @ + member.size]
             opened == [next EXCEPT !.at = ingest.at, !.pc = "write"]
  <2>1. \/ Skipped(member) /\ ingest' = further /\ UNCHANGED files
        \/ (\E why : Fail(why)) /\ UNCHANGED files
        \/ /\ ~ Skipped(member) /\ ~ Rejected(member) /\ ~ Conflicts(member)
           /\ files[member.dest] # "absent" /\ ingest' = next /\ UNCHANGED files
        \/ /\ ~ Skipped(member) /\ ~ Rejected(member)
           /\ files[member.dest] = "absent" /\ ingest' = opened
           /\ files' = [files EXCEPT ![member.dest] = "torn"]
    BY Zenon DEF ReadMember
  <2>2. /\ further = [ingest EXCEPT !.at = @ + 1, !.total = ingest.total]
        /\ \E total : next = [ingest EXCEPT !.at = @ + 1, !.total = total]
        /\ \E total : opened = [ingest EXCEPT !.pc = "write", !.at = ingest.at, !.total = total]
    BY DEF IngestInv
  <2> HIDE DEF further, next, opened
  <2>3. CASE Skipped(member) /\ ingest' = further /\ UNCHANGED files
    BY <1>5, <2>2, <2>3 DEF Skipped
  <2>4. ~ Skipped(member) /\ ~ Rejected(member) => member.kind = "xml"
    BY <1>2 DEF Skipped, Rejected
  <2>5. files[member.dest] # "absent" /\ ~ Conflicts(member) => files[member.dest] = member.body
    BY DEF Conflicts
  <2>6. QED
    BY <1>4, <1>5, <1>6, <2>1, <2>2, <2>3, <2>4, <2>5

\* The file of a member is filled and closed.
LEMMA CloseMemberStep ==
    ASSUME ArchiveInv, CloseMember
    PROVE  ArchiveInv' /\ EvidenceStays
<1> DEFINE p == ingest.package
           member == Members(p)[ingest.at]
<1> USE DEF ArchiveInv
<1>1. /\ p \in Contents /\ ingest.at \in DOMAIN Members(p) /\ ingest.at + 1 \in Nat \ {0}
      /\ ReadTo(p, ingest.at) /\ zips[p] # "absent" /\ ingest.pc = "write"
      /\ member.kind = "xml" /\ files[member.dest] = "torn"
  BY DEF CloseMember, IngestInv, Reading, Archived
<1>2. member.body \notin {"absent", "torn"} /\ member.dest \in Destinations
  BY <1>1, MembersOfPackage
<1>3. /\ files' = [files EXCEPT ![member.dest] = member.body] /\ UNCHANGED <<zips, manifests>>
      /\ ingest'.pc = "member" /\ ingest'.package = p /\ ingest'.at = ingest.at + 1
      /\ DOMAIN ingest' = {"pc", "package", "at", "total", "why"}
  BY DEF CloseMember, IngestInv
<1>4. /\ files'[member.dest] = member.body
      /\ \A d \in Destinations \ {member.dest} : files'[d] = files[d]
      /\ files' = [d \in Destinations |-> files'[d]]
  BY <1>2, <1>3 DEF FilesInv
<1>5. FilesInv' /\ EvidenceStays
  BY <1>1, <1>3, <1>4 DEF FilesInv, EvidenceStays
<1>6. EvidenceFirst'
  <2> SUFFICES ASSUME NEW d \in Destinations, files'[d] # "absent"
               PROVE  \E q \in Contents :
                         /\ zips'[q] # "absent"
                         /\ \E i \in DOMAIN Members(q) :
                               /\ Members(q)[i].kind = "xml" /\ Members(q)[i].dest = d
                               /\ files'[d] \in {"torn", Members(q)[i].body}
    BY DEF EvidenceFirst
  <2>1. CASE d = member.dest
    BY <1>1, <1>3, <1>4, <2>1
  <2>2. CASE d # member.dest
    BY <1>3, <1>4, <2>2 DEF EvidenceFirst
  <2>3. QED
    BY <2>1, <2>2
<1>7. \A i \in DOMAIN Members(p) :
         i < ingest.at + 1 /\ Members(p)[i].kind = "xml" =>
             files'[Members(p)[i].dest] = Members(p)[i].body
  <2> SUFFICES ASSUME NEW i \in DOMAIN Members(p), i < ingest.at + 1, Members(p)[i].kind = "xml"
               PROVE  files'[Members(p)[i].dest] = Members(p)[i].body
    OBVIOUS
  <2>1. i = ingest.at \/ i < ingest.at
    BY <1>1, MembersOfPackage
  <2>2. CASE i < ingest.at
    <3>1. /\ Members(p)[i].dest \in Destinations /\ Members(p)[i].body # "torn"
          /\ files[Members(p)[i].dest] = Members(p)[i].body
      BY <1>1, <2>2, MembersOfPackage DEF ReadTo
    <3>2. QED
      BY <1>1, <1>4, <3>1
  <2>3. QED
    BY <1>4, <2>1, <2>2
<1>8. IngestInv'
  BY <1>1, <1>3, <1>7 DEF IngestInv, ReadTo, Archived, Reading
<1>9. QED
  BY <1>5, <1>6, <1>8

LEMMA ArchiveKeepsInv ==
    ASSUME ArchiveInv, ArchiveStep
    PROVE  ArchiveInv' /\ EvidenceStays
BY EvidenceStep, PlainStep, MemberStep, CloseMemberStep DEF ArchiveStep

\* What the invariant says of the archive itself.
LEMMA ArchiveIsSound ==
    ASSUME ArchiveInv
    PROVE  ArchiveTypeOK /\ ReturnedIsExtracted
<1>1. ArchiveTypeOK
  BY DEF ArchiveInv, FilesInv, IngestInv, ArchiveTypeOK
<1>2. ReturnedIsExtracted
  <2> SUFFICES ASSUME ingest.pc = "returned", NEW i \in DOMAIN Members(ingest.package),
                      Members(ingest.package)[i].kind = "xml"
               PROVE  files[Members(ingest.package)[i].dest] = Members(ingest.package)[i].body
    BY DEF ReturnedIsExtracted
  <2>1. /\ ingest.package \in Contents /\ ingest.at \in Nat
        /\ ingest.at > Len(Members(ingest.package)) /\ ReadTo(ingest.package, ingest.at)
    BY DEF ArchiveInv, IngestInv, Reading
  <2>2. i < ingest.at
    BY <2>1, MembersOfPackage
  <2>3. QED
    BY <2>1, <2>2 DEF ReadTo
<1>3. QED
  BY <1>1, <1>2

(*************************** The invariant *********************************)

Resolved(a) == a.state = "COMPLETED" /\ a.code \notin DOMAIN CodeClass \ {"5000"}

\* What was downloaded so far of what the answer lists.
Prefix(packages, ids) ==
    /\ packages \in Seq(Contents) /\ ids \in Seq(Contents)
    /\ Len(packages) <= Len(ids)
    /\ \A i \in 1..Len(packages) : packages[i] = ids[i]

JobFields ==
    /\ DOMAIN job = {"pc", "request", "deadline", "attempt", "wake", "answer", "packages", "why"}
    /\ job.pc \in {"idle", "submit", "poll", "sleep", "download", "done", "raised"}
    /\ job.deadline \in Nat /\ job.attempt \in Nat /\ job.wake \in Nat
    /\ clock \in 0..Horizon
    /\ issued \in 0..MaxRequests
    /\ saved \subseteq 1..issued

\* A call submits once, and what it polls is saved.
RequestInv ==
    /\ job.pc = "submit" => issued < MaxRequests /\ clock = 0
    /\ job.pc \in {"poll", "sleep", "download", "done"} => job.request \in saved

\* No poll begins, and no sleep is to end, before the backoff allows it.
WaitInv ==
    /\ job.pc = "submit" => job.attempt = 0
    /\ job.pc \in {"poll", "sleep"} => job.deadline = Timeout
    /\ job.pc = "poll" /\ clock < Horizon => clock >= BackoffOwed[job.attempt]
    /\ job.pc = "sleep" => job.wake >= BackoffOwed[job.attempt]

OutcomeInv ==
    /\ job.pc \in {"idle", "submit", "poll", "sleep"} => job.packages = <<>>
    /\ job.pc = "download" =>
          job.answer # None /\ Resolved(job.answer) /\ Prefix(job.packages, job.answer.ids)
    /\ job.pc = "done" =>
          /\ job.packages \in Seq(Contents)
          /\ job.packages = IF Resolved(job.answer) THEN job.answer.ids ELSE <<>>
    /\ job.pc = "raised" /\ job.packages # <<>> => Resolved(job.answer)

JobInv == JobFields /\ RequestInv /\ WaitInv /\ OutcomeInv

\* The facade executes or ingests, never both, and ingests what it was handed.
ClientInv ==
    /\ DOMAIN client = {"pc", "packages", "next"}
    /\ client.pc \in {"idle", "execute", "ingest"}
    /\ ingest.pc # "idle" => client.pc = "ingest" /\ client.next <= Len(client.packages)
    /\ client.pc = "ingest" =>
          /\ job.pc = "idle"
          /\ client.packages \in Seq(Contents)
          /\ client.next \in 1..Len(client.packages) + 1

IInv == ArchiveInv /\ JobInv /\ ClientInv

(*************************** The backoff ***********************************)

\* The powers of the multiplier.
LEMMA PowerIsRecursive ==
    /\ Power \in [Nat -> Nat]
    /\ \A n \in Nat : Power[n] = IF n = 0 THEN 1 ELSE Multiplier * Power[n - 1]
<1> DEFINE step == [x \in Nat \X Nat |-> Multiplier * x[2]]
           Equation(f) == f = [n \in Nat |-> IF n = 0 THEN 1 ELSE Multiplier * f[n - 1]]
<1>1. step \in [Nat \X Nat -> Nat] /\ 1 \in Nat
  BY PolicyAssumption
<1>2. PICK f \in [Nat -> Nat] :
         Unfolds(f, 1, step)
  <2> HIDE DEF step
  <2>1. QED
    BY <1>1, Recursion, Zenon
<1>3. ASSUME NEW n \in Nat
      PROVE  f[n] = IF n = 0 THEN 1 ELSE Multiplier * f[n - 1]
  <2>1. f[n] = IF n = 0 THEN 1 ELSE step[<<n - 1, f[n - 1]>>]
    BY <1>2 DEF Unfolds
  <2>2. n # 0 => n - 1 \in Nat /\ f[n - 1] \in Nat
    BY <1>2
  <2>3. QED
    BY <2>1, <2>2
<1>4. Equation(f)
  BY <1>2, <1>3
<1>5. Power = CHOOSE g : Equation(g)
  BY DEF Power
<1> HIDE DEF Equation
<1>6. Equation(Power)
  BY <1>4, <1>5
<1>7. \A n \in Nat : Power[n] = IF n = 0 THEN 1 ELSE Multiplier * Power[n - 1]
  BY <1>6 DEF Equation
<1>8. Power \in [Nat -> Nat]
  <2> DEFINE S == {n \in Nat : Power[n] \in Nat}
  <2>1. 0 \in S
    BY <1>7
  <2>2. ASSUME NEW n \in S
        PROVE  n + 1 \in S
    <3>1. n + 1 \in Nat /\ n + 1 # 0 /\ (n + 1) - 1 = n
      OBVIOUS
    <3>2. Power[n + 1] = Multiplier * Power[n]
      BY <1>7, <3>1
    <3>3. QED
      BY <3>1, <3>2, PolicyAssumption
  <2> HIDE DEF S
  <2>3. S = Nat
    <3>1. S \subseteq Nat
      BY DEF S
    <3>2. QED
      BY <2>1, <2>2, <3>1, Inductive
  <2>4. Power = [n \in Nat |-> Power[n]]
    BY <1>6 DEF Equation
  <2>5. QED
    BY <2>3, <2>4 DEF S
<1>9. QED
  BY <1>7, <1>8

\* What is owed grows by the delay of each poll.
LEMMA OwedIsRecursive ==
    /\ BackoffOwed \in [Nat -> Nat]
    /\ \A n \in Nat : BackoffOwed[n + 1] = BackoffOwed[n] + Delay(n)
    /\ BackoffOwed[0] = 0
    /\ \A n \in Nat : Delay(n) \in Nat
<1> DEFINE grown(n) == InitialDelay * Power[n - 1]
           step == [x \in Nat \X Nat |-> x[2] + Delay(x[1])]
           Equation(f) == f = [n \in Nat |->
               IF n = 0 THEN 0
               ELSE f[n - 1] + IF grown(n) > MaxDelay THEN MaxDelay ELSE grown(n)]
<1>1. \A n \in Nat : Delay(n) \in Nat
  BY PowerIsRecursive, PolicyAssumption DEF Delay
<1>2. ASSUME NEW n \in Nat, n # 0
      PROVE  Delay(n - 1) = IF grown(n) > MaxDelay THEN MaxDelay ELSE grown(n)
  <2>1. grown(n) \in Nat /\ MaxDelay \in Nat
    BY <1>2, PowerIsRecursive, PolicyAssumption
  <2>2. Delay(n - 1) = IF grown(n) < MaxDelay THEN grown(n) ELSE MaxDelay
    BY DEF Delay
  <2> HIDE DEF grown
  <2>3. QED
    BY <2>1, <2>2
<1>3. step \in [Nat \X Nat -> Nat] /\ 0 \in Nat
  BY <1>1
<1>4. PICK f \in [Nat -> Nat] :
         Unfolds(f, 0, step)
  <2> HIDE DEF step
  <2>1. QED
    BY <1>3, Recursion, Zenon
<1> HIDE DEF grown
<1>5. ASSUME NEW n \in Nat
      PROVE  f[n] = IF n = 0 THEN 0
                    ELSE f[n - 1] + IF grown(n) > MaxDelay THEN MaxDelay ELSE grown(n)
  <2>1. f[n] = IF n = 0 THEN 0 ELSE step[<<n - 1, f[n - 1]>>]
    BY <1>4 DEF Unfolds
  <2>2. n # 0 => n - 1 \in Nat /\ f[n - 1] \in Nat
    BY <1>4
  <2>3. n # 0 => step[<<n - 1, f[n - 1]>>] = f[n - 1] + Delay(n - 1)
    BY <2>2
  <2>4. QED
    BY <1>2, <2>1, <2>3
<1>6. Equation(f)
  BY <1>4, <1>5
<1>7. BackoffOwed = CHOOSE g : Equation(g)
  BY DEF BackoffOwed, grown
<1> HIDE DEF Equation
<1>8. Equation(BackoffOwed)
  BY <1>6, <1>7
<1>9. ASSUME NEW n \in Nat
      PROVE  BackoffOwed[n + 1] = BackoffOwed[n] + Delay(n)
  <2>1. n + 1 \in Nat /\ n + 1 # 0 /\ (n + 1) - 1 = n
    OBVIOUS
  <2>2. QED
    BY <1>2, <1>8, <2>1 DEF Equation
<1>10. BackoffOwed[0] = 0
  BY <1>8 DEF Equation
<1>11. BackoffOwed \in [Nat -> Nat]
  <2> DEFINE S == {n \in Nat : BackoffOwed[n] \in Nat}
  <2>1. 0 \in S
    BY <1>10
  <2>2. ASSUME NEW n \in S
        PROVE  n + 1 \in S
    BY <1>1, <1>9
  <2> HIDE DEF S
  <2>3. S = Nat
    <3>1. S \subseteq Nat
      BY DEF S
    <3>2. QED
      BY <2>1, <2>2, <3>1, Inductive
  <2>4. BackoffOwed = [n \in Nat |-> BackoffOwed[n]]
    BY <1>8 DEF Equation
  <2>5. QED
    BY <2>3, <2>4 DEF S
<1>12. QED
  BY <1>1, <1>9, <1>10, <1>11

(*************************** Answers ***************************************)

\* What each code of the SAT says.
LEMMA CodesClassify ==
    ASSUME NEW code
    PROVE  /\ code \in DOMAIN CodeClass \ {"5000"} => ClassifyCode(code) \notin {"ok", "unknown"}
           /\ code \notin DOMAIN CodeClass \ {"5000"} => ClassifyCode(code) \in {"ok", "unknown"}
BY DEF CodeClass, ClassifyCode

\* An answer is taken for "ok" exactly where it resolves the request, and what
\* it lists is packages.
LEMMA AnswersClassify ==
    ASSUME NEW reply \in Replies, Translates(reply), NEW result, result = VerificationOf(reply)
    PROVE  /\ ClassifyVerification(result) = "ok" <=> Resolved(result)
           /\ result # None
           /\ result.ids \in Seq(Contents)
<1>1. result.ids = reply.ids /\ result # None
  BY ReplyAssumption DEF VerificationOf
<1>2. result.ids \in Seq(Contents)
  <2>1. reply.ids \in Seq({reply.ids[i] : i \in DOMAIN reply.ids})
    BY ReplyAssumption
  <2>2. {reply.ids[i] : i \in DOMAIN reply.ids} \subseteq Contents
    BY PackageAssumption
  <2>3. QED
    BY <1>1, <2>1, <2>2
<1>3. result.state \in RequestState
  BY DEF VerificationOf, Translates
<1>4. ClassifyState(result.state) = "ok" <=> result.state = "COMPLETED"
  BY <1>3 DEF ClassifyState, RequestState
<1>5. ClassifyVerification(result) = "ok" <=> Resolved(result)
  BY <1>4, CodesClassify DEF ClassifyVerification, Resolved
<1>6. QED
  BY <1>1, <1>2, <1>5

(*************************** The download **********************************)

\* The wait, the type and the outcome of an execution that has not begun.
LEMMA NoJobIsSound ==
    ASSUME job' = NoJob, clock' = 0, issued' \in 0..MaxRequests, saved' \subseteq 1..issued'
    PROVE  JobInv'
BY DownloadBounds DEF JobInv, JobFields, RequestInv, WaitInv, OutcomeInv, NoJob

\* An execution that raises keeps what it has.
LEMMA RaiseKeeps ==
    ASSUME JobInv, NEW why, Raised(why), UNCHANGED <<clock, issued, saved>>,
           job.pc \in {"submit", "poll", "download"}
    PROVE  JobInv'
<1>1. job' = [job EXCEPT !.pc = "raised", !.why = why]
  BY DEF Raised
<1>2. JobFields' /\ RequestInv' /\ WaitInv'
  BY <1>1 DEF JobInv, JobFields, RequestInv, WaitInv
<1>3. OutcomeInv'
  BY <1>1 DEF JobInv, JobFields, OutcomeInv
<1>4. QED
  BY <1>2, <1>3 DEF JobInv

LEMMA ExecuteKeeps ==
    ASSUME JobInv, Execute
    PROVE  JobInv'
<1>1. job' = [NoJob EXCEPT !.pc = "submit"] /\ clock' = 0 /\ issued < MaxRequests
      /\ UNCHANGED <<issued, saved>>
  BY DEF Execute
<1>2. QED
  BY <1>1, DownloadBounds DEF JobInv, JobFields, RequestInv, WaitInv, OutcomeInv, NoJob

LEMMA SubmitKeeps ==
    ASSUME JobInv, SubmitFails \/ Submit
    PROVE  JobInv'
<1>1. CASE SubmitFails
  BY <1>1, RaiseKeeps DEF SubmitFails
<1>2. CASE Submit
  <2>1. CASE Raised("UnexpectedSatResponseError") /\ UNCHANGED <<issued, saved>>
    BY <1>2, <2>1, RaiseKeeps DEF Submit
  <2>2. CASE /\ issued' = issued + 1
             /\ saved' = saved \cup {issued'}
             /\ job' = [job EXCEPT !.pc = "poll", !.request = issued', !.deadline = clock + Timeout]
    <3>1. clock = 0 /\ issued < MaxRequests /\ job.packages = <<>> /\ job.pc = "submit"
          /\ UNCHANGED clock
      BY <1>2 DEF Submit, JobInv, RequestInv, OutcomeInv
    <3>2. clock + Timeout = Timeout
      BY <3>1, PolicyAssumption
    <3>3. JobFields' /\ RequestInv'
      BY <2>2, <3>1, <3>2, PolicyAssumption, DownloadBounds DEF JobInv, JobFields, RequestInv
    <3>4. OutcomeInv'
      BY <2>2, <3>1 DEF JobInv, JobFields, OutcomeInv
    <3>5. WaitInv'
      <4>1. job'.pc = "poll" /\ job'.attempt = 0 /\ job'.deadline = Timeout /\ clock' = 0
        BY <2>2, <3>1, <3>2 DEF JobInv, JobFields, WaitInv
      <4>2. QED
        BY <4>1, OwedIsRecursive DEF WaitInv
    <3>6. QED
      BY <3>3, <3>4, <3>5 DEF JobInv
  <2>3. QED
    BY <1>2, <2>1, <2>2 DEF Submit
<1>3. QED
  BY <1>1, <1>2

\* A retry waits for the delay of its attempt after a poll that was not early.
LEMMA RetryKeeps ==
    ASSUME JobInv, job.pc = "poll", Retry, UNCHANGED <<clock, issued, saved>>
    PROVE  JobInv'
<1>1. CASE PastDeadline
  BY <1>1, RaiseKeeps DEF Retry
<1>2. CASE ~PastDeadline /\ DelayOverflows(job.attempt)
  BY <1>2, RaiseKeeps DEF Retry
<1>3. CASE ~PastDeadline /\ ~DelayOverflows(job.attempt)
  <2>1. job' = [job EXCEPT !.pc = "sleep", !.wake = clock + Delay(job.attempt),
                           !.attempt = @ + 1]
    BY <1>3 DEF Retry
  <2>2. job.attempt \in Nat /\ clock \in 0..Horizon
    BY DEF JobInv, JobFields
  <2>3. Delay(job.attempt) \in Nat /\ BackoffOwed[job.attempt] \in Nat
        /\ BackoffOwed[job.attempt + 1] = BackoffOwed[job.attempt] + Delay(job.attempt)
    BY <2>2, OwedIsRecursive
  <2>4. clock < Timeout /\ job.deadline = Timeout
    BY <1>3, <2>2, PolicyAssumption DEF PastDeadline, JobInv, WaitInv
  <2>5. clock < Horizon
    BY <2>2, <2>4, PolicyAssumption, DownloadBounds
  <2>6. clock >= BackoffOwed[job.attempt]
    BY <2>5 DEF JobInv, WaitInv
  <2>7. clock + Delay(job.attempt) \in Nat
        /\ clock + Delay(job.attempt) >= BackoffOwed[job.attempt + 1]
    BY <2>2, <2>3, <2>6, DownloadBounds
  <2>8. JobFields' /\ RequestInv'
    BY <2>1, <2>2, <2>7 DEF JobInv, JobFields, RequestInv
  <2>9. WaitInv'
    <3>1. job'.pc = "sleep" /\ job'.deadline = Timeout
          /\ job'.wake = clock + Delay(job.attempt) /\ job'.attempt = job.attempt + 1
      BY <2>1, <2>4 DEF JobInv, JobFields
    <3>2. QED
      BY <2>7, <3>1 DEF WaitInv
  <2>10. OutcomeInv'
    BY <2>1 DEF JobInv, JobFields, OutcomeInv
  <2>11. QED
    BY <2>8, <2>9, <2>10 DEF JobInv
<1>4. QED
  BY <1>1, <1>2, <1>3

\* An answer that resolves or ends the wait begins the outcome.
LEMMA ResolveKeeps ==
    ASSUME JobInv, job.pc = "poll", NEW result, result # None, result.ids \in Seq(Contents),
           NEW action \in CLEAN_TERMINALS, action = "ok" <=> Resolved(result),
           Resolve(result, action), UNCHANGED <<clock, issued, saved>>
    PROVE  JobInv'
<1>1. /\ job'.pc = IF action = "ok" THEN "download" ELSE "done"
      /\ DOMAIN job' = DOMAIN NoJob
      /\ job'.request = job.request /\ job'.answer = result /\ job'.packages = <<>>
      /\ job'.deadline = 0 /\ job'.attempt = 0 /\ job'.wake = 0
  BY DEF Resolve, NoJob
<1>2. JobFields' /\ RequestInv' /\ WaitInv'
  BY <1>1 DEF JobInv, JobFields, RequestInv, WaitInv, NoJob
<1>3. <<>> \in Seq(Contents) /\ Len(<<>>) = 0 /\ Len(result.ids) \in Nat
  BY EmptySeq, LenProperties
<1>4. Prefix(<<>>, result.ids)
  BY <1>3 DEF Prefix
<1>5. OutcomeInv'
  <2>1. CASE action = "ok"
    BY <1>1, <1>4, <2>1 DEF OutcomeInv
  <2>2. CASE action # "ok"
    BY <1>1, <1>3, <2>2 DEF OutcomeInv
  <2>3. QED
    BY <2>1, <2>2
<1>6. QED
  BY <1>2, <1>5 DEF JobInv

LEMMA VerifyKeeps ==
    ASSUME JobInv, VerifyFails \/ Verify
    PROVE  JobInv'
<1>1. CASE VerifyFails
  BY <1>1, RaiseKeeps DEF VerifyFails
<1>2. CASE Verify
  <2>1. job.pc = "poll" /\ UNCHANGED <<clock, issued, saved>>
    BY <1>2 DEF Verify
  <2>2. PICK reply \in Replies :
          /\ Translates(reply)
          /\ LET result == VerificationOf(reply)
                 action == ClassifyVerification(result)
             IN  \/ action = "retry" /\ Retry
                 \/ action \in CLEAN_TERMINALS /\ Resolve(result, action)
                 \/ action \notin CLEAN_TERMINALS \cup {"retry"} /\ TerminalFailure(action)
    BY <1>2 DEF Verify
  <2> DEFINE result == VerificationOf(reply)
             action == ClassifyVerification(result)
  <2>3. /\ action = "ok" <=> Resolved(result)
        /\ result # None
        /\ result.ids \in Seq(Contents)
    BY <2>2, AnswersClassify
  <2> HIDE DEF result
  <2>4. CASE Retry
    BY <2>1, <2>4, RetryKeeps
  <2>5. CASE action \in CLEAN_TERMINALS /\ Resolve(result, action)
    BY <2>1, <2>3, <2>5, ResolveKeeps
  <2>6. CASE TerminalFailure(action)
    BY <2>1, <2>6, RaiseKeeps DEF TerminalFailure
  <2>7. QED
    BY <2>2, <2>4, <2>5, <2>6 DEF result
<1>3. QED
  BY <1>1, <1>2

LEMMA WakeKeeps ==
    ASSUME JobInv, Wake
    PROVE  JobInv'
<1>1. job' = [job EXCEPT !.pc = "poll"] /\ job.pc = "sleep" /\ UNCHANGED <<clock, issued, saved>>
  BY DEF Wake
<1>2. JobFields' /\ RequestInv' /\ OutcomeInv'
  BY <1>1 DEF JobInv, JobFields, RequestInv, OutcomeInv
<1>3. WaitInv'
  <2>1. job.attempt \in Nat /\ BackoffOwed[job.attempt] \in Nat /\ job.wake \in Nat
        /\ clock \in 0..Horizon /\ job.wake >= BackoffOwed[job.attempt]
    BY <1>1, OwedIsRecursive DEF JobInv, JobFields, WaitInv
  <2>2. clock < Horizon => clock >= BackoffOwed[job.attempt]
    <3>1. clock >= job.wake \/ clock = Horizon
      BY DEF Wake
    <3>2. QED
      BY <2>1, <3>1, DownloadBounds
  <2>3. /\ job'.pc = "poll" /\ job'.attempt = job.attempt /\ job'.deadline = Timeout
        /\ clock' = clock
    BY <1>1 DEF JobInv, JobFields, WaitInv
  <2>4. QED
    BY <2>2, <2>3 DEF WaitInv
<1>4. QED
  BY <1>2, <1>3 DEF JobInv

\* One package more of what the answer lists, or all of it.
LEMMA DownloadPackageKeeps ==
    ASSUME JobInv, DownloadPackage
    PROVE  JobInv'
<1> DEFINE packages == job.packages
           ids == job.answer.ids
           next == Len(packages) + 1
<1>1. /\ job.pc = "download" /\ UNCHANGED <<clock, issued, saved>>
      /\ Resolved(job.answer) /\ Prefix(packages, ids) /\ job.answer # None
  BY DEF DownloadPackage, JobInv, OutcomeInv
<1>2. Len(packages) \in Nat /\ Len(ids) \in Nat /\ packages \in Seq(Contents) /\ ids \in Seq(Contents)
  BY <1>1, LenProperties DEF Prefix
<1>3. CASE next <= Len(ids) /\ job' = [job EXCEPT !.packages = Append(@, ids[next])]
  <2>1. job'.packages = Append(packages, ids[next]) /\ job'.pc = "download" /\ job'.answer = job.answer
        /\ ids[next] \in Contents
    BY <1>1, <1>2, <1>3, ElementOfSeq DEF JobInv, JobFields
  <2>2. Prefix(Append(packages, ids[next]), ids)
    <3> HIDE DEF packages, ids
    <3>1. /\ Append(packages, ids[next]) \in Seq(Contents)
          /\ Len(Append(packages, ids[next])) = next
          /\ \A i \in 1..Len(packages) : Append(packages, ids[next])[i] = packages[i]
          /\ Append(packages, ids[next])[next] = ids[next]
      BY <1>2, <2>1, AppendProperties
    <3>2. \A i \in 1..next : i \in 1..Len(packages) \/ i = next
      BY <1>2
    <3>3. QED
      BY <1>1, <1>2, <1>3, <3>1, <3>2 DEF Prefix
  <2>3. JobFields' /\ RequestInv' /\ WaitInv'
    BY <1>1, <1>3 DEF JobInv, JobFields, RequestInv, WaitInv
  <2>4. OutcomeInv'
    BY <1>1, <2>1, <2>2 DEF OutcomeInv
  <2>5. QED
    BY <2>3, <2>4 DEF JobInv
<1>4. CASE Raised("SatCallError")
  BY <1>1, <1>4, RaiseKeeps
<1>5. CASE ~(next <= Len(ids)) /\ job' = [job EXCEPT !.pc = "done"]
  <2>1. packages = ids
    <3>1. Len(packages) = Len(ids) /\ \A i \in 1..Len(packages) : packages[i] = ids[i]
      BY <1>1, <1>2, <1>5 DEF Prefix
    <3>2. QED
      BY <1>2, <3>1, SeqEqual
  <2>2. JobFields' /\ RequestInv' /\ WaitInv'
    BY <1>1, <1>5 DEF JobInv, JobFields, RequestInv, WaitInv
  <2>3. job'.pc = "done" /\ job'.packages = packages /\ job'.answer = job.answer
    BY <1>5 DEF JobInv, JobFields
  <2>4. OutcomeInv'
    BY <1>1, <1>2, <2>1, <2>3 DEF OutcomeInv
  <2>5. QED
    BY <2>2, <2>4 DEF JobInv
<1>6. QED
  BY <1>3, <1>4, <1>5 DEF DownloadPackage

LEMMA TickKeeps ==
    ASSUME JobInv, Tick
    PROVE  JobInv'
<1>1. job.pc \in {"poll", "sleep"} /\ clock < Horizon /\ clock' = clock + 1
      /\ UNCHANGED <<issued, saved, job>>
  BY DEF Tick
<1>2. job.attempt \in Nat /\ BackoffOwed[job.attempt] \in Nat /\ clock \in 0..Horizon
  BY OwedIsRecursive DEF JobInv, JobFields
<1>3. JobFields' /\ RequestInv' /\ OutcomeInv'
  BY <1>1, <1>2, DownloadBounds DEF JobInv, JobFields, RequestInv, OutcomeInv
<1>4. WaitInv'
  BY <1>1, <1>2, DownloadBounds DEF JobInv, WaitInv
<1>5. QED
  BY <1>3, <1>4 DEF JobInv

LEMMA DownloadKeepsInv ==
    ASSUME JobInv, DownloadStep
    PROVE  JobInv'
BY SubmitKeeps, VerifyKeeps, WakeKeeps, DownloadPackageKeeps DEF DownloadStep

(*************************** The facade ************************************)

LEMMA InitHolds ==
    ASSUME Init
    PROVE  IInv
<1> USE DEF Init, NoJob, NoIngest, NoCall
<1>1. FilesInv /\ EvidenceFirst /\ IngestInv
  BY DEF ArchiveInit, FilesInv, EvidenceFirst, IngestInv, Archived, Reading
<1>2. JobInv
  BY DownloadBounds DEF DownloadInit, JobInv, JobFields, RequestInv, WaitInv, OutcomeInv
<1>3. ClientInv
  BY DEF ArchiveInit, ClientInv
<1>4. QED
  BY <1>1, <1>2, <1>3 DEF ArchiveInv, IInv

\* An ingestion that is not begun, and one that is about to store.
LEMMA NoIngestIsSound ==
    ASSUME ArchiveInv, ingest' = NoIngest, UNCHANGED <<zips, manifests, files>>
    PROVE  ArchiveInv' /\ EvidenceStays
<1>1. FilesInv' /\ EvidenceFirst' /\ EvidenceStays
  BY SameFiles DEF ArchiveInv
<1>2. IngestInv'
  BY DEF IngestInv, NoIngest, Archived, Reading
<1>3. QED
  BY <1>1, <1>2 DEF ArchiveInv

LEMMA IngestKeeps ==
    ASSUME ArchiveInv, NEW p \in Contents, Ingest(p)
    PROVE  ArchiveInv' /\ EvidenceStays
<1>1. FilesInv' /\ EvidenceFirst' /\ EvidenceStays
  BY SameFiles DEF ArchiveInv, Ingest
<1>2. IngestInv'
  BY DEF Ingest, IngestInv, NoIngest, Archived, Reading
<1>3. QED
  BY <1>1, <1>2 DEF ArchiveInv

LEMMA SameJob ==
    ASSUME JobInv, UNCHANGED downloadVars
    PROVE  JobInv'
BY DEF JobInv, JobFields, RequestInv, WaitInv, OutcomeInv, downloadVars

LEMMA SameArchive ==
    ASSUME ArchiveInv, UNCHANGED archiveVars
    PROVE  ArchiveInv' /\ EvidenceStays
<1>1. FilesInv' /\ EvidenceFirst' /\ EvidenceStays
  BY SameFiles DEF ArchiveInv, archiveVars
<1>2. IngestInv'
  BY DEF ArchiveInv, archiveVars, IngestInv, ReadTo
<1>3. QED
  BY <1>1, <1>2 DEF ArchiveInv

\* The call is over.
LEMMA OverKeeps ==
    ASSUME IInv, Over, saved' = saved \/ saved' = {}
    PROVE  IInv' /\ EvidenceStays
<1>1. ArchiveInv' /\ EvidenceStays
  BY NoIngestIsSound DEF IInv, Over
<1>2. JobInv'
  BY NoJobIsSound DEF IInv, JobInv, JobFields, Over
<1>3. ClientInv'
  BY DEF Over, NoIngest, NoCall, ClientInv
<1>4. QED
  BY <1>1, <1>2, <1>3 DEF IInv

\* A step of the execution or of an ingestion is none of the facade's, which
\* waits for it.
LEMMA InnerStepKeeps ==
    ASSUME IInv,
           \/ (DownloadStep \/ Tick) /\ UNCHANGED <<archiveVars, client>>
           \/ ArchiveStep /\ UNCHANGED <<downloadVars, client>>
    PROVE  IInv' /\ EvidenceStays
<1>1. CASE (DownloadStep \/ Tick) /\ UNCHANGED <<archiveVars, client>>
  <2>1. JobInv'
    BY <1>1, DownloadKeepsInv, TickKeeps DEF IInv
  <2>2. ArchiveInv' /\ EvidenceStays
    BY <1>1, SameArchive DEF IInv
  <2>3. job.pc # "idle"
    BY <1>1 DEF DownloadStep, SubmitFails, Submit, VerifyFails, Verify, Wake, DownloadPackage, Tick
  <2>4. ClientInv'
    BY <1>1, <2>3 DEF IInv, ClientInv, archiveVars
  <2>5. QED
    BY <2>1, <2>2, <2>4 DEF IInv
<1>2. CASE ArchiveStep /\ UNCHANGED <<downloadVars, client>>
  <2>1. JobInv'
    BY <1>2, SameJob DEF IInv
  <2>2. ArchiveInv' /\ EvidenceStays
    BY <1>2, ArchiveKeepsInv DEF IInv
  <2>3. ingest.pc # "idle"
    BY <1>2 DEF ArchiveStep, Store, CloseZip, OpenManifest, CloseManifest, OpenArchive,
                ReadMember, CloseMember, Extracted, FileFails
  <2>4. ClientInv'
    BY <1>2, <2>3 DEF IInv, ClientInv, downloadVars
  <2>5. QED
    BY <2>1, <2>2, <2>4 DEF IInv
<1>3. QED
  BY <1>1, <1>2

LEMMA HandOverKeeps ==
    ASSUME IInv, HandOver
    PROVE  IInv' /\ EvidenceStays
<1>1. ArchiveInv' /\ EvidenceStays
  BY SameArchive DEF IInv, HandOver
<1>2. JobInv'
  BY NoJobIsSound DEF IInv, JobInv, JobFields, HandOver
<1>3. job.packages \in Seq(Contents) /\ Len(job.packages) \in Nat
  BY LenProperties DEF IInv, JobInv, OutcomeInv, HandOver
<1>4. ingest'.pc = "idle"
  BY DEF IInv, ClientInv, HandOver, archiveVars
<1>5. /\ DOMAIN client' = {"pc", "packages", "next"} /\ client'.pc = "ingest"
      /\ client'.packages = job.packages /\ client'.next = 1 /\ job'.pc = "idle"
  BY DEF HandOver, NoCall, NoJob
<1>6. ClientInv'
  BY <1>3, <1>4, <1>5 DEF ClientInv
<1>7. QED
  BY <1>1, <1>2, <1>6 DEF IInv

LEMMA IngestNextKeeps ==
    ASSUME IInv, IngestNext
    PROVE  IInv' /\ EvidenceStays
<1>1. /\ client.packages \in Seq(Contents) /\ client.next \in 1..Len(client.packages)
      /\ client.pc = "ingest"
  BY DEF IInv, ClientInv, IngestNext
<1>2. client.packages[client.next] \in Contents
  BY <1>1, ElementOfSeq
<1>3. ArchiveInv' /\ EvidenceStays
  BY <1>2, IngestKeeps DEF IInv, IngestNext
<1>4. JobInv'
  BY SameJob DEF IInv, IngestNext
<1>5. ClientInv'
  BY <1>1 DEF IInv, ClientInv, IngestNext, downloadVars
<1>6. QED
  BY <1>3, <1>4, <1>5 DEF IInv

LEMMA IngestedKeeps ==
    ASSUME IInv, Ingested
    PROVE  IInv' /\ EvidenceStays
<1>1. ArchiveInv' /\ EvidenceStays
  BY NoIngestIsSound DEF IInv, Ingested
<1>2. JobInv'
  BY SameJob DEF IInv, Ingested
<1>3. /\ client.packages \in Seq(Contents) /\ Len(client.packages) \in Nat
      /\ client.next \in 1..Len(client.packages) /\ client.pc = "ingest" /\ job.pc = "idle"
  BY LenProperties DEF IInv, ClientInv, Ingested
<1>4. /\ DOMAIN client' = {"pc", "packages", "next"} /\ client'.pc = "ingest"
      /\ client'.packages = client.packages /\ client'.next = client.next + 1
      /\ ingest'.pc = "idle" /\ job' = job
  BY DEF IInv, ClientInv, Ingested, downloadVars, NoIngest
<1>5. ClientInv'
  BY <1>3, <1>4 DEF ClientInv
<1>6. QED
  BY <1>1, <1>2, <1>5 DEF IInv

LEMMA BeginKeeps ==
    ASSUME IInv, Begin
    PROVE  IInv' /\ EvidenceStays
<1>1. ArchiveInv' /\ EvidenceStays
  BY SameArchive DEF IInv, Begin
<1>2. JobInv'
  BY ExecuteKeeps DEF IInv, Begin
<1>3. ClientInv'
  BY DEF IInv, ClientInv, Begin, NoCall, archiveVars
<1>4. QED
  BY <1>1, <1>2, <1>3 DEF IInv

LEMMA StepKeeps ==
    ASSUME IInv, Next
    PROVE  IInv' /\ EvidenceStays
<1>1. CASE Begin
  BY <1>1, BeginKeeps
<1>2. CASE DownloadStep /\ UNCHANGED <<archiveVars, client>>
  BY <1>2, InnerStepKeeps
<1>3. CASE ArchiveStep /\ UNCHANGED <<downloadVars, client>>
  BY <1>3, InnerStepKeeps
<1>4. CASE HandOver
  BY <1>4, HandOverKeeps
<1>5. CASE IngestNext
  BY <1>5, IngestNextKeeps
<1>6. CASE Ingested
  BY <1>6, IngestedKeeps
<1>7. CASE Return \/ Propagate \/ Crash
  BY <1>7, OverKeeps DEF Return, Propagate, Crash
<1>8. CASE Passes
  BY <1>8, InnerStepKeeps DEF Passes
<1>9. QED
  BY <1>1, <1>2, <1>3, <1>4, <1>5, <1>6, <1>7, <1>8 DEF Next, Step

LEMMA SameKeeps ==
    ASSUME IInv, UNCHANGED acquisitionVars
    PROVE  IInv'
<1>1. UNCHANGED archiveVars /\ UNCHANGED downloadVars /\ UNCHANGED client
  BY DEF acquisitionVars
<1>2. ArchiveInv' /\ JobInv'
  BY <1>1, SameArchive, SameJob DEF IInv
<1>3. ClientInv'
  BY <1>1 DEF IInv, ClientInv, archiveVars, downloadVars
<1>4. QED
  BY <1>2, <1>3 DEF IInv

\* The invariant holds in every state.
LEMMA InvariantHolds == Spec => []IInv
<1>1. Init => IInv
  BY InitHolds
<1>2. IInv /\ [Next]_acquisitionVars => IInv'
  BY StepKeeps, SameKeeps
<1>3. QED
  BY <1>1, <1>2, PTL DEF Spec

(*************************** What holds ************************************)

\* The types of a download and of the archive, and that the facade never
\* executes while it ingests (facade/client.py:download_and_ingest).
THEOREM AcquisitionTypes == Spec => []TypeOK
<1>1. IInv => TypeOK
  <2> SUFFICES ASSUME IInv PROVE TypeOK
    OBVIOUS
  <2>1. DownloadTypeOK
    BY DEF IInv, JobInv, JobFields, RequestInv, OutcomeInv, DownloadTypeOK
  <2>2. ArchiveTypeOK
    BY ArchiveIsSound DEF IInv
  <2>3. QED
    BY <2>1, <2>2 DEF IInv, ClientInv, TypeOK
<1>2. QED
  BY <1>1, InvariantHolds, PTL

\* "The immutable raw store is written FIRST": whatever fails or crashes, a
\* file that was extracted has a package in the raw store that lists it
\* (ingest_downloaded_package.py).
THEOREM EvidenceIsFirst == Spec => []EvidenceFirst
<1>1. IInv => EvidenceFirst
  BY DEF IInv, ArchiveInv
<1>2. QED
  BY <1>1, InvariantHolds, PTL

\* A package that returns from ingest was read to its end: each XML member is
\* there as the package holds it (extractor.py).
THEOREM WhatReturnsIsExtracted == Spec => []ReturnedIsExtracted
<1>1. IInv => ReturnedIsExtracted
  BY ArchiveIsSound DEF IInv
<1>2. QED
  BY <1>1, InvariantHolds, PTL

\* Evidence that is whole is never written again, by this call or another
\* (filesystem_sink.py, extractor.py).
THEOREM EvidenceStaysWhole == Spec => EvidenceIsImmutable
<1>1. IInv /\ [Next]_acquisitionVars => [EvidenceStays]_archiveVars
  BY StepKeeps DEF acquisitionVars
<1>2. Spec => [][EvidenceStays]_archiveVars
  BY <1>1, InvariantHolds, PTL DEF Spec
<1>3. QED
  BY <1>2 DEF EvidenceIsImmutable, EvidenceStays

\* Only a request the SAT calls COMPLETED is downloaded from, and its outcome
\* has every package it lists, in their order (execute_download.py:execute).
THEOREM OutcomesAreResolved == Spec => []OutcomeIsResolved
<1>1. IInv => OutcomeIsResolved
  BY DEF IInv, JobInv, JobFields, OutcomeInv, OutcomeIsResolved, Resolved
<1>2. QED
  BY <1>1, InvariantHolds, PTL

\* The SAT is never asked for the n-th time earlier than the exponential
\* backoff allows, for any delays and any n (execute_download.py, backoff.py).
THEOREM PollsKeepTheirDistance == Spec => []PollsAreSpaced
<1>1. IInv => PollsAreSpaced
  <2> SUFFICES ASSUME IInv, job.pc = "poll", clock < Horizon
               PROVE  clock - (job.deadline - Timeout) >= BackoffOwed[job.attempt]
    BY DEF PollsAreSpaced
  <2>1. clock >= BackoffOwed[job.attempt] /\ job.deadline = Timeout /\ clock \in 0..Horizon
    BY DEF IInv, JobInv, JobFields, WaitInv
  <2>2. clock - (job.deadline - Timeout) = clock
    BY <2>1, PolicyAssumption, DownloadBounds
  <2>3. QED
    BY <2>1, <2>2
<1>2. QED
  BY <1>1, InvariantHolds, PTL

(*************************** The timeout ***********************************)

\* The powers that a poll within the timeout asks for fit a float.  The default
\* policy does so; one of many short delays does not.
NoOverflowInTime ==
    \A n \in Nat : BackoffOwed[n] < Timeout => ~DelayOverflows(n)

\* Where no power overflows within the timeout, nothing but the deadline ends
\* a loop that the SAT only asks to go on (execute_download.py:_poll_until_resolved).
THEOREM TimeoutIsHonoured ==
    ASSUME NoOverflowInTime
    PROVE  Spec => []HonoursTheTimeout
<1>1. Init => HonoursTheTimeout
  BY DEF Init, DownloadInit, NoJob, HonoursTheTimeout
<1>2. IInv /\ HonoursTheTimeout /\ [Next]_acquisitionVars => HonoursTheTimeout'
  <2> SUFFICES ASSUME IInv, HonoursTheTimeout, [Next]_acquisitionVars
               PROVE  HonoursTheTimeout'
    OBVIOUS
  <2>0. DOMAIN job = {"pc", "request", "deadline", "attempt", "wake", "answer", "packages", "why"}
    BY DEF IInv, JobInv, JobFields
  <2>1. CASE UNCHANGED <<job, clock>>
    BY <2>1 DEF HonoursTheTimeout
  <2>2. CASE job' = NoJob
    BY <2>2 DEF HonoursTheTimeout, NoJob
  <2>3. CASE Execute \/ Wake
    BY <2>0, <2>3 DEF HonoursTheTimeout, Execute, Wake, NoJob
  <2>4. CASE SubmitFails \/ Submit \/ VerifyFails \/ DownloadPackage
    BY <2>0, <2>4 DEF HonoursTheTimeout, SubmitFails, Submit, VerifyFails, DownloadPackage, Raised
  <2>5. CASE Verify
    <3>1. PICK reply \in Replies :
            LET result == VerificationOf(reply)
                action == ClassifyVerification(result)
            IN  Retry \/ Resolve(result, action) \/ TerminalFailure(action)
      BY <2>5 DEF Verify
    <3>2. job.pc = "poll" /\ UNCHANGED clock
      BY <2>5 DEF Verify
    <3>3. CASE Retry
      <4>1. CASE PastDeadline
        BY <2>0, <3>2, <3>3, <4>1 DEF Retry, Raised, HonoursTheTimeout, PastDeadline
      <4>2. CASE ~PastDeadline
        <5>1. job.attempt \in Nat /\ clock \in 0..Horizon /\ job.deadline = Timeout
          BY <3>2 DEF IInv, JobInv, JobFields, WaitInv
        <5>2. clock < Timeout /\ clock < Horizon
          BY <4>2, <5>1, PolicyAssumption, DownloadBounds DEF PastDeadline
        <5>3. clock >= BackoffOwed[job.attempt] /\ BackoffOwed[job.attempt] \in Nat
          BY <3>2, <5>1, <5>2, OwedIsRecursive DEF IInv, JobInv, WaitInv
        <5>4. BackoffOwed[job.attempt] < Timeout
          BY <5>1, <5>2, <5>3, PolicyAssumption
        <5>5. ~DelayOverflows(job.attempt)
          BY <5>1, <5>4 DEF NoOverflowInTime
        <5>6. QED
          BY <2>0, <3>3, <4>2, <5>5 DEF Retry, HonoursTheTimeout
      <4>3. QED
        BY <4>1, <4>2
    <3>4. CASE \E result, action : Resolve(result, action)
      BY <3>4 DEF Resolve, NoJob, HonoursTheTimeout
    <3>5. CASE \E action : TerminalFailure(action)
      BY <2>0, <3>5 DEF TerminalFailure, Raised, HonoursTheTimeout
    <3>6. QED
      BY <3>1, <3>3, <3>4, <3>5
  <2>6. CASE Tick
    BY <2>6 DEF Tick, HonoursTheTimeout
  <2>7. QED
    BY <2>1, <2>2, <2>3, <2>4, <2>5, <2>6
    DEF Next, Begin, Step, Passes, Crash, HandOver, IngestNext, Ingested, Return, Propagate, Over,
        DownloadStep, acquisitionVars, downloadVars
<1>3. QED
  BY <1>1, <1>2, InvariantHolds, PTL DEF Spec

=============================================================================
