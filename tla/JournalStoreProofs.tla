-------------------------- MODULE JournalStoreProofs --------------------------
(***************************************************************************)
(* The journal store for any connections and records: no reader meets half *)
(* a posting, what append has returned for is durable, and what readers    *)
(* meet is the ledger they are promised.  The inductive invariant says     *)
(* that what a transaction holds is the prefix of one append, under a key  *)
(* that no committed row has; the lock keeps it so until COMMIT.           *)
(***************************************************************************)
EXTENDS JournalStore, TLAPS

\* An exception other than IntegrityError strikes a unit of work only, which
\* rolls back.  Without it the claim fails (run journal_store_interrupted): the
\* driver's own transaction stays open with the rows it has.
InterruptsMeetUnits == \A c \in Interrupted : Mode[c] = "unit"

(*************************** The invariant *********************************)

\* The first n rows of an append.
Written(r, n) == {RowAt(r, i) : i \in 0..n - 1}

SoundConnection(c) ==
    /\ call[c] \in Records \cup {None}
    /\ at[c] \in Int /\ -1 <= at[c]
    /\ call[c] = None => at[c] = -1
    /\ call[c] # None => at[c] <= RowCount(call[c]) + 1
    /\ pending[c] = Written(call[c], at[c])
    /\ at[c] > 0 => c \in open /\ \A x \in disk : x.key # call[c].key

SoundConnections ==
    /\ call = [c \in Connections |-> call[c]]
    /\ at = [c \in Connections |-> at[c]]
    /\ pending = [c \in Connections |-> pending[c]]
    /\ \A c \in Connections : SoundConnection(c)

\* One connection at a time has rows that are not committed.
LockInv == open \subseteq Connections /\ \A c, d \in open : c = d

IInv ==
    /\ SoundConnections
    /\ LockInv
    /\ NoHalfPosting
    /\ acked \subseteq Records /\ AcknowledgedIsDurable

(*************************** Rows ******************************************)

\* What a row says of the record it belongs to.
LEMMA RowsTellTheirRecord ==
    ASSUME NEW r, NEW i
    PROVE  RowAt(r, i).key = r.key /\ RowAt(r, i).body = r.body
BY DEF RowAt, Row

LEMMA RecordIsItsRows ==
    ASSUME NEW r \in Records
    PROVE  /\ RowsOf(r) = Written(r, RowCount(r))
           /\ RowCount(r) \in Nat /\ RowCount(r) > 1
           /\ RowAt(r, 0) \in RowsOf(r)
BY RecordsAssumption DEF RowsOf, Written, RowCount

\* After the last row there is nothing more to write.
LEMMA NothingIsLeft ==
    ASSUME NEW r \in Records
    PROVE  Written(r, RowCount(r) + 1) = RowsOf(r)
<1>1. r.legs \in Nat
  BY RecordsAssumption
<1>2. RowAt(r, RowCount(r)) = RowAt(r, RowCount(r) - 1)
  BY <1>1 DEF RowAt, RowCount
<1>3. 0..(RowCount(r) + 1) - 1 = (0..RowCount(r) - 1) \cup {RowCount(r)}
  BY <1>1 DEF RowCount
<1>4. RowCount(r) - 1 \in 0..RowCount(r) - 1
  BY <1>1 DEF RowCount
<1>5. QED
  BY <1>2, <1>3, <1>4 DEF Written, RowsOf

\* One row more.
LEMMA WrittenGrows ==
    ASSUME NEW r, NEW n \in Nat
    PROVE  Written(r, n + 1) = Written(r, n) \cup {RowAt(r, n)}
<1>1. 0..(n + 1) - 1 = (0..n - 1) \cup {n}
  OBVIOUS
<1>2. QED
  BY <1>1 DEF Written

LEMMA NothingWritten == \A r : Written(r, 0) = {} /\ Written(r, -1) = {}
<1>1. 0..0 - 1 = {} /\ 0..-1 - 1 = {}
  OBVIOUS
<1>2. QED
  BY <1>1 DEF Written

\* Two rows of one record that have the same place are the same row, and so no
\* row before the n-th has its place.
LEMMA PlacesDiffer ==
    ASSUME NEW r \in Records, NEW n \in 0..RowCount(r) - 1,
           NEW x \in Written(r, n)
    PROVE  ~ SameIdentity(x, RowAt(r, n))
<1>1. PICK i \in 0..n - 1 : x = RowAt(r, i)
  BY DEF Written
<1>2. r.legs \in Nat
  BY RecordsAssumption
<1>3. QED
  BY <1>1, <1>2 DEF RowAt, Row, SameIdentity, RowCount

\* A record is known by its key and what it says.
LEMMA RecordOfRow ==
    ASSUME NEW r \in Records, NEW s \in Records, r.key = s.key, r.body = s.body
    PROVE  r = s
BY RecordsAssumption

(*************************** What readers meet *****************************)

\* A committed row with the key of a record that is whole has its entry row next to it.
LEMMA KeyIsEntered ==
    ASSUME NoHalfPosting, NEW x \in disk
    PROVE  \E r \in Whole : RowAt(r, 0) \in disk /\ RowAt(r, 0).key = x.key
<1>1. PICK r \in Whole : x \in RowsOf(r)
  BY DEF NoHalfPosting
<1>2. r \in Records /\ RowsOf(r) \subseteq disk
  BY DEF Whole
<1>3. x.key = r.key
  BY <1>1, RowsTellTheirRecord DEF RowsOf
<1>4. QED
  BY <1>2, <1>3, RecordIsItsRows, RowsTellTheirRecord

\* An entry row can be inserted only under a key of which nothing is on disk.
LEMMA FreeKey ==
    ASSUME NoHalfPosting, NEW r \in Records,
           \A x \in disk : ~ SameIdentity(x, RowAt(r, 0))
    PROVE  \A x \in disk : x.key # r.key
<1> SUFFICES ASSUME NEW x \in disk, x.key = r.key
             PROVE  FALSE
  OBVIOUS
<1>1. PICK s \in Whole : RowAt(s, 0) \in disk /\ RowAt(s, 0).key = x.key
  BY KeyIsEntered
<1>2. SameIdentity(RowAt(s, 0), RowAt(r, 0))
  BY <1>1, RowsTellTheirRecord DEF SameIdentity, RowAt, Row
<1>3. QED
  BY <1>1, <1>2

\* COMMIT of a whole append brings its record, and no other.
LEMMA CommitBrings ==
    ASSUME NEW r \in Records, disk' = disk \cup RowsOf(r), \A x \in disk : x.key # r.key
    PROVE  Whole' = Whole \cup {r}
<1>1. r \in Whole' /\ Whole \subseteq Whole'
  BY DEF Whole
<1>2. ASSUME NEW s \in Whole', s # r
      PROVE  s \in Whole
  <2>1. s \in Records /\ RowsOf(s) \subseteq disk \cup RowsOf(r)
    BY DEF Whole
  <2>2. s.key # r.key
    <3> SUFFICES ASSUME s.key = r.key
                 PROVE  FALSE
      OBVIOUS
    <3>1. RowAt(s, 0) \in RowsOf(r)
      BY <2>1, RecordIsItsRows, RowsTellTheirRecord
    <3>2. s.body = r.body
      BY <3>1, RowsTellTheirRecord DEF RowsOf
    <3>3. QED
      BY <1>2, <2>1, <3>2, RecordOfRow
  <2>3. \A x \in RowsOf(s) : x.key = s.key
    BY RowsTellTheirRecord DEF RowsOf
  <2>4. \A x \in RowsOf(r) : x.key = r.key
    BY RowsTellTheirRecord DEF RowsOf
  <2>5. RowsOf(s) \subseteq disk
    BY <2>1, <2>2, <2>3, <2>4
  <2>6. QED
    BY <2>1, <2>5 DEF Whole
<1>3. QED
  BY <1>1, <1>2

(*************************** The steps *************************************)

\* What a step of one connection leaves to the others.
Frame(c) ==
    /\ call' = [call EXCEPT ![c] = call'[c]]
    /\ at' = [at EXCEPT ![c] = at'[c]]
    /\ pending' = [pending EXCEPT ![c] = pending'[c]]
    /\ open' \ {c} = open \ {c}
    /\ open' \subseteq open \/ open \subseteq {c}
    /\ disk' = disk \/ c \in open

\* The others keep what they have, and the lock keeps their keys free.
LEMMA OthersStay ==
    ASSUME SoundConnections, LockInv, NEW c \in Connections, Frame(c), SoundConnection(c)'
    PROVE  SoundConnections' /\ LockInv'
<1>1. ASSUME NEW d \in Connections \ {c}
      PROVE  SoundConnection(d)'
  <2>1. call'[d] = call[d] /\ at'[d] = at[d] /\ pending'[d] = pending[d]
    BY DEF Frame, SoundConnections
  <2>2. at[d] > 0 => d \in open' /\ disk' = disk
    BY DEF Frame, SoundConnections, SoundConnection, LockInv
  <2>3. QED
    BY <2>1, <2>2 DEF SoundConnections, SoundConnection
<1>2. LockInv'
  BY DEF Frame, LockInv
<1>3. QED
  BY <1>1, <1>2 DEF Frame, SoundConnections

\* Whatever ends an append with nothing written leaves the connection sound.
LEMMA Idle ==
    ASSUME NEW c, call'[c] = None, at'[c] = -1, pending'[c] = {}
    PROVE  SoundConnection(c)'
BY NothingWritten DEF SoundConnection

\* The steps that leave the disk alone.
LEMMA QuietStep ==
    ASSUME InterruptsMeetUnits, IInv, NEW c \in Connections,
           \/ \E r \in Records : Call(c, r)
           \/ LookupMiss(c) \/ LookupOther(c) \/ InsertRefused(c)
           \/ CommitFails(c) \/ Interrupt(c) \/ Close(c)
    PROVE  Frame(c) /\ SoundConnection(c)' /\ UNCHANGED <<disk, acked>>
<1> USE DEF IInv, SoundConnections
<1>0. SoundConnection(c)
  OBVIOUS
<1>1. CASE \E r \in Records : Call(c, r)
  <2>1. PICK r \in Records : Call(c, r)
    BY <1>1
  <2>2. Frame(c)
    BY <2>1 DEF Call, LockIsFree, Frame
  <2>3. call'[c] = r /\ at'[c] = -1 /\ pending'[c] = {} /\ UNCHANGED <<disk, acked>>
    BY <1>0, <2>1, NothingWritten DEF Call, SoundConnection
  <2>4. SoundConnection(c)'
    BY <2>3, NothingWritten, RecordIsItsRows, RecordsAssumption DEF SoundConnection
  <2>5. QED
    BY <2>2, <2>3, <2>4
<1>2. CASE LookupMiss(c)
  <2>1. /\ call[c] \in Records /\ call'[c] = call[c] /\ at'[c] = 0 /\ pending'[c] = {}
        /\ UNCHANGED <<disk, acked>> /\ Frame(c)
    BY <1>0, <1>2, NothingWritten DEF LookupMiss, SoundConnection, Frame
  <2>2. RowCount(call[c]) \in Nat /\ Written(call[c], 0) = {} /\ call[c] # None
    BY <2>1, NothingWritten, RecordIsItsRows, RecordsAssumption
  <2>3. SoundConnection(c)'
    <3>1. \A n : n = 0 => n \in Int /\ -1 <= n /\ ~ (n > 0) /\ n <= RowCount(call[c])
      BY <2>2
    <3>2. QED
      BY <2>1, <2>2, <3>1 DEF SoundConnection
  <2>4. QED
    BY <2>1, <2>3
<1>3. CASE LookupOther(c)
  <2>1. call'[c] = None /\ at'[c] = -1 /\ pending'[c] = {} /\ UNCHANGED <<disk, acked>>
    BY <1>0, <1>3, NothingWritten DEF LookupOther, Raise, Rollback, SoundConnection
  <2>2. Frame(c)
    BY <1>3, <2>1 DEF LookupOther, Raise, Rollback, Frame
  <2>3. QED
    BY <2>1, <2>2, Idle
<1>4. CASE InsertRefused(c) \/ Close(c)
  <2>1. call'[c] = None /\ at'[c] = -1 /\ pending'[c] = {} /\ UNCHANGED <<disk, acked>>
    BY <1>4 DEF InsertRefused, Close, Rollback
  <2>2. Frame(c)
    BY <1>4, <2>1 DEF InsertRefused, Close, Rollback, Frame
  <2>3. QED
    BY <2>1, <2>2, Idle
<1>5. CASE Interrupt(c)
  <2>1. call'[c] = None /\ at'[c] = -1 /\ pending'[c] = {} /\ UNCHANGED <<disk, acked>>
    BY <1>5 DEF Interrupt, Raise, Rollback, InterruptsMeetUnits
  <2>2. Frame(c)
    BY <1>5, <2>1 DEF Interrupt, Raise, Rollback, Frame
  <2>3. QED
    BY <2>1, <2>2, Idle
<1>6. CASE CommitFails(c)
  <2>1. /\ call[c] \in Records /\ call'[c] = call[c] /\ at[c] = RowCount(call[c])
        /\ at'[c] = RowCount(call[c]) + 1 /\ pending'[c] = pending[c]
        /\ UNCHANGED <<disk, acked, open>>
    BY <1>0, <1>6 DEF CommitFails, SoundConnection
  <2>2. Frame(c)
    BY <1>6 DEF CommitFails, Frame
  <2>3. /\ RowCount(call[c]) \in Nat /\ RowCount(call[c]) > 0
        /\ pending[c] = Written(call[c], RowCount(call[c]) + 1)
    BY <1>0, <2>1, RecordIsItsRows, NothingIsLeft DEF SoundConnection
  <2>4. c \in open /\ \A x \in disk : x.key # call[c].key
    BY <1>0, <2>1, <2>3 DEF SoundConnection
  <2>5. \A n \in Nat : n > 0 => n + 1 \in Int /\ -1 <= n + 1 /\ n + 1 > 0
    OBVIOUS
  <2>6. call[c] # None
    BY <1>6 DEF CommitFails
  <2>7. SoundConnection(c)'
    BY <2>1, <2>3, <2>4, <2>5, <2>6 DEF SoundConnection
  <2>8. QED
    BY <2>1, <2>2, <2>7
<1>7. QED
  BY <1>1, <1>2, <1>3, <1>4, <1>5, <1>6

\* The identical record was found on disk: nothing is written, and what is
\* acknowledged is durable already.
LEMMA SameStep ==
    ASSUME IInv, NEW c \in Connections, LookupSame(c)
    PROVE  /\ Frame(c) /\ SoundConnection(c)' /\ UNCHANGED disk
           /\ acked' = acked \cup {call[c]} /\ call[c] \in Whole
<1> USE DEF IInv, SoundConnections
<1>0. SoundConnection(c)
  OBVIOUS
<1>1. call[c] \in Records /\ pending[c] = {}
  BY <1>0, NothingWritten DEF LookupSame, SoundConnection
<1>2. call[c] \in Whole
  BY <1>1 DEF LookupSame, KeyRows, Visible, Whole
<1>3. /\ call'[c] = None /\ at'[c] = -1 /\ pending'[c] = {} /\ UNCHANGED disk
      /\ acked' = acked \cup {call[c]}
  BY <1>1 DEF LookupSame, Return, CommitRows, Rollback
<1>4. Frame(c)
  BY <1>3 DEF LookupSame, Return, CommitRows, Rollback, Frame
<1>5. QED
  BY <1>2, <1>3, <1>4, Idle

\* The first insert finds the key free, and the lock is taken with it.
LEMMA InsertStep ==
    ASSUME IInv, NEW c \in Connections, Insert(c)
    PROVE  Frame(c) /\ SoundConnection(c)' /\ UNCHANGED <<disk, acked>>
<1> USE DEF IInv, SoundConnections
<1> DEFINE r == call[c]
           n == at[c]
<1>0. SoundConnection(c)
  OBVIOUS
<1>1. /\ r \in Records /\ n \in Nat /\ n <= RowCount(r) - 1 /\ open \subseteq {c}
      /\ pending[c] = Written(r, n)
  BY <1>0, RecordIsItsRows DEF Insert, LockIsFree, SoundConnection
<1>2. /\ call'[c] = r /\ at'[c] = n + 1 /\ UNCHANGED <<disk, acked>>
      /\ pending'[c] = pending[c] \cup {RowAt(r, n)} /\ open' = open \cup {c}
  BY <1>0 DEF Insert
<1>3. Frame(c)
  BY <1>1, <1>2 DEF Insert, Frame
<1>4. pending'[c] = Written(r, n + 1)
  BY <1>1, <1>2, WrittenGrows
<1>5. \A x \in disk : x.key # r.key
  <2>1. CASE n = 0
    <3>1. \A x \in disk : ~ SameIdentity(x, RowAt(r, 0))
      BY <2>1 DEF Insert, Visible
    <3>2. QED
      BY <1>1, <3>1, FreeKey
  <2>2. CASE n # 0
    BY <1>0, <1>1, <2>2 DEF SoundConnection
  <2>3. QED
    BY <2>1, <2>2
<1>6. SoundConnection(c)'
  BY <1>1, <1>2, <1>4, <1>5, RecordIsItsRows DEF SoundConnection
<1>7. QED
  BY <1>2, <1>3, <1>6

\* COMMIT, by append or by whoever commits what it left open: the whole record,
\* under a key that was free.
LEMMA CommitStep ==
    ASSUME IInv, NEW c \in Connections, Commit(c) \/ CommitLeftOpen(c)
    PROVE  /\ Frame(c) /\ SoundConnection(c)'
           /\ call[c] \in Records /\ disk' = disk \cup RowsOf(call[c])
           /\ \A x \in disk : x.key # call[c].key
           /\ acked \subseteq acked' /\ acked' \subseteq acked \cup {call[c]}
<1> USE DEF IInv, SoundConnections
<1>0. SoundConnection(c)
  OBVIOUS
<1>1. call[c] \in Records /\ at[c] \in {RowCount(call[c]), RowCount(call[c]) + 1}
  BY <1>0 DEF Commit, CommitLeftOpen, SoundConnection
<1>2. at[c] > 0 /\ pending[c] = RowsOf(call[c])
  BY <1>0, <1>1, RecordIsItsRows, NothingIsLeft DEF SoundConnection
<1>3. c \in open /\ \A x \in disk : x.key # call[c].key
  BY <1>0, <1>2 DEF SoundConnection
<1>4. /\ call'[c] = None /\ at'[c] = -1 /\ pending'[c] = {}
      /\ disk' = disk \cup RowsOf(call[c])
      /\ acked \subseteq acked' /\ acked' \subseteq acked \cup {call[c]}
  BY <1>2 DEF Commit, CommitLeftOpen, CommitRows, Rollback, Return
<1>5. Frame(c)
  BY <1>3, <1>4 DEF Commit, CommitLeftOpen, CommitRows, Rollback, Return, Frame
<1>6. QED
  BY <1>1, <1>3, <1>4, <1>5, Idle

\* The same steps, as the readers see them.
LEMMA StepOfConnection ==
    ASSUME InterruptsMeetUnits, IInv, NEW c \in Connections,
           \/ \E r \in Records : Call(c, r)
           \/ LookupMiss(c) \/ LookupSame(c) \/ LookupOther(c)
           \/ Insert(c) \/ InsertRefused(c) \/ Commit(c) \/ CommitFails(c)
           \/ CommitLeftOpen(c) \/ Interrupt(c) \/ Close(c)
    PROVE  IInv' /\ [L!Append]_Whole
<1>1. CASE UNCHANGED <<disk, acked>> /\ Frame(c) /\ SoundConnection(c)'
  <2>1. UNCHANGED Whole /\ NoHalfPosting' /\ AcknowledgedIsDurable'
    BY <1>1 DEF Whole, NoHalfPosting, AcknowledgedIsDurable, IInv
  <2>2. QED
    BY <1>1, <2>1, OthersStay DEF IInv
<1>2. CASE LookupSame(c)
  <2>1. UNCHANGED Whole
    BY <1>2, SameStep DEF Whole
  <2>2. NoHalfPosting' /\ AcknowledgedIsDurable' /\ acked' \subseteq Records
    BY <1>2, <2>1, SameStep DEF NoHalfPosting, AcknowledgedIsDurable, IInv, Whole
  <2>3. QED
    BY <1>2, <2>1, <2>2, SameStep, OthersStay DEF IInv
<1>3. CASE Commit(c) \/ CommitLeftOpen(c)
  <2>1. /\ Frame(c) /\ SoundConnection(c)' /\ call[c] \in Records
        /\ disk' = disk \cup RowsOf(call[c]) /\ acked' \subseteq acked \cup {call[c]}
        /\ \A x \in disk : x.key # call[c].key
    BY <1>3, CommitStep
  <2>2. Whole' = Whole \cup {call[c]}
    BY <2>1, CommitBrings
  <2>3. NoHalfPosting' /\ AcknowledgedIsDurable' /\ acked' \subseteq Records
    BY <2>1, <2>2 DEF NoHalfPosting, AcknowledgedIsDurable, IInv
  <2>4. \A s \in Whole : s.key # call[c].key
    <3> SUFFICES ASSUME NEW s \in Whole
                 PROVE  s.key # call[c].key
      OBVIOUS
    <3>1. s \in Records /\ RowAt(s, 0) \in disk
      BY RecordIsItsRows DEF Whole
    <3>2. QED
      BY <2>1, <3>1, RowsTellTheirRecord
  <2>5. L!Append
    BY <2>2, <2>4 DEF L!Append, L!Free
  <2>6. QED
    BY <2>1, <2>3, <2>5, OthersStay DEF IInv
<1>4. QED
  BY <1>1, <1>2, <1>3, QuietStep, InsertStep

LEMMA InitIInv == Init => IInv
<1> SUFFICES ASSUME Init
             PROVE  IInv
  OBVIOUS
<1>1. SoundConnections
  BY NothingWritten DEF Init, SoundConnections, SoundConnection
<1>2. QED
  BY <1>1 DEF Init, IInv, LockInv, NoHalfPosting, AcknowledgedIsDurable

LEMMA NextIInv ==
    ASSUME InterruptsMeetUnits
    PROVE  IInv /\ [Next]_vars => IInv' /\ [L!Append]_Whole
<1> SUFFICES ASSUME IInv, [Next]_vars
             PROVE  IInv' /\ [L!Append]_Whole
  OBVIOUS
<1>1. CASE Next
  BY <1>1, StepOfConnection DEF Next
<1>2. CASE UNCHANGED vars
  <2>1. UNCHANGED Whole
    BY <1>2 DEF vars, Whole
  <2>2. IInv'
    BY <1>2, <2>1 DEF vars, IInv, SoundConnections, SoundConnection, LockInv, NoHalfPosting,
       AcknowledgedIsDurable
  <2>3. QED
    BY <2>1, <2>2
<1>3. QED
  BY <1>1, <1>2

LEMMA SpecIInv ==
    ASSUME InterruptsMeetUnits
    PROVE  Spec => []IInv
<1>1. IInv /\ [Next]_vars => IInv'
  BY NextIInv
<1>2. QED
  BY <1>1, InitIInv, PTL DEF Spec

(*************************** Theorems **************************************)

\* No reader meets half a posting (sqlite.py:1537-1540), whichever connections
\* race on a key, roll back or die between two of its rows.
THEOREM NoPostingIsHalf ==
    ASSUME InterruptsMeetUnits
    PROVE  Spec => []NoHalfPosting
<1>1. IInv => NoHalfPosting
  BY DEF IInv
<1>2. QED
  BY <1>1, SpecIInv, PTL

\* What append has returned for is on disk with all its rows, also when it
\* found the record there and wrote nothing (sqlite.py:1557-1565).
THEOREM AcknowledgedStays ==
    ASSUME InterruptsMeetUnits
    PROVE  Spec => []AcknowledgedIsDurable
<1>1. IInv => AcknowledgedIsDurable
  BY DEF IInv
<1>2. QED
  BY <1>1, SpecIInv, PTL

\* The rows of the tables, and of the transactions, are rows of records.
THEOREM StoreTypes ==
    ASSUME InterruptsMeetUnits
    PROVE  Spec => []TypeOK
<1>1. IInv => TypeOK
  <2> SUFFICES ASSUME IInv
               PROVE  TypeOK
    OBVIOUS
  <2> USE DEF IInv, SoundConnections, SoundConnection
  <2>1. \A c \in Connections : pending[c] \subseteq UNION {RowsOf(r) : r \in Records}
    <3> SUFFICES ASSUME NEW c \in Connections
                 PROVE  pending[c] \subseteq UNION {RowsOf(r) : r \in Records}
      OBVIOUS
    <3>1. CASE call[c] = None
      BY <3>1, NothingWritten
    <3>2. CASE call[c] # None
      <4>1. call[c] \in Records /\ RowCount(call[c]) \in Nat
        BY <3>2, RecordIsItsRows
      <4>2. pending[c] \subseteq Written(call[c], RowCount(call[c]) + 1)
        BY <3>2, <4>1 DEF Written
      <4>3. pending[c] \subseteq RowsOf(call[c])
        BY <4>1, <4>2, NothingIsLeft
      <4>4. QED
        BY <4>1, <4>3
    <3>3. QED
      BY <3>1, <3>2
  <2>2. disk \subseteq UNION {RowsOf(r) : r \in Records}
    BY DEF NoHalfPosting, Whole
  <2>3. \A c \in Connections :
           at[c] \in -1..(IF call[c] = None THEN -1 ELSE RowCount(call[c]) + 1)
    BY RecordIsItsRows
  <2>4. QED
    BY <2>1, <2>2, <2>3 DEF TypeOK, LockInv
<1>2. QED
  BY <1>1, SpecIInv, PTL

\* What readers meet is the promised ledger: each step adds one whole record
\* under a free key, or shows them nothing new.
THEOREM StoreImplementsLedger ==
    ASSUME InterruptsMeetUnits
    PROVE  Spec => ImplementsLedger
<1>1. Init => L!Init
  <2> SUFFICES ASSUME Init
               PROVE  Whole = {}
    BY DEF L!Init
  <2>1. \A r \in Records : RowsOf(r) # {}
    BY RecordIsItsRows
  <2>2. QED
    BY <2>1 DEF Init, Whole
<1>2. IInv /\ [Next]_vars => [L!Append]_Whole
  BY NextIInv
<1>3. QED
  BY <1>1, <1>2, SpecIInv, PTL DEF Spec, ImplementsLedger, L!Spec
=============================================================================
