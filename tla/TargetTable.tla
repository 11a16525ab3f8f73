---------------------------- MODULE TargetTable -----------------------------
(***************************************************************************)
(* The partition table of the clone: the source's table is read            *)
(* (QueryLayout, disks.cpp), turned into the plan with its file systems,   *)
(* Windows partition and identities (BuildClonePlan, layout.cpp), written  *)
(* to the target (BuildTargetLayoutBuffer), and read again by whoever uses *)
(* the clone.  Without --expand, which ExpandLayout models: partitions     *)
(* stay where they are.                                                    *)
(***************************************************************************)
EXTENDS Integers, Sequences, FiniteSets

CONSTANTS
  Sources,        \* source disks, see IsSource
  Room,           \* entries the first buffer has room for; 128 in the code
  Attempts,       \* how often the buffer is tried; 4 in the code
  MaxPartitions,  \* partitions a GPT is created for; 128 in the code
  Signatures,     \* values of the tick count, mixed with the process id
  FreshGuid,      \* GUIDs are numbers; from here on no disk has them yet
  DWord,          \* one more than the largest DWORD
  SectorSize

GptTypes == {"esp", "msr", "basicData", "winRe"}
MbrTypes == {"unused", "ntfs", "fat", "extended"}
FsKinds  == {"ntfs", "fat", "bitLocker", "refs", "unknown"}
None     == -1

\* The entries of a partition table; attr stands for attributes, name and the
\* active flag.  The drivers fill the entries nobody uses with zeros.
Entries ==
  [off : Nat, len : Nat, type : GptTypes \cup MbrTypes, id : Nat, attr : Nat]
Empty(type) == [off |-> 0, len |-> 0, type |-> type, id |-> 0, attr |-> 0]

Occupied(style, e) == IF style = "gpt" THEN e.len > 0 ELSE e.type # "unused"
IsPartition(style, e) == Occupied(style, e) /\ e.len > 0

\* The slots of a table, in any order; what each partition holds; where the
\* first sector cannot be read; where volumes were found and which of them is
\* the running Windows.  No two partitions begin at the same place.  An MBR has
\* four slots, then the logical partitions of an extended one.
IsSource(s) ==
  /\ s.style \in {"gpt", "mbr"} /\ s.diskId \in 0..(FreshGuid - 1)
  /\ s.slots \in Seq(Entries)
  /\ \A k \in DOMAIN s.slots : s.slots[k].id < FreshGuid
  /\ \A k, l \in DOMAIN s.slots :
       IsPartition(s.style, s.slots[k]) /\ IsPartition(s.style, s.slots[l])
         /\ s.slots[k].off = s.slots[l].off => k = l
  /\ DOMAIN s.fs = {e.off : e \in {f \in {s.slots[k] : k \in DOMAIN s.slots} : Occupied(s.style, f)}}
  /\ \A o \in DOMAIN s.fs : s.fs[o] \in FsKinds
  /\ s.unreadable \subseteq DOMAIN s.fs
  /\ s.volumes \subseteq DOMAIN s.fs
  /\ s.system # None =>
       \E k \in DOMAIN s.slots : s.slots[k].off = s.system /\ IsPartition(s.style, s.slots[k])
  /\ s.style = "mbr" =>
       /\ Len(s.slots) % 4 = 0
       /\ \A k \in DOMAIN s.slots : s.slots[k].off < DWord * SectorSize /\ s.slots[k].off % SectorSize = 0
       /\ Len(s.slots) > 4 => \E k \in 1..4 : s.slots[k].type = "extended" /\ s.slots[k].len > 0

ASSUME BoundAssumption ==
  /\ Room \in Nat \ {0} /\ Attempts \in Nat \ {0} /\ MaxPartitions \in Nat
  /\ Signatures \subseteq Nat /\ FreshGuid \in Nat
  /\ DWord \in Nat \ {0} /\ SectorSize \in Nat \ {0}
ASSUME SourceAssumption == \A s \in Sources : IsSource(s)

VARIABLES
  source,         \* the source disk
  newIds,         \* --new-ids
  step,
  attempt, room,  \* the loop of QueryLayout
  parts,          \* DiskInfo.partitions, then ClonePlan.parts
  next,           \* the partition sniffed, or compared, next
  diskId, ids,    \* targetGptDiskId or targetMbrSignature; PartitionId of each
  windows,        \* index of the Windows partition, or of the largest so far
  table           \* the table of the target

vars == <<source, newIds, step, attempt, room, parts, next, diskId, ids, windows, table>>

Init ==
  /\ source \in Sources /\ newIds \in BOOLEAN
  /\ step = "query"
  /\ attempt = 0 /\ room = Room
  /\ parts = <<>> /\ next = 1
  /\ diskId = 0 /\ ids = <<>>
  /\ windows = None
  /\ table = <<>>

Do(s) == step = s
Refuse == step' = "refused"
-----------------------------------------------------------------------------
(* QueryLayout *)

CanRetry == attempt + 1 < Attempts

ByOffset(a, b) == a.off < b.off

\* std::sort: the k-th is the one with k - 1 before it.
Before(e, found) == {f \in found : ByOffset(f, e)}
Sorted(found) ==
  [k \in 1..Cardinality(found) |-> CHOOSE e \in found : Cardinality(Before(e, found)) = k - 1]

PartitionsIn(style, slots) == {slots[k] : k \in {l \in DOMAIN slots : IsPartition(style, slots[l])}}
Unsorted(style, slots) ==   \* mutant: in the order of the slots
  SelectSeq(slots, LAMBDA e : IsPartition(style, e))
Partitions(style, slots) == Sorted(PartitionsIn(style, slots))

\* The buffer is doubled until the table fits, at most Attempts times; any
\* other failure, or the last one, leaves the layout unknown.
QueryLayout ==
  /\ Do("query")
  /\ \/ /\ Len(source.slots) <= room
        /\ parts' = Partitions(source.style, source.slots)
        /\ step' = "check"
        /\ UNCHANGED <<attempt, room>>
     \/ /\ Len(source.slots) > room /\ CanRetry
        /\ attempt' = attempt + 1
        /\ room' = room * 2
        /\ UNCHANGED <<step, parts>>
     \/ Refuse /\ UNCHANGED <<attempt, room, parts>>
  /\ UNCHANGED <<source, newIds, next, diskId, ids, windows, table>>
-----------------------------------------------------------------------------
(* BuildClonePlan *)

TypesSeen == {parts[k].type : k \in DOMAIN parts}

CheckTable ==
  /\ Do("check")
  /\ step' = IF parts = <<>> \/ (source.style = "mbr" /\ "extended" \in TypesSeen)
             THEN "refused" ELSE "sniff"
  /\ UNCHANGED <<source, newIds, attempt, room, parts, next, diskId, ids, windows, table>>

\* SniffFilesystem: a sector that cannot be read has no known file system.
Sniff(e) == IF e.off \in source.unreadable THEN "unknown" ELSE source.fs[e.off]
FsOfMarked(e) ==   \* mutant: only basic data is sniffed
  IF source.style = "gpt" /\ e.type # "basicData" THEN "unknown" ELSE Sniff(e)
FsOf(e) ==
  IF source.style = "gpt" /\ e.type = "msr" THEN "unknown" ELSE Sniff(e)

SniffNext ==
  /\ Do("sniff")
  /\ \/ next > Len(parts) /\ step' = "windows" /\ UNCHANGED next
     \/ /\ next <= Len(parts)
        /\ \/ FsOf(parts[next]) = "bitLocker" /\ Refuse /\ UNCHANGED next
           \/ /\ FsOf(parts[next]) # "bitLocker"
              /\ next' = next + 1
              /\ UNCHANGED step
  /\ UNCHANGED <<source, newIds, attempt, room, parts, diskId, ids, windows, table>>

\* FindWindowsPartition: the volume of the running system, or the largest
\* NTFS partition of basic data, the first of equals.
Candidate(k) ==
  /\ FsOf(parts[k]) = "ntfs"
  /\ parts[k].type = IF source.style = "gpt" THEN "basicData" ELSE "ntfs"
LastOfEquals(k, best) == parts[k].len >= parts[best].len   \* mutant
Larger(k, best) == parts[k].len > parts[best].len

OnRunning(k) == parts[k].off = source.system /\ source.system \in source.volumes

IdentifyRunning ==
  /\ Do("windows")
  /\ \/ \E k \in DOMAIN parts : OnRunning(k) /\ windows' = k /\ step' = "identity" /\ UNCHANGED next
     \/ /\ \A k \in DOMAIN parts : ~OnRunning(k)
        /\ next' = 1 /\ step' = "largest"
        /\ UNCHANGED windows
  /\ UNCHANGED <<source, newIds, attempt, room, parts, diskId, ids, table>>

CompareNext ==
  /\ Do("largest")
  /\ \/ /\ next > Len(parts)
        /\ step' = IF windows = None /\ newIds THEN "refused" ELSE "identity"
        /\ UNCHANGED <<next, windows>>
     \/ /\ next <= Len(parts)
        /\ next' = next + 1
        /\ windows' = IF Candidate(next) /\ (windows = None \/ Larger(next, windows))
                      THEN next ELSE windows
        /\ UNCHANGED step
  /\ UNCHANGED <<source, newIds, attempt, room, parts, diskId, ids, table>>

\* CoCreateGuid never gives what exists already, but it may fail.
SameGuid(k) == IF k = 0 THEN FreshGuid ELSE parts[k].id   \* mutant: a new one for the disk only
NewGuid(k) == FreshGuid + k

Signature(s) == IF s = 0 THEN 1 ELSE s

ChooseIdentity ==
  /\ Do("identity")
  /\ \/ /\ newIds
        /\ ids' = [k \in DOMAIN parts |-> NewGuid(k)]
        /\ IF source.style = "gpt" THEN diskId' = NewGuid(0)
           ELSE \E s \in Signatures : diskId' = Signature(s)
        /\ step' = "write"
     \/ newIds /\ Refuse /\ UNCHANGED <<diskId, ids>>
     \/ /\ ~newIds
        /\ ids' = [k \in DOMAIN parts |-> parts[k].id]
        /\ diskId' = source.diskId
        /\ step' = "write"
  /\ UNCHANGED <<source, newIds, attempt, room, parts, next, windows, table>>
-----------------------------------------------------------------------------
(* BuildTargetLayoutBuffer, and what the disk driver makes of it. *)

AsMany == Len(parts)   \* mutant: no padding
Emitted == IF source.style = "mbr" THEN ((Len(parts) + 3) \div 4) * 4 ELSE Len(parts)

Unused == Empty("unused")

Entry(k) == [parts[k] EXCEPT !.id = IF source.style = "gpt" THEN ids[k] ELSE 0]
HiddenSectors(k) == (parts[k].off \div SectorSize) % DWord
LayoutBuffer == [k \in 1..Emitted |-> IF k \in DOMAIN parts THEN Entry(k) ELSE Unused]

\* SET_DRIVE_LAYOUT_EX rejects an MBR whose number of entries is no multiple
\* of four, and what does not fit into the table.
Accepts(buffer) ==
  IF source.style = "mbr"
  THEN Len(buffer) % 4 = 0 /\ \A k \in 5..Len(buffer) : ~Occupied("mbr", buffer[k])
  ELSE Len(buffer) <= MaxPartitions

SetDriveLayout ==
  /\ Do("write")
  /\ \/ /\ Accepts(LayoutBuffer)
        /\ table' = LayoutBuffer
        /\ step' = "written"
     \/ ~Accepts(LayoutBuffer) /\ step' = "rejected" /\ UNCHANGED table
  /\ UNCHANGED <<source, newIds, attempt, room, parts, next, diskId, ids, windows>>

Next ==
  \/ QueryLayout \/ CheckTable \/ SniffNext
  \/ IdentifyRunning \/ CompareNext \/ ChooseIdentity \/ SetDriveLayout

Spec == Init /\ [][Next]_vars
-----------------------------------------------------------------------------
(* Properties *)

\* The variables stay in their types.
TypeOK ==
  /\ IsSource(source) /\ newIds \in BOOLEAN
  /\ step \in {"query", "check", "sniff", "windows", "largest", "identity", "write",
               "written", "rejected", "refused"}
  /\ attempt \in 0..(Attempts - 1) /\ room \in Nat \ {0}
  /\ parts \in Seq(Entries)
  /\ next \in 1..(Len(parts) + 1)
  /\ windows \in DOMAIN parts \cup {None}
  /\ diskId \in Nat /\ ids \in Seq(Nat) /\ Len(ids) \in {0, Len(parts)}
  /\ table \in Seq(Entries)

Used(slots) == {slots[k] : k \in {l \in DOMAIN slots : Occupied(source.style, slots[l])}}
Planned == step \in {"write", "written", "rejected"}

\* No partition of the source is lost between the driver's answer and the
\* plan, whatever the number of slots and the order they are used in; and the
\* plan is in the order of the disk, which --expand relies on.
NothingLost ==
  Planned =>
    /\ {parts[k] : k \in DOMAIN parts} = {e \in Used(source.slots) : e.len > 0}
    /\ \A k, l \in DOMAIN parts : k < l => parts[k].off < parts[l].off

\* The plan is the source's table, in its types.
SameTable == TypeOK /\ NothingLost

\* The driver rejects no table but a GPT with more partitions than one is
\* created for: by the time it is written the target has been wiped.
NeverRejected ==
  step = "rejected" => source.style = "gpt" /\ Len(parts) > MaxPartitions

\* Who reads the clone's table finds the partitions of the plan, in order, with
\* their types and attributes, and no others.
ReadsBack ==
  step = "written" =>
    LET found == Partitions(source.style, table)
    IN  /\ Len(found) = Len(parts)
        /\ \A k \in DOMAIN parts :
             /\ [found[k] EXCEPT !.id = 0] = [parts[k] EXCEPT !.id = 0]
             /\ source.style = "mbr" => HiddenSectors(k) * SectorSize = found[k].off

\* The driver takes the table, and gives it back.
TableAccepted == NeverRejected /\ ReadsBack

\* With --new-ids nothing that identifies the clone or one of its partitions
\* occurs on a GPT source, or twice on the clone, and an MBR has a signature;
\* without, everything is the source's, so that its boot files find it.
IdentityAsAsked ==
  step = "written" =>
    LET found == Partitions(source.style, table)
        gpt   == source.style = "gpt"
        own   == {diskId} \cup {found[k].id : k \in DOMAIN found}
        old   == {source.diskId} \cup {e.id : e \in Used(source.slots)}
    IN  /\ newIds /\ gpt => own \cap old = {} /\ Cardinality(own) = Len(found) + 1
        /\ newIds /\ ~gpt => diskId # 0
        /\ ~newIds => diskId = source.diskId
        /\ ~newIds /\ gpt => \A k \in DOMAIN found : found[k].id = parts[k].id

\* No partition that BitLocker holds, suspended or not, is in a plan, unless
\* its first sector could not be read.
NoBitLocker ==
  Planned => \A k \in DOMAIN parts :
    source.fs[parts[k].off] = "bitLocker" =>
      parts[k].off \in source.unreadable \/ parts[k].type = "msr"

\* The Windows partition is the one the running system is on or, if there is
\* none, the first of the largest NTFS partitions; with --new-ids there is one.
WindowsIdentified ==
  Planned =>
    LET ntfs == {k \in DOMAIN parts : Candidate(k)}
        best == {k \in ntfs : \A l \in ntfs : parts[l].len <= parts[k].len}
    IN  /\ newIds => windows # None
        /\ source.system \in source.volumes =>
             windows # None /\ parts[windows].off = source.system
        /\ source.system \notin source.volumes /\ windows # None =>
             windows \in best /\ \A k \in best : windows <= k
        /\ windows = None => ntfs = {}
=============================================================================
