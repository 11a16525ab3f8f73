--------------------------- MODULE MCTargetTable ----------------------------
(***************************************************************************)
(* TLC instance of TargetTable: tables whose slots are used in the order   *)
(* of the disk, out of it, and with gaps; of up to more entries than the   *)
(* last buffer has room for; and on them every file system at each place.  *)
(***************************************************************************)
EXTENDS TargetTable

E(off, len, type, id, attr) ==
  [off |-> off, len |-> len, type |-> type, id |-> id, attr |-> attr]

(* GPT.  A sector is 2 long. *)
Free == Empty("unused")
Esp == E(2, 2, "esp", 1, 1)
Msr == E(4, 2, "msr", 2, 0)
Win == E(6, 6, "basicData", 3, 0)
Rec == E(12, 2, "winRe", 4, 2)
Dat == E(14, 6, "basicData", 5, 0)
Many(n) == [k \in 1..n |-> E(2 * k, 2, "basicData", k, 0)]
GptTables ==
  {<<Esp, Msr, Win, Rec>>, <<Rec, Free, Win, Esp, Msr, Free, Free, Free>>,
   <<Esp, Dat, Msr, Win>>, <<Win, Free, Dat, Free>>, <<Esp, Msr>>,
   <<Free, Free>>, Many(5), Many(8), Many(9)}

(* MBR. *)
Sys == E(2, 2, "ntfs", 0, 1)
Os  == E(4, 6, "ntfs", 0, 0)
Fat == E(10, 2, "fat", 0, 0)
Nil == E(20, 0, "fat", 0, 0)   \* a type, but no length
Ext == E(12, 6, "extended", 0, 0)
Log == E(14, 4, "ntfs", 0, 0)
MbrTables ==
  {<<Sys, Os, Free, Free>>, <<Os, Free, Fat, Sys>>, <<Sys, Os, Fat, Nil>>,
   <<Sys, Os, Fat, E(14, 4, "ntfs", 0, 0)>>, <<Os, Free, Free, Free>>,
   <<Free, Free, Free, Free>>, <<Sys, Os, Free, Ext, Log, Free, Free, Free>>}

Places(style, slots) ==
  {slots[k].off : k \in {l \in DOMAIN slots : Occupied(style, slots[l])}}

\* NTFS at any of the places, or one kind everywhere; and any one place
\* whose first sector is unreadable or that BitLocker holds.
Contents(places) ==
  {[o \in places |-> IF o \in ntfs THEN "ntfs" ELSE "fat"] :
     ntfs \in IF Cardinality(places) <= 4 THEN SUBSET places ELSE {places}}
Locked(fs) == {fs} \cup {[fs EXCEPT ![o] = "bitLocker"] : o \in DOMAIN fs}

SourceOf(style, slots, disk, fs, bad, vols, system) ==
  [style |-> style, diskId |-> disk, slots |-> slots, fs |-> fs,
   unreadable |-> bad, volumes |-> vols, system |-> system]
Broken(style, slots, disk, fs) ==
  {SourceOf(style, slots, disk, f, bad, {}, None) :
     f \in Locked(fs), bad \in {{}} \cup {{o} : o \in DOMAIN fs}}
Live(style, slots, disk, fs) ==
  {SourceOf(style, slots, disk, fs, {}, vols, system) :
     vols \in {{}, DOMAIN fs}, system \in DOMAIN fs \ {Nil.off}}
From(style, tables, disk) ==
  UNION {UNION {Broken(style, slots, disk, fs) \cup Live(style, slots, disk, fs) :
                  fs \in Contents(Places(style, slots))} : slots \in tables}

MCSources == From("gpt", GptTables, 9) \cup From("mbr", MbrTables, 7)
MCSignatures == {0, 7, 8}
=============================================================================
