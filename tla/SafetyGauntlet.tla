--------------------------- MODULE SafetyGauntlet ---------------------------
(***************************************************************************)
(* From the command line to the pair of disks that a clone opens: verify   *)
(* the privileges, enumerate disks and volumes, refuse what must not be    *)
(* cloned (BuildClonePlan, layout.cpp), ask, and look again whether the    *)
(* numbers denote the same disks.  Meanwhile disks change their numbers    *)
(* and pagefiles come into being: the program looks at the machine four    *)
(* times and remembers what it has seen by disk number.                    *)
(***************************************************************************)
EXTENDS CommandLine

CONSTANTS
  Dev, NoDev,     \* physical disks, told apart by RevalidateDiskIdentity
  DiskNumbers,    \* disk numbers; 0..255 in the code
  Misses,         \* numbers without a disk after which to stop; 8 in the code
  Answers,        \* what the user may type at the prompt
  Replugs,        \* bound: how often disks change their numbers
  ReplugSteps,    \* the steps of the program during which they do
  HostSteps,      \* the steps during which a pagefile may be created
  Cases           \* invocations: a command line, a token and a machine

Duties     == {"system", "boot", "pagefile"}
Privileges == <<"backup", "restore", "manageVolume">>
Tables     == {"unreadable", "raw", "empty", "extended", "basic"}

\* What is true of a disk.  need is the end of the last partition and the GPT
\* reserve; spread the least target on which --expand finds room to pack what
\* is behind Windows (ExpandLayout computes it: with starts rounded down it may
\* be more than need); windows: FindWindowsPartition would choose a partition.
Facts == [geometry : BOOLEAN, table : Tables, dynamic : BOOLEAN,
          sector : {512, 4096}, size : Nat, need : Nat, spread : Nat,
          bitlocker : BOOLEAN, windows : BOOLEAN]

\* A volume: the disks it has extents on, whether it has only one extent, what
\* it does for this machine, and whether it is enumerated and the query for its
\* extents succeeds.
Volumes == [on : (SUBSET Dev) \ {{}}, single : BOOLEAN, duty : SUBSET Duties,
            resolved : BOOLEAN]

ASSUME NumberAssumption ==
  /\ \E n \in 0..255 : DiskNumbers = 0..n
  /\ Misses \in Nat \ {0} /\ Replugs \in Nat
\* What the disks are called in CmdClone: those of the plan, and any other
\* disk that has the number of one of them.
Strange == [source |-> "strange source", target |-> "strange target"]
Names   == Roles \cup {Strange[r] : r \in Roles}

ASSUME DevAssumption == NoDev \notin Dev \cup Names
ASSUME CaseAssumption ==
  Cases \subseteq
    [verb : Verbs, argv : Seq(Texts), elevated : BOOLEAN,
     held : SUBSET {Privileges[k] : k \in DOMAIN Privileges},
     disk : [Dev -> Facts], volumes : SUBSET Volumes, named : SUBSET Duties,
     faulty : BOOLEAN,
     at : [DiskNumbers -> Dev \cup {NoDev}]]

VARIABLES
  disk,        \* what is true of each disk
  volumes,     \* the volumes of the machine
  named,       \* the lookups that succeed: of Windows' volume, of the boot files'
  faulty,      \* opening or querying a disk, or making a GUID, may fail
  at,          \* the disk each number denotes now
  replugs,     \* how often that has changed
  elevated, held,   \* the token
  asked, enabled,   \* privileges asked for, and those enabled
  num, misses,      \* EnumerateDisks: the next number, consecutive misses
  listed,      \* the disk each number denoted when it was queried
  duty,        \* isSystemDisk, isBootDisk, hasPagefile of each number
  mapped,      \* the disk whose volumes carry the number of the source
  sniffed,     \* the disk whose partitions were sniffed
  sourceDisk, target   \* the disks behind the handles

machineVars == <<disk, volumes, named, faulty>>
plugVars    == <<at, replugs>>
tokenVars   == <<elevated, held, asked, enabled>>
scanVars    == <<num, misses, listed>>
planVars    == <<duty, mapped, sniffed>>
openVars    == <<sourceDisk, target>>
vars == <<lineVars, step, exit, machineVars, plugVars, tokenVars, scanVars,
          planVars, openVars>>

\* A volume with several extents makes each of their disks dynamic.
LegalMachine ==
  /\ \A v \in volumes : IF v.single THEN \E d \in Dev : v.on = {d}
                         ELSE \A d \in v.on : disk[d].dynamic
  /\ \A m, n \in DiskNumbers : at[m] = at[n] /\ at[m] # NoDev => m = n

Init ==
  /\ InitLine
  /\ \E c \in Cases :
       /\ verb = c.verb /\ argv = c.argv
       /\ elevated = c.elevated /\ held = c.held
       /\ disk = c.disk /\ volumes = c.volumes /\ named = c.named
       /\ faulty = c.faulty /\ at = c.at
  /\ LegalMachine
  /\ replugs = 0
  /\ asked = 0 /\ enabled = {}
  /\ num = 0 /\ misses = 0
  /\ listed = [n \in DiskNumbers |-> NoDev]
  /\ duty = [n \in DiskNumbers |-> {}]
  /\ mapped = NoDev /\ sniffed = NoDev
  /\ sourceDisk = NoDev /\ target = NoDev
-----------------------------------------------------------------------------
Leave(code) ==
  /\ Exit(code)
  /\ UNCHANGED <<machineVars, plugVars, tokenVars, scanVars, planVars, openVars>>
Pass(next) ==
  /\ Goto(next)
  /\ UNCHANGED <<lineVars, machineVars, plugVars, tokenVars, scanVars, planVars, openVars>>

ReadCommandLine ==
  /\ ParseLine
  /\ UNCHANGED <<machineVars, plugVars, tokenVars, scanVars, planVars, openVars>>

EnsureElevated ==
  /\ Do("elevate")
  /\ \/ ~elevated /\ Leave(2)
     \/ elevated /\ Pass("privileges")

\* AdjustTokenPrivileges succeeds even when it assigned nothing.
Assigned(p) == p \in held

EnablePrivilege ==
  /\ Do("privileges")
  /\ \/ asked = Len(Privileges) /\ Pass("enumerate")
     \/ /\ asked < Len(Privileges)
        /\ LET p == Privileges[asked + 1]
           IN  \/ ~Assigned(p) /\ Leave(2)
               \/ /\ Assigned(p)
                  /\ enabled' = enabled \cup ({p} \cap held)
                  /\ asked' = asked + 1
                  /\ UNCHANGED <<lineVars, step, exit, elevated, held,
                                 machineVars, plugVars, scanVars, planVars, openVars>>
-----------------------------------------------------------------------------
(* EnumerateDisks and EnumerateVolumes. *)

FewMisses == misses < Misses

MissesSoFar(n) == misses   \* mutant: a disk does not end a gap
MissesAfter(n) == 0

\* A number without a disk is skipped, and so is a disk that cannot be opened;
\* one whose geometry cannot be read ends the run.
QueryNext ==
  /\ Do("enumerate") /\ num \in DiskNumbers /\ FewMisses
  /\ \/ /\ at[num] = NoDev \/ faulty
        /\ misses' = misses + 1
        /\ UNCHANGED listed
     \/ /\ at[num] # NoDev /\ disk[at[num]].geometry
        /\ misses' = MissesAfter(num)
        /\ listed' = [listed EXCEPT ![num] = at[num]]
  /\ num' = num + 1
  /\ UNCHANGED <<lineVars, step, exit, machineVars, plugVars, tokenVars, planVars, openVars>>

QueryFails ==
  /\ Do("enumerate") /\ num \in DiskNumbers /\ FewMisses
  /\ at[num] # NoDev /\ (faulty \/ ~disk[at[num]].geometry)
  /\ Leave(3)

EndOfScan ==
  /\ Do("enumerate")
  /\ num \notin DiskNumbers \/ ~FewMisses
  /\ Pass("annotate")

\* EnumerateVolumes gives a disk number to volumes with a single extent.
On(v, d) == v.resolved /\ v.single /\ v.on = {d}
Recognized == named \cup {"pagefile"}
DutiesOf(d) ==
  UNION {v.duty \cap Recognized : v \in {w \in volumes : On(w, d)}}

\* AnnotateSystemAndPagefileDisks, with an enumeration of its own.  Without
\* the volume of Windows the run ends; without that of the boot files the
\* check for them is off.
Annotate ==
  /\ Do("annotate")
  /\ \/ "system" \notin named /\ Leave(3)
     \/ /\ "system" \in named
        /\ duty' = [n \in DiskNumbers |->
             IF listed[n] # NoDev /\ at[n] # NoDev THEN DutiesOf(at[n]) ELSE {}]
        /\ Goto("volumes")
        /\ UNCHANGED <<lineVars, machineVars, plugVars, tokenVars, scanVars,
                       mapped, sniffed, openVars>>

\* CmdList only prints.
EnumerateVolumes ==
  /\ Do("volumes")
  /\ \/ verb = "list" /\ Leave(0)
     \/ /\ verb = "clone"
        /\ mapped' = IF opts.source \in DiskNumbers THEN at[opts.source] ELSE NoDev
        /\ Goto("plan")
        /\ UNCHANGED <<lineVars, machineVars, plugVars, tokenVars, scanVars,
                       duty, sniffed, openVars>>
-----------------------------------------------------------------------------
(* BuildClonePlan *)

Listed(n) == n \in DiskNumbers /\ listed[n] # NoDev
From == disk[listed[opts.source]]
To   == disk[listed[opts.target]]

\* What marks a disk as dynamic is in its partition table.
IsDynamic(d) == d.dynamic /\ d.table # "unreadable"

UnreadableSource == From.table = "unreadable"   \* mutant: the target counts as empty
Unreadable == "unreadable" \in {From.table, To.table}
NotLarger == To.size <= From.need   \* mutant: the exact fit is refused
TooSmall == To.size < From.need

\* --expand on a target that would not hold what is packed behind Windows.
DoesNotFit == opts.expand /\ To.size < From.spread

\* The refusals that need no more than the two disks' DiskInfo.  (The sizes are
\* checked after the partitions were sniffed; all refuse alike.)
Refused ==
  \/ ~Listed(opts.source) \/ ~Listed(opts.target)
  \/ opts.source = opts.target
  \/ duty[opts.target] # {}
  \/ Unreadable
  \/ IsDynamic(From) \/ IsDynamic(To)
  \/ From.sector # To.sector
  \/ From.table \in {"raw", "empty", "extended"}
  \/ TooSmall \/ DoesNotFit

\* The partitions are sniffed through a handle on what now is the source's
\* number; FindWindowsPartition may leave --expand and --new-ids without one.
RefusedSniffing(d) ==
  \/ d = NoDev
  \/ disk[d].bitlocker
  \/ (opts.expand \/ opts.newIds) /\ ~disk[d].windows

\* What may fail on a pair that is not refused: opening the source, and making
\* the GUIDs of --new-ids.
PlanFails == faulty

BuildClonePlan ==
  /\ Do("plan")
  /\ IF Refused \/ RefusedSniffing(at[opts.source])
     THEN Leave(3)
     ELSE \/ PlanFails /\ Leave(3)
          \/ /\ sniffed' = at[opts.source]
             /\ Goto("confirm")
             /\ UNCHANGED <<lineVars, machineVars, plugVars, tokenVars, scanVars,
                            duty, mapped, openVars>>

\* PrintPlan and --dry-run; then the number typed must be the target's.
Confirm ==
  /\ Do("confirm")
  /\ \/ opts.dryRun /\ Leave(0)
     \/ ~opts.dryRun /\ opts.force /\ Pass("revalidateSource")
     \/ /\ ~opts.dryRun /\ ~opts.force
        /\ \E text \in Answers :
             \/ ParseDiskNumber(text) = opts.target /\ Pass("revalidateSource")
             \/ ParseDiskNumber(text) # opts.target /\ Leave(130)
-----------------------------------------------------------------------------
(* RevalidateDiskIdentity, and the disks that are opened. *)

SomeDisk(n) == at[n] # NoDev   \* mutant: any disk will do
SameDisk(n) == at[n] # NoDev /\ disk[at[n]].geometry /\ at[n] = listed[n]

RevalidateDiskIdentity(s, n, next) ==
  /\ Do(s)
  /\ \/ SameDisk(n) /\ Pass(next)
     \/ (~SameDisk(n) \/ faulty) /\ Leave(3)

\* mutant: the source is not looked at again
SourceUnchecked == Do("revalidateSource") /\ Pass("revalidateTarget")
RevalidateSource ==
  RevalidateDiskIdentity("revalidateSource", opts.source, "revalidateTarget")
SourceAgain ==   \* mutant: the wrong one of the two
  RevalidateDiskIdentity("revalidateTarget", opts.source, "openSource")
RevalidateTarget ==
  RevalidateDiskIdentity("revalidateTarget", opts.target, "openSource")

OpenSource ==
  /\ Do("openSource")
  /\ \/ (at[opts.source] = NoDev \/ faulty) /\ Leave(3)
     \/ /\ at[opts.source] # NoDev
        /\ sourceDisk' = at[opts.source]
        /\ Goto("snapshot")
        /\ UNCHANGED <<lineVars, machineVars, plugVars, tokenVars, scanVars, planVars, target>>

\* The snapshot set, which SourceImage details.
TakeSnapshot ==
  /\ Do("snapshot")
  /\ Pass("openTarget") \/ Leave(4)

\* What follows is CmdClone's try block.
OpenTarget ==
  /\ Do("openTarget")
  /\ \/ (at[opts.target] = NoDev \/ faulty) /\ Leave(3)
     \/ /\ at[opts.target] # NoDev
        /\ target' = at[opts.target]
        /\ Goto("opened")
        /\ UNCHANGED <<lineVars, machineVars, plugVars, tokenVars, scanVars, planVars, sourceDisk>>

Proceed ==
  \/ ReadCommandLine \/ EnsureElevated \/ EnablePrivilege
  \/ QueryNext \/ QueryFails \/ EndOfScan \/ Annotate \/ EnumerateVolumes
  \/ BuildClonePlan \/ Confirm \/ RevalidateSource \/ RevalidateTarget
  \/ OpenSource \/ TakeSnapshot \/ OpenTarget
-----------------------------------------------------------------------------
(* The machine *)

\* A disk is unplugged or plugged in elsewhere, or two exchange their numbers.
Replug ==
  /\ exit = Running /\ step \in ReplugSteps
  /\ replugs < Replugs /\ replugs' = replugs + 1
  /\ \E m, n \in DiskNumbers :
       /\ at[m] # NoDev
       /\ \/ at' = [at EXCEPT ![m] = NoDev]
          \/ m # n /\ at' = [at EXCEPT ![m] = at[n], ![n] = at[m]]
  /\ UNCHANGED <<lineVars, step, exit, machineVars, tokenVars, scanVars, planVars, openVars>>

CreatePagefile ==
  /\ exit = Running /\ step \in HostSteps
  /\ \E v \in volumes :
       /\ "pagefile" \notin v.duty
       /\ volumes' = (volumes \ {v}) \cup {[v EXCEPT !.duty = @ \cup {"pagefile"}]}
  /\ UNCHANGED <<lineVars, step, exit, disk, named, faulty, plugVars, tokenVars,
                 scanVars, planVars, openVars>>

Next == Proceed \/ Replug \/ CreatePagefile

Spec == Init /\ [][Next]_vars
-----------------------------------------------------------------------------
(* Properties *)

\* The variables stay in their types.
TypeOK ==
  /\ opts \in Options /\ i \in Nat
  /\ at \in [DiskNumbers -> Dev \cup {NoDev}] /\ listed \in [DiskNumbers -> Dev \cup {NoDev}]
  /\ volumes \subseteq Volumes /\ disk \in [Dev -> Facts]
  /\ faulty \in BOOLEAN /\ exit \in Codes \cup {Running}
  /\ num \in Nat /\ misses \in 0..Misses
  /\ duty \in [DiskNumbers -> SUBSET Duties]
  /\ {mapped, sniffed, sourceDisk, target} \subseteq Dev \cup {NoDev}

Opened == target # NoDev

\* No disk that the running system, its boot files or a pagefile live on is
\* opened as the target.  The annotation is blind to a volume with several
\* extents: what refuses those disks is the check for dynamic disks,
\* and, where that cannot be made, the check for readable tables.
TargetServesNobody ==
  Opened => \A v \in volumes :
    v.resolved /\ target \in v.on => v.duty \cap Recognized = {}

\* What the README lists of the pair of disks.
Clonable(s, t) ==
  /\ s # t
  /\ {disk[s].table, disk[t].table} \cap {"unreadable"} = {}
  /\ disk[s].table = "basic"
  /\ ~disk[s].dynamic /\ ~disk[t].dynamic /\ ~disk[s].bitlocker
  /\ disk[s].sector = disk[t].sector
  /\ disk[t].size >= disk[s].need

\* The disks that are opened are disks that may be cloned, although what the
\* refusals were decided from was looked up by number, at other moments.
SafePair == Opened => Clonable(sourceDisk, target)

\* The plan is of one disk: its table, its volumes and its file systems were
\* all read from the disk that is then copied.
PlanOfOneDisk == Opened => listed[opts.source] = sourceDisk
                           /\ mapped = sourceDisk /\ sniffed = sourceDisk

\* The disk a number would lead to without changes: no run of Misses numbers
\* without a disk lies below it.
Reachable(n) ==
  /\ n \in DiskNumbers /\ at[n] # NoDev
  /\ \A m \in 0..n : m + Misses <= n =>
       \E k \in m..(m + Misses - 1) : at[k] # NoDev

\* Nothing has been replugged, and no call to the system fails.
Undisturbed == replugs = 0 /\ ~faulty

\* Gaps in the numbering are tolerated: as long as disks can be opened,
\* EnumerateDisks lists every disk that is reachable, and no other.
ListsEveryDisk ==
  /\ step \notin {"verb", "options", "elevate", "privileges", "enumerate"}
  /\ Undisturbed
  =>
    \A n \in DiskNumbers : listed[n] = IF Reachable(n) THEN at[n] ELSE NoDev

\* A safety refusal (exit 3) has a cause in the machine and the two disks that
\* the README, the help or the message names, or a disk could not be queried.
\* Where no call fails nothing that may be cloned is refused.
CauseOfRefusal ==
  \/ "system" \notin named
  \/ \E n \in DiskNumbers : at[n] # NoDev /\ ~disk[at[n]].geometry
  \/ ~Reachable(opts.source) \/ ~Reachable(opts.target)
  \/ LET s == at[opts.source]  t == at[opts.target]
     IN  \/ ~Clonable(s, t)
         \/ \E v \in volumes : t \in v.on /\ v.duty # {}
         \/ (opts.expand \/ opts.newIds) /\ ~disk[s].windows
         \/ opts.expand /\ disk[t].size < disk[s].spread
RefusedForCause == exit = 3 /\ Undisturbed => CauseOfRefusal

\* A disk is opened only if the last text given for its role is a number below
\* Long with nothing but blanks behind it, and reads as the disk's number: it
\* is what is written, or, behind a minus sign, its negative modulo Long.  This
\* is what wcstoul does, and less than ParseDiskNumber's comment asks, which has
\* digits only and no sign: a disk is opened for such a text (README, section 3).
ReadsAs(text, n) ==
  IF text.before = "minus" THEN (text.digits + n) % Long = 0 ELSE text.digits = n
AsGiven ==
  Opened => \A role \in Roles :
    LET text == LastGiven(role)
    IN  /\ text.word = "number" /\ text.after # "other" /\ text.digits < Long
        /\ ReadsAs(text, opts[role])
Privileged ==
  verb = "clone" /\ step \notin {"verb", "options", "elevate", "privileges"} =>
    elevated /\ enabled = {Privileges[k] : k \in DOMAIN Privileges}

\* Nothing is opened that the caller did not ask for, or may not.
AsAsked == TypeOK /\ AsGiven /\ Privileged

\* Each step is one of CmdClone up to the opening of the target, or none: what
\* CmdClone takes for one step and two disks planned is all of the above.  Of
\* the disks only those of the plan are told apart there; options, which are
\* given there, are read off the command line.
Other(role) == IF role = "source" THEN "target" ELSE "source"
Name(role, d) ==
  CASE d = NoDev -> NoDev
    [] d # NoDev /\ d = listed[opts[role]] -> role
    [] d # NoDev /\ d # listed[opts[role]] /\ d = listed[opts[Other(role)]] -> Other(role)
    [] OTHER -> Strange[role]
BothListed == opts.source # opts.target /\ Listed(opts.source) /\ Listed(opts.target)
Given(f) == \E k \in DOMAIN argv : argv[k].word = f /\ ~IsValue(k)

CloneOpts == [f \in {"newIds", "force", "dryRun", "mbr"} |-> Given(f)]
CloneAt == [r \in Roles |-> IF BothListed THEN Name(r, at[opts[r]]) ELSE r]
CloneSource == IF sourceDisk = NoDev THEN NoDev ELSE Name("source", sourceDisk)
CloneTarget == IF target = NoDev THEN NoDev ELSE Name("target", target)
CloneStep ==
  CASE step \in {"verb", "options", "elevate", "privileges", "enumerate", "annotate",
                 "volumes"} \/ (step = "confirm" /\ opts.dryRun) -> "plan"
    [] step = "opened" -> "takeOffline"
    [] OTHER -> step
CloneExit == IF exit = 1 \/ verb # "clone" THEN Running ELSE exit
CloneSaid == [disk |-> IF exit = 3 /\ step = "openTarget" THEN "not modified" ELSE "nothing",
              offline |-> FALSE, swap |-> "nothing"]
Clone == INSTANCE CmdClone WITH
  Dev <- Names, S <- "source", T <- "target", Blocks <- 1, SwapSteps <- {"plan", "confirm"},
  opts <- CloneOpts, attrs <- FALSE, offline <- FALSE, offlined <- FALSE, cancelled <- FALSE,
  at <- CloneAt, sourceDisk <- CloneSource, target <- CloneTarget,
  content <- [d \in Names |-> "original"], step <- CloneStep, exit <- CloneExit,
  targetModified <- FALSE, locks <- {}, snapshot <- "none", blocks <- 0, fin <- "running",
  said <- CloneSaid
ImplementsCmdClone == Clone!Init /\ [][Clone!Next]_(Clone!vars)
=============================================================================
