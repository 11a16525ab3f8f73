------------------------ MODULE SafetyGauntletProofs ------------------------
(***************************************************************************)
(* Proofs about SafetyGauntlet for any command line and any machine: any   *)
(* set of disks, of volumes and of disk numbers, any gap after which the   *)
(* enumeration stops, and any number of changes of the numbering.          *)
(***************************************************************************)
EXTENDS SafetyGauntlet, TLAPS

\* The tuples that abbreviate what an action leaves unchanged.
USE DEF vars, lineVars, machineVars, plugVars, tokenVars, scanVars, planVars, openVars,
        Undisturbed

-----------------------------------------------------------------------------
(* The steps, in the order in which they are taken. *)

Scanning  == {"verb", "options", "elevate", "privileges", "enumerate"}
Approved  == {"revalidateSource", "revalidateTarget", "openSource", "snapshot",
              "openTarget", "opened"}
Planned   == {"confirm"} \cup Approved
Annotated == {"volumes", "plan"} \cup Planned
Steps     == Scanning \cup {"annotate"} \cup Annotated

\* What the code relies on without looking: nothing is replugged once the user
\* has approved (what happens then is for CmdClone), and no pagefile comes into
\* being on the disks once they were annotated.
QuietHost ==
  ReplugSteps \cap Approved = {} /\ HostSteps \cap Annotated = {}

\* A disk that has left the number it was listed with does not come back to it
\* during the run.
NoReturn ==
  \A n \in DiskNumbers : listed[n] \notin {NoDev, at[n]} => at'[n] # listed[n]
-----------------------------------------------------------------------------
(* The inductive invariant *)

\* The variables stay in their types, also those TypeOK does not mention.
TypeInv ==
  /\ TypeOK
  /\ verb \in Verbs /\ argv \in Seq(Texts) /\ i \in 1..(Len(argv) + 1)
  /\ step \in Steps
  /\ replugs \in Nat /\ num \in Nat
  /\ elevated \in BOOLEAN /\ asked \in 0..Len(Privileges)

\* k is the place of a text that the loop over the options has passed.
Taken(k) == k \in 2..(i - 1) /\ argv[k - 1].word \in Roles

\* The loop over the options: no option word was taken for a text, each role
\* has the number in the last of its texts, and each flag was met or not.
LineInv ==
  /\ step = "verb" => i = 1
  /\ i > 1 => argv[i - 1].word \notin Roles
  /\ \A k \in 2..(i - 1) : Taken(k) => argv[k].word = "number"
  /\ \A role \in Roles :
       \/ opts[role] = NoNumber /\ \A k \in 2..(i - 1) : argv[k - 1].word # role
       \/ \E k \in 2..(i - 1) :
            /\ argv[k - 1].word = role
            /\ opts[role] = ParseDiskNumber(argv[k]) /\ opts[role] # NoNumber
            /\ \A l \in (k + 1)..(i - 1) : argv[l - 1].word # role
  /\ \A f \in Flags : opts[f] <=> \E k \in 1..(i - 1) : argv[k].word = f
  /\ verb = "clone" /\ step \notin {"verb", "options"} =>
       i > Len(argv) /\ opts.source # NoNumber /\ opts.target # NoNumber

\* What the token allows has been checked one privilege after another.
TokenInv ==
  /\ enabled = {Privileges[k] : k \in 1..asked}
  /\ step \notin {"verb", "options"} /\ verb = "clone" =>
       /\ step # "elevate" => elevated
       /\ step \notin {"elevate", "privileges"} => asked = Len(Privileges)
  /\ step \in {"plan"} \cup Planned => verb = "clone"

\* The machine stays as lawful as it was.
MachineInv ==
  /\ LegalMachine
  /\ step \in Annotated => "system" \in named

\* While nothing is replugged, what is listed is there.  If no call fails
\* either, what was scanned is listed, the misses are the numbers without a disk
\* just before the next one, and what lies below is reachable.
ScanInv ==
  /\ step \in {"verb", "options", "elevate", "privileges"} => num = 0 /\ misses = 0
  /\ \A n \in DiskNumbers : n >= num => listed[n] = NoDev
  /\ replugs = 0 => \A n \in DiskNumbers : listed[n] \in {NoDev, at[n]}
  /\ Undisturbed =>
       /\ misses <= num
       /\ \A n \in DiskNumbers : n < num => listed[n] = at[n]
       /\ \A n \in DiskNumbers : num - misses <= n /\ n < num => at[n] = NoDev
       /\ misses < num => num - misses - 1 \in DiskNumbers /\ at[num - misses - 1] # NoDev
       /\ \A n \in DiskNumbers : n < num /\ at[n] # NoDev => Reachable(n)
  /\ step \notin Scanning => num \notin DiskNumbers \/ misses = Misses

\* The plan was not refused.
PlanInv ==
  step \in Planned =>
    /\ ~Refused
    /\ sniffed # NoDev /\ ~disk[sniffed].bitlocker
    /\ opts.expand \/ opts.newIds => disk[sniffed].windows

\* From the revalidation on the numbers denote the listed disks, which are
\* those that are opened.
OpenInv ==
  /\ step \in Approved \ {"revalidateSource"} => at[opts.source] = listed[opts.source]
  /\ step \in Approved \ {"revalidateSource", "revalidateTarget"} =>
       at[opts.target] = listed[opts.target]
  /\ IF step \in {"snapshot", "openTarget", "opened"}
     THEN sourceDisk = listed[opts.source] ELSE sourceDisk = NoDev
  /\ IF step = "opened" THEN target = listed[opts.target] ELSE target = NoDev

\* While nothing is replugged or fails the duties are those of the listed disks.
DutyInv ==
  Undisturbed /\ step \in Annotated =>
    \A n \in DiskNumbers : listed[n] # NoDev => duty[n] = DutiesOf(listed[n])

IInv == /\ TypeInv /\ LineInv /\ TokenInv /\ MachineInv /\ ScanInv /\ PlanInv
        /\ OpenInv /\ DutyInv /\ RefusedForCause

\* What was looked up by a number that denotes the listed disk (still, as none
\* comes back) was looked up on that disk.
SeenInv ==
  /\ step \in Annotated => \A n \in DiskNumbers :
       listed[n] # NoDev /\ at[n] = listed[n] => duty[n] = DutiesOf(listed[n])
  /\ step \in {"plan"} \cup Planned /\ Listed(opts.source)
       /\ at[opts.source] = listed[opts.source] => mapped = listed[opts.source]
  /\ step \in Planned /\ at[opts.source] = listed[opts.source] =>
       sniffed = listed[opts.source]
-----------------------------------------------------------------------------

(* The command line *)

\* wcstoul returns a value of its type.
LEMMA WcstoulRange ==
  ASSUME NEW text \in Texts
  PROVE  Wcstoul(text) \in 0..(Long - 1)
<1>1. text.digits \in Nat
  BY DEF Texts
<1>2. CASE text.digits >= Long
  BY <1>1, <1>2, LongAssumption DEF Wcstoul
<1>3. CASE text.digits < Long /\ text.before # "minus"
  BY <1>1, <1>3, LongAssumption DEF Wcstoul
<1>4. CASE text.digits < Long /\ text.before = "minus"
  <2>1. (Long - text.digits) % Long \in 0..(Long - 1)
    BY <1>1, <1>4, LongAssumption
  <2> QED BY <1>1, <1>4, <2>1, LongAssumption DEF Wcstoul
<1> QED BY <1>1, <1>2, <1>3, <1>4, LongAssumption

\* A text that was accepted reads as the disk's number, of which a minus sign
\* makes the negative modulo Long.
LEMMA ParsedNumber ==
  ASSUME NEW text \in Texts
  PROVE  /\ ParseDiskNumber(text) \in NoNumber..255
         /\ ParseDiskNumber(text) # NoNumber =>
              /\ text.word = "number" /\ text.after # "other" /\ text.digits < Long
              /\ ReadsAs(text, ParseDiskNumber(text))
<1>1. Wcstoul(text) \in 0..(Long - 1)
  BY WcstoulRange
<1>2. text.digits \in Nat
  BY DEF Texts
<1>3. CASE ParseDiskNumber(text) = NoNumber
  BY <1>3 DEF NoNumber
<1>4. CASE ParseDiskNumber(text) # NoNumber
  <2>1. /\ text.word = "number" /\ text.after # "other"
        /\ ParseDiskNumber(text) = Wcstoul(text) /\ Wcstoul(text) <= 255
    BY <1>4 DEF ParseDiskNumber
  <2>2. text.digits < Long
    BY <1>2, <2>1, LongAssumption DEF Wcstoul
  <2>3. CASE text.before # "minus"
    <3>1. text.digits = Wcstoul(text)
      BY <1>2, <2>2, <2>3, LongAssumption DEF Wcstoul
    <3> QED BY <1>1, <2>1, <2>2, <2>3, <3>1, LongAssumption DEF NoNumber, ReadsAs
  <2>4. CASE text.before = "minus"
    <3> DEFINE value == (Long - text.digits) % Long
    <3>1. Wcstoul(text) = value
      BY <1>2, <2>2, <2>4, LongAssumption DEF Wcstoul
    <3>2. (text.digits + value) % Long = 0
      <4>1. CASE text.digits = 0
        BY <4>1, LongAssumption
      <4>2. CASE text.digits > 0
        <5>1. Long - text.digits \in 1..(Long - 1)
          BY <1>2, <2>2, <4>2, LongAssumption
        <5>2. value = Long - text.digits
          BY <5>1, LongAssumption
        <5>3. text.digits + value = Long
          BY <1>2, <5>2, LongAssumption
        <5> QED BY <5>3, LongAssumption
      <4> QED BY <1>2, <4>1, <4>2
    <3> HIDE DEF value
    <3> QED BY <1>1, <2>1, <2>2, <2>4, <3>1, <3>2, LongAssumption DEF NoNumber, ReadsAs
  <2> QED BY <2>3, <2>4
<1> QED BY <1>3, <1>4

\* The text of a word that is no option is no text, and what follows the first
\* option word of a row is one.
LEMMA ValueOfOption ==
  ASSUME argv \in Seq(Texts), NEW k \in 2..Len(argv),
         argv[k - 1].word \in Roles, k > 2 => argv[k - 2].word \notin Roles
  PROVE  IsValue(k)
<1>1. k - 1 \in 1..(k - 1) /\ (k - (k - 1)) % 2 = 1
  OBVIOUS
<1>2. \A j \in (k - 1)..(k - 1) : argv[j].word \in Roles
  OBVIOUS
<1>3. k - 1 > 1 => argv[(k - 1) - 1].word \notin Roles
  OBVIOUS
<1> QED BY <1>1, <1>2, <1>3 DEF IsValue

\* A word behind one that is not source or target is no text.
LEMMA NoValue ==
  ASSUME NEW k \in Nat, k = 1 \/ argv[k - 1].word \notin Roles
  PROVE  ~IsValue(k)
<1>1. CASE k <= 1
  BY <1>1 DEF IsValue
<1>2. CASE k > 1
  <2>1. \A first \in 1..(k - 1) : k - 1 \in first..(k - 1)
    BY <1>2
  <2> QED BY <1>2, <2>1 DEF IsValue
<1> QED BY <1>1, <1>2
-----------------------------------------------------------------------------
(* How the actions change control and which variables they leave alone. *)

\* The steps that look at the machine or at the plan and go on or leave.
Decide ==
  \/ EnsureElevated \/ QueryFails \/ EndOfScan \/ Confirm \/ RevalidateSource
  \/ RevalidateTarget \/ TakeSnapshot

\* None of them changes anything but control.
LEMMA DecideFrame ==
  ASSUME Decide
  PROVE  /\ UNCHANGED <<lineVars, machineVars, plugVars, tokenVars, scanVars, planVars, openVars>>
         /\ \/ UNCHANGED step /\ exit' \in Codes
            \/ UNCHANGED exit /\ step' \in Steps \ {"verb", "options", "opened"}
BY DEF Decide, EnsureElevated, QueryFails, EndOfScan, Confirm, RevalidateSource,
   RevalidateTarget, RevalidateDiskIdentity, TakeSnapshot, Leave, Pass, Exit, Goto, Codes, Steps,
   Scanning, Annotated, Planned, Approved

\* An exit leaves everything else as it is.
LEMMA LeaveFrame ==
  ASSUME NEW code, Leave(code)
  PROVE  /\ exit' = code
         /\ UNCHANGED <<step, lineVars, machineVars, plugVars, tokenVars, scanVars, planVars,
                        openVars>>
BY DEF Leave, Exit

\* The loop over the options leaves the machine alone.
LEMMA LineFrame ==
  ASSUME ReadCommandLine
  PROVE  /\ UNCHANGED <<verb, argv, machineVars, plugVars, tokenVars, scanVars, planVars, openVars>>
         /\ \/ UNCHANGED <<lineVars, step>> /\ exit' \in Codes /\ exit' # 3
               /\ (exit' = 1 \/ verb # "clone")
            \/ UNCHANGED exit /\ step = "verb" /\ step' \in {"enumerate", "options"}
               /\ UNCHANGED lineVars
               /\ verb = IF step' = "enumerate" THEN "list" ELSE "clone"
            \/ UNCHANGED exit /\ step = "options" /\ step' = "options"
               /\ (TakeNumber \/ TakeFlag)
            \/ UNCHANGED exit /\ step = "options" /\ step' = "elevate"
               /\ UNCHANGED lineVars
               /\ EndOfOptions /\ NoNumber \notin {opts.source, opts.target}
BY DEF ReadCommandLine, ParseLine, TakeVerb, TakeNumber, TakeFlag, UnknownOption, EndOfOptions,
   Exit, Goto, Do, Codes

\* One option and its number.
LEMMA NumberTaken ==
  ASSUME TypeInv, TakeNumber, UNCHANGED exit
  PROVE  \E role \in Roles :
           /\ argv[i].word = role /\ i \in 1..(Len(argv) - 1) /\ i + 1 \in 1..Len(argv)
           /\ argv[i + 1] \in Texts
           /\ ParseDiskNumber(argv[i + 1]) # NoNumber
           /\ opts' = [opts EXCEPT ![role] = ParseDiskNumber(argv[i + 1])]
           /\ i' = i + 2 /\ UNCHANGED <<verb, argv, exit>>
<1>1. i \in Nat \ {0} /\ Len(argv) \in Nat /\ argv \in Seq(Texts)
  BY DEF TypeInv
<1>2. step = "options" /\ exit = Running /\ i < Len(argv) /\ argv[i].word \in Roles
  BY DEF TakeNumber, Do
<1>3. ~Exit(1)
  BY <1>2, RunningAssumption DEF Exit, Codes
<1> QED BY <1>1, <1>2, <1>3 DEF TakeNumber

\* A step of the loop keeps what is known of the options.
LEMMA NumberKeepsLine ==
  ASSUME TypeInv, LineInv, TakeNumber, UNCHANGED <<exit, step>>
  PROVE  LineInv' /\ opts' \in Options /\ i' \in 1..(Len(argv) + 1)
<1>1. PICK role \in Roles :
           /\ argv[i].word = role /\ i \in 1..(Len(argv) - 1) /\ i + 1 \in 1..Len(argv)
           /\ argv[i + 1] \in Texts
           /\ ParseDiskNumber(argv[i + 1]) # NoNumber
           /\ opts' = [opts EXCEPT ![role] = ParseDiskNumber(argv[i + 1])]
           /\ i' = i + 2 /\ UNCHANGED <<verb, argv, exit>>
  BY NumberTaken
<1> DEFINE number == ParseDiskNumber(argv[i + 1])
<1>2. number \in 0..255 /\ argv[i + 1].word = "number"
  <2>1. number \in NoNumber..255 /\ argv[i + 1].word = "number"
    BY <1>1, ParsedNumber
  <2> QED BY <1>1, <2>1 DEF NoNumber
<1>3. opts \in Options /\ Len(argv) \in Nat /\ i \in 1..(Len(argv) + 1)
  BY DEF TypeInv, TypeOK
<1>4. /\ opts'[role] = number
      /\ \A other \in Roles \ {role} : opts'[other] = opts[other]
      /\ \A f \in Flags : opts'[f] = opts[f]
      /\ opts' \in Options
  <2>1. number \in NoNumber..255
    BY <1>2 DEF NoNumber
  <2>2. role \in {"source", "target"}
    BY DEF Roles
  <2> HIDE DEF number
  <2>3. opts' = [opts EXCEPT ![role] = number]
    BY <1>1 DEF number
  <2>4. CASE role = "source"
    BY <1>3, <2>1, <2>3, <2>4 DEF Options, Roles, Flags
  <2>5. CASE role = "target"
    BY <1>3, <2>1, <2>3, <2>5 DEF Options, Roles, Flags
  <2> QED BY <2>2, <2>4, <2>5
<1>5. step = "options" /\ i' > 1 /\ i' - 1 = i + 1
  BY <1>1, <1>3 DEF TakeNumber, Do
<1>6. argv'[i' - 1].word \notin Roles
  BY <1>1, <1>2, <1>5 DEF Roles
<1>7. \A k \in 2..(i' - 1) : Taken(k)' => argv'[k].word = "number"
  <2>1. ASSUME NEW k \in 2..(i' - 1), argv[k - 1].word \in Roles PROVE argv[k].word = "number"
    <3>1. CASE k \in 2..(i - 1)
      BY <2>1, <3>1 DEF LineInv, Taken
    <3>2. CASE k = i
      BY <1>3, <2>1, <3>2 DEF LineInv
    <3>3. CASE k = i + 1
      BY <1>2, <3>3
    <3>4. k \in 2..(i - 1) \/ k = i \/ k = i + 1
      <4>1. i' = i + 2 /\ i \in Int
        BY <1>1, <1>3
      <4> QED BY <4>1
    <3> QED BY <3>1, <3>2, <3>3, <3>4
  <2> QED BY <1>1, <2>1 DEF Taken
<1>8. \A r \in Roles :
       \/ opts'[r] = NoNumber /\ \A k \in 2..(i' - 1) : argv[k - 1].word # r
       \/ \E k \in 2..(i' - 1) :
            /\ argv[k - 1].word = r
            /\ opts'[r] = ParseDiskNumber(argv[k]) /\ opts'[r] # NoNumber
            /\ \A l \in (k + 1)..(i' - 1) : argv[l - 1].word # r
  <2> TAKE r \in Roles
  <2>1. CASE r = role
    <3>1. i + 1 \in 2..(i' - 1) /\ argv[(i + 1) - 1].word = r
      BY <1>1, <1>3, <2>1
    <3>2. opts'[r] = ParseDiskNumber(argv[i + 1]) /\ opts'[r] # NoNumber
      BY <1>1, <1>4, <2>1
    <3>3. \A l \in ((i + 1) + 1)..(i' - 1) : argv[l - 1].word # r
      BY <1>1, <1>3
    <3> QED BY <3>1, <3>2, <3>3
  <2>2. CASE r # role
    <3>1. argv[i].word # r
      BY <1>1, <2>2
    <3>2. i > 1 => argv[i - 1].word # r
      BY DEF LineInv
    <3>3. opts'[r] = opts[r]
      BY <1>4, <2>2
    <3>4. CASE opts[r] = NoNumber /\ \A k \in 2..(i - 1) : argv[k - 1].word # r
      <4>1. ASSUME NEW k \in 2..(i' - 1) PROVE argv[k - 1].word # r
        BY <1>1, <1>3, <3>1, <3>2, <3>4
      <4> QED BY <3>3, <3>4, <4>1
    <3>5. ASSUME NEW k \in 2..(i - 1),
                 /\ argv[k - 1].word = r
                 /\ opts[r] = ParseDiskNumber(argv[k]) /\ opts[r] # NoNumber
                 /\ \A l \in (k + 1)..(i - 1) : argv[l - 1].word # r
          PROVE  \E q \in 2..(i' - 1) :
                   /\ argv[q - 1].word = r
                   /\ opts'[r] = ParseDiskNumber(argv[q]) /\ opts'[r] # NoNumber
                   /\ \A l \in (q + 1)..(i' - 1) : argv[l - 1].word # r
      <4>1. k \in 2..(i' - 1)
        BY <1>1, <1>3
      <4>2. ASSUME NEW l \in (k + 1)..(i' - 1) PROVE argv[l - 1].word # r
        BY <1>1, <1>3, <3>1, <3>2, <3>5
      <4> QED BY <3>3, <3>5, <4>1, <4>2
    <3> QED BY <3>4, <3>5 DEF LineInv
  <2> QED BY <2>1, <2>2
<1>9. \A f \in Flags : opts'[f] <=> \E k \in 1..(i' - 1) : argv[k].word = f
  <2> TAKE f \in Flags
  <2>1. argv[i].word # f /\ argv[i + 1].word # f
    BY <1>1, <1>2 DEF Flags, Roles
  <2>2. (\E k \in 1..(i' - 1) : argv[k].word = f) <=> \E k \in 1..(i - 1) : argv[k].word = f
    BY <1>1, <1>3, <2>1
  <2> QED BY <1>4, <2>2 DEF LineInv
<1>10. i' \in 1..(Len(argv) + 1)
  BY <1>1, <1>3
<1>11. step' = "options" /\ argv' = argv /\ opts' \in Options
  BY <1>1, <1>4, <1>5
<1> HIDE DEF number
<1>12. LineInv'
  BY <1>6, <1>7, <1>8, <1>9, <1>11 DEF LineInv
<1> QED BY <1>10, <1>11, <1>12

\* So does a flag.
LEMMA FlagKeepsLine ==
  ASSUME TypeInv, LineInv, TakeFlag, UNCHANGED <<exit, step>>
  PROVE  LineInv' /\ opts' \in Options /\ i' \in 1..(Len(argv) + 1)
<1>1. /\ i <= Len(argv) /\ argv[i].word \in Flags /\ step = "options"
      /\ opts' = [opts EXCEPT ![argv[i].word] = TRUE]
      /\ i' = i + 1 /\ UNCHANGED <<verb, argv>>
  BY DEF TakeFlag, Do
<1>2. opts \in Options /\ Len(argv) \in Nat /\ i \in 1..(Len(argv) + 1)
  BY DEF TypeInv, TypeOK
<1>3. PICK flag \in Flags : argv[i].word = flag
  BY <1>1
<1>4. /\ opts'[flag] = TRUE
      /\ \A f \in Flags \ {flag} : opts'[f] = opts[f]
      /\ \A role \in Roles : opts'[role] = opts[role]
      /\ opts' \in Options
  <2>1. opts' = [opts EXCEPT ![flag] = TRUE]
    BY <1>1, <1>3
  <2>2. CASE flag = "expand"
    BY <1>2, <2>1, <2>2, ZenonT(30) DEF Options, Roles, Flags
  <2>3. CASE flag = "newIds"
    BY <1>2, <2>1, <2>3, ZenonT(30) DEF Options, Roles, Flags
  <2>4. CASE flag = "force"
    BY <1>2, <2>1, <2>4, ZenonT(30) DEF Options, Roles, Flags
  <2>5. CASE flag = "dryRun"
    BY <1>2, <2>1, <2>5, ZenonT(30) DEF Options, Roles, Flags
  <2> QED BY <2>2, <2>3, <2>4, <2>5 DEF Flags
<1>5. argv[i].word \notin Roles
  BY <1>1 DEF Roles, Flags
<1>6. \A k \in 2..(i' - 1) : Taken(k)' => argv'[k].word = "number"
  <2>1. ASSUME NEW k \in 2..(i' - 1), argv[k - 1].word \in Roles PROVE argv[k].word = "number"
    <3>1. CASE k \in 2..(i - 1)
      BY <2>1, <3>1 DEF LineInv, Taken
    <3>2. CASE k = i
      BY <1>2, <2>1, <3>2 DEF LineInv
    <3> QED BY <1>1, <1>2, <3>1, <3>2
  <2> QED BY <1>1, <2>1 DEF Taken
<1>7. \A r \in Roles :
       \/ opts'[r] = NoNumber /\ \A k \in 2..(i' - 1) : argv[k - 1].word # r
       \/ \E k \in 2..(i' - 1) :
            /\ argv[k - 1].word = r
            /\ opts'[r] = ParseDiskNumber(argv[k]) /\ opts'[r] # NoNumber
            /\ \A l \in (k + 1)..(i' - 1) : argv[l - 1].word # r
  <2> TAKE r \in Roles
  <2>1. opts'[r] = opts[r] /\ (i > 1 => argv[i - 1].word # r)
    BY <1>4 DEF LineInv
  <2>2. CASE opts[r] = NoNumber /\ \A k \in 2..(i - 1) : argv[k - 1].word # r
    <3>1. ASSUME NEW k \in 2..(i' - 1) PROVE argv[k - 1].word # r
      BY <1>1, <1>2, <2>1, <2>2
    <3> QED BY <2>1, <2>2, <3>1
  <2>3. ASSUME NEW k \in 2..(i - 1),
               /\ argv[k - 1].word = r
               /\ opts[r] = ParseDiskNumber(argv[k]) /\ opts[r] # NoNumber
               /\ \A l \in (k + 1)..(i - 1) : argv[l - 1].word # r
        PROVE  \E q \in 2..(i' - 1) :
                 /\ argv[q - 1].word = r
                 /\ opts'[r] = ParseDiskNumber(argv[q]) /\ opts'[r] # NoNumber
                 /\ \A l \in (q + 1)..(i' - 1) : argv[l - 1].word # r
    <3>1. k \in 2..(i' - 1)
      BY <1>1, <1>2
    <3>2. ASSUME NEW l \in (k + 1)..(i' - 1) PROVE argv[l - 1].word # r
      BY <1>1, <1>2, <2>1, <2>3
    <3> QED BY <2>1, <2>3, <3>1, <3>2
  <2> QED BY <2>2, <2>3 DEF LineInv
<1>8. \A f \in Flags : opts'[f] <=> \E k \in 1..(i' - 1) : argv[k].word = f
  <2> TAKE f \in Flags
  <2>1. (\E k \in 1..(i' - 1) : argv[k].word = f) <=> f = flag \/ \E k \in 1..(i - 1) : argv[k].word = f
    BY <1>1, <1>2, <1>3
  <2>2. opts[f] <=> \E k \in 1..(i - 1) : argv[k].word = f
    BY DEF LineInv
  <2>3. CASE f = flag
    BY <1>4, <2>1, <2>3
  <2>4. CASE f # flag
    BY <1>4, <2>1, <2>2, <2>4
  <2> QED BY <2>3, <2>4
<1>9. i' \in 1..(Len(argv) + 1)
  BY <1>1, <1>2
<1>10. step' # "verb" /\ i' > 1 /\ argv'[i' - 1].word \notin Roles
  BY <1>1, <1>2, <1>5
<1>11. argv' = argv /\ step' = "options"
  BY <1>1
<1>12. (\A role \in Roles :
       \/ opts[role] = NoNumber /\ \A k \in 2..(i - 1) : argv[k - 1].word # role
       \/ \E k \in 2..(i - 1) :
            /\ argv[k - 1].word = role
            /\ opts[role] = ParseDiskNumber(argv[k]) /\ opts[role] # NoNumber
            /\ \A l \in (k + 1)..(i - 1) : argv[l - 1].word # role)'
  BY <1>7, <1>11
<1>13. (\A f \in Flags : opts[f] <=> \E k \in 1..(i - 1) : argv[k].word = f)'
  BY <1>8, <1>11
<1> QED BY <1>4, <1>6, <1>9, <1>10, <1>11, <1>12, <1>13 DEF LineInv

\* The invariant of the loop over the options, which the later steps keep.
LEMMA LineKeeps ==
  ASSUME IInv, [Next]_vars
  PROVE  LineInv' /\ opts' \in Options /\ i' \in 1..(Len(argv) + 1)
<1>1. TypeInv /\ LineInv /\ opts \in Options /\ Len(argv) \in Nat /\ i \in 1..(Len(argv) + 1)
  BY DEF IInv, TypeInv, TypeOK
<1>2. CASE UNCHANGED <<lineVars, step>>
  BY <1>1, <1>2 DEF LineInv, Taken
<1>7. CASE UNCHANGED lineVars /\ step \notin {"verb", "options"} /\ step' \notin {"verb", "options"}
  BY <1>1, <1>7 DEF LineInv, Taken
<1>3. CASE ReadCommandLine
  <2>1. CASE TakeNumber /\ UNCHANGED <<exit, step>>
    BY <1>1, <2>1, NumberKeepsLine
  <2>2. CASE TakeFlag /\ UNCHANGED <<exit, step>>
    BY <1>1, <2>2, FlagKeepsLine
  <2>3. CASE UNCHANGED lineVars /\ step = "verb" /\ step' \in {"enumerate", "options"}
             /\ verb = IF step' = "enumerate" THEN "list" ELSE "clone"
    BY <1>1, <2>3 DEF LineInv, Taken
  <2>4. CASE UNCHANGED lineVars /\ step = "options" /\ step' = "elevate" /\ EndOfOptions
             /\ NoNumber \notin {opts.source, opts.target}
    BY <1>1, <2>4 DEF LineInv, Taken, EndOfOptions, Do
  <2> QED
    <3>1. \/ UNCHANGED <<lineVars, step>>
          \/ UNCHANGED exit /\ step = "verb" /\ step' \in {"enumerate", "options"}
             /\ UNCHANGED lineVars
             /\ verb = IF step' = "enumerate" THEN "list" ELSE "clone"
          \/ UNCHANGED <<exit, step>> /\ (TakeNumber \/ TakeFlag)
          \/ UNCHANGED exit /\ step = "options" /\ step' = "elevate"
             /\ UNCHANGED lineVars
             /\ EndOfOptions /\ NoNumber \notin {opts.source, opts.target}
      BY <1>3, LineFrame
    <3> QED BY <1>2, <2>1, <2>2, <2>3, <2>4, <3>1
<1>4. CASE Decide
  <2>1. step \notin {"verb", "options"}
    BY <1>4 DEF Decide, EnsureElevated, QueryFails, EndOfScan, Confirm, RevalidateSource,
       RevalidateTarget, RevalidateDiskIdentity, TakeSnapshot, Do
  <2>2. UNCHANGED lineVars /\ (UNCHANGED step \/ step' \notin {"verb", "options"})
    BY <1>4, DecideFrame
  <2> QED BY <1>2, <1>7, <2>1, <2>2
<1>5. CASE EnablePrivilege \/ QueryNext \/ Annotate \/ EnumerateVolumes \/ BuildClonePlan
        \/ OpenSource \/ OpenTarget
  <2>1. step \notin {"verb", "options"}
    BY <1>5 DEF EnablePrivilege, QueryNext, Annotate, EnumerateVolumes, BuildClonePlan, OpenSource,
       OpenTarget, Do
  <2>2. UNCHANGED lineVars /\ (UNCHANGED step \/ step' \notin {"verb", "options"})
    BY <1>5, LeaveFrame DEF EnablePrivilege, QueryNext, Annotate, EnumerateVolumes,
       BuildClonePlan, OpenSource, OpenTarget, Pass, Goto
  <2> QED BY <1>2, <1>7, <2>1, <2>2
<1>6. CASE Replug \/ CreatePagefile \/ UNCHANGED vars
  <2>1. UNCHANGED <<lineVars, step>>
    BY <1>6 DEF Replug, CreatePagefile
  <2> QED BY <1>2, <2>1
<1> QED BY <1>3, <1>4, <1>5, <1>6 DEF Next, Proceed, Decide
-----------------------------------------------------------------------------
(* Types *)

\* The initial state of every invocation has the types of the invocations.
LEMMA InitTypes == Init => TypeInv
<1> SUFFICES ASSUME Init PROVE TypeInv
  OBVIOUS
<1>1. PICK c \in Cases :
        /\ verb = c.verb /\ argv = c.argv
        /\ elevated = c.elevated /\ held = c.held
        /\ disk = c.disk /\ volumes = c.volumes /\ named = c.named
        /\ faulty = c.faulty /\ at = c.at
  BY DEF Init
<1>2. /\ verb \in Verbs /\ argv \in Seq(Texts) /\ {elevated, faulty} \subseteq BOOLEAN
      /\ disk \in [Dev -> Facts] /\ volumes \subseteq Volumes
      /\ at \in [DiskNumbers -> Dev \cup {NoDev}]
  BY <1>1, CaseAssumption
<1>3. opts \in Options
  BY DEF Init, InitLine, Options, NoNumber
<1>4. i \in 1..(Len(argv) + 1) /\ i \in Nat
  BY <1>2 DEF Init, InitLine
<1>5. /\ replugs \in Nat /\ num \in Nat /\ misses \in 0..Misses /\ asked \in 0..Len(Privileges)
  BY NumberAssumption DEF Init, Privileges
<1>6. step \in Steps /\ exit \in Codes \cup {Running}
  BY DEF Init, InitLine, Steps, Scanning
<1>7. /\ listed \in [DiskNumbers -> Dev \cup {NoDev}]
      /\ duty \in [DiskNumbers -> SUBSET Duties]
      /\ {mapped, sniffed, sourceDisk, target} \subseteq Dev \cup {NoDev}
  BY DEF Init
<1>8. TypeOK
  BY <1>2, <1>3, <1>4, <1>5, <1>6, <1>7 DEF TypeOK
<1> QED BY <1>2, <1>4, <1>5, <1>6, <1>8 DEF TypeInv

\* What a disk's volumes are for.
LEMMA DutiesAreDuties ==
  ASSUME TypeInv, NEW d
  PROVE  DutiesOf(d) \in SUBSET Duties
BY DEF DutiesOf, TypeInv, TypeOK, Volumes

\* Every step keeps the types.
LEMMA TypesKeep ==
  ASSUME IInv, [Next]_vars
  PROVE  TypeInv'
<1>1. TypeInv
  BY DEF IInv
<1>2. opts' \in Options /\ i' \in 1..(Len(argv) + 1)
  BY LineKeeps
<1>3. i' \in Nat /\ Len(argv) \in Nat
  BY <1>1, <1>2 DEF TypeInv
<1>4. CASE ReadCommandLine
  <2>1. step' \in Steps /\ exit' \in Codes \cup {Running}
    BY <1>1, <1>4, LineFrame DEF TypeInv, TypeOK, Steps, Scanning
  <2>2. UNCHANGED <<verb, argv, machineVars, plugVars, tokenVars, scanVars, planVars, openVars>>
    BY <1>4, LineFrame
  <2> QED BY <1>1, <1>2, <1>3, <2>1, <2>2 DEF TypeInv, TypeOK
<1>5. CASE Decide
  <2>1. step' \in Steps /\ exit' \in Codes \cup {Running}
    BY <1>1, <1>5, DecideFrame DEF TypeInv, TypeOK
  <2>2. UNCHANGED <<lineVars, machineVars, plugVars, tokenVars, scanVars, planVars, openVars>>
    BY <1>5, DecideFrame
  <2> QED BY <1>1, <2>1, <2>2 DEF TypeInv, TypeOK
<1>6. CASE \E code \in Codes : Leave(code)
  <2>1. UNCHANGED <<step, lineVars, machineVars, plugVars, tokenVars, scanVars, planVars, openVars>>
        /\ exit' \in Codes
    BY <1>6, LeaveFrame
  <2> QED BY <1>1, <2>1 DEF TypeInv, TypeOK
<1>7. CASE EnablePrivilege
  <2>1. CASE Leave(2)
    BY <1>6, <2>1 DEF Codes
  <2>2. CASE Pass("enumerate")
    BY <1>1, <2>2 DEF Pass, Goto, TypeInv, TypeOK, Steps, Scanning
  <2>3. CASE ~Leave(2) /\ ~Pass("enumerate")
    <3>1. /\ asked' = asked + 1 /\ asked < Len(Privileges)
          /\ UNCHANGED <<lineVars, step, exit, elevated, machineVars, plugVars, scanVars,
                         planVars, openVars>>
      BY <1>7, <2>3 DEF EnablePrivilege
    <3>2. asked' \in 0..Len(Privileges)
      BY <1>1, <3>1 DEF TypeInv, Privileges
    <3> QED BY <1>1, <3>1, <3>2 DEF TypeInv, TypeOK
  <2> QED BY <2>1, <2>2, <2>3
<1>8. CASE QueryNext
  <2>1. /\ num \in DiskNumbers /\ num' = num + 1 /\ misses < Misses
        /\ misses' \in {misses + 1, 0}
        /\ listed' \in {listed, [listed EXCEPT ![num] = at[num]]}
        /\ UNCHANGED <<lineVars, step, exit, machineVars, plugVars, tokenVars, planVars, openVars>>
    BY <1>8 DEF QueryNext, FewMisses, MissesAfter
  <2>2. num' \in Nat /\ misses' \in 0..Misses
    BY <1>1, <2>1, NumberAssumption DEF TypeInv, TypeOK
  <2>3. listed' \in [DiskNumbers -> Dev \cup {NoDev}]
    BY <1>1, <2>1 DEF TypeInv, TypeOK
  <2> QED BY <1>1, <2>1, <2>2, <2>3 DEF TypeInv, TypeOK
<1>9. CASE Annotate
  <2>1. CASE Leave(3)
    BY <1>6, <2>1 DEF Codes
  <2>2. CASE ~Leave(3)
    <3>1. duty' \in [DiskNumbers -> SUBSET Duties]
      BY <1>1, <1>9, <2>2, DutiesAreDuties DEF Annotate
    <3>2. step' = "volumes"
          /\ UNCHANGED <<exit, lineVars, machineVars, plugVars, tokenVars, scanVars, mapped,
                         sniffed, openVars>>
      BY <1>9, <2>2 DEF Annotate, Goto
    <3> QED BY <1>1, <3>1, <3>2 DEF TypeInv, TypeOK, Steps, Annotated
  <2> QED BY <2>1, <2>2
<1>10. CASE EnumerateVolumes
  <2>1. CASE Leave(0)
    BY <1>6, <2>1 DEF Codes
  <2>2. CASE ~Leave(0)
    <3>1. /\ mapped' \in Dev \cup {NoDev} /\ step' = "plan"
          /\ UNCHANGED <<exit, lineVars, machineVars, plugVars, tokenVars, scanVars, duty,
                         sniffed, openVars>>
      BY <1>1, <1>10, <2>2 DEF EnumerateVolumes, Goto, TypeInv, TypeOK
    <3> QED BY <1>1, <3>1 DEF TypeInv, TypeOK, Steps, Annotated
  <2> QED BY <2>1, <2>2
<1>11. CASE BuildClonePlan
  <2>1. CASE Leave(3)
    BY <1>6, <2>1 DEF Codes
  <2>2. CASE ~Leave(3)
    <3>1. /\ ~Refused /\ sniffed' = at[opts.source] /\ step' = "confirm"
          /\ UNCHANGED <<exit, lineVars, machineVars, plugVars, tokenVars, scanVars, duty,
                         mapped, openVars>>
      BY <1>11, <2>2 DEF BuildClonePlan, Goto
    <3>2. sniffed' \in Dev \cup {NoDev}
      BY <1>1, <3>1 DEF Refused, Listed, TypeInv, TypeOK
    <3> QED BY <1>1, <3>1, <3>2 DEF TypeInv, TypeOK, Steps, Annotated, Planned
  <2> QED BY <2>1, <2>2
<1>12. CASE OpenSource
  <2>1. CASE Leave(3)
    BY <1>6, <2>1 DEF Codes
  <2>2. CASE ~Leave(3)
    <3>1. /\ sourceDisk' = at[opts.source] /\ step' = "snapshot" /\ step = "openSource"
          /\ UNCHANGED <<exit, lineVars, machineVars, plugVars, tokenVars, scanVars, planVars,
                         target>>
      BY <1>12, <2>2 DEF OpenSource, Goto, Do
    <3>2. Listed(opts.source)
      BY <3>1 DEF IInv, PlanInv, Planned, Approved, Refused
    <3>3. sourceDisk' \in Dev \cup {NoDev}
      BY <1>1, <3>1, <3>2 DEF Listed, TypeInv, TypeOK
    <3> QED BY <1>1, <3>1, <3>3 DEF TypeInv, TypeOK, Steps, Annotated, Planned, Approved
  <2> QED BY <2>1, <2>2
<1>13. CASE OpenTarget
  <2>1. CASE Leave(3)
    BY <1>6, <2>1 DEF Codes
  <2>2. CASE ~Leave(3)
    <3>1. /\ target' = at[opts.target] /\ step' = "opened" /\ step = "openTarget"
          /\ UNCHANGED <<exit, lineVars, machineVars, plugVars, tokenVars, scanVars, planVars,
                         sourceDisk>>
      BY <1>13, <2>2 DEF OpenTarget, Goto, Do
    <3>2. Listed(opts.target)
      BY <3>1 DEF IInv, PlanInv, Planned, Approved, Refused
    <3>3. target' \in Dev \cup {NoDev}
      BY <1>1, <3>1, <3>2 DEF Listed, TypeInv, TypeOK
    <3> QED BY <1>1, <3>1, <3>3 DEF TypeInv, TypeOK, Steps, Annotated, Planned, Approved
  <2> QED BY <2>1, <2>2
<1>14. CASE Replug
  <2>1. /\ replugs' = replugs + 1
        /\ \E m, n \in DiskNumbers :
             at' \in {[at EXCEPT ![m] = NoDev], [at EXCEPT ![m] = at[n], ![n] = at[m]]}
        /\ UNCHANGED <<lineVars, step, exit, machineVars, tokenVars, scanVars, planVars, openVars>>
    BY <1>14 DEF Replug
  <2>2. at' \in [DiskNumbers -> Dev \cup {NoDev}]
    BY <1>1, <2>1 DEF TypeInv, TypeOK
  <2>3. replugs' \in Nat
    BY <1>1, <2>1 DEF TypeInv
  <2> QED BY <1>1, <2>1, <2>2, <2>3 DEF TypeInv, TypeOK
<1>15. CASE CreatePagefile
  <2>1. PICK v \in volumes :
          volumes' = (volumes \ {v}) \cup {[v EXCEPT !.duty = @ \cup {"pagefile"}]}
    BY <1>15 DEF CreatePagefile
  <2>2. [v EXCEPT !.duty = @ \cup {"pagefile"}] \in Volumes
    BY <1>1, <2>1 DEF TypeInv, TypeOK, Volumes, Duties
  <2>3. volumes' \subseteq Volumes
    BY <1>1, <2>1, <2>2 DEF TypeInv, TypeOK
  <2>4. UNCHANGED <<lineVars, step, exit, disk, named, faulty, plugVars, tokenVars, scanVars,
                    planVars, openVars>>
    BY <1>15 DEF CreatePagefile
  <2> QED BY <1>1, <2>3, <2>4 DEF TypeInv, TypeOK
<1>16. CASE UNCHANGED vars
  BY <1>1, <1>16 DEF TypeInv, TypeOK
<1> QED
  BY <1>4, <1>5, <1>7, <1>8, <1>9, <1>10, <1>11, <1>12, <1>13, <1>14, <1>15, <1>16
  DEF Next, Proceed, Decide
-----------------------------------------------------------------------------
(* The token and the machine *)

\* Initially nothing was asked for, and the machine is a lawful one.
LEMMA InitMachine == Init => LineInv /\ TokenInv /\ MachineInv
<1> SUFFICES ASSUME Init PROVE LineInv /\ TokenInv /\ MachineInv
  OBVIOUS
<1>1. i = 1 /\ step = "verb" /\ asked = 0 /\ enabled = {} /\ LegalMachine
  BY DEF Init, InitLine
<1>2. TokenInv /\ MachineInv
  BY <1>1 DEF TokenInv, MachineInv, Annotated, Planned, Approved
<1>3. \A role \in Roles : opts[role] = NoNumber
  BY DEF Init, InitLine, Roles
<1>4. \A f \in Flags : opts[f] = FALSE
  BY DEF Init, InitLine, Flags
<1>5. LineInv
  BY <1>1, <1>3, <1>4 DEF LineInv, Taken
<1> QED BY <1>2, <1>5

\* A step behind the privileges is reached with all of them.
LEMMA TokenKeeps ==
  ASSUME IInv, [Next]_vars
  PROVE  TokenInv'
<1>1. TypeInv /\ TokenInv
  BY DEF IInv
<1>2. CASE UNCHANGED <<step, verb, tokenVars>>
  BY <1>1, <1>2 DEF TokenInv
<1>3. CASE ReadCommandLine
  <2>1. UNCHANGED <<verb, tokenVars>>
    BY <1>3, LineFrame
  <2>2. \/ UNCHANGED step
        \/ step' = "options"
        \/ step' = "elevate"
        \/ step' = "enumerate" /\ verb = "list"
    BY <1>3, LineFrame
  <2> QED BY <1>1, <2>1, <2>2 DEF TokenInv, Planned, Approved
<1>4. CASE EnsureElevated
  BY <1>1, <1>4 DEF EnsureElevated, Leave, Exit, Pass, Goto, Do, TokenInv, Planned, Approved
<1>5. CASE EnablePrivilege
  <2>1. CASE Leave(2) \/ Pass("enumerate")
    BY <1>1, <1>2, <1>5, <2>1, LeaveFrame
    DEF EnablePrivilege, Pass, Goto, Do, TokenInv, Planned, Approved
  <2>2. CASE ~(Leave(2) \/ Pass("enumerate"))
    <3>1. /\ asked' = asked + 1 /\ asked \in 0..2
          /\ Privileges[asked + 1] \in held
          /\ enabled' = enabled \cup ({Privileges[asked + 1]} \cap held)
          /\ step = "privileges" /\ UNCHANGED <<verb, step, elevated>>
      BY <1>1, <1>5, <2>2 DEF EnablePrivilege, Assigned, Do, TypeInv, Privileges
    <3>2. enabled' = {Privileges[k] : k \in 1..asked'}
      <4>1. 1..asked' = (1..asked) \cup {asked + 1}
        BY <3>1
      <4> QED BY <1>1, <3>1, <4>1 DEF TokenInv
    <3> QED BY <1>1, <3>1, <3>2 DEF TokenInv, Planned, Approved
  <2> QED BY <2>1, <2>2
<1>6. CASE QueryFails \/ EndOfScan \/ Confirm \/ RevalidateSource \/ RevalidateTarget \/ TakeSnapshot
  <2>1. UNCHANGED <<verb, tokenVars>>
    BY <1>6, DecideFrame DEF Decide
  <2>2. /\ step \notin {"verb", "options", "elevate", "privileges"}
        /\ \/ UNCHANGED step
           \/ step' = "annotate"
           \/ step \in {"plan"} \cup Planned
    BY <1>6 DEF QueryFails, EndOfScan, Confirm, RevalidateSource, RevalidateTarget,
       RevalidateDiskIdentity, TakeSnapshot, Do, Pass, Goto, Leave, Exit, Planned, Approved
  <2> QED BY <1>1, <2>1, <2>2 DEF TokenInv, Planned, Approved
<1>7. CASE QueryNext \/ Replug \/ CreatePagefile \/ UNCHANGED vars
  <2>1. UNCHANGED <<step, verb, tokenVars>>
    BY <1>7 DEF QueryNext, Replug, CreatePagefile
  <2> QED BY <1>2, <2>1
<1>8. CASE Annotate \/ EnumerateVolumes \/ BuildClonePlan \/ OpenSource \/ OpenTarget
  <2>1. /\ UNCHANGED <<verb, tokenVars>>
        /\ step \in {"annotate", "volumes", "plan"} \cup Planned
        /\ \/ UNCHANGED step
           \/ step = "annotate" /\ step' = "volumes"
           \/ step = "volumes" /\ verb = "clone"
           \/ step \in {"plan"} \cup Planned
    BY <1>8, LeaveFrame DEF Annotate, EnumerateVolumes, BuildClonePlan, OpenSource, OpenTarget,
       Do, Goto, Planned, Approved
  <2> QED BY <1>1, <2>1 DEF TokenInv, Planned, Approved
<1> QED BY <1>3, <1>4, <1>5, <1>6, <1>7, <1>8 DEF Next, Proceed

\* Two numbers never denote the same disk, however disks are replugged, and
\* the extents of a volume stay where they are.
LEMMA MachineKeeps ==
  ASSUME IInv, [Next]_vars
  PROVE  MachineInv'
<1>1. TypeInv /\ MachineInv
  BY DEF IInv
<1>2. CASE Replug
  <2>1. PICK m, n \in DiskNumbers :
          \/ at' = [at EXCEPT ![m] = NoDev]
          \/ m # n /\ at' = [at EXCEPT ![m] = at[n], ![n] = at[m]]
    BY <1>2 DEF Replug
  <2>2. UNCHANGED <<step, machineVars>>
    BY <1>2 DEF Replug
  <2>3. \A k, l \in DiskNumbers : at'[k] = at'[l] /\ at'[k] # NoDev => k = l
    BY <1>1, <2>1 DEF MachineInv, LegalMachine, TypeInv, TypeOK
  <2> QED BY <1>1, <2>2, <2>3 DEF MachineInv, LegalMachine
<1>3. CASE CreatePagefile
  <2>1. PICK v \in volumes :
          volumes' = (volumes \ {v}) \cup {[v EXCEPT !.duty = @ \cup {"pagefile"}]}
    BY <1>3 DEF CreatePagefile
  <2>2. UNCHANGED <<step, disk, named, at>>
    BY <1>3 DEF CreatePagefile
  <2>3. /\ [v EXCEPT !.duty = @ \cup {"pagefile"}].on = v.on
        /\ [v EXCEPT !.duty = @ \cup {"pagefile"}].single = v.single
    BY <1>1, <2>1 DEF TypeInv, TypeOK, Volumes
  <2>4. \A w \in volumes' : IF w.single THEN \E d \in Dev : w.on = {d}
                             ELSE \A d \in w.on : disk[d].dynamic
    BY <1>1, <2>1, <2>3 DEF MachineInv, LegalMachine
  <2> QED BY <1>1, <2>2, <2>4 DEF MachineInv, LegalMachine
<1>4. CASE UNCHANGED <<machineVars, at>> /\ (UNCHANGED step \/ step \in Annotated)
  BY <1>1, <1>4 DEF MachineInv, LegalMachine
<1>5. CASE UNCHANGED <<machineVars, at>> /\ (step' \in Annotated => "system" \in named)
  BY <1>1, <1>5 DEF MachineInv, LegalMachine
<1>6. CASE ReadCommandLine
  <2>1. UNCHANGED <<machineVars, at>> /\ (UNCHANGED step \/ step' \in Scanning)
    BY <1>6, LineFrame DEF Scanning
  <2> QED BY <1>4, <1>5, <2>1 DEF Scanning, Annotated, Planned, Approved
<1>7. CASE Decide
  <2>1. UNCHANGED <<machineVars, at>>
    BY <1>7, DecideFrame
  <2>2. UNCHANGED step \/ step' \in {"privileges", "enumerate", "annotate"} \/ step \in Annotated
    BY <1>7 DEF Decide, EnsureElevated, QueryFails, EndOfScan, Confirm, RevalidateSource,
       RevalidateTarget, RevalidateDiskIdentity, TakeSnapshot, Do, Pass, Goto, Leave, Exit,
       Annotated, Planned, Approved
  <2> QED BY <1>4, <1>5, <2>1, <2>2 DEF Annotated, Planned, Approved
<1>8. CASE EnablePrivilege \/ QueryNext \/ Annotate \/ EnumerateVolumes \/ BuildClonePlan
        \/ OpenSource \/ OpenTarget
  <2>1. UNCHANGED <<machineVars, at>>
    BY <1>8, LeaveFrame DEF EnablePrivilege, QueryNext, Annotate, EnumerateVolumes,
       BuildClonePlan, OpenSource, OpenTarget, Pass
  <2>2. UNCHANGED step \/ step' = "enumerate" \/ "system" \in named \/ step \in Annotated
    BY <1>8, LeaveFrame DEF EnablePrivilege, QueryNext, Annotate, EnumerateVolumes,
       BuildClonePlan, OpenSource, OpenTarget, Pass, Goto, Do, Annotated, Planned, Approved
  <2> QED BY <1>4, <1>5, <2>1, <2>2 DEF Annotated, Planned, Approved
<1>9. CASE UNCHANGED vars
  BY <1>1, <1>9 DEF MachineInv, LegalMachine
<1> QED BY <1>2, <1>3, <1>6, <1>7, <1>8, <1>9 DEF Next, Proceed, Decide
-----------------------------------------------------------------------------
(* The plan and the disks that are opened *)

\* What was not refused stays as it was judged: no step behind the plan
\* changes what the refusals were decided from.
LEMMA PlanKeeps ==
  ASSUME IInv, [Next]_vars
  PROVE  PlanInv'
<1>1. PlanInv
  BY DEF IInv
<1>2. CASE UNCHANGED <<opts, disk, listed, duty, sniffed>> /\ (UNCHANGED step \/ step \in Planned)
  BY <1>1, <1>2 DEF PlanInv, Refused, Listed, From, To, Unreadable, TooSmall, DoesNotFit
<1>3. CASE step' \notin Planned
  BY <1>3 DEF PlanInv
<1>4. CASE BuildClonePlan
  <2>1. CASE Leave(3)
    BY <1>2, <2>1, LeaveFrame
  <2>2. CASE ~Leave(3)
    <3>1. /\ ~Refused /\ ~RefusedSniffing(at[opts.source]) /\ sniffed' = at[opts.source]
          /\ UNCHANGED <<opts, disk, listed, duty>>
      BY <1>4, <2>2 DEF BuildClonePlan
    <3>2. ~Refused'
      BY <3>1 DEF Refused, Listed, From, To, Unreadable, TooSmall, DoesNotFit
    <3> QED BY <3>1, <3>2 DEF PlanInv, RefusedSniffing
  <2> QED BY <2>1, <2>2
<1>5. CASE ReadCommandLine
  <2>1. step \notin Planned
    BY <1>5 DEF ReadCommandLine, ParseLine, TakeVerb, TakeNumber, TakeFlag, UnknownOption,
       EndOfOptions, Do, Planned, Approved
  <2>2. UNCHANGED step \/ step' \in Scanning
    BY <1>5, LineFrame DEF Scanning
  <2> QED BY <1>3, <2>1, <2>2 DEF Scanning, Planned, Approved
<1>6. CASE Decide
  <2>1. UNCHANGED <<opts, disk, listed, duty, sniffed>>
    BY <1>6, DecideFrame
  <2>2. UNCHANGED step \/ step' \in {"privileges", "enumerate", "annotate"} \/ step \in Planned
    BY <1>6 DEF Decide, EnsureElevated, QueryFails, EndOfScan, Confirm, RevalidateSource,
       RevalidateTarget, RevalidateDiskIdentity, TakeSnapshot, Do, Pass, Goto, Leave, Exit,
       Planned, Approved
  <2> QED BY <1>2, <1>3, <2>1, <2>2 DEF Planned, Approved
<1>7. CASE EnablePrivilege \/ QueryNext \/ Annotate \/ EnumerateVolumes
  <2>1. step' \notin Planned
    BY <1>7, LeaveFrame DEF EnablePrivilege, QueryNext, Annotate, EnumerateVolumes, Pass, Goto,
       Do, Planned, Approved
  <2> QED BY <1>3, <2>1
<1>8. CASE OpenSource \/ OpenTarget
  <2>1. UNCHANGED <<opts, disk, listed, duty, sniffed>> /\ step \in Planned
    BY <1>8, LeaveFrame DEF OpenSource, OpenTarget, Do, Planned, Approved
  <2> QED BY <1>2, <2>1
<1>9. CASE Replug \/ CreatePagefile \/ UNCHANGED vars
  <2>1. UNCHANGED <<opts, disk, listed, duty, sniffed, step>>
    BY <1>9 DEF Replug, CreatePagefile
  <2> QED BY <1>2, <2>1
<1> QED BY <1>4, <1>5, <1>6, <1>7, <1>8, <1>9 DEF Next, Proceed, Decide

\* From each revalidation on the number denotes the disk that was listed, as
\* nothing is replugged any more, and that disk is the one opened.
LEMMA OpenKeeps ==
  ASSUME QuietHost, IInv, [Next]_vars
  PROVE  OpenInv'
<1>1. OpenInv
  BY DEF IInv
<1>2. CASE UNCHANGED <<opts, at, listed, openVars, step>>
  BY <1>1, <1>2 DEF OpenInv
<1>3. CASE step \notin Approved /\ UNCHANGED openVars
           /\ (UNCHANGED step \/ step' \notin Approved \/ step' = "revalidateSource")
  BY <1>1, <1>3 DEF OpenInv, Approved
<1>4. CASE ReadCommandLine
  <2>1. step \in {"verb", "options"}
    BY <1>4 DEF ReadCommandLine, ParseLine, TakeVerb, TakeNumber, TakeFlag, UnknownOption,
       EndOfOptions, Do
  <2>2. UNCHANGED openVars /\ (UNCHANGED step \/ step' \in Scanning)
    BY <1>4, LineFrame DEF Scanning
  <2> QED BY <1>3, <2>1, <2>2 DEF Scanning, Approved
<1>5. CASE \E code : Leave(code)
  BY <1>2, <1>5, LeaveFrame
<1>6. CASE EnsureElevated \/ EnablePrivilege \/ QueryNext \/ EndOfScan \/ Annotate
        \/ EnumerateVolumes \/ BuildClonePlan \/ Confirm
  <2>1. CASE ~\E code : Leave(code)
    <3>1. step \notin Approved /\ UNCHANGED openVars
      BY <1>6, <2>1 DEF EnsureElevated, EnablePrivilege, QueryNext, EndOfScan, Annotate,
         EnumerateVolumes, BuildClonePlan, Confirm, Do, Pass, Approved
    <3>2. UNCHANGED step \/ step' \notin Approved \/ step' = "revalidateSource"
      BY <1>6, <2>1 DEF EnsureElevated, EnablePrivilege, QueryNext, EndOfScan, Annotate,
         EnumerateVolumes, BuildClonePlan, Confirm, Pass, Goto, Approved
    <3> QED BY <1>3, <3>1, <3>2
  <2> QED BY <1>5, <2>1
<1>7. CASE RevalidateSource \/ RevalidateTarget
  <2>1. CASE ~\E code : Leave(code)
    <3>1. /\ UNCHANGED <<opts, at, listed, openVars>>
          /\ \/ step = "revalidateSource" /\ step' = "revalidateTarget" /\ SameDisk(opts.source)
             \/ step = "revalidateTarget" /\ step' = "openSource" /\ SameDisk(opts.target)
      BY <1>7, <2>1 DEF RevalidateSource, RevalidateTarget, RevalidateDiskIdentity, Do, Pass, Goto
    <3> QED BY <1>1, <3>1 DEF OpenInv, SameDisk, Approved
  <2> QED BY <1>5, <2>1
<1>8. CASE OpenSource \/ TakeSnapshot \/ OpenTarget
  <2>1. CASE ~\E code : Leave(code)
    <3>1. /\ UNCHANGED <<opts, at, listed>>
          /\ \/ step = "openSource" /\ step' = "snapshot" /\ sourceDisk' = at[opts.source]
                /\ UNCHANGED target
             \/ step = "snapshot" /\ step' = "openTarget" /\ UNCHANGED openVars
             \/ step = "openTarget" /\ step' = "opened" /\ target' = at[opts.target]
                /\ UNCHANGED sourceDisk
      BY <1>8, <2>1 DEF OpenSource, TakeSnapshot, OpenTarget, Do, Pass, Goto
    <3> QED BY <1>1, <3>1 DEF OpenInv, Approved
  <2> QED BY <1>5, <2>1
<1>9. CASE QueryFails
  BY <1>5, <1>9 DEF QueryFails
<1>10. CASE Replug
  <2>1. step \notin Approved /\ UNCHANGED <<openVars, step>>
    BY <1>10 DEF Replug, QuietHost
  <2> QED BY <1>3, <2>1
<1>11. CASE CreatePagefile \/ UNCHANGED vars
  BY <1>2, <1>11 DEF CreatePagefile
<1> QED BY <1>4, <1>6, <1>7, <1>8, <1>9, <1>10, <1>11 DEF Next, Proceed
-----------------------------------------------------------------------------
(* The enumeration of the disks *)

\* A disk before which there are fewer misses than end the scan is reachable:
\* a longer gap below it would have cut off the last disk before it.
LEMMA ReachableNext ==
  ASSUME TypeInv, ScanInv, Undisturbed, num \in DiskNumbers, misses < Misses, at[num] # NoDev
  PROVE  Reachable(num)
<1>1. /\ num \in Nat /\ misses \in Nat /\ Misses \in Nat \ {0} /\ misses <= num
      /\ \A k \in 0..num : k \in DiskNumbers
  <2>1. PICK n \in 0..255 : DiskNumbers = 0..n
    BY NumberAssumption
  <2> QED BY <2>1, NumberAssumption DEF TypeInv, TypeOK, ScanInv
<1>2. SUFFICES ASSUME NEW m \in 0..num, m + Misses <= num
               PROVE  \E k \in m..(m + Misses - 1) : at[k] # NoDev
  BY DEF Reachable
<1>3. m < num - misses
  BY <1>1, <1>2
<1> DEFINE last == num - misses - 1
<1>4. last \in DiskNumbers /\ at[last] # NoDev /\ last \in Nat /\ last < num /\ m <= last
  BY <1>1, <1>2, <1>3 DEF ScanInv
<1>5. CASE last <= m + Misses - 1
  <2>1. last \in m..(m + Misses - 1)
    BY <1>1, <1>2, <1>4, <1>5
  <2> QED BY <1>4, <2>1
<1>6. CASE last > m + Misses - 1
  <2>1. Reachable(last)
    BY <1>4 DEF ScanInv
  <2>2. m \in 0..last /\ m + Misses <= last
    BY <1>1, <1>2, <1>4, <1>6
  <2> HIDE DEF last
  <2> QED BY <2>1, <2>2 DEF Reachable
<1> QED BY <1>1, <1>2, <1>4, <1>5, <1>6

\* The enumeration keeps what it has found out.
LEMMA ScanKeeps ==
  ASSUME IInv, [Next]_vars
  PROVE  ScanInv'
<1>1. TypeInv /\ ScanInv
  BY DEF IInv
<1>2. PICK N \in 0..255 : DiskNumbers = 0..N
  BY NumberAssumption
<1>3. num \in Nat /\ misses \in 0..Misses /\ Misses \in Nat \ {0} /\ replugs \in Nat
  BY <1>1, NumberAssumption DEF TypeInv, TypeOK
<1>4. CASE QueryNext
  <2>1. /\ num \in DiskNumbers /\ num' = num + 1 /\ misses < Misses /\ step = "enumerate"
        /\ UNCHANGED <<step, at, replugs, faulty>>
    BY <1>4 DEF QueryNext, FewMisses, Do
  <2>2. \A n \in DiskNumbers : Reachable(n)' <=> Reachable(n)
    BY <2>1 DEF Reachable
  <2>3. CASE misses' = misses + 1 /\ UNCHANGED listed /\ (at[num] = NoDev \/ faulty)
    <3>1. misses' = misses + 1 /\ UNCHANGED listed /\ (~faulty => at[num] = NoDev)
      BY <2>3
    <3>2. \A n \in DiskNumbers : n >= num' => listed'[n] = NoDev
      BY <1>1, <1>2, <1>3, <2>1, <3>1 DEF ScanInv
    <3>3. ASSUME Undisturbed'
          PROVE /\ misses' <= num'
                /\ \A n \in DiskNumbers : n < num' => listed'[n] = at'[n]
                /\ \A n \in DiskNumbers : num' - misses' <= n /\ n < num' => at'[n] = NoDev
                /\ misses' < num' => num' - misses' - 1 \in DiskNumbers /\ at'[num' - misses' - 1] # NoDev
                /\ \A n \in DiskNumbers : n < num' /\ at'[n] # NoDev => Reachable(n)'
      <4>1. Undisturbed /\ at[num] = NoDev
        BY <2>1, <3>1, <3>3
      <4>2. misses' <= num' /\ num' - misses' = num - misses
        BY <1>1, <1>3, <2>1, <3>1, <4>1 DEF ScanInv
      <4>3. \A n \in DiskNumbers : n < num' => n < num \/ n = num
        BY <1>2, <1>3, <2>1
      <4>4. listed[num] = at[num]
        BY <1>1, <1>3, <2>1, <4>1 DEF ScanInv
      <4>5. /\ \A n \in DiskNumbers : n < num' => listed'[n] = at'[n]
            /\ \A n \in DiskNumbers : n < num' /\ at'[n] # NoDev => Reachable(n)'
        BY <1>1, <2>1, <2>2, <3>1, <4>1, <4>3, <4>4 DEF ScanInv
      <4>6. \A n \in DiskNumbers : num' - misses' <= n /\ n < num' => at'[n] = NoDev
        BY <1>1, <1>2, <1>3, <2>1, <4>1, <4>2, <4>3 DEF ScanInv
      <4>7. misses' < num' => num' - misses' - 1 \in DiskNumbers /\ at'[num' - misses' - 1] # NoDev
        BY <1>1, <1>3, <2>1, <3>1, <4>1, <4>2 DEF ScanInv
      <4> QED BY <4>2, <4>5, <4>6, <4>7
    <3>4. replugs' = 0 => \A n \in DiskNumbers : listed'[n] \in {NoDev, at'[n]}
      BY <1>1, <2>1, <3>1 DEF ScanInv
    <3> QED BY <2>1, <3>2, <3>3, <3>4 DEF ScanInv, Scanning
  <2>4. CASE /\ at[num] # NoDev
             /\ misses' = 0 /\ listed' = [listed EXCEPT ![num] = at[num]]
    <3>1. misses' = 0 /\ listed' = [listed EXCEPT ![num] = at[num]]
      BY <2>4
    <3>2. /\ listed'[num] = at[num]
          /\ \A n \in DiskNumbers \ {num} : listed'[n] = listed[n]
      BY <1>1, <2>1, <3>1 DEF TypeInv, TypeOK
    <3>3. \A n \in DiskNumbers : n >= num' => listed'[n] = NoDev
      BY <1>1, <1>2, <1>3, <2>1, <3>2 DEF ScanInv
    <3>4. ASSUME Undisturbed'
          PROVE /\ misses' <= num'
                /\ \A n \in DiskNumbers : n < num' => listed'[n] = at'[n]
                /\ \A n \in DiskNumbers : num' - misses' <= n /\ n < num' => at'[n] = NoDev
                /\ misses' < num' => num' - misses' - 1 \in DiskNumbers /\ at'[num' - misses' - 1] # NoDev
                /\ \A n \in DiskNumbers : n < num' /\ at'[n] # NoDev => Reachable(n)'
      <4>1. Undisturbed
        BY <2>1, <3>4
      <4>2. \A n \in DiskNumbers : n < num' => n < num \/ n = num
        BY <1>2, <1>3, <2>1
      <4>3. Reachable(num)
        BY <1>1, <2>1, <2>4, <4>1, ReachableNext
      <4>4. /\ \A n \in DiskNumbers : n < num' => listed'[n] = at'[n]
            /\ \A n \in DiskNumbers : n < num' /\ at'[n] # NoDev => Reachable(n)'
        BY <1>1, <2>1, <2>2, <3>2, <4>1, <4>2, <4>3 DEF ScanInv
      <4>5. num' - misses' - 1 = num /\ misses' <= num'
        BY <1>3, <2>1, <3>1
      <4>6. \A n \in DiskNumbers : num' - misses' <= n /\ n < num' => at'[n] = NoDev
        BY <1>2, <1>3, <2>1, <3>1
      <4> QED BY <2>1, <2>4, <4>4, <4>5, <4>6
    <3>5. replugs' = 0 => \A n \in DiskNumbers : listed'[n] \in {NoDev, at'[n]}
      BY <1>1, <2>1, <3>2 DEF ScanInv
    <3> QED BY <2>1, <3>3, <3>4, <3>5 DEF ScanInv, Scanning
  <2> QED BY <1>4, <2>3, <2>4 DEF QueryNext, MissesAfter
<1>5. CASE Replug
  <2>1. replugs' # 0 /\ UNCHANGED <<step, num, misses, listed>>
    BY <1>3, <1>5 DEF Replug
  <2> QED BY <1>1, <2>1 DEF ScanInv
<1>6. CASE UNCHANGED <<num, misses, listed, plugVars, faulty, step>>
  BY <1>1, <1>6 DEF ScanInv, Reachable
<1>7. CASE /\ UNCHANGED <<num, misses, listed, plugVars, faulty>>
           /\ step' \in {"elevate", "options", "privileges", "enumerate"} => step \in {"verb", "options", "elevate", "privileges"}
           /\ step' # "verb"
           /\ step' \notin Scanning => step \notin Scanning \/ EndOfScan
  <2>1. EndOfScan => num \notin DiskNumbers \/ misses = Misses
    BY <1>3 DEF EndOfScan, FewMisses
  <2> QED BY <1>1, <1>7, <2>1 DEF ScanInv, Reachable, Scanning
<1>8. CASE ReadCommandLine
  <2>1. UNCHANGED <<num, misses, listed, plugVars, faulty>>
    BY <1>8, LineFrame
  <2>2. \/ UNCHANGED step
        \/ step \in {"verb", "options"} /\ step' \in {"options", "elevate", "enumerate"}
    BY <1>8, LineFrame
  <2> QED BY <1>6, <1>7, <2>1, <2>2 DEF Scanning
<1>9. CASE Decide
  <2>1. UNCHANGED <<num, misses, listed, plugVars, faulty>>
    BY <1>9, DecideFrame
  <2>2. \/ UNCHANGED step
        \/ step = "elevate" /\ step' = "privileges"
        \/ EndOfScan /\ step' = "annotate"
        \/ step \in Annotated /\ step' \in Annotated
    BY <1>9 DEF Decide, EnsureElevated, QueryFails, EndOfScan, Confirm, RevalidateSource,
       RevalidateTarget, RevalidateDiskIdentity, TakeSnapshot, Do, Pass, Goto, Leave, Exit,
       Annotated, Planned, Approved
  <2> QED BY <1>6, <1>7, <2>1, <2>2 DEF Scanning, Annotated, Planned, Approved
<1>10. CASE EnablePrivilege \/ Annotate \/ EnumerateVolumes \/ BuildClonePlan \/ OpenSource
         \/ OpenTarget
  <2>1. UNCHANGED <<num, misses, listed, plugVars, faulty>>
    BY <1>10, LeaveFrame DEF EnablePrivilege, Annotate, EnumerateVolumes, BuildClonePlan,
       OpenSource, OpenTarget, Pass
  <2>2. \/ UNCHANGED step
        \/ step = "privileges" /\ step' = "enumerate"
        \/ step \notin Scanning /\ step' \in Annotated
    BY <1>10, LeaveFrame DEF EnablePrivilege, Annotate, EnumerateVolumes, BuildClonePlan,
       OpenSource, OpenTarget, Pass, Goto, Do, Scanning, Annotated, Planned, Approved
  <2> QED BY <1>6, <1>7, <2>1, <2>2 DEF Scanning, Annotated, Planned, Approved
<1>11. CASE CreatePagefile \/ UNCHANGED vars
  BY <1>6, <1>11 DEF CreatePagefile
<1> QED BY <1>4, <1>5, <1>8, <1>9, <1>10, <1>11 DEF Next, Proceed, Decide

\* After the enumeration, if nothing is replugged: the reachable disks are
\* listed, and no others.
LEMMA ScanIsComplete ==
  ASSUME TypeInv, ScanInv, step \notin Scanning, Undisturbed, NEW n \in DiskNumbers
  PROVE  listed[n] = IF Reachable(n) THEN at[n] ELSE NoDev
<1>1. num \in Nat /\ n \in Nat /\ Misses \in Nat \ {0} /\ misses \in 0..Misses
      /\ \A k \in 0..n : k \in DiskNumbers
  <2>1. PICK N \in 0..255 : DiskNumbers = 0..N
    BY NumberAssumption
  <2> QED BY <2>1, NumberAssumption DEF TypeInv, TypeOK
<1>2. CASE n < num
  <2>1. listed[n] = at[n] /\ (at[n] # NoDev => Reachable(n))
    BY <1>2 DEF ScanInv
  <2> QED BY <2>1 DEF Reachable
<1>3. CASE n >= num
  <2>1. listed[n] = NoDev
    BY <1>3 DEF ScanInv
  <2>2. misses = Misses
    <3>1. num \in DiskNumbers
      BY <1>1, <1>3
    <3> QED BY <3>1 DEF ScanInv
  <2> DEFINE m == num - Misses
  <2>3. m \in 0..n /\ m + Misses <= n
    BY <1>1, <1>3, <2>2 DEF ScanInv
  <2>4. \A k \in m..(m + Misses - 1) : at[k] = NoDev
    <3> TAKE k \in m..(m + Misses - 1)
    <3>1. k \in DiskNumbers /\ num - misses <= k /\ k < num
      BY <1>1, <1>3, <2>2, <2>3
    <3> QED BY <3>1 DEF ScanInv
  <2>5. ~Reachable(n)
    <3> HIDE DEF m
    <3> QED BY <2>3, <2>4 DEF Reachable
  <2> QED BY <2>1, <2>5
<1> QED BY <1>1, <1>2, <1>3

\* The duties of a disk are those of its volumes, as long as no volume gets
\* another one (QuietHost).
LEMMA DutyKeeps ==
  ASSUME QuietHost, IInv, [Next]_vars
  PROVE  DutyInv'
<1>1. TypeInv /\ ScanInv /\ DutyInv
  BY DEF IInv
<1>2. CASE UNCHANGED <<listed, duty, volumes, named>> /\ (Undisturbed' => Undisturbed)
           /\ (UNCHANGED step \/ step \in Annotated)
  BY <1>1, <1>2 DEF DutyInv, DutiesOf, On, Recognized
<1>3. CASE step' \notin Annotated
  BY <1>3 DEF DutyInv
<1>4. CASE Annotate
  <2>1. CASE Leave(3)
    BY <1>2, <2>1, LeaveFrame
  <2>2. CASE ~Leave(3)
    <3>1. /\ duty' = [n \in DiskNumbers |->
                IF listed[n] # NoDev /\ at[n] # NoDev THEN DutiesOf(at[n]) ELSE {}]
          /\ step = "annotate" /\ UNCHANGED <<listed, volumes, named, faulty, replugs>>
      BY <1>4, <2>2 DEF Annotate, Do
    <3>2. Undisturbed => \A n \in DiskNumbers : listed[n] # NoDev => at[n] = listed[n]
      BY <1>1, <3>1, ScanIsComplete DEF Scanning
    <3>3. \A d : DutiesOf(d)' = DutiesOf(d)
      BY <3>1 DEF DutiesOf, On, Recognized
    <3> QED BY <3>1, <3>2, <3>3 DEF DutyInv
  <2> QED BY <2>1, <2>2
<1>5. CASE ReadCommandLine
  <2>1. step \notin Annotated
    BY <1>5 DEF ReadCommandLine, ParseLine, TakeVerb, TakeNumber, TakeFlag, UnknownOption,
       EndOfOptions, Do, Annotated, Planned, Approved
  <2>2. UNCHANGED step \/ step' \in Scanning
    BY <1>5, LineFrame DEF Scanning
  <2> QED BY <1>3, <2>1, <2>2 DEF Scanning, Annotated, Planned, Approved
<1>6. CASE Decide
  <2>1. UNCHANGED <<listed, duty, volumes, named, faulty, replugs>>
    BY <1>6, DecideFrame
  <2>2. UNCHANGED step \/ step' \in {"privileges", "enumerate", "annotate"} \/ step \in Annotated
    BY <1>6 DEF Decide, EnsureElevated, QueryFails, EndOfScan, Confirm, RevalidateSource,
       RevalidateTarget, RevalidateDiskIdentity, TakeSnapshot, Do, Pass, Goto, Leave, Exit,
       Annotated, Planned, Approved
  <2> QED BY <1>2, <1>3, <2>1, <2>2 DEF Annotated, Planned, Approved
<1>7. CASE EnablePrivilege \/ QueryNext
  <2>1. step' \notin Annotated
    BY <1>7, LeaveFrame DEF EnablePrivilege, QueryNext, Pass, Goto, Do, Annotated, Planned, Approved
  <2> QED BY <1>3, <2>1
<1>8. CASE EnumerateVolumes \/ BuildClonePlan \/ OpenSource \/ OpenTarget
  <2>1. UNCHANGED <<listed, duty, volumes, named, faulty, replugs>> /\ step \in Annotated
    BY <1>8, LeaveFrame DEF EnumerateVolumes, BuildClonePlan, OpenSource, OpenTarget, Do,
       Annotated, Planned, Approved
  <2> QED BY <1>2, <2>1
<1>9. CASE Replug
  <2>1. replugs' # 0
    BY <1>1, <1>9 DEF Replug, TypeInv
  <2> QED BY <2>1 DEF DutyInv
<1>10. CASE CreatePagefile
  <2>1. step \notin Annotated /\ UNCHANGED step
    BY <1>10 DEF CreatePagefile, QuietHost
  <2> QED BY <1>3, <2>1
<1>11. CASE UNCHANGED vars
  BY <1>2, <1>11
<1> QED BY <1>4, <1>5, <1>6, <1>7, <1>8, <1>9, <1>10, <1>11 DEF Next, Proceed, Decide
-----------------------------------------------------------------------------
(* Refusals *)

\* Nothing happens once the process has exited.
LEMMA ExitIsFinal ==
  ASSUME exit # Running, [Next]_vars
  PROVE  UNCHANGED vars
BY DEF Next, Proceed, ReadCommandLine, ParseLine, TakeVerb, TakeNumber, TakeFlag, UnknownOption,
   EndOfOptions, EnsureElevated, EnablePrivilege, QueryNext, QueryFails, EndOfScan, Annotate,
   EnumerateVolumes, BuildClonePlan, Confirm, RevalidateSource, RevalidateTarget,
   RevalidateDiskIdentity, OpenSource, TakeSnapshot, OpenTarget, Replug, CreatePagefile, Do

\* A refusal of the plan has a cause, if the numbers have not changed.
LEMMA PlanRefusedForCause ==
  ASSUME IInv, step = "plan", Undisturbed, Refused \/ RefusedSniffing(at[opts.source])
  PROVE  CauseOfRefusal
<1> DEFINE s == at[opts.source]
           t == at[opts.target]
<1>1. TypeInv /\ ScanInv /\ DutyInv
  BY DEF IInv
<1>2. \A n \in DiskNumbers : listed[n] = IF Reachable(n) THEN at[n] ELSE NoDev
  BY <1>1, ScanIsComplete DEF Scanning
<1>3. SUFFICES ASSUME Reachable(opts.source), Reachable(opts.target),
                      ~((opts.expand \/ opts.newIds) /\ ~disk[s].windows),
                      ~(opts.expand /\ disk[t].size < disk[s].spread),
                      ~\E v \in volumes : t \in v.on /\ v.duty # {}
               PROVE  ~Clonable(s, t)
  BY DEF CauseOfRefusal
<1>4. /\ opts.source \in DiskNumbers /\ s # NoDev /\ listed[opts.source] = s
      /\ opts.target \in DiskNumbers /\ t # NoDev /\ listed[opts.target] = t
  BY <1>2, <1>3 DEF Reachable
<1>5. From = disk[s] /\ To = disk[t] /\ Listed(opts.source) /\ Listed(opts.target)
  BY <1>4 DEF From, To, Listed
<1>6. duty[opts.target] = {}
  <2>1. duty[opts.target] = DutiesOf(t)
    BY <1>1, <1>4 DEF DutyInv, Annotated
  <2>2. \A v \in volumes : On(v, t) => v.duty = {}
    BY <1>3 DEF On
  <2> QED BY <2>1, <2>2 DEF DutiesOf
<1>7. CASE opts.source = opts.target
  BY <1>7 DEF Clonable
<1>8. CASE Unreadable
  BY <1>5, <1>8 DEF Unreadable, Clonable
<1>9. CASE IsDynamic(From) \/ IsDynamic(To)
  BY <1>5, <1>9 DEF IsDynamic, Clonable
<1>10. CASE From.sector # To.sector
  BY <1>5, <1>10 DEF Clonable
<1>11. CASE From.table \in {"raw", "empty", "extended"}
  BY <1>5, <1>11 DEF Clonable
<1>12. CASE TooSmall
  <2>1. disk[s].need \in Nat /\ disk[t].size \in Nat
    <3>1. s \in Dev /\ t \in Dev
      BY <1>1, <1>4 DEF TypeInv, TypeOK
    <3>2. disk[s] \in Facts /\ disk[t] \in Facts
      BY <1>1, <3>1 DEF TypeInv, TypeOK
    <3> QED BY <3>2 DEF Facts
  <2> QED BY <1>5, <1>12, <2>1 DEF TooSmall, Clonable
<1>13. CASE RefusedSniffing(s)
  BY <1>3, <1>4, <1>13 DEF RefusedSniffing, Clonable
<1>14. CASE DoesNotFit
  BY <1>3, <1>5, <1>14 DEF DoesNotFit
<1> QED BY <1>5, <1>6, <1>7, <1>8, <1>9, <1>10, <1>11, <1>12, <1>13, <1>14 DEF Refused

\* Nothing is refused without a cause.
LEMMA RefusalKeeps ==
  ASSUME QuietHost, IInv, [Next]_vars
  PROVE  RefusedForCause'
<1>1. TypeInv /\ ScanInv /\ PlanInv
  BY DEF IInv
<1>2. CASE exit # Running \/ UNCHANGED vars
  <2>1. UNCHANGED vars /\ RefusedForCause
    BY <1>2, ExitIsFinal DEF IInv
  <2> QED BY <2>1 DEF RefusedForCause, CauseOfRefusal, Reachable, Clonable
<1>3. CASE exit' # 3
  BY <1>3 DEF RefusedForCause
<1>4. CASE Leave(3) /\ (Undisturbed => CauseOfRefusal)
  <2>1. UNCHANGED <<lineVars, machineVars, plugVars>>
    BY <1>4, LeaveFrame
  <2> QED BY <1>4, <2>1 DEF RefusedForCause, CauseOfRefusal, Reachable, Clonable
<1>5. CASE exit = Running /\ UNCHANGED exit
  BY <1>3, <1>5, RunningAssumption DEF Codes
<1>6. CASE exit = Running /\ QueryFails
  <2>1. Undisturbed => CauseOfRefusal
    BY <1>6 DEF QueryFails, CauseOfRefusal
  <2> QED BY <1>4, <1>6, <2>1 DEF QueryFails
<1>7. CASE exit = Running /\ Annotate
  <2>1. CASE "system" \notin named /\ Leave(3)
    <3>1. CauseOfRefusal
      BY <2>1 DEF CauseOfRefusal
    <3> QED BY <1>4, <2>1, <3>1
  <2> QED BY <1>5, <1>7, <2>1 DEF Annotate, Goto
<1>8. CASE exit = Running /\ BuildClonePlan
  <2>1. CASE Refused \/ RefusedSniffing(at[opts.source])
    <3>1. step = "plan" /\ Leave(3)
      BY <1>8, <2>1 DEF BuildClonePlan, Do
    <3>2. Undisturbed => CauseOfRefusal
      BY <2>1, <3>1, PlanRefusedForCause
    <3> QED BY <1>4, <3>1, <3>2
  <2>2. CASE ~(Refused \/ RefusedSniffing(at[opts.source]))
    BY <1>4, <1>5, <1>8, <2>2 DEF BuildClonePlan, PlanFails, Goto
  <2> QED BY <2>1, <2>2
<1>9. ASSUME NEW n \in {opts.source, opts.target}, step \in Planned,
             ~SameDisk(n) \/ at[n] = NoDev \/ faulty, Leave(3)
      PROVE  RefusedForCause'
  <2>1. Listed(n)
    BY <1>1, <1>9 DEF PlanInv, Refused
  <2>2. ASSUME Undisturbed PROVE CauseOfRefusal
    <3>1. n \in DiskNumbers /\ listed[n] = IF Reachable(n) THEN at[n] ELSE NoDev
      BY <1>1, <1>9, <2>1, <2>2, ScanIsComplete DEF Listed, Planned, Approved, Scanning
    <3>2. at[n] = listed[n] /\ at[n] # NoDev
      BY <2>1, <3>1 DEF Listed
    <3>3. ~disk[at[n]].geometry
      BY <1>9, <2>2, <3>2 DEF SameDisk
    <3> QED BY <3>1, <3>2, <3>3 DEF CauseOfRefusal
  <2> QED BY <1>4, <1>9, <2>2
<1>10. CASE exit = Running /\ (RevalidateSource \/ RevalidateTarget)
  BY <1>5, <1>9, <1>10 DEF RevalidateSource, RevalidateTarget, RevalidateDiskIdentity, Do, Pass,
     Goto, Planned, Approved
<1>11. CASE exit = Running /\ (OpenSource \/ OpenTarget)
  BY <1>5, <1>9, <1>11 DEF OpenSource, OpenTarget, Do, Goto, Planned, Approved
<1>12. CASE exit = Running /\ ReadCommandLine
  BY <1>3, <1>5, <1>12, LineFrame
<1>13. CASE exit = Running /\ (EnsureElevated \/ EnablePrivilege \/ EndOfScan \/ EnumerateVolumes
          \/ Confirm \/ TakeSnapshot)
  BY <1>3, <1>5, <1>13, LeaveFrame DEF EnsureElevated, EnablePrivilege, EndOfScan,
     EnumerateVolumes, Confirm, TakeSnapshot, Pass, Goto
<1>14. CASE exit = Running /\ (QueryNext \/ Replug \/ CreatePagefile)
  BY <1>5, <1>14 DEF QueryNext, Replug, CreatePagefile
<1> QED
  BY <1>2, <1>6, <1>7, <1>8, <1>10, <1>11, <1>12, <1>13, <1>14 DEF Next, Proceed
-----------------------------------------------------------------------------
(* The invariant, and what was looked up on a disk that stays. *)

\* Initially nothing is listed, planned or opened.
LEMMA InitIInv == Init => IInv
<1> SUFFICES ASSUME Init PROVE IInv
  OBVIOUS
<1>1. TypeInv /\ LineInv /\ TokenInv /\ MachineInv
  BY InitTypes, InitMachine
<1>2. /\ step = "verb" /\ exit = Running /\ num = 0 /\ misses = 0
      /\ listed = [n \in DiskNumbers |-> NoDev] /\ target = NoDev /\ sourceDisk = NoDev
  BY DEF Init, InitLine
<1>3. PICK N \in 0..255 : DiskNumbers = 0..N
  BY NumberAssumption
<1>4. ScanInv
  BY <1>2, <1>3 DEF ScanInv, Scanning
<1>5. PlanInv /\ OpenInv /\ DutyInv
  BY <1>2 DEF PlanInv, OpenInv, DutyInv, Annotated, Planned, Approved
<1>6. RefusedForCause
  BY <1>2, RunningAssumption DEF RefusedForCause, Codes
<1> QED BY <1>1, <1>4, <1>5, <1>6 DEF IInv

\* What every state satisfies, whatever is replugged before the approval.
THEOREM Invariance ==
  ASSUME QuietHost
  PROVE  Spec => []IInv
<1>1. Init => IInv
  BY InitIInv
<1>2. IInv /\ [Next]_vars => IInv'
  <2> SUFFICES ASSUME IInv, [Next]_vars PROVE IInv'
    OBVIOUS
  <2> QED
    BY LineKeeps, TypesKeep, TokenKeeps, MachineKeeps, ScanKeeps, PlanKeeps, OpenKeeps, DutyKeeps,
       RefusalKeeps
    DEF IInv
<1> QED BY <1>1, <1>2, PTL DEF Spec

\* What was read by number was read from the listed disk, if its number
\* denotes it (again it could not: NoReturn).
LEMMA SeenKeeps ==
  ASSUME QuietHost, IInv, SeenInv, [Next]_vars, [NoReturn]_vars
  PROVE  SeenInv'
<1>1. TypeInv /\ PlanInv
  BY DEF IInv
<1>2. CASE /\ UNCHANGED <<opts, listed, duty, volumes, named, mapped, sniffed>>
           /\ \A n \in DiskNumbers : listed[n] # NoDev /\ at'[n] = listed[n] => at[n] = listed[n]
           /\ UNCHANGED step \/ step \in Planned \/ (step = "annotate" /\ step' \notin Annotated)
  <2>1. \A d : DutiesOf(d)' = DutiesOf(d)
    BY <1>2 DEF DutiesOf, On, Recognized
  <2>2. step \in Planned => Listed(opts.source)
    BY <1>1 DEF PlanInv, Refused
  <2>3. \A n \in DiskNumbers : step' \in Annotated /\ listed'[n] # NoDev /\ at'[n] = listed'[n] =>
          duty'[n] = DutiesOf(listed[n])'
    BY <1>2, <2>1 DEF SeenInv, Annotated
  <2>4. step' \in {"plan"} \cup Planned => step \in {"plan"} \cup Planned
    BY <1>2 DEF Annotated
  <2>5. step' \in Planned => step \in Planned
    BY <1>2 DEF Annotated
  <2>6. (step \in {"plan"} \cup Planned /\ Listed(opts.source)
          /\ at[opts.source] = listed[opts.source] => mapped = listed[opts.source])'
    BY <1>2, <2>4 DEF SeenInv, Listed
  <2>7. (step \in Planned /\ at[opts.source] = listed[opts.source] =>
          sniffed = listed[opts.source])'
    BY <1>2, <2>2, <2>5 DEF SeenInv, Listed
  <2> QED BY <2>3, <2>6, <2>7 DEF SeenInv
<1>3. CASE step' \notin Annotated
  BY <1>3 DEF SeenInv, Annotated
<1>4. CASE \E code : Leave(code)
  BY <1>2, <1>4, LeaveFrame
<1>5. CASE ReadCommandLine
  <2>1. step \notin Annotated
    BY <1>5 DEF ReadCommandLine, ParseLine, TakeVerb, TakeNumber, TakeFlag, UnknownOption,
       EndOfOptions, Do, Annotated, Planned, Approved
  <2>2. UNCHANGED step \/ step' \in Scanning
    BY <1>5, LineFrame DEF Scanning
  <2> QED BY <1>3, <2>1, <2>2 DEF Scanning, Annotated, Planned, Approved
<1>6. CASE Decide
  <2>1. UNCHANGED <<opts, listed, duty, volumes, named, mapped, sniffed, at>>
    BY <1>6, DecideFrame
  <2>2. UNCHANGED step \/ step' \in {"privileges", "enumerate", "annotate"} \/ step \in Planned
    BY <1>6 DEF Decide, EnsureElevated, QueryFails, EndOfScan, Confirm, RevalidateSource,
       RevalidateTarget, RevalidateDiskIdentity, TakeSnapshot, Do, Pass, Goto, Leave, Exit,
       Planned, Approved
  <2> QED BY <1>2, <1>3, <2>1, <2>2 DEF Annotated, Planned, Approved
<1>7. CASE EnablePrivilege \/ QueryNext
  <2>1. step' \notin Annotated
    BY <1>7, LeaveFrame DEF EnablePrivilege, QueryNext, Pass, Goto, Do, Annotated, Planned, Approved
  <2> QED BY <1>3, <2>1
<1>8. CASE Annotate /\ ~Leave(3)
  <2>1. /\ duty' = [n \in DiskNumbers |->
              IF listed[n] # NoDev /\ at[n] # NoDev THEN DutiesOf(at[n]) ELSE {}]
        /\ step' = "volumes" /\ UNCHANGED <<listed, volumes, named, at>>
    BY <1>8 DEF Annotate, Goto
  <2>2. \A d : DutiesOf(d)' = DutiesOf(d)
    BY <2>1 DEF DutiesOf, On, Recognized
  <2> QED BY <2>1, <2>2 DEF SeenInv, Planned, Approved
<1>9. CASE EnumerateVolumes /\ ~Leave(0)
  <2>1. /\ mapped' = IF opts.source \in DiskNumbers THEN at[opts.source] ELSE NoDev
        /\ step = "volumes" /\ step' = "plan"
        /\ UNCHANGED <<opts, listed, duty, volumes, named, at>>
    BY <1>9 DEF EnumerateVolumes, Goto, Do
  <2>2. \A d : DutiesOf(d)' = DutiesOf(d)
    BY <2>1 DEF DutiesOf, On, Recognized
  <2> QED BY <2>1, <2>2 DEF SeenInv, Listed, Annotated, Planned, Approved
<1>10. CASE BuildClonePlan /\ ~Leave(3)
  <2>1. /\ sniffed' = at[opts.source]
        /\ step = "plan" /\ step' = "confirm"
        /\ UNCHANGED <<opts, listed, duty, volumes, named, at, mapped>>
    BY <1>10 DEF BuildClonePlan, Goto, Do
  <2>2. \A d : DutiesOf(d)' = DutiesOf(d)
    BY <2>1 DEF DutiesOf, On, Recognized
  <2> QED BY <2>1, <2>2 DEF SeenInv, Listed, Annotated, Planned, Approved
<1>11. CASE OpenSource \/ OpenTarget
  <2>1. UNCHANGED <<opts, listed, duty, volumes, named, mapped, sniffed, at>> /\ step \in Planned
    BY <1>11, LeaveFrame DEF OpenSource, OpenTarget, Do, Planned, Approved
  <2> QED BY <1>2, <2>1
<1>12. CASE Replug
  <2>1. UNCHANGED <<opts, step, listed, duty, volumes, named, mapped, sniffed>> /\ replugs' # replugs
    BY <1>1, <1>12 DEF Replug, TypeInv
  <2>2. NoReturn
    BY <2>1
  <2> QED BY <1>2, <2>1, <2>2 DEF NoReturn
<1>13. CASE CreatePagefile
  <2>1. step \notin Annotated /\ UNCHANGED step
    BY <1>13 DEF CreatePagefile, QuietHost
  <2> QED BY <1>3, <2>1
<1>14. CASE UNCHANGED vars
  BY <1>2, <1>14
<1> QED
  BY <1>4, <1>5, <1>6, <1>7, <1>8, <1>9, <1>10, <1>11, <1>12, <1>13, <1>14
  DEF Next, Proceed, Decide

\* SeenInv holds as long as no disk comes back to a number it had left.
LEMMA Seen ==
  ASSUME QuietHost
  PROVE  Spec /\ [][NoReturn]_vars => []SeenInv
<1>1. Init => SeenInv
  BY DEF Init, InitLine, SeenInv, Annotated, Planned, Approved
<1>2. IInv /\ SeenInv /\ [Next]_vars /\ [NoReturn]_vars => SeenInv'
  BY SeenKeeps
<1> QED BY <1>1, <1>2, Invariance, PTL DEF Spec

\* Disks that change their numbers once do not come back.
LEMMA OnceIsNoReturn ==
  ASSUME QuietHost, Replugs <= 1
  PROVE  Spec => [][NoReturn]_vars
<1>1. IInv /\ [Next]_vars => [NoReturn]_vars
  <2> SUFFICES ASSUME IInv, Next PROVE NoReturn
    BY DEF NoReturn
  <2>1. CASE UNCHANGED at
    BY <2>1 DEF NoReturn
  <2>2. CASE Replug
    <3>1. replugs = 0
      BY <2>2, NumberAssumption DEF Replug, IInv, TypeInv
    <3> QED BY <3>1 DEF IInv, ScanInv, NoReturn
  <2>3. CASE ~Replug
    <3>1. CASE ReadCommandLine
      BY <2>1, <3>1, LineFrame
    <3>2. CASE Decide
      BY <2>1, <3>2, DecideFrame
    <3>3. CASE EnablePrivilege \/ QueryNext \/ Annotate \/ EnumerateVolumes \/ BuildClonePlan
            \/ OpenSource \/ OpenTarget \/ CreatePagefile
      BY <2>1, <3>3, LeaveFrame DEF EnablePrivilege, QueryNext, Annotate, EnumerateVolumes,
         BuildClonePlan, OpenSource, OpenTarget, CreatePagefile, Pass
    <3> QED BY <2>3, <3>1, <3>2, <3>3 DEF Next, Proceed, Decide
  <2> QED BY <2>2, <2>3
<1> QED BY <1>1, Invariance, PTL DEF Spec
-----------------------------------------------------------------------------
(* The theorems *)

\* The disks that are opened are the listed ones; the plan was not refused.
LEMMA WhenOpened ==
  ASSUME IInv, Opened
  PROVE  /\ step = "opened" /\ ~Refused
         /\ sourceDisk = listed[opts.source] /\ at[opts.source] = listed[opts.source]
         /\ target = listed[opts.target] /\ at[opts.target] = listed[opts.target]
         /\ opts.source \in DiskNumbers /\ opts.target \in DiskNumbers
         /\ sourceDisk \in Dev /\ target \in Dev /\ sourceDisk # target
         /\ From = disk[sourceDisk] /\ To = disk[target]
         /\ disk[sourceDisk] \in Facts /\ disk[target] \in Facts
<1>1. step = "opened"
  BY DEF Opened, IInv, OpenInv
<1>2. /\ ~Refused
      /\ sourceDisk = listed[opts.source] /\ at[opts.source] = listed[opts.source]
      /\ target = listed[opts.target] /\ at[opts.target] = listed[opts.target]
  BY <1>1 DEF IInv, PlanInv, OpenInv, Planned, Approved
<1>3. Listed(opts.source) /\ Listed(opts.target) /\ opts.source # opts.target
  BY <1>2 DEF Refused
<1>4. sourceDisk \in Dev /\ target \in Dev
  BY <1>2, <1>3 DEF Listed, IInv, TypeInv, TypeOK
<1>5. sourceDisk # target
  BY <1>2, <1>3 DEF Listed, IInv, MachineInv, LegalMachine
<1>6. disk[sourceDisk] \in Facts /\ disk[target] \in Facts
  BY <1>4 DEF IInv, TypeInv, TypeOK
<1> QED BY <1>1, <1>2, <1>3, <1>4, <1>5, <1>6 DEF Listed, From, To

\* The partition table, the volumes and the file systems of the plan were read
\* from one disk, the one that is copied, although BuildClonePlan, the
\* enumerations and the opening look it up by number one after another.
THEOREM PlanIsOfOneDisk ==
  ASSUME QuietHost
  PROVE  Spec /\ [][NoReturn]_vars => []PlanOfOneDisk
<1>1. IInv /\ SeenInv => PlanOfOneDisk
  <2> SUFFICES ASSUME IInv, SeenInv, Opened PROVE PlanOfOneDisk
    BY DEF PlanOfOneDisk
  <2>1. /\ step = "opened" /\ ~Refused
        /\ sourceDisk = listed[opts.source] /\ at[opts.source] = listed[opts.source]
    BY WhenOpened
  <2>2. Listed(opts.source)
    BY <2>1 DEF Refused
  <2> QED BY <2>1, <2>2 DEF SeenInv, PlanOfOneDisk, Planned, Approved
<1> QED BY <1>1, Invariance, Seen, PTL

\* The disks that are opened may be cloned: what was refused by number holds of
\* the disks behind the handles.
THEOREM PairIsSafe ==
  ASSUME QuietHost
  PROVE  Spec /\ [][NoReturn]_vars => []SafePair
<1>1. IInv /\ SeenInv => SafePair
  <2> SUFFICES ASSUME IInv, SeenInv, Opened PROVE Clonable(sourceDisk, target)
    BY DEF SafePair
  <2>1. /\ step = "opened" /\ ~Refused
        /\ sourceDisk = listed[opts.source] /\ at[opts.source] = listed[opts.source]
        /\ sourceDisk # target
        /\ From = disk[sourceDisk] /\ To = disk[target]
        /\ disk[sourceDisk] \in Facts /\ disk[target] \in Facts
    BY WhenOpened
  <2>2. ~disk[sourceDisk].bitlocker
    BY <2>1 DEF SeenInv, IInv, PlanInv, Planned, Approved
  <2>3. /\ disk[sourceDisk].table = "basic"
        /\ disk[target].table # "unreadable"
        /\ ~disk[sourceDisk].dynamic /\ ~disk[target].dynamic
    BY <2>1 DEF Refused, Unreadable, IsDynamic, Facts, Tables
  <2>4. disk[sourceDisk].sector = disk[target].sector
    BY <2>1 DEF Refused
  <2>5. disk[target].size >= disk[sourceDisk].need
    BY <2>1 DEF Refused, TooSmall, Facts
  <2> QED BY <2>1, <2>2, <2>3, <2>4, <2>5 DEF Clonable
<1> QED BY <1>1, Invariance, Seen, PTL

\* No disk that this machine runs from is opened as the target, although the
\* annotation is blind to volumes with several extents.
THEOREM TargetIsOutOfUse ==
  ASSUME QuietHost
  PROVE  Spec /\ [][NoReturn]_vars => []TargetServesNobody
<1>1. IInv /\ SeenInv => TargetServesNobody
  <2> SUFFICES ASSUME IInv, SeenInv, Opened,
                      NEW v \in volumes, v.resolved, target \in v.on
               PROVE  v.duty \cap Recognized = {}
    BY DEF TargetServesNobody
  <2>1. /\ step = "opened" /\ ~Refused
        /\ target = listed[opts.target] /\ at[opts.target] = listed[opts.target]
        /\ opts.target \in DiskNumbers /\ target \in Dev
        /\ To = disk[target] /\ disk[target] \in Facts
    BY WhenOpened
  <2>2. v.single /\ v.on = {target}
    <3>1. ~disk[target].dynamic
      BY <2>1 DEF Refused, Unreadable, IsDynamic
    <3> QED BY <3>1 DEF IInv, MachineInv, LegalMachine
  <2>3. duty[opts.target] = {} /\ duty[opts.target] = DutiesOf(target)
    BY <2>1, DevAssumption DEF SeenInv, Refused, Annotated, Planned, Approved
  <2> QED BY <2>2, <2>3 DEF DutiesOf, On
<1> QED BY <1>1, Invariance, Seen, PTL

\* All three without the condition, when disks change their numbers only once.
COROLLARY AfterOneReplug ==
  ASSUME QuietHost, Replugs <= 1
  PROVE  Spec => [](PlanOfOneDisk /\ SafePair /\ TargetServesNobody)
BY OnceIsNoReturn, PlanIsOfOneDisk, PairIsSafe, TargetIsOutOfUse, PTL

\* Gaps in the numbering are tolerated for any number of disks and any gap that
\* ends the scan: EnumerateDisks lists every reachable disk, as long as disks
\* can be opened.
THEOREM EveryDiskIsListed ==
  ASSUME QuietHost
  PROVE  Spec => []ListsEveryDisk
<1>1. IInv => ListsEveryDisk
  BY ScanIsComplete DEF IInv, ListsEveryDisk, Scanning
<1> QED BY <1>1, Invariance, PTL

\* Each refusal (exit 3) of an undisturbed machine, from QueryDisk to the two
\* openings, has one of the causes named: a pair that --expand can lay out and
\* that may be cloned is refused only if a call to the system fails.
THEOREM RefusalsHaveCause ==
  ASSUME QuietHost
  PROVE  Spec => []RefusedForCause
<1>1. IInv => RefusedForCause
  BY DEF IInv
<1> QED BY <1>1, Invariance, PTL

\* The text that was given last for a role is the one whose number was taken.
LEMMA LastTaken ==
  ASSUME TypeInv, LineInv, i > Len(argv), NEW role \in Roles, opts[role] # NoNumber
  PROVE  /\ LastGiven(role) \in Texts
         /\ opts[role] = ParseDiskNumber(LastGiven(role))
<1>1. argv \in Seq(Texts) /\ Len(argv) \in Nat /\ i - 1 = Len(argv)
  BY DEF TypeInv
<1>2. PICK k \in 2..Len(argv) :
        /\ argv[k - 1].word = role
        /\ opts[role] = ParseDiskNumber(argv[k])
        /\ \A l \in (k + 1)..Len(argv) : argv[l - 1].word # role
  BY <1>1 DEF LineInv
<1>3. IsValue(k)
  <2>1. ASSUME k > 2 PROVE argv[k - 2].word \notin Roles
    <3>1. k - 1 \in 2..(i - 1) /\ (k - 1) - 1 = k - 2
      BY <1>1, <2>1
    <3>2. argv[k - 2].word \in Roles => argv[k - 1].word = "number"
      BY <3>1 DEF LineInv, Taken
    <3> QED BY <1>2, <3>2 DEF Roles
  <2> QED BY <1>1, <1>2, <2>1, ValueOfOption
<1>4. k \in GivenFor(role)
  BY <1>2, <1>3 DEF GivenFor
<1>5. \A l \in GivenFor(role) : l \in 2..Len(argv) /\ argv[l - 1].word = role
  BY DEF GivenFor
<1>6. \A l \in GivenFor(role) : l <= k
  BY <1>1, <1>2, <1>5
<1> DEFINE last == CHOOSE q \in GivenFor(role) : \A l \in GivenFor(role) : l <= q
<1>7. last \in GivenFor(role) /\ \A l \in GivenFor(role) : l <= last
  BY <1>4, <1>6
<1>8. last = k
  <2>1. last <= k /\ k <= last /\ last \in 2..Len(argv)
    BY <1>4, <1>5, <1>6, <1>7
  <2> HIDE DEF last
  <2> QED BY <1>1, <2>1
<1>9. LastGiven(role) = argv[k]
  BY <1>8 DEF LastGiven
<1> QED BY <1>1, <1>2, <1>9

\* What is opened was asked for, by the last number given for each role, and
\* by a caller that is elevated and has every privilege enabled (wmain,
\* EnsureElevated, EnablePrivilege).
THEOREM OnlyWhatWasAsked ==
  ASSUME QuietHost
  PROVE  Spec => []AsAsked
<1>1. IInv => AsGiven
  <2> SUFFICES ASSUME IInv, Opened, NEW role \in Roles
               PROVE  LET text == LastGiven(role)
                      IN  /\ text.word = "number" /\ text.after # "other" /\ text.digits < Long
                          /\ ReadsAs(text, opts[role])
    BY DEF AsGiven
  <2>1. step = "opened" /\ TypeInv /\ LineInv /\ TokenInv
    BY WhenOpened DEF IInv
  <2>2. i > Len(argv) /\ opts[role] # NoNumber
    BY <2>1 DEF LineInv, TokenInv, Roles, Planned, Approved
  <2>3. LastGiven(role) \in Texts /\ opts[role] = ParseDiskNumber(LastGiven(role))
    BY <2>1, <2>2, LastTaken
  <2> QED BY <2>2, <2>3, ParsedNumber
<1>2. IInv => Privileged
  <2>1. ASSUME IInv, verb = "clone", step \notin {"verb", "options", "elevate", "privileges"}
        PROVE  elevated /\ enabled = {Privileges[k] : k \in DOMAIN Privileges}
    <3>1. elevated /\ asked = Len(Privileges) /\ enabled = {Privileges[k] : k \in 1..asked}
      BY <2>1 DEF IInv, TokenInv
    <3>2. DOMAIN Privileges = 1..Len(Privileges)
      BY DEF Privileges
    <3> QED BY <3>1, <3>2
  <2> QED BY <2>1 DEF Privileged
<1>3. IInv => TypeOK
  BY DEF IInv, TypeInv
<1> QED BY <1>1, <1>2, <1>3, Invariance, PTL DEF AsAsked
-----------------------------------------------------------------------------
(* The steps of SafetyGauntlet are steps of CmdClone. *)

\* The two numbers of the plan never denote one disk under the names that
\* CmdClone knows.
LEMMA NumbersTellApart ==
  IInv => /\ CloneAt \in [Roles -> Names \cup {NoDev}]
          /\ CloneAt["source"] = CloneAt["target"] => CloneAt["source"] = NoDev
<1> SUFFICES ASSUME IInv
             PROVE  /\ CloneAt \in [Roles -> Names \cup {NoDev}]
                    /\ CloneAt["source"] = CloneAt["target"] => CloneAt["source"] = NoDev
  OBVIOUS
<1>1. \A role \in Roles : \A d : Name(role, d) \in Names \cup {NoDev}
  BY DEF Name, Other, Names, Roles
<1>2. CloneAt \in [Roles -> Names \cup {NoDev}]
  BY <1>1 DEF CloneAt, Names
<1>3. CASE ~BothListed
  <2>1. CloneAt["source"] = "source" /\ CloneAt["target"] = "target"
    BY <1>3 DEF CloneAt, Roles
  <2>2. CloneAt["source"] # CloneAt["target"]
    BY <2>1
  <2> QED BY <1>2, <2>2
<1>4. CASE BothListed
  <2> DEFINE s == at[opts.source]
             t == at[opts.target]
  <2>1. s # t \/ s = NoDev
    BY <1>4 DEF BothListed, Listed, IInv, MachineInv, LegalMachine
  <2>2. CloneAt["source"] = Name("source", s) /\ CloneAt["target"] = Name("target", t)
    BY <1>4 DEF CloneAt, Roles
  <2>3. NoDev \notin {"source", "target", "strange source", "strange target"}
    BY DevAssumption DEF Names, Roles, Strange
  <2>4. s # NoDev /\ Name("source", s) = Name("target", t) => FALSE
    BY <2>1, <2>3 DEF Name, Other, Strange
  <2>5. s = NoDev => Name("source", s) = NoDev
    BY DEF Name
  <2> HIDE DEF s, t
  <2>6. CloneAt["source"] = CloneAt["target"] => CloneAt["source"] = NoDev
    BY <2>2, <2>4, <2>5
  <2> QED BY <1>2, <2>6
<1> QED BY <1>2, <1>3, <1>4

\* A flag that CmdClone is given is one the loop over the options has met.
LEMMA FlagsAreGiven ==
  ASSUME TypeInv, LineInv, i > Len(argv), NEW f \in Flags
  PROVE  opts[f] <=> Given(f)
<1>1. argv \in Seq(Texts) /\ Len(argv) \in Nat /\ i - 1 = Len(argv) /\ DOMAIN argv = 1..Len(argv)
  BY DEF TypeInv
<1>2. opts[f] <=> \E k \in 1..Len(argv) : argv[k].word = f
  BY <1>1 DEF LineInv
<1>3. ASSUME NEW k \in 1..Len(argv), argv[k].word = f PROVE ~IsValue(k)
  <2>1. ASSUME k > 1 PROVE argv[k - 1].word \notin Roles
    <3>1. k \in 2..(i - 1) /\ argv[k].word # "number"
      BY <1>1, <1>3, <2>1 DEF Flags
    <3> QED BY <3>1 DEF LineInv, Taken
  <2> QED BY <1>1, <2>1, NoValue
<1> QED BY <1>1, <1>2, <1>3 DEF Given

\* What CmdClone sees of the disks before they are opened.
SeenByClone == <<opts, argv, verb, listed, at, sourceDisk, target>>

\* A step that leaves all that alone and goes on within one of CmdClone's.
LEMMA CloneStutters ==
  ASSUME UNCHANGED <<CloneOpts, CloneAt, CloneSource, CloneTarget, CloneStep, CloneExit, CloneSaid>>
  PROVE  UNCHANGED Clone!vars
BY DEF Clone!vars, Clone!devVars, Clone!envVars, Clone!openVars, Clone!diskVars, Clone!flagVars,
   Clone!copyVars

\* What CmdClone's state is read from.
LEMMA SameForClone ==
  ASSUME UNCHANGED SeenByClone
  PROVE  UNCHANGED <<CloneOpts, CloneAt, CloneSource, CloneTarget>>
<1>1. /\ UNCHANGED CloneOpts
  BY DEF SeenByClone, CloneOpts, Given, IsValue
<1>2. UNCHANGED BothListed /\ \A role \in Roles : \A d : Name(role, d)' = Name(role, d)
  BY DEF SeenByClone, BothListed, Listed, Name, Other
<1>3. UNCHANGED CloneAt
  BY <1>2 DEF SeenByClone, CloneAt
<1>4. UNCHANGED CloneSource /\ UNCHANGED CloneTarget
  BY <1>2 DEF SeenByClone, CloneSource, CloneTarget, Roles
<1> QED BY <1>1, <1>3, <1>4

\* An exit of the program is one of CmdClone, with the same code.
LEMMA LeaveSeen ==
  ASSUME exit = Running, verb = "clone", NEW code \in Codes \ {1}, Leave(code)
  PROVE  /\ UNCHANGED <<CloneOpts, CloneAt, CloneSource, CloneTarget, CloneStep>>
         /\ CloneExit = Running /\ CloneExit' = code
         /\ CloneSaid = [disk |-> "nothing", offline |-> FALSE, swap |-> "nothing"]
         /\ CloneSaid' = [disk |-> IF code = 3 /\ step = "openTarget"
                                   THEN "not modified" ELSE "nothing",
                          offline |-> FALSE, swap |-> "nothing"]
<1>1. /\ exit' = code
      /\ UNCHANGED <<step, lineVars, machineVars, plugVars, tokenVars, scanVars, planVars, openVars>>
  BY LeaveFrame
<1>2. UNCHANGED SeenByClone
  BY <1>1 DEF SeenByClone
<1>3. UNCHANGED CloneStep
  BY <1>1 DEF CloneStep
<1>4. exit # 3 /\ exit # 1
  BY RunningAssumption DEF Codes
<1> QED BY <1>1, <1>2, <1>3, <1>4, SameForClone DEF CloneExit, CloneSaid

\* A step that goes on changes nothing that CmdClone sees but control.
LEMMA GoesOn ==
  ASSUME exit = Running, UNCHANGED exit, UNCHANGED SeenByClone
  PROVE  UNCHANGED <<CloneOpts, CloneAt, CloneSource, CloneTarget, CloneExit, CloneSaid>>
<1>1. UNCHANGED CloneExit
  BY DEF SeenByClone, CloneExit
<1>2. exit # 3
  BY RunningAssumption DEF Codes
<1>3. UNCHANGED CloneSaid
  BY <1>2 DEF CloneSaid
<1> QED BY <1>1, <1>3, SameForClone

\* Disks that change their numbers, or are found out to be others than CmdClone
\* was told, are swapped in CmdClone.
LEMMA SwapSeen ==
  ASSUME IInv, IInv', exit = Running, UNCHANGED <<exit, step, opts, argv, verb>>,
         CloneStep \in {"plan", "confirm"},
         UNCHANGED <<CloneSource, CloneTarget>>
  PROVE  Clone!Next
<1>1. CloneAt' \in {n \in [Roles -> Names \cup {NoDev}] : n["source"] = n["target"] => n["source"] = NoDev}
  <2>1. (/\ CloneAt \in [Roles -> Names \cup {NoDev}]
         /\ CloneAt["source"] = CloneAt["target"] => CloneAt["source"] = NoDev)'
    BY NumbersTellApart, PTL
  <2> QED BY <2>1
<1>2. UNCHANGED <<CloneOpts, CloneStep, CloneExit, CloneSaid>> /\ CloneExit = Running
  <2>1. exit # 3
    BY RunningAssumption DEF Codes
  <2> QED BY <2>1 DEF CloneOpts, Given, IsValue, CloneStep, CloneExit, CloneSaid
<1>3. Clone!SwapDisk
  BY <1>1, <1>2 DEF Clone!SwapDisk, Clone!Numbers, Clone!Roles, Roles, Clone!devVars,
     Clone!openVars, Clone!diskVars, Clone!flagVars, Clone!copyVars
<1> QED BY <1>3 DEF Clone!Next

\* The steps up to the plan are the first one of CmdClone.
LEMMA LeavesPlan ==
  ASSUME exit = Running, verb = "clone", CloneStep = "plan", NEW code \in {2, 3}, Leave(code)
  PROVE  Clone!Next
<1>1. step # "openTarget"
  BY DEF CloneStep
<1>2. code \in Codes \ {1}
  BY DEF Codes
<1>3. /\ UNCHANGED <<CloneOpts, CloneAt, CloneSource, CloneTarget, CloneStep, CloneSaid>>
      /\ CloneExit = Running /\ CloneExit' = code
  BY <1>1, <1>2, LeaveSeen
<1>4. Clone!Do("plan") /\ Clone!Exit({2, 3, 5})
  BY <1>3 DEF Clone!Do, Clone!Exit, Clone!devVars, Clone!envVars, Clone!openVars,
     Clone!diskVars, Clone!flagVars, Clone!copyVars
<1> QED BY <1>4 DEF Clone!Next, Clone!Proceed, Clone!BuildPlan

\* Up to the plan: CmdClone leaves with the same code, or its numbers turn out
\* to be swapped, or it does nothing.
LEMMA ScanImplements ==
  ASSUME IInv, IInv', exit = Running,
         ReadCommandLine \/ EnsureElevated \/ EnablePrivilege \/ QueryNext \/ QueryFails
           \/ EndOfScan \/ Annotate \/ EnumerateVolumes
  PROVE  [Clone!Next]_(Clone!vars)
<1>1. CloneStep = "plan"
  BY DEF CloneStep, ReadCommandLine, ParseLine, TakeVerb, TakeNumber, TakeFlag, UnknownOption,
     EndOfOptions, EnsureElevated, EnablePrivilege, QueryNext, QueryFails, EndOfScan, Annotate,
     EnumerateVolumes, Do
<1>2. CASE UNCHANGED <<SeenByClone, exit>> /\ CloneStep' = "plan"
  BY <1>1, <1>2, GoesOn, CloneStutters
<1>3. CASE \E code \in {2, 3} : Leave(code)
  <2>1. PICK code \in {2, 3} : Leave(code)
    BY <1>3
  <2>2. CASE verb = "clone"
    BY <1>1, <2>1, <2>2, LeavesPlan
  <2>3. CASE verb # "clone"
    <3>1. UNCHANGED SeenByClone /\ UNCHANGED step
      BY <2>1, LeaveFrame DEF SeenByClone
    <3>2. UNCHANGED CloneExit
      BY <2>3, <3>1 DEF CloneExit, SeenByClone
    <3>3. step # "openTarget"
      BY <1>1 DEF CloneStep
    <3>4. UNCHANGED <<CloneStep, CloneSaid>>
      BY <3>1, <3>3 DEF CloneStep, CloneSaid, SeenByClone
    <3> QED BY <3>1, <3>2, <3>4, SameForClone, CloneStutters
  <2> QED BY <2>2, <2>3
<1>4. CASE ReadCommandLine
  <2>1. step \in {"verb", "options"} /\ step' \in {"verb", "options", "enumerate", "elevate"}
    BY <1>4 DEF ReadCommandLine, ParseLine, TakeVerb, TakeNumber, TakeFlag, UnknownOption,
       EndOfOptions, Do, Goto, Exit
  <2>2. num = 0 /\ \A n \in DiskNumbers : listed[n] = NoDev
    <3>1. PICK N \in 0..255 : DiskNumbers = 0..N
      BY NumberAssumption
    <3> QED BY <2>1, <3>1 DEF IInv, ScanInv
  <2>3. UNCHANGED <<verb, argv, listed, at, sourceDisk, target>>
    BY <1>4, LineFrame
  <2>4. BothListed = FALSE /\ BothListed' = FALSE
    BY <2>2, <2>3 DEF BothListed, Listed
  <2>5. sourceDisk = NoDev /\ target = NoDev
    BY <2>1 DEF IInv, OpenInv
  <2>6. UNCHANGED <<CloneAt, CloneSource, CloneTarget, CloneOpts>>
    BY <2>3, <2>4, <2>5 DEF CloneAt, CloneSource, CloneTarget, CloneOpts, Given, IsValue
  <2>7. UNCHANGED CloneExit
    <3>1. exit' = 1 \/ verb # "clone" \/ UNCHANGED exit
      BY <1>4, LineFrame
    <3> QED BY <2>3, <3>1 DEF CloneExit
  <2>8. UNCHANGED CloneStep /\ UNCHANGED CloneSaid
    BY <2>1 DEF CloneStep, CloneSaid
  <2> QED BY <2>6, <2>7, <2>8, CloneStutters
<1>5. CASE QueryNext
  <2>1. /\ UNCHANGED <<exit, step, opts, argv, verb, openVars>>
        /\ step = "enumerate"
    BY <1>5 DEF QueryNext, Do
  <2>2. sourceDisk = NoDev /\ target = NoDev
    BY <2>1 DEF IInv, OpenInv
  <2>3. UNCHANGED <<CloneSource, CloneTarget>>
    BY <2>1, <2>2 DEF CloneSource, CloneTarget
  <2> QED BY <1>1, <2>1, <2>3, SwapSeen
<1>6. CASE EnumerateVolumes
  <2>1. CASE verb = "list" /\ Leave(0)
    <3>1. UNCHANGED SeenByClone /\ UNCHANGED step
      BY <2>1, LeaveFrame DEF SeenByClone
    <3>2. UNCHANGED CloneExit
      BY <2>1, <3>1 DEF CloneExit, SeenByClone
    <3>3. step # "openTarget"
      BY <1>1 DEF CloneStep
    <3>4. UNCHANGED <<CloneStep, CloneSaid>>
      BY <3>1, <3>3 DEF CloneStep, CloneSaid, SeenByClone
    <3> QED BY <3>1, <3>2, <3>4, SameForClone, CloneStutters
  <2>2. CASE ~(verb = "list" /\ Leave(0))
    <3>1. UNCHANGED <<SeenByClone, exit>> /\ step' = "plan"
      BY <1>6, <2>2 DEF EnumerateVolumes, Goto, SeenByClone
    <3> QED BY <1>2, <3>1 DEF CloneStep
  <2> QED BY <2>1, <2>2
<1>7. CASE EnsureElevated \/ EnablePrivilege \/ QueryFails \/ EndOfScan \/ Annotate
  <2>1. \/ \E code \in {2, 3} : Leave(code)
        \/ UNCHANGED <<SeenByClone, exit>>
           /\ step' \in {"privileges", "enumerate", "annotate", "volumes"}
    BY <1>7 DEF EnsureElevated, EnablePrivilege, QueryFails, EndOfScan, Annotate, Pass, Goto, Do,
       SeenByClone
  <2> QED BY <1>2, <1>3, <2>1 DEF CloneStep
<1> QED BY <1>4, <1>5, <1>6, <1>7

\* The tuples of CmdClone that a step towards the opening leaves unchanged.
LEMMA PassImplements ==
  ASSUME exit = Running, verb = "clone", UNCHANGED <<SeenByClone, exit>>,
         NEW s, NEW next, CloneStep = s, CloneStep' = next
  PROVE  Clone!Pass(s, next)
<1>1. UNCHANGED <<CloneOpts, CloneAt, CloneSource, CloneTarget, CloneExit, CloneSaid>>
  BY GoesOn
<1>2. CloneExit = Running
  BY RunningAssumption DEF CloneExit, Codes
<1> QED
  BY <1>1, <1>2 DEF Clone!Pass, Clone!Do, Clone!Goto, Clone!devVars, Clone!envVars,
     Clone!openVars, Clone!diskVars, Clone!flagVars, Clone!copyVars

\* An exit without a word on the target.
LEMMA ExitImplements ==
  ASSUME exit = Running, verb = "clone", NEW code \in Codes \ {1}, Leave(code),
         step # "openTarget"
  PROVE  Clone!Do(CloneStep) /\ Clone!Exit({code})
<1>1. /\ UNCHANGED <<CloneOpts, CloneAt, CloneSource, CloneTarget, CloneStep, CloneSaid>>
      /\ CloneExit = Running /\ CloneExit' = code
  BY LeaveSeen
<1> QED
  BY <1>1 DEF Clone!Do, Clone!Exit, Clone!devVars, Clone!envVars, Clone!openVars,
     Clone!diskVars, Clone!flagVars, Clone!copyVars

\* The plan and the prompt.
LEMMA PlanImplements ==
  ASSUME IInv, exit = Running, BuildClonePlan \/ Confirm
  PROVE  [Clone!Next]_(Clone!vars)
<1>1. step \in {"plan", "confirm"} /\ verb = "clone" /\ TypeInv /\ LineInv
  BY DEF BuildClonePlan, Confirm, Do, IInv, TokenInv, Planned
<1>2. CloneOpts["dryRun"] = Given("dryRun") /\ CloneOpts["force"] = Given("force")
  BY DEF CloneOpts
<1>3. i > Len(argv)
  BY <1>1 DEF LineInv
<1>4. (opts.dryRun <=> Given("dryRun")) /\ (opts.force <=> Given("force"))
  <2>1. (opts["dryRun"] <=> Given("dryRun")) /\ (opts["force"] <=> Given("force"))
    BY <1>1, <1>3, FlagsAreGiven DEF Flags
  <2> QED BY <2>1
<1>5. CASE BuildClonePlan
  <2>1. CASE Leave(3)
    <3>1. CloneStep = "plan"
      BY <1>5 DEF BuildClonePlan, Do, CloneStep
    <3> QED BY <1>1, <2>1, <3>1, LeavesPlan
  <2>2. CASE ~Leave(3)
    <3>1. step = "plan" /\ step' = "confirm" /\ UNCHANGED <<SeenByClone, exit, opts>>
      BY <1>5, <2>2 DEF BuildClonePlan, Do, Goto, SeenByClone
    <3>2. CASE opts.dryRun
      <4>1. CloneStep = "plan" /\ CloneStep' = "plan"
        BY <3>1, <3>2 DEF CloneStep
      <4> QED BY <3>1, <4>1, GoesOn, CloneStutters
    <3>3. CASE ~opts.dryRun
      <4>1. CloneStep = "plan" /\ CloneStep' = "confirm"
        BY <3>1, <3>3 DEF CloneStep
      <4>2. Clone!Pass("plan", "confirm")
        BY <1>1, <3>1, <4>1, PassImplements
      <4> QED BY <1>2, <1>4, <3>3, <4>2 DEF Clone!Next, Clone!Proceed, Clone!BuildPlan
    <3> QED BY <3>2, <3>3
  <2> QED BY <2>1, <2>2
<1>6. CASE Confirm
  <2>1. CASE opts.dryRun /\ Leave(0)
    <3>1. CloneStep = "plan" /\ step # "openTarget"
      BY <1>6, <2>1 DEF Confirm, Do, CloneStep
    <3>2. Clone!Do("plan") /\ Clone!Exit({0})
      BY <1>1, <2>1, <3>1, ExitImplements DEF Codes
    <3> QED BY <1>2, <1>4, <2>1, <3>2 DEF Clone!Next, Clone!Proceed, Clone!BuildPlan
  <2>2. CASE ~opts.dryRun /\ Pass("revalidateSource")
    <3>1. UNCHANGED <<SeenByClone, exit>> /\ step = "confirm" /\ step' = "revalidateSource"
      BY <1>6, <2>2 DEF Confirm, Do, Pass, Goto, SeenByClone
    <3>2. CloneStep = "confirm" /\ CloneStep' = "revalidateSource"
      BY <2>2, <3>1 DEF CloneStep
    <3>3. Clone!Pass("confirm", "revalidateSource")
      BY <1>1, <3>1, <3>2, PassImplements
    <3> QED BY <3>3 DEF Clone!Next, Clone!Proceed, Clone!Confirm
  <2>3. CASE ~opts.dryRun /\ ~opts.force /\ Leave(130)
    <3>1. CloneStep = "confirm" /\ step # "openTarget"
      BY <1>6, <2>3 DEF Confirm, Do, CloneStep
    <3>2. Clone!Do("confirm") /\ Clone!Exit({130})
      BY <1>1, <2>3, <3>1, ExitImplements DEF Codes
    <3> QED BY <1>2, <1>4, <2>3, <3>2 DEF Clone!Next, Clone!Proceed, Clone!Confirm
  <2> QED BY <1>6, <2>1, <2>2, <2>3 DEF Confirm
<1> QED BY <1>5, <1>6

\* The number of a role that denotes the listed disk is that role's in CmdClone.
LEMMA ListedIsPlanned ==
  ASSUME BothListed, NEW role \in Roles
  PROVE  /\ at[opts[role]] = listed[opts[role]] => CloneAt[role] = role
         /\ listed[opts[role]] # NoDev
         /\ Name(role, listed[opts[role]]) = role
         /\ CloneAt[role] = Name(role, at[opts[role]])
         /\ (at[opts[role]] # NoDev <=> CloneAt[role] # NoDev)
<1>1. listed[opts[role]] # NoDev
  BY DEF BothListed, Listed, Roles
<1>2. Name(role, listed[opts[role]]) = role
  BY <1>1 DEF Name
<1>3. CloneAt[role] = Name(role, at[opts[role]])
  BY DEF CloneAt
<1>4. NoDev \notin Names
  BY DevAssumption
<1>5. at[opts[role]] # NoDev => Name(role, at[opts[role]]) \in Names
  BY DEF Name, Names, Other, Roles
<1>6. at[opts[role]] = NoDev => Name(role, at[opts[role]]) = NoDev
  BY DEF Name
<1> QED BY <1>1, <1>2, <1>3, <1>4, <1>5, <1>6

\* The disks are looked at again.
LEMMA RevalidationImplements ==
  ASSUME IInv, exit = Running, RevalidateSource \/ RevalidateTarget
  PROVE  Clone!Next
<1>1. step \in {"revalidateSource", "revalidateTarget"} /\ verb = "clone" /\ BothListed
  <2>1. step \in {"revalidateSource", "revalidateTarget"}
    BY DEF RevalidateSource, RevalidateTarget, RevalidateDiskIdentity, Do
  <2> QED BY <2>1 DEF IInv, TokenInv, PlanInv, Refused, BothListed, Planned, Approved
<1>2. CASE Leave(3)
  <2>1. CloneStep = step /\ step # "openTarget"
    BY <1>1 DEF CloneStep
  <2>2. Clone!Do(CloneStep) /\ Clone!Exit({3})
    BY <1>1, <1>2, <2>1, ExitImplements DEF Codes
  <2> QED
    BY <1>1, <2>1, <2>2 DEF Clone!Next, Clone!Proceed, Clone!RevalidateSource,
       Clone!RevalidateTarget, Clone!RevalidateDiskIdentity
<1>3. CASE RevalidateSource /\ ~Leave(3)
  <2>1. /\ SameDisk(opts.source) /\ step = "revalidateSource" /\ step' = "revalidateTarget"
        /\ UNCHANGED <<SeenByClone, exit>>
    BY <1>3 DEF RevalidateSource, RevalidateDiskIdentity, Do, Pass, Goto, SeenByClone
  <2>2. CloneAt["source"] = "source"
    <3>1. at[opts["source"]] = listed[opts["source"]]
      BY <2>1 DEF SameDisk
    <3> QED BY <1>1, <3>1, ListedIsPlanned DEF Roles
  <2>3. CloneStep = "revalidateSource" /\ CloneStep' = "revalidateTarget"
    BY <2>1 DEF CloneStep
  <2>4. Clone!Pass("revalidateSource", "revalidateTarget")
    BY <1>1, <2>1, <2>3, PassImplements
  <2> QED BY <2>2, <2>4 DEF Clone!Next, Clone!Proceed, Clone!RevalidateSource,
             Clone!RevalidateDiskIdentity
<1>4. CASE RevalidateTarget /\ ~Leave(3)
  <2>1. /\ SameDisk(opts.target) /\ step = "revalidateTarget" /\ step' = "openSource"
        /\ UNCHANGED <<SeenByClone, exit>>
    BY <1>4 DEF RevalidateTarget, RevalidateDiskIdentity, Do, Pass, Goto, SeenByClone
  <2>2. CloneAt["target"] = "target"
    <3>1. at[opts["target"]] = listed[opts["target"]]
      BY <2>1 DEF SameDisk
    <3> QED BY <1>1, <3>1, ListedIsPlanned DEF Roles
  <2>3. CloneStep = "revalidateTarget" /\ CloneStep' = "openSource"
    BY <2>1 DEF CloneStep
  <2>4. Clone!Pass("revalidateTarget", "openSource")
    BY <1>1, <2>1, <2>3, PassImplements
  <2> QED BY <2>2, <2>4 DEF Clone!Next, Clone!Proceed, Clone!RevalidateTarget,
             Clone!RevalidateDiskIdentity
<1> QED BY <1>2, <1>3, <1>4

\* The snapshot is taken between the openings.
LEMMA SnapshotImplements ==
  ASSUME IInv, exit = Running, TakeSnapshot
  PROVE  Clone!Next
<1>1. step = "snapshot" /\ verb = "clone"
  BY DEF TakeSnapshot, Do, IInv, TokenInv, Planned, Approved
<1>2. CloneStep = "snapshot"
  BY <1>1 DEF CloneStep
<1>3. CASE Leave(4)
  <2>1. Clone!Do("snapshot") /\ Clone!Exit({4})
    BY <1>1, <1>2, <1>3, ExitImplements DEF Codes
  <2> QED BY <2>1 DEF Clone!Next, Clone!Proceed, Clone!TakeSnapshot
<1>4. CASE Pass("openTarget")
  <2>1. UNCHANGED <<SeenByClone, exit>> /\ step' = "openTarget"
    BY <1>4 DEF Pass, Goto, SeenByClone
  <2>2. CloneStep' = "openTarget"
    BY <2>1 DEF CloneStep
  <2>3. UNCHANGED <<CloneOpts, CloneAt, CloneSource, CloneTarget, CloneExit, CloneSaid>>
    BY <2>1, GoesOn
  <2>4. CloneExit = Running
    BY RunningAssumption DEF CloneExit, Codes
  <2>5. Clone!TakeSnapshot
    BY <1>2, <2>2, <2>3, <2>4 DEF Clone!TakeSnapshot, Clone!Do, Clone!Goto, Clone!devVars,
       Clone!envVars, Clone!openVars, Clone!diskVars, Clone!flagVars
  <2> QED BY <2>5 DEF Clone!Next, Clone!Proceed
<1> QED BY <1>3, <1>4 DEF TakeSnapshot

\* What a disk is called depends on the plan only.
LEMMA SameName ==
  ASSUME UNCHANGED <<opts, listed>>, NEW role \in Roles, NEW d
  PROVE  Name(role, d)' = Name(role, d)
BY DEF Name, Other

\* The source is opened by its number.
LEMMA OpenSourceImplements ==
  ASSUME IInv, exit = Running, OpenSource
  PROVE  Clone!Next
<1>1. step = "openSource" /\ verb = "clone" /\ BothListed
  <2>1. step = "openSource"
    BY DEF OpenSource, Do
  <2> QED BY <2>1 DEF IInv, TokenInv, PlanInv, Refused, BothListed, Planned, Approved
<1>2. CloneStep = "openSource" /\ CloneExit = Running
  BY <1>1, RunningAssumption DEF CloneStep, CloneExit, Codes
<1>3. CASE Leave(3)
  <2>1. Clone!Do("openSource") /\ Clone!Exit({3})
    BY <1>1, <1>2, <1>3, ExitImplements DEF Codes
  <2> QED BY <1>2, <2>1 DEF Clone!Next, Clone!Proceed, Clone!OpenSource
<1>4. CASE ~Leave(3)
  <2>1. /\ at[opts["source"]] # NoDev /\ sourceDisk' = at[opts["source"]] /\ step' = "snapshot"
        /\ UNCHANGED <<opts, argv, verb, listed, at, target, exit>>
    BY <1>4 DEF OpenSource, Goto
  <2>2. CloneAt["source"] # NoDev /\ CloneAt["source"] = Name("source", at[opts["source"]])
    BY <1>1, <2>1, ListedIsPlanned DEF Roles
  <2>3. CloneSource' = CloneAt["source"]
    BY <2>1, <2>2, SameName DEF CloneSource, Roles
  <2>4. UNCHANGED <<CloneOpts, CloneAt, CloneTarget>>
    <3>1. \A role \in Roles : \A d : Name(role, d)' = Name(role, d)
      BY <2>1, SameName
    <3>2. UNCHANGED BothListed
      BY <2>1 DEF BothListed, Listed
    <3>3. UNCHANGED CloneOpts
      BY <2>1 DEF CloneOpts, Given, IsValue
    <3> QED BY <2>1, <3>1, <3>2, <3>3 DEF CloneAt, CloneTarget, Roles
  <2>5. CloneStep' = "snapshot" /\ CloneExit' = CloneExit /\ UNCHANGED CloneSaid
    BY <1>1, <2>1 DEF CloneStep, CloneExit, CloneSaid
  <2>6. Clone!OpenSource
    BY <1>2, <2>2, <2>3, <2>4, <2>5 DEF Clone!OpenSource, Clone!Do, Clone!Goto, Clone!devVars,
       Clone!envVars, Clone!diskVars, Clone!flagVars, Clone!copyVars
  <2> QED BY <2>6 DEF Clone!Next, Clone!Proceed
<1> QED BY <1>3, <1>4

\* The target is opened by its number; from here on failures are annotated.
LEMMA OpenTargetImplements ==
  ASSUME IInv, exit = Running, OpenTarget
  PROVE  Clone!Next
<1>1. step = "openTarget" /\ verb = "clone" /\ BothListed
  <2>1. step = "openTarget"
    BY DEF OpenTarget, Do
  <2> QED BY <2>1 DEF IInv, TokenInv, PlanInv, Refused, BothListed, Planned, Approved
<1>2. CloneStep = "openTarget" /\ CloneExit = Running
  BY <1>1, RunningAssumption DEF CloneStep, CloneExit, Codes
<1>3. CASE Leave(3)
  <2>1. /\ UNCHANGED <<CloneOpts, CloneAt, CloneSource, CloneTarget, CloneStep>>
        /\ CloneExit' = 3
        /\ CloneSaid' = [disk |-> IF 3 = 3 /\ step = "openTarget"
                                  THEN "not modified" ELSE "nothing",
                         offline |-> FALSE, swap |-> "nothing"]
    <3>1. 3 \in Codes \ {1}
      BY DEF Codes
    <3> QED BY <1>1, <1>3, <3>1, LeaveSeen
  <2>2. Clone!Catch(3)
    BY <1>1, <2>1 DEF Clone!Catch, Clone!devVars, Clone!envVars, Clone!openVars, Clone!flagVars
  <2>3. Clone!OpenTarget
    BY <1>2, <2>2 DEF Clone!OpenTarget, Clone!Do
  <2> QED BY <2>3 DEF Clone!Next, Clone!Proceed
<1>4. CASE ~Leave(3)
  <2>1. /\ at[opts["target"]] # NoDev /\ target' = at[opts["target"]] /\ step' = "opened"
        /\ UNCHANGED <<opts, argv, verb, listed, at, sourceDisk, exit>>
    BY <1>4 DEF OpenTarget, Goto
  <2>2. CloneAt["target"] # NoDev /\ CloneAt["target"] = Name("target", at[opts["target"]])
    BY <1>1, <2>1, ListedIsPlanned DEF Roles
  <2>3. CloneTarget' = CloneAt["target"]
    BY <2>1, <2>2, SameName DEF CloneTarget, Roles
  <2>4. UNCHANGED <<CloneOpts, CloneAt, CloneSource>>
    <3>1. \A role \in Roles : \A d : Name(role, d)' = Name(role, d)
      BY <2>1, SameName
    <3>2. UNCHANGED BothListed
      BY <2>1 DEF BothListed, Listed
    <3>3. UNCHANGED CloneOpts
      BY <2>1 DEF CloneOpts, Given, IsValue
    <3> QED BY <2>1, <3>1, <3>2, <3>3 DEF CloneAt, CloneSource, Roles
  <2>5. CloneStep' = "takeOffline" /\ CloneExit' = CloneExit
    BY <1>1, <2>1 DEF CloneStep, CloneExit
  <2>6. UNCHANGED CloneSaid
    <3>1. exit # 3
      BY RunningAssumption DEF Codes
    <3> QED BY <2>1, <3>1 DEF CloneSaid
  <2>7. Clone!OpenTarget
    BY <1>2, <2>2, <2>3, <2>4, <2>5, <2>6 DEF Clone!OpenTarget, Clone!Do, Clone!Goto,
       Clone!devVars, Clone!envVars, Clone!diskVars, Clone!flagVars, Clone!copyVars
  <2> QED BY <2>7 DEF Clone!Next, Clone!Proceed
<1> QED BY <1>3, <1>4

\* Disks change their numbers before the user has approved, which in CmdClone
\* is while the plan is built or the prompt waits.
LEMMA ReplugImplements ==
  ASSUME QuietHost, IInv, IInv', Replug
  PROVE  Clone!Next
<1>1. /\ exit = Running /\ step \in ReplugSteps
      /\ UNCHANGED <<exit, step, opts, argv, verb, listed, sourceDisk, target>>
  BY DEF Replug
<1>2. CloneStep \in {"plan", "confirm"}
  <2>1. step \in Steps \ Approved
    BY <1>1 DEF QuietHost, IInv, TypeInv
  <2> QED BY <2>1 DEF CloneStep, Steps, Scanning, Annotated, Planned, Approved
<1>3. UNCHANGED <<CloneSource, CloneTarget>>
  <2>1. \A role \in Roles : \A d : Name(role, d)' = Name(role, d)
    BY <1>1, SameName
  <2> QED BY <1>1, <2>1 DEF CloneSource, CloneTarget, Roles
<1> QED BY <1>1, <1>2, <1>3, SwapSeen

\* Each step is one of CmdClone's, or none.
LEMMA StepImplements ==
  ASSUME QuietHost, IInv, IInv', [Next]_vars
  PROVE  [Clone!Next]_(Clone!vars)
<1>1. CASE Proceed
  <2>1. exit = Running
    BY <1>1 DEF Proceed, ReadCommandLine, ParseLine, TakeVerb, TakeNumber, TakeFlag, UnknownOption,
       EndOfOptions, EnsureElevated, EnablePrivilege, QueryNext, QueryFails, EndOfScan, Annotate,
       EnumerateVolumes, BuildClonePlan, Confirm, RevalidateSource, RevalidateTarget,
       RevalidateDiskIdentity, OpenSource, TakeSnapshot, OpenTarget, Do
  <2> QED
    BY <1>1, <2>1, ScanImplements, PlanImplements, RevalidationImplements, OpenSourceImplements,
       SnapshotImplements, OpenTargetImplements DEF Proceed
<1>2. CASE Replug
  BY <1>2, ReplugImplements
<1>3. CASE UNCHANGED <<SeenByClone, step, exit>>
  <2>1. UNCHANGED <<CloneStep, CloneExit, CloneSaid>>
    BY <1>3 DEF CloneStep, CloneExit, CloneSaid, SeenByClone
  <2> QED BY <1>3, <2>1, SameForClone, CloneStutters
<1>4. CASE CreatePagefile
  <2>1. UNCHANGED <<SeenByClone, step, exit>>
    BY <1>4 DEF CreatePagefile, SeenByClone
  <2> QED BY <1>3, <2>1
<1>5. CASE UNCHANGED vars
  <2>1. UNCHANGED <<SeenByClone, step, exit>>
    BY <1>5 DEF SeenByClone
  <2> QED BY <1>3, <2>1
<1> QED BY <1>1, <1>2, <1>4, <1>5 DEF Next

\* At the start no number was given and no disk is listed.
LEMMA InitImplements == Init => Clone!Init
<1> SUFFICES ASSUME Init PROVE Clone!Init
  OBVIOUS
<1>1. CloneOpts \in Clone!Options
  <2>1. \A f : Given(f) \in BOOLEAN
    BY DEF Given
  <2> QED BY <2>1 DEF CloneOpts, Clone!Options
<1>2. /\ listed = [n \in DiskNumbers |-> NoDev] /\ sourceDisk = NoDev /\ target = NoDev
      /\ step = "verb" /\ exit = Running
  BY DEF Init, InitLine
<1>3. ~BothListed
  BY <1>2 DEF BothListed, Listed
<1>4. CloneAt = [r \in {"source", "target"} |-> IF r = "source" THEN "source" ELSE "target"]
  BY <1>3 DEF CloneAt, Roles
<1>5. CloneSource = NoDev /\ CloneTarget = NoDev /\ CloneStep = "plan"
  BY <1>2 DEF CloneSource, CloneTarget, CloneStep
<1>6. CloneExit = Running
  BY <1>2 DEF CloneExit
<1>7. CloneSaid = Clone!Silent
  BY <1>2 DEF CloneSaid, Clone!Silent
<1> QED BY <1>1, <1>4, <1>5, <1>6, <1>7 DEF Clone!Init, Clone!Roles

\* What CmdClone takes for one step and two planned disks is all of this module:
\* every behaviour is one of CmdClone until the target has been opened.
THEOREM DetailsThePlan ==
  ASSUME QuietHost
  PROVE  Spec => ImplementsCmdClone
<1>1. QuietHost /\ IInv /\ IInv' /\ [Next]_vars => [Clone!Next]_(Clone!vars)
  BY StepImplements
<1> QED BY <1>1, InitImplements, Invariance, PTL DEF Spec, ImplementsCmdClone
=============================================================================
