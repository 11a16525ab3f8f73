---------------------------- MODULE CommandLine -----------------------------
(***************************************************************************)
(* The command line (wmain, main.cpp): the verb, the options in the order  *)
(* they are given, and disk numbers as wcstoul reads them.  An argument is *)
(* an option's word or, with the word "number", text with decimal digits:  *)
(* what comes before them, their value, and what comes after them.         *)
(***************************************************************************)
EXTENDS Integers, Sequences

CONSTANTS
  Long,      \* the number of values of unsigned long
  Running    \* the process has not exited

Codes == {0, 1, 2, 3, 4, 130}

ASSUME LongAssumption == Long \in Nat /\ Long > 256
ASSUME RunningAssumption == Running \notin Codes

NoNumber == -1
Roles == {"source", "target"}
Flags == {"expand", "newIds", "force", "dryRun"}
Verbs == {"none", "version", "list", "clone", "other"}
Texts == [word   : Roles \cup Flags \cup {"number", "other"},
          before : {"nothing", "blank", "plus", "minus"},
          digits : Nat,
          after  : {"nothing", "blanks", "other"}]
Options == [source: NoNumber..255, target: NoNumber..255, expand: BOOLEAN,
            newIds: BOOLEAN, force: BOOLEAN, dryRun: BOOLEAN]

VARIABLES
  verb, argv,   \* the first argument, and the ones that follow it
  i,            \* index of the next argument
  opts,         \* CloneOptions
  step, exit

lineVars == <<verb, argv, i, opts>>

\* wcstoul takes a sign, negates modulo its width, and saturates.
Wcstoul(text) ==
  IF text.digits >= Long THEN Long - 1
  ELSE IF text.before = "minus" THEN (Long - text.digits) % Long
  ELSE text.digits

\* mutant: what follows the digits is not looked at
ParsePrefix(text) ==
  IF text.word = "number" /\ Wcstoul(text) <= 255 THEN Wcstoul(text) ELSE NoNumber
ParseDiskNumber(text) ==
  IF text.word = "number" /\ Wcstoul(text) <= 255 /\ text.after # "other"
  THEN Wcstoul(text) ELSE NoNumber

InitLine ==
  /\ i = 1
  /\ opts = [source |-> NoNumber, target |-> NoNumber, expand |-> FALSE,
             newIds |-> FALSE, force |-> FALSE, dryRun |-> FALSE]
  /\ step = "verb" /\ exit = Running
-----------------------------------------------------------------------------
Do(s)   == exit = Running /\ step = s
Goto(s) == step' = s /\ UNCHANGED exit
Exit(code) == exit' = code /\ UNCHANGED <<lineVars, step>>

TakeVerb ==
  /\ Do("verb")
  /\ \/ verb \in {"none", "other"} /\ Exit(1)
     \/ verb = "version" /\ Exit(0)
     \/ verb = "list"  /\ Goto("enumerate") /\ UNCHANGED lineVars
     \/ verb = "clone" /\ Goto("options") /\ UNCHANGED lineVars

TakeNumber ==
  /\ Do("options") /\ i < Len(argv) /\ argv[i].word \in Roles
  /\ LET number == ParseDiskNumber(argv[i + 1])
     IN  \/ number = NoNumber /\ Exit(1)
         \/ /\ number # NoNumber
            /\ opts' = [opts EXCEPT ![argv[i].word] = number]
            /\ i' = i + 2
            /\ UNCHANGED <<verb, argv, step, exit>>

TakeFlag ==
  /\ Do("options") /\ i <= Len(argv) /\ argv[i].word \in Flags
  /\ opts' = [opts EXCEPT ![argv[i].word] = TRUE]
  /\ i' = i + 1
  /\ UNCHANGED <<verb, argv, step, exit>>

\* A number where an option is expected, or an option without its number.
UnknownOption ==
  /\ Do("options") /\ i <= Len(argv)
  /\ argv[i].word \notin Flags
  /\ argv[i].word \in Roles => i = Len(argv)
  /\ Exit(1)

EndOfOptions ==
  /\ Do("options") /\ i > Len(argv)
  /\ \/ NoNumber \in {opts.source, opts.target} /\ Exit(1)
     \/ /\ NoNumber \notin {opts.source, opts.target}
        /\ Goto("elevate")
        /\ UNCHANGED lineVars

ParseLine ==
  TakeVerb \/ TakeNumber \/ TakeFlag \/ UnknownOption \/ EndOfOptions
-----------------------------------------------------------------------------
\* Whether the k-th word is the text of the option before it.  A word in the
\* place of a text is no option, so that in a row of source and target every
\* other one is.  A reference for the loop above.
IsValue(k) ==
  \E first \in 1..(k - 1) :
    /\ \A j \in first..(k - 1) : argv[j].word \in Roles
    /\ first > 1 => argv[first - 1].word \notin Roles
    /\ (k - first) % 2 = 1

\* The text given last for a role.
GivenFor(role) ==
  {k \in 2..Len(argv) : IsValue(k) /\ argv[k - 1].word = role}
LastGiven(role) == argv[CHOOSE k \in GivenFor(role) : \A l \in GivenFor(role) : l <= k]
=============================================================================
