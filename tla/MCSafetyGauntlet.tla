-------------------------- MODULE MCSafetyGauntlet --------------------------
(***************************************************************************)
(* TLC instance of SafetyGauntlet.  The invocations are those with many    *)
(* command lines on a plain machine, and those with a plain command line   *)
(* on a machine where one thing is out of the ordinary.                    *)
(***************************************************************************)
EXTENDS SafetyGauntlet

CONSTANTS A, B, C

MCDev     == {A, B, C}
MCNumbers == 0..4

\* While the program looks at the machine, and while the prompt waits.
BeforeApproval == {"enumerate", "annotate", "volumes", "plan", "confirm"}
BeforeAnnotation == {"enumerate", "annotate"}

(* Command lines.  Long is 1024. *)
Word(w) == [word |-> w, before |-> "nothing", digits |-> 0, after |-> "nothing"]
Number(b, d, a) == [word |-> "number", before |-> b, digits |-> d, after |-> a]
Plainly(d) == Number("nothing", d, "nothing")
Odd == {Number(b, d, a) : b \in {"nothing", "blank", "plus", "minus"},
          d \in {0, 1, 255, 256, 1023, 1024, 1025}, a \in {"nothing", "blanks", "other"}}
         \cup {Word("other"), Word("target")}
MCAnswers == {Plainly(0), Plainly(1), Number("blank", 1, "blanks"), Number("nothing", 1, "other"), Word("other")}

Pair(s, t) == <<Word("source"), s, Word("target"), t>>
Usual == Pair(Plainly(0), Plainly(1))
WithFlag(f) == Append(Usual, Word(f))
FewLines == {Usual, WithFlag("force"), Pair(Plainly(1), Plainly(0))}
PlainLines == FewLines \cup {WithFlag("newIds"), WithFlag("expand"), Pair(Plainly(0), Plainly(0)), Pair(Plainly(0), Plainly(4))}
ManyLines ==
  PlainLines \cup {Pair(t, Plainly(1)) : t \in Odd} \cup {Pair(Plainly(0), t) : t \in Odd}
    \cup {Usual \o <<Word("target"), t>> : t \in Odd}
    \cup {WithFlag(f) : f \in Flags \cup {"other", "source"}}
    \cup {<<>>, <<Plainly(1)>>, <<Word("source"), Plainly(1)>>, <<Word("source"), Word("target"), Plainly(1)>>}

(* Machines. *)
Good == [geometry |-> TRUE, table |-> "basic", dynamic |-> FALSE, sector |-> 512,
         size |-> 8, need |-> 8, spread |-> 8, bitlocker |-> FALSE, windows |-> TRUE]
Bad == {[Good EXCEPT !.geometry = FALSE], [Good EXCEPT !.dynamic = TRUE],
        [Good EXCEPT !.sector = 4096], [Good EXCEPT !.size = 7], [Good EXCEPT !.size = 9],
        [Good EXCEPT !.spread = 9],
        [Good EXCEPT !.bitlocker = TRUE], [Good EXCEPT !.windows = FALSE]}
         \cup {[Good EXCEPT !.table = t] : t \in Tables}
GoodDisks == [d \in MCDev |-> Good]

Vol(on, single, duties, resolved) ==
  [on |-> on, single |-> single, duty |-> duties, resolved |-> resolved]
SystemOnA == Vol({A}, TRUE, Duties, TRUE)
DutyVolumes ==
  {Vol(on, single, {r}, b) : on \in {{A}, {B}}, single \in BOOLEAN, r \in Duties, b \in BOOLEAN}
    \cup {Vol(on, FALSE, {r}, b) : on \in {{B, C}, {A, B}}, r \in Duties, b \in BOOLEAN}
DisksFor(v, t) ==
  [d \in MCDev |-> IF d \in v.on /\ ~v.single
                   THEN [Good EXCEPT !.dynamic = TRUE, !.table = t] ELSE Good]

\* All in a row; gaps of one number; a gap of two, which ends the scan.
InARow  == <<A, B, C, NoDev, NoDev>>
Plugged == {InARow, <<A, NoDev, C, NoDev, B>>, <<A, B, NoDev, NoDev, C>>, <<A, NoDev, NoDev, B, NoDev>>}
MCAt(p) == [n \in MCNumbers |-> p[n + 1]]

Case(v, l, e, h, d, vs, nm, p, fl) ==
  [verb |-> v, argv |-> l, elevated |-> e, held |-> h, disk |-> d, volumes |-> vs,
   named |-> nm, faulty |-> fl, at |-> MCAt(p)]
All == {Privileges[k] : k \in DOMAIN Privileges}
Named == {"system", "boot"}
Usually(l, d, vs, nm, p) == Case("clone", l, TRUE, All, d, vs, nm, p, FALSE)
Plain(v, l) == Case(v, l, TRUE, All, GoodDisks, {SystemOnA}, Named, InARow, FALSE)
MCCases ==
  {Plain("clone", l) : l \in ManyLines} \cup {Plain(v, <<>>) : v \in Verbs}
  \cup {Case("clone", Usual, e, h, GoodDisks, {SystemOnA}, Named, InARow, FALSE) :
         e \in BOOLEAN, h \in SUBSET All}
  \cup {Case("clone", l, TRUE, All, GoodDisks, {SystemOnA}, Named, p, TRUE) :
         l \in PlainLines, p \in Plugged}
  \cup {Usually(l, [GoodDisks EXCEPT ![d] = f], {SystemOnA}, Named, p) :
         l \in PlainLines, d \in MCDev, f \in Bad, p \in Plugged}
  \cup {Usually(l, DisksFor(v, t), {v, Vol({C}, TRUE, {}, TRUE)}, nm, InARow) :
         l \in FewLines, v \in DutyVolumes, t \in {"basic", "unreadable"},
         nm \in {Named, {"system"}, {}}}
=============================================================================
