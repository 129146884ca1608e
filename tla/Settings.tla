------------------------------ MODULE Settings ------------------------------
(* What settings.json may hold, which contents Settings::Read (settings.cpp)   *)
(* accepts, and what becomes of the numbers: they are cut to an int, and       *)
(* ProcessesInfo::Init divides the period by the frequency.                    *)
EXTENDS Integers

CONSTANTS IntWidth,     \* the bits of an int
          Name,         \* the names of programs
          Rphost        \* "rphost.exe"

ASSUME SettingsAssumption == IntWidth \in Nat \ {0} /\ Rphost \in Name

\* The file may be absent, not be JSON, be JSON but not an object, or be an
\* object, which is complete when every key is there and every number is an
\* integer.  "processes" may be anything: only the strings of an array count.
Content(kind, complete, frequency, period, names) ==
  [kind |-> kind, complete |-> complete, frequency |-> frequency, period |-> period,
   names |-> names]

Absent == Content("absent", FALSE, 0, 0, {})
NotJson == Content("unparsable", FALSE, 0, 0, {})
Defaults == Content("object", TRUE, 10, 60, {Rphost})

Correct(content) == content.kind = "object" /\ content.complete

MinInt == -(2 ^ (IntWidth - 1))
Cut(v) == ((v - MinInt) % 2 ^ IntWidth) + MinInt

\* A mistake: an empty list is kept.
ListedOnly(names) == names

\* Without a name, the list has the default one: an empty filter would let every
\* process through.
Processes(names) == IF names = {} THEN {Rphost} ELSE names

Values(content) == [frequency |-> Cut(content.frequency), period |-> Cut(content.period),
                    processes |-> Processes(content.names)]
NoValues == [frequency |-> 0, period |-> 0, processes |-> {}]

-----------------------------------------------------------------------------
\* The division of two ints.
Magnitude(a) == IF a < 0 THEN -a ELSE a
Quotient(a, b) == IF (a < 0) = (b < 0) THEN Magnitude(a) \div Magnitude(b)
                                       ELSE -(Magnitude(a) \div Magnitude(b))

\* A mistake: a window of n readings is taken to need one slot less.
SlotsBetween(values) == Quotient(values.period, values.frequency) - 1

\* ring_buffer_size_, the slots of the ring of every process.
Slots(values) == Quotient(values.period, values.frequency)

\* The division is not defined.
Traps(values) == values.frequency = 0 \/ (values.frequency = -1 /\ values.period = MinInt)

\* A process may have a ring (new entries of the table), and one that Add can
\* write to (entries that are updated); so may the counters.
RingsExist(values) == Slots(values) >= 0
RingsHaveSlots(values) == Slots(values) >= 1
CountersExist(values) == values.period >= 0
CountersHaveSlots(values) == values.period >= 1
=============================================================================
