------------------------------ MODULE MCService ------------------------------
(* What a user may write: good settings, an edited file that is not correct,   *)
(* and numbers that make no sense or do not fit in an int (of eight bits).     *)
EXTENDS Service

CONSTANTS rphost, other

MCName == {rphost, other}
Object(frequency, period, names) == Content("object", TRUE, frequency, period, names)

MCContents ==
  { NotJson, Content("value", FALSE, 0, 0, {}), Content("object", FALSE, 10, 60, {rphost}),
    Object(10, 10, {other}),            \* one reading in the window
    Object(266, 316, {}),               \* cut to 10 and 60
    Object(256, 60, {rphost}),          \* cut to 0: the division is not defined
    Object(-1, 128, {rphost}),          \* -128 \div -1
    Object(60, 10, {rphost}),           \* no slot
    Object(-10, 60, {rphost}),          \* less than no slot
    Object(-60, 10, {rphost}),          \* no slot
    Object(10, 0, {rphost}),            \* counters without a slot
    Object(10, -60, {rphost}) }         \* no counters
=============================================================================
