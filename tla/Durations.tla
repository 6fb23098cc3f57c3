------------------------------ MODULE Durations ------------------------------
(***************************************************************************)
(* Lifetimes as they are configured, and as tokens tell them: a number and *)
(* a unit on the one side, hours, minutes and seconds on the other.  The   *)
(* number is read as a u64 and multiplied as a u32.  Both widths are       *)
(* parameters, as the real ones are beyond the numbers of TLC.             *)
(***************************************************************************)
EXTENDS Integers

CONSTANTS
  Number,    \* the numbers of the settings that are looked at
  Width32,   \* how many values a u32 has
  Width64    \* how many values a u64 has

ASSUME DurationsAssumption ==
  /\ Number \subseteq Nat
  /\ Width32 \in Nat \ {0}
  /\ Width64 \in Nat \ {0}

VARIABLE setting   \* one of the durations of the configuration

Minute == 60
Hour   == 60 * Minute
Day    == 24 * Hour

Multiplier == [s |-> 1, m |-> Minute, h |-> Hour, d |-> Day, w |-> 7 * Day,
               mo |-> 30 * Day, y |-> 365 * Day]

Invalid == -1
None    == -1

\* A setting is its digits, if it has any, and what follows them.
Setting == [number : Number \cup {None}, unit : DOMAIN Multiplier \cup {"", "other"}]
EmptySetting == [number |-> None, unit |-> ""]

DurationsInit == setting \in Setting

DurationsSpec == DurationsInit /\ [][UNCHANGED setting]_setting

\* In seconds.
Written(text) == Multiplier[text.unit] * text.number

Readable(text) ==
  text.number # None /\ text.number < Width64 /\ text.unit \in DOMAIN Multiplier

\* (mutant) the product is a u32, and not the factor
parse_custom_duration_product(input, default_input) ==
  LET text == IF input = EmptySetting THEN default_input ELSE input IN
  IF Readable(text) THEN Written(text) % Width32 ELSE Invalid

parse_custom_duration(input, default_input) ==
  LET text == IF input = EmptySetting THEN default_input ELSE input IN
  IF Readable(text) THEN Multiplier[text.unit] * (text.number % Width32) ELSE Invalid

\* (mutant) the minutes are those of the whole lifetime
go_duration_string_all_minutes(secs) ==
  [h |-> IF secs >= Hour THEN secs \div Hour ELSE None,
   m |-> IF secs >= Minute THEN secs \div Minute ELSE None,
   s |-> secs % 60]

\* go_duration_string of whole seconds: the parts it writes.
go_duration_string(secs) ==
  [h |-> IF secs >= Hour THEN secs \div Hour ELSE None,
   m |-> IF secs >= Minute THEN (secs \div Minute) % 60 ELSE None,
   s |-> secs % 60]

-----------------------------------------------------------------------------
(* Properties *)

\* What parse_custom_duration cuts off is never felt below 2^32: there a setting
\* lasts as long as it says, beyond it shorter, and never longer; only what is no
\* number of 64 bits with a unit is refused.
LastsAsWritten ==
  \A default_input \in {EmptySetting, [number |-> 1, unit |-> "y"]} :
    LET d    == parse_custom_duration(setting, default_input)
        read == IF setting = EmptySetting THEN default_input ELSE setting
    IN /\ (d = Invalid) = ~Readable(read)
       /\ d # Invalid => /\ d <= Written(read)
                         /\ read.number < Width32 => d = Written(read)

\* The tokenlife of a refresh token is read back as the lifetime it was written
\* from, whatever parts of it are zero.
TokenLifeReadsBack ==
  LET d == parse_custom_duration(setting, EmptySetting)
      p == go_duration_string(d)
      Value(part) == IF part = None THEN 0 ELSE part
  IN d # Invalid =>
       /\ Hour * Value(p.h) + Minute * Value(p.m) + p.s = d
       /\ p.h # None => p.m \in 0 .. 59
=============================================================================
