------------------------------ MODULE LogStream ------------------------------
(***************************************************************************)
(* LogStream and Logger (src/src/base/LogStream.cpp, Logger.cpp): a line   *)
(* of the log is put together in a buffer of fixed size, operand by        *)
(* operand.  An operand that does not fit is left out as a whole, and the  *)
(* next ones are still tried.  AsyncLogger.tla takes the lines over.       *)
(*                                                                         *)
(* These are pure operators on what a thread has in hand, `input`.         *)
(***************************************************************************)
EXTENDS Integers, Sequences, SequencesExt

CONSTANTS
  kSmallBuffer, kMaxNumericSize,
  PrefixSize,       \* bytes of the time, a space and the name of the level
  NameSize,         \* bytes of basename_
  MaxText,          \* bound on the bytes of a text operand
  MaxInt            \* bound on the integers that are formatted

ASSUME StreamAssumption ==
  /\ {PrefixSize, NameSize, MaxText, MaxInt} \subseteq Nat
  /\ kSmallBuffer \in Nat \ {0}
  /\ kMaxNumericSize \in Nat /\ kMaxNumericSize >= 2     \* it is 32

VARIABLE input      \* what a thread is formatting: an integer or a line

-----------------------------------------------------------------------------
(* Integers.                                                               *)

\* Characters are digits, the sign, or what lies before the array digits.
Minus == -1
Outside == -2

\* zero[t]: the remainder of a negative number is negative.
CharOf(t) == IF t >= 0 THEN t ELSE Outside

\* The remainders that the loop of convert meets, the lowest first.
Remainders(v) ==
  LET size == IF v < 0 THEN -v ELSE v
      sign == IF v < 0 THEN -1 ELSE 1
      step[i \in 0..size] == <<sign * (i % 10)>> \o (IF i < 10 THEN <<>> ELSE step[i \div 10])
  IN  step[size]

\* Mutant: while instead of do.
RemaindersWhile(v) == IF v = 0 THEN <<>> ELSE Remainders(v)

Loop(v) == Remainders(v)

convert(v) ==
  LET chars == [k \in DOMAIN Loop(v) |-> CharOf(Loop(v)[k])]
  IN  Reverse(IF v < 0 THEN Append(chars, Minus) ELSE chars)

-----------------------------------------------------------------------------
(* Operands and lines.                                                     *)

\* The bytes an operand takes and those that must be free.
Text(n) == [size |-> n, room |-> n + 1]
Integer(v) == [size |-> Len(convert(v)), room |-> kMaxNumericSize + 1]
Double(n) == [size |-> n, room |-> kMaxNumericSize]

\* Mutant: >= instead of >.
FitsExactly(cur, o) == kSmallBuffer - cur >= o.room - 1

Fits(cur, o) == kSmallBuffer - cur >= o.room

\* operator<< after operator<<: the bytes in the buffer and the operands, by
\* number, that are in it.
Streamed(operands) ==
  LET after[n \in 0..Len(operands)] ==
        IF n = 0 THEN [cur |-> 0, kept |-> {}]
        ELSE IF Fits(after[n - 1].cur, operands[n])
             THEN [cur |-> after[n - 1].cur + operands[n].size, kept |-> after[n - 1].kept \cup {n}]
             ELSE after[n - 1]
  IN  after[Len(operands)]

\* The constructor of Logger, what the user streams, and the destructor.
Line(user) ==
  <<Text(PrefixSize)>> \o user \o <<Text(3), Text(NameSize), Text(1), Integer(99), Text(1)>>

\* What the user may stream: a text of any size, alone or with a number and
\* another text behind it.
UserOperands ==
  {<<Text(n)>> : n \in 0..MaxText}
    \cup {<<Text(n), o, Text(k)>> : n \in 0..MaxText, k \in 0..3,
                                    o \in {Integer(7), Double(kMaxNumericSize - 1)}}

Nothing == [kind |-> "nothing"]

Inputs ==
  {Nothing}
    \cup {[kind |-> "integer", v |-> v] : v \in (-MaxInt)..MaxInt}
    \cup {[kind |-> "line", user |-> user] : user \in UserOperands}

InputInit == input \in Inputs

\* Formatting touches nothing that threads share.
Formatted == input # Nothing /\ input' = Nothing

StreamSpec == InputInit /\ [][Formatted]_input

-----------------------------------------------------------------------------
(* Properties.                                                             *)

\* convert writes the decimal digits of a number that is not negative.  Of a
\* negative one it writes the sign and the zeros, and takes every other digit
\* from before the array.
IntegersFormatted ==
  input.kind = "integer" =>
    LET v == input.v
        c == convert(v)
        value[k \in 0..Len(c)] == IF k = 0 THEN 0 ELSE 10 * value[k - 1] + c[k]
    IN  IF v >= 0
        THEN /\ \A k \in DOMAIN c : c[k] \in 0..9
             /\ c # <<>> /\ value[Len(c)] = v /\ (c[1] = 0 => v = 0)
        ELSE /\ c[1] = Minus /\ Len(c) = Len(convert(-v)) + 1
             /\ \A k \in 2..Len(c) : c[k] = IF convert(-v)[k - 1] = 0 THEN 0 ELSE Outside

\* No operand, not even a number written into the last bytes that the test of
\* its size allows, goes beyond the buffer, and a line lacks its line feed only
\* if it fills the buffer up to the last byte: what did not fit in between has
\* not cost it.
LineEnds ==
  input.kind = "line" =>
    LET line == Streamed(Line(input.user))
    IN  /\ line.cur < kSmallBuffer
        /\ Len(Line(input.user)) \in line.kept \/ line.cur = kSmallBuffer - 1
=============================================================================
