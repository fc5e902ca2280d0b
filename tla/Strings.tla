------------------------------- MODULE Strings -------------------------------
(***************************************************************************)
(* What the functions of src/src/mlib/string.cpp tell their reader: how    *)
(* much of a period or of a size is shown, which words a string is split   *)
(* into, what trim() leaves, and what becomes of text that cannot be       *)
(* converted.  Each call is a step, and "answer" is what it returned.      *)
(*                                                                         *)
(* A shown amount is a sequence of numbers with their units; the words for *)
(* units, and what is between them, are left out.  A string is a sequence  *)
(* of characters that are told apart as far as these functions do.         *)
(***************************************************************************)
EXTENDS Integers, SequencesExt

CONSTANTS
  Periods,       \* times and time differences, in seconds
  Sizes,         \* sizes, in bytes
  Kilo,          \* 1024, or less to have gigabytes among the integers of TLC
  Thousand,      \* 1000, or less for the same reason
  MaxLength      \* characters of a string

\* 1024 is above a hundred, and not much above 1000.
ASSUME StringsAssumption ==
  /\ Periods \subseteq Int /\ Sizes \subseteq Int
  /\ {Kilo, Thousand, MaxLength} \subseteq Nat
  /\ Kilo >= 100 /\ 9 * Kilo <= 10 * Thousand

VARIABLES question, answer

stringVars == <<question, answer>>

Minute == 60
Hour == 60 * Minute
Day == 24 * Hour
Month == 30 * Day

-----------------------------------------------------------------------------
(* Amounts.                                                                *)

\* What is shown: units with their numbers, the infinity sign, or nothing
\* because substr(1) of an empty string throws std::out_of_range.
Showing(kind, parts) == [kind |-> kind, parts |-> parts]
Text(parts) == Showing("text", parts)
Infinity == Showing("infinity", <<>>)
OutOfRange == Showing("throws", <<>>)
Amount(n, unit) == [n |-> n, unit |-> unit]
Shown(n, unit) == IF n = 0 THEN <<>> ELSE <<Amount(n, unit)>>

get_time_duration_string(time, show_zero_values) ==
  LET minutes == (time \div Minute) % 60
      hours == (time \div Hour) % 24
      days == (time \div Day) % 30
      months == time \div Month
      parts == Shown(months, Month) \o Shown(days, Day)
                 \o (IF months = 0 THEN Shown(hours, Hour) ELSE <<>>)
                 \o (IF months = 0 /\ days = 0 THEN Shown(minutes, Minute) ELSE <<>>)
  IN  IF time <= 0 THEN Text(IF show_zero_values THEN <<Amount(0, Minute)>> ELSE <<>>)
      ELSE IF parts = <<>> THEN OutOfRange
      ELSE Text(parts)

\* Two units: the largest one, and the next one below unless it is zero.
TwoUnits(time, unit, below) ==
  Text(<<Amount(time \div unit, unit)>> \o Shown((time % unit) \div below, below))

get_time_left_string(time_left, show_zero_values) ==
  CASE time_left <= 0 -> IF show_zero_values THEN Infinity ELSE Text(<<>>)
    [] time_left >= 2 * Month -> Infinity
    [] time_left >= Month /\ time_left < 2 * Month -> TwoUnits(time_left, Month, Day)
    [] time_left >= Day /\ time_left < Month -> TwoUnits(time_left, Day, Hour)
    [] time_left >= Hour /\ time_left < Day -> TwoUnits(time_left, Hour, Minute)
    [] time_left >= Minute /\ time_left < Hour -> TwoUnits(time_left, Minute, 1)
    [] OTHER -> Text(<<Amount(time_left, 1)>>)

\* C++ division goes towards zero.
Quotient(n, d) == IF n >= 0 THEN n \div d ELSE -((-n) \div d)

Kilobyte == Kilo
Megabyte == Kilo * Kilo
Gigabyte == Kilo * Kilo * Kilo

\* Fault in In: a unit is used as soon as there is one of it.
InTooSoon(size, unit, below) ==
  [n |-> Quotient(size, unit), unit |-> unit,
   fraction |-> IF Quotient(size, unit) >= 100 THEN 0
                ELSE IF unit = Gigabyte
                  THEN Quotient(Quotient(size, Kilo) * 10, Kilo * Kilo) - Quotient(size, unit) * 10
                  ELSE Quotient(size * 10, unit) - Quotient(size, unit) * 10]

\* The unit one below the largest one is used until there are ten thousands of
\* it; a tenth is added to a number below a hundred.
In(size, unit, below) ==
  IF Quotient(size, Thousand * below) >= 10
    THEN [n |-> Quotient(size, unit), unit |-> unit,
          fraction |-> IF Quotient(size, unit) >= 100 THEN 0
                       ELSE IF unit = Gigabyte
                         THEN Quotient(Quotient(size, Kilo) * 10, Kilo * Kilo) - Quotient(size, unit) * 10
                         ELSE Quotient(size * 10, unit) - Quotient(size, unit) * 10]
    ELSE [n |-> Quotient(size, below), unit |-> below, fraction |-> 0]

size_to_string(size, show_zero_values) ==
  IF ~show_zero_values /\ size <= 0 THEN <<>>
  ELSE CASE Quotient(size, Gigabyte) # 0 -> <<In(size, Gigabyte, Megabyte)>>
         [] Quotient(size, Gigabyte) = 0 /\ Quotient(size, Megabyte) # 0 -> <<In(size, Megabyte, Kilobyte)>>
         [] Quotient(size, Megabyte) = 0 /\ Quotient(size, Kilobyte) # 0 -> <<In(size, Kilobyte, 1)>>
         [] OTHER -> <<[n |-> size, unit |-> 1, fraction |-> 0]>>

\* A speed of zero is one of "0 B/s" and nothing; a negative one is not known.
speed_to_string(speed, show_zero_values) ==
  CASE speed = 0 -> IF show_zero_values THEN <<[n |-> 0, unit |-> 1, fraction |-> 0]>> ELSE <<>>
    [] speed > 0 -> size_to_string(speed, TRUE)
    [] OTHER -> IF show_zero_values THEN <<Infinity>> ELSE <<>>

-----------------------------------------------------------------------------
(* Characters.                                                             *)

Letter == "x"
Space == " "
Separator == "|"
Unprintable == "?"       \* a byte that is in no character of the charset
Character == {Letter, Space, Separator, Unprintable}
String == UNION {[1 .. n -> Character] : n \in 0 .. MaxLength}

is_empty_string(s) == \A i \in DOMAIN s : s[i] = Space

\* The two loops of trim(): "start" spaces are skipped, then "size" characters kept.
Start(s) == IF is_empty_string(s) THEN Len(s)
            ELSE (CHOOSE i \in DOMAIN s : s[i] # Space /\ \A j \in 1 .. i - 1 : s[j] = Space) - 1
Kept(s, start) ==
  LET sizes == {n \in 1 .. Len(s) - start : s[start + n] # Space}
  IN  IF sizes = {} THEN 0 ELSE CHOOSE n \in sizes : \A m \in sizes : m <= n
trim(s) == LET start == Start(s) IN SubSeq(s, start + 1, start + Kept(s, start))

\* boost::split() as it is called: each separator ends a word, an empty one too.
Added(words, c) ==
  IF c = Separator THEN Append(words, <<>>) ELSE Append(Front(words), Append(Last(words), c))
split(s) ==
  LET words[n \in 0 .. Len(s)] == IF n = 0 THEN <<<<>>>> ELSE Added(words[n - 1], s[n])
  IN  words[Len(s)]

\* _Q() of a string without a translation: what follows its first separator.
_Q(s) == LET at == {i \in DOMAIN s : s[i] = Separator}
         IN  IF at = {} THEN s
             ELSE SubSeq(s, (CHOOSE i \in at : \A j \in at : i <= j) + 1, Len(s))

\* convert(), L2U() and U2L() of what cannot be converted: the bytes that cannot
\* be printed are written as numbers, and a note is added.
Spelt == "%XX"
InvalidEncoding == <<"[[Invalid encoding]]">>
Convertible(s) == Unprintable \notin Range(s)
convert(s) ==
  IF Convertible(s) THEN s
  ELSE [i \in DOMAIN s |-> IF s[i] = Unprintable THEN Spelt ELSE s[i]] \o InvalidEncoding

-----------------------------------------------------------------------------
Ask(q, a) == question' = q /\ answer' = a

AskDuration(t, zero) ==
  Ask([about |-> "duration", of |-> t, zero |-> zero], get_time_duration_string(t, zero))
AskTimeLeft(t, zero) ==
  Ask([about |-> "time left", of |-> t, zero |-> zero], get_time_left_string(t, zero))
AskSize(s, zero) == Ask([about |-> "size", of |-> s, zero |-> zero], size_to_string(s, zero))
AskSpeed(s, zero) == Ask([about |-> "speed", of |-> s, zero |-> zero], speed_to_string(s, zero))
AskString(s) ==
  Ask([about |-> "string", of |-> s],
      [trimmed |-> trim(s), words |-> split(s), unqualified |-> _Q(s), converted |-> convert(s)])

StringsInit == question = [about |-> "nothing"] /\ answer = <<>>

StringsNext ==
  /\ question.about = "nothing"
  /\ \/ \E t \in Periods, zero \in BOOLEAN : AskDuration(t, zero)
     \/ \E t \in Periods, zero \in BOOLEAN : AskTimeLeft(t, zero)
     \/ \E s \in Sizes, zero \in BOOLEAN : AskSize(s, zero)
     \/ \E s \in Sizes, zero \in BOOLEAN : AskSpeed(s, zero)
     \/ \E s \in String : AskString(s)

StringsSpec == StringsInit /\ [][StringsNext]_stringVars

-----------------------------------------------------------------------------
Total(parts) ==
  LET sum[n \in 0 .. Len(parts)] == IF n = 0 THEN 0 ELSE sum[n - 1] + parts[n].n * parts[n].unit
  IN  sum[Len(parts)]

\* A period is shown exactly up to a unit: minutes below a day, hours below a
\* month, days above (seconds, minutes, hours and days for the time left);
\* every number is in the range of its unit.
PeriodIsShown(t, left, shown) ==
  LET finest == CASE t >= Month -> Day
                  [] t < Month /\ t >= Day -> Hour
                  [] t < Day /\ t >= Hour -> Minute
                  [] OTHER -> IF left THEN 1 ELSE Minute
  IN  CASE left /\ t >= 2 * Month -> shown = Infinity
        [] OTHER ->
             /\ shown.kind = "text" /\ shown.parts # <<>>
             /\ Total(shown.parts) = t - (t % finest)
             /\ \A i \in DOMAIN shown.parts : shown.parts[i].n > 0
             /\ \A i \in 2 .. Len(shown.parts) :
                  shown.parts[i].n * shown.parts[i].unit < shown.parts[i - 1].unit

\* Every period is shown so; of durations, those of a minute or more: for a
\* shorter one get_time_duration_string() has nothing to show, and throws
\* std::out_of_range where string.hpp promises a string.
PeriodsAreRight ==
  question.about \in {"duration", "time left"} /\ question.of > 0
  /\ (question.about = "duration" => question.of >= Minute) =>
    PeriodIsShown(question.of, question.about = "time left", answer)

\* A size is never shown as more than it is, and by less than a tenth of the
\* unit as less while the number is below a hundred, by less than the unit
\* otherwise; below gigabytes no number needs five digits.
SizeIsShown(size, shown) ==
  /\ shown.fraction \in 0 .. 9
  /\ shown.n * shown.unit <= size /\ size < (shown.n + 1) * shown.unit
  /\ shown.unit # Gigabyte => shown.n < 10 * Thousand
  /\ (10 * shown.n + shown.fraction) * shown.unit <= 10 * size
  /\ shown.unit > 1 /\ shown.n < 100 =>
       10 * size < (10 * shown.n + shown.fraction + 1) * shown.unit + 10 * Kilo
  /\ shown.unit > 1 => shown.n > 8
SizesAreRight ==
  question.about \in {"size", "speed"} /\ question.of > 0 =>
    Len(answer) = 1 /\ SizeIsShown(question.of, answer[1])

\* The words with separators between them.
Together(words) ==
  LET joined[n \in 0 .. Len(words) - 1] ==
        IF n = 0 THEN words[1] ELSE joined[n - 1] \o <<Separator>> \o words[n + 1]
  IN  joined[Len(words) - 1]

\* Strings keep what they say: trim() takes spaces only, from the ends only, and
\* all of them; the words of split() with the separators between them are the
\* string again, so that there are empty ones wherever two separators meet or one
\* is at an end (string.hpp says there are none); a string that can be converted is
\* left alone, and another one says so and keeps the characters that can be printed
\* where they were.
IsTrimmed(s, t) ==
  /\ \E before, after \in 0 .. Len(s) :
       /\ before + Len(t) + after = Len(s)
       /\ t = SubSeq(s, before + 1, before + Len(t))
       /\ \A i \in 1 .. before : s[i] = Space
       /\ \A i \in 1 .. after : s[Len(s) + 1 - i] = Space
  /\ t # <<>> => Space \notin {Head(t), Last(t)}
IsSplit(s, words, unqualified) ==
  /\ Together(words) = s
  /\ \A w \in Range(words) : Separator \notin Range(w)
  /\ Separator \in Range(s) =>
       \E i \in DOMAIN s : /\ s[i] = Separator
                           /\ SubSeq(s, i + 1, Len(s)) = unqualified
                           /\ Len(Head(words)) = i - 1
IsConverted(s, converted) ==
  /\ Convertible(s) <=> converted = s
  /\ Convertible(s) \/ Last(converted) = InvalidEncoding[1]
  /\ \A i \in DOMAIN s : s[i] # Unprintable => converted[i] = s[i]
StringsAreKept ==
  question.about = "string" =>
    /\ IsTrimmed(question.of, answer.trimmed)
    /\ IsSplit(question.of, answer.words, answer.unqualified)
    /\ IsConverted(question.of, answer.converted)

\* Every answer of string.cpp tells its reader what is asked, as these three say
\* of periods, of sizes and speeds, and of strings.
AnswersAreRight == PeriodsAreRight /\ SizesAreRight /\ StringsAreKept
=============================================================================
