-------------------------------- MODULE Time --------------------------------
(***************************************************************************)
(* time.c, clock.h and strconv.c: arithmetic on times and their decimal    *)
(* form.                                                                   *)
(***************************************************************************)
EXTENDS Integers, Sequences, SequencesExt

CONSTANTS
  NS_PER_SEC,   \* nanoseconds of a second: a billion in the code
  WIDTH         \* digits of the string form: the buffer of time.c has 19, and time.h says 20

ASSUME TimeAssumption == NS_PER_SEC \in Nat \ {0} /\ WIDTH \in Nat \ {0}

\* Division of C: towards zero.
Quot(a, b) == IF a >= 0 THEN a \div b ELSE -((-a) \div b)
Rem(a, b) == a - b * Quot(a, b)

Nanos(ts) == ts.sec * NS_PER_SEC + ts.nsec

a0_clock_add(ts, add_nsec) ==
  LET sec == ts.sec + Quot(add_nsec, NS_PER_SEC)
      nsec == ts.nsec + Rem(add_nsec, NS_PER_SEC)
  IN IF nsec >= NS_PER_SEC THEN [sec |-> sec + 1, nsec |-> nsec - NS_PER_SEC]
     ELSE IF nsec < 0 THEN [sec |-> sec - 1, nsec |-> nsec + NS_PER_SEC]
     ELSE [sec |-> sec, nsec |-> nsec]

\* From one clock to another, by the difference of two readings.
a0_clock_convert(orig_ts, orig_now, target_now) ==
  a0_clock_add(target_now, (orig_ts.sec - orig_now.sec) * NS_PER_SEC + (orig_ts.nsec - orig_now.nsec))

\* Two digits at a time, from the end of the buffer.
Pairs[val \in Nat] ==
  IF val >= 10 THEN Pairs[val \div 100] \o <<(val % 100) \div 10, val % 10>>
  ELSE IF val # 0 THEN <<val>> ELSE <<>>

\* a0_u64_to_str does not look: what it does with a number that has more digits is undefined.
Fits(val, width) == Len(Pairs[val]) <= width

\* The buffer, filled up with zeros, and the position of the first digit.
a0_u64_to_str(val, width) ==
  LET digits == Pairs[val]
      zeros == width - Len(digits)
  IN [str |-> [i \in 1..width |-> IF i <= zeros THEN 0 ELSE digits[i - zeros]],
      start |-> zeros + 1 - (IF val = 0 THEN 1 ELSE 0)]

a0_str_to_u64(str) == FoldLeft(LAMBDA n, d : n * 10 + d, 0, str)

a0_time_mono_str(ts) == a0_u64_to_str(Nanos(ts), WIDTH).str

a0_time_mono_parse(str) ==
  LET ns == a0_str_to_u64(str) IN [sec |-> ns \div NS_PER_SEC, nsec |-> ns % NS_PER_SEC]

-----------------------------------------------------------------------------

Less(s, t) == \E i \in 1..WIDTH : s[i] < t[i] /\ \A j \in 1..i - 1 : s[j] = t[j]

(* Sums and conversions are exact and normalised, also for negative        *)
(* differences.                                                            *)
SumsAreExact(ts, others) ==
  /\ \A other \in others : \A sum \in {a0_clock_add(ts, Nanos(other)), a0_clock_add(ts, -Nanos(other))} :
       /\ sum.nsec \in 0..NS_PER_SEC - 1
       /\ Nanos(sum) - Nanos(ts) \in {Nanos(other), -Nanos(other)}
  /\ \A now \in others : Nanos(a0_clock_convert(ts, now, ts)) - Nanos(ts) = Nanos(ts) - Nanos(now)

(* The string form of a time that fits is read back as it was written,     *)
(* starts at its first digit, and sorts as the times do that fit.          *)
StringIsTime(ts, others) ==
  LET s == a0_u64_to_str(Nanos(ts), WIDTH)
      fitting == {other \in others : Fits(Nanos(other), WIDTH)}
  IN /\ a0_time_mono_parse(a0_time_mono_str(ts)) = ts
     /\ a0_str_to_u64(SubSeq(s.str, s.start, WIDTH)) = Nanos(ts)
     /\ Nanos(ts) # 0 => s.str[s.start] # 0
     /\ \A other \in fitting : Less(a0_time_mono_str(ts), a0_time_mono_str(other)) <=> Nanos(ts) < Nanos(other)

TimesAgree(ts, others) ==
  /\ SumsAreExact(ts, others)
  /\ Fits(Nanos(ts), WIDTH) => StringIsTime(ts, others)
=============================================================================
