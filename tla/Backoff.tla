------------------------------ MODULE Backoff -------------------------------
(***************************************************************************)
(* The delays of internal/backoffx: strategies that map an attempt to a    *)
(* duration, in integers of a machine's width, and the loops Iter and      *)
(* Attempt that ask them.  Strategies are the compositions the daemons     *)
(* use; an attempt is never negative.                                      *)
(***************************************************************************)
EXTENDS Integers, Sequences, FiniteSetsExt

CONSTANTS
  Width,        \* bits of a duration
  Scales,       \* scales of exponential strategies
  Bounds,       \* bounds for Minimum and Maximum
  MaxAttempt    \* bound on the attempt

ASSUME BackoffAssumption ==
  /\ Width \in Nat \ {0, 1}
  /\ Scales \subseteq 1 .. 2 ^ (Width - 1) - 1
  /\ Bounds \subseteq 1 .. 2 ^ (Width - 1) - 1
  /\ MaxAttempt \in Nat

VARIABLES
  strategy,   \* the strategy: its kind and parameters
  attempt,    \* the attempt the loop is at
  delay       \* the delay it was given, Unset before the first

backoffvars == <<strategy, attempt, delay>>

Unset == -1
MaxInt64 == 2 ^ (Width - 1) - 1
Signed(x) == IF x > MaxInt64 THEN x - 2 ^ Width ELSE x

\* Mutant of Exponential: what does not fit is cut off.
ExponentialWraps(scale, n) ==
  Signed(((IF n >= Width THEN 0 ELSE 2 ^ n) * scale) % 2 ^ Width)

\* exponential.Backoff: the shift is of a signed integer, the product of
\* unsigned ones in two words
Exponential(scale, n) ==
  LET exp == Signed(IF n >= Width THEN 0 ELSE 2 ^ n)
      hi == (exp * scale) \div 2 ^ Width
      lo == (exp * scale) % 2 ^ Width
  IN IF exp <= 0 \/ hi # 0 \/ lo > MaxInt64 THEN MaxInt64 ELSE lo

Maximum(d, x) == IF x < d THEN x ELSE d
Minimum(d, x) == IF x > d THEN x ELSE d

\* Jitter by a tenth: the sum may wrap, the larger of the two never does; for
\* a tenth that is 0 rand.Intn panics, and there is no result
Jitter(x) ==
  IF x = MaxInt64 THEN {x}
  ELSE {Max({x, Signed((x + r) % 2 ^ Width)}) : r \in 0 .. (x \div 10) - 1}

\* explicit.Backoff
Cycle(delays, n) == delays[(n % Len(delays)) + 1]

\* DynamicHashWindow of a digest; DynamicHashDuration guards the window 0
DynamicHashWindow(digest, window) == digest % window
DynamicHashDuration(digest, window) ==
  IF window = 0 THEN 0 ELSE DynamicHashWindow(digest, window)

-----------------------------------------------------------------------------
Strategies ==
  [kind : {"capped"}, scale : Scales, max : Bounds]
  \cup [kind : {"clamped"}, scale : Scales, min : Bounds, max : Bounds]
  \cup [kind : {"jittered"}, scale : {c \in Bounds : c >= 10}]
  \cup [kind : {"cycle"}, delays : {<<a, b, c>> : a, b, c \in Bounds}]
  \cup [kind : {"hashed"}, window : Bounds \cup {0}]

\* New applies its options in order, so the last one given has the last word
Delays(s, n) ==
  CASE s.kind = "capped" -> {Maximum(s.max, Exponential(s.scale, n))}
    [] s.kind = "clamped" -> {Maximum(s.max, Minimum(s.min, Exponential(s.scale, n)))}
    [] s.kind = "jittered" -> Jitter(s.scale)
    [] s.kind = "cycle" -> {Cycle(s.delays, n)}
    [] s.kind = "hashed" -> {DynamicHashDuration(h, s.window) : h \in 0 .. 2 ^ Width - 1}

BackoffInit == strategy \in Strategies /\ attempt = 0 /\ delay = Unset

\* Iter: the delays of 0, 1, 2, ...
Iter ==
  /\ attempt < MaxAttempt
  /\ attempt' = IF delay = Unset THEN 0 ELSE attempt + 1
  /\ delay' \in Delays(strategy, attempt')
  /\ UNCHANGED strategy

\* Attempt, and the loops that count by hand: a success starts over
StartOver ==
  /\ delay # Unset /\ attempt > 0 /\ attempt' = 0
  /\ delay' \in Delays(strategy, 0)
  /\ UNCHANGED strategy

BackoffNext == Iter \/ StartOver

BackoffSpec == BackoffInit /\ [][BackoffNext]_backoffvars

-----------------------------------------------------------------------------
\* A delay is what the mathematics says, however many attempts there were: an
\* exponential that leaves the machine's integers stays at its bound, and never
\* becomes 0 or negative, which would make its loop a busy one; jitter only
\* adds; a hashed delay is inside its window (backoff.go, Backoff).
DelaysAreExact ==
  delay # Unset =>
    CASE strategy.kind = "capped" ->
            delay = Min({strategy.max, strategy.scale * 2 ^ attempt})
      [] strategy.kind = "clamped" ->
            delay = Min({strategy.max, Max({strategy.min, strategy.scale * 2 ^ attempt})})
      [] strategy.kind = "jittered" ->
            strategy.scale <= delay /\ delay * 10 < strategy.scale * 11
      [] strategy.kind = "cycle" ->
            \E k \in 0 .. MaxAttempt, i \in 1 .. 3 :
                attempt = 3 * k + i - 1 /\ delay = strategy.delays[i]
      [] strategy.kind = "hashed" ->
            delay >= 0 /\ (delay < strategy.window \/ delay = 0)
=============================================================================
