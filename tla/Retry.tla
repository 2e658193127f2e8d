------------------------------- MODULE Retry --------------------------------
(***************************************************************************)
(* RetryTransport (internal/httpx/roundtrip.go): an HTTP transport that    *)
(* sends a request a second time when its answer has one of some codes, or *)
(* its context's deadline passed.                                          *)
(*                                                                         *)
(* BindRetryTransport puts one more transport around the client's, so that *)
(* a client that is bound again has several, one inside the other, each    *)
(* with a buffer of what was read of the body through it: that buffer is   *)
(* the body of its second attempt.  A body is known by how much of it can  *)
(* be read, always from its first byte.                                    *)
(***************************************************************************)
EXTENDS Naturals, Sequences, FiniteSetsExt

CONSTANTS
  CodeSets,    \* the sets of codes clients are bound with
  Codes,       \* all codes of answers
  MaxWraps,    \* bound on how often a client is bound
  BodyLength   \* the length of a request's body

ASSUME RetryAssumption ==
  /\ \A s \in CodeSets : s \subseteq Codes
  /\ BodyLength \in Nat

VARIABLES
  codes,     \* the client's transports, the outermost first: their codes
  second,    \* the request: which of them are in their second attempt
  buf,       \* and how much each has in its buffer
  given,     \* how much of a body the next attempt is given
  outcome,   \* the last attempt's code or error
  request,   \* "none", "send", "answer" or "done"
  attempts,  \* history: attempts so far
  early      \* history: an attempt ended before it had read its body

retryvars == <<codes, second, buf, given, outcome, request, attempts, early>>

Levels == DOMAIN codes
Outcomes == Codes \cup {"deadline", "error"}

RetryInit ==
  /\ codes = <<>> /\ second = <<>> /\ buf = <<>> /\ given = 0
  /\ outcome = "none" /\ request = "none"
  /\ attempts = 0 /\ early = FALSE

\* the client is shared: http.DefaultClient is bound by every pass over feeds
BindRetryTransport(s) ==
  /\ request = "none" /\ Len(codes) < MaxWraps
  /\ codes' = <<s>> \o codes
  /\ UNCHANGED <<second, buf, given, outcome, request, attempts, early>>

\* every transport tees the body of the one around it
RoundTrip ==
  /\ request = "none" /\ request' = "send"
  /\ second' = [i \in Levels |-> FALSE] /\ buf' = [i \in Levels |-> 0]
  /\ given' = BodyLength
  /\ UNCHANGED <<codes, outcome, attempts, early>>

\* The innermost transport reads some of the body and has an outcome.  What it
\* reads passes the tees inside of which no second attempt is under way.
Attempt(out, read) ==
  /\ request = "send" /\ request' = "answer"
  /\ attempts' = attempts + 1
  /\ outcome' = out
  /\ buf' = [i \in Levels |->
                IF \A j \in i .. Len(codes) : ~second[j] THEN read ELSE buf[i]]
  /\ early' = (early \/ read < given)
  /\ UNCHANGED <<codes, second, given>>

\* whether transport i, given this outcome by the one inside it, tries again
Reattempts(i, out) == ~second[i] /\ (out = "deadline" \/ out \in codes[i])

\* Mutant of Reattempt: the request's own body, which was read, is sent.
ReattemptRead ==
  LET tries == {i \in Levels : Reattempts(i, outcome)} IN
  /\ request = "answer" /\ tries # {} /\ request' = "send"
  /\ second' = [i \in Levels |-> CASE i = Max(tries) -> TRUE
                                   [] i > Max(tries) -> FALSE [] OTHER -> second[i]]
  /\ given' = given - buf[Max(tries)]
  /\ UNCHANGED <<codes, buf, outcome, attempts, early>>

\* The innermost that may try again does, with its buffer for a body; those
\* inside it see a new request.  An answer that is tried again is not closed.
Reattempt ==
  LET tries == {i \in Levels : Reattempts(i, outcome)} IN
  /\ request = "answer" /\ tries # {} /\ request' = "send"
  /\ second' = [i \in Levels |-> CASE i = Max(tries) -> TRUE
                                   [] i > Max(tries) -> FALSE [] OTHER -> second[i]]
  /\ given' = buf[Max(tries)]
  /\ UNCHANGED <<codes, buf, outcome, attempts, early>>

\* none tries again: the caller gets what the last attempt got
Answer ==
  /\ request = "answer" /\ \A i \in Levels : ~Reattempts(i, outcome)
  /\ request' = "done"
  /\ UNCHANGED <<codes, second, buf, given, outcome, attempts, early>>

RetryNext ==
  \/ \E s \in CodeSets : BindRetryTransport(s)
  \/ RoundTrip
  \/ \E out \in Outcomes, read \in 0 .. given : Attempt(out, read)
  \/ Reattempt \/ Answer

RetrySpec == RetryInit /\ [][RetryNext]_retryvars

-----------------------------------------------------------------------------
\* What a retry may do: it sends the whole body again unless an answer came
\* before the body was read; a client bound n times makes 2^n attempts at the
\* most, once bound the single further one its comment promises; and what the
\* caller gets, when a transport would have tried it again, was tried again.
RetriesAreSound ==
  /\ (request = "send" /\ ~early) => given = BodyLength
  /\ attempts <= 2 ^ Len(codes)
  /\ (request = "done" /\ \E i \in Levels : outcome = "deadline" \/ outcome \in codes[i])
        => attempts >= 2
=============================================================================
