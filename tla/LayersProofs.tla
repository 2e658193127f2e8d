---------------------------- MODULE LayersProofs ----------------------------
(***************************************************************************)
(* Theorems about the layers the services stand on: the mapping of a port  *)
(* (PortMapping), the arithmetic of the block cache (BlockRange), the way  *)
(* rows take to a loop over them (Results), a client's retries (Retry),    *)
(* the delays between attempts (Backoff) and the filesystem over a         *)
(* torrent's blocks (VirtualFiles).                                        *)
(*                                                                         *)
(* Each theorem has an inductive invariant of its own: PortsInv, BlockInv, *)
(* ResultsInv, RetryInv, BackoffInv and VfsInv.  Inductions go through     *)
(* sets: a set of naturals that holds 0 and successors is Nat, since its   *)
(* complement has no least element; a power of two is the number of        *)
(* subsets of an interval; and a recursive function is what iterating a    *)
(* step makes (IterationExists).                                           *)
(***************************************************************************)
EXTENDS PortMapping, BlockRange, Results, Retry, Backoff, VirtualFiles,
        FiniteSetTheorems, SequenceTheorems, WellFoundedInduction, TLAPS

-----------------------------------------------------------------------------
(* Numbers *)

\* a set of naturals has a least element: their initial segments are well founded
LEMMA LeastNatural ==
    ASSUME NEW S \in SUBSET Nat, S # {}
    PROVE  \E m \in S : \A k \in S : m <= k
<1> DEFINE R == StrictSubsetOrdering(Nat)
           T == {0..p : p \in S}
<1>1. IsWellFoundedOn(R, FiniteSubsetsOf(Nat))
  BY FS_StrictSubsetOrderingWellFounded
<1>2. ASSUME NEW p \in S PROVE 0..p \in FiniteSubsetsOf(Nat)
  <2>1. IsFiniteSet(0..p)
    BY FS_Interval
  <2>2. QED
    BY <2>1 DEF FiniteSubsetsOf
<1>3. T \subseteq FiniteSubsetsOf(Nat) /\ T # {}
  BY <1>2
<1>4. PICK x \in T : \A y \in T : ~(<<y, x>> \in R)
  <2> HIDE DEF R, T
  <2> QED
    BY <1>1, <1>3, WFMin
<1>5. PICK m \in S : x = 0..m
  OBVIOUS
<1>6. ASSUME NEW k \in S, ~(m <= k) PROVE FALSE
  <2>1. 0..k \subseteq 0..m /\ m \in 0..m /\ m \notin 0..k
    BY <1>6
  <2>2. <<0..k, 0..m>> \in R
    BY <2>1 DEF StrictSubsetOrdering
  <2>3. QED
    BY <1>4, <1>5, <2>2
<1>7. QED
  BY <1>6

\* induction over the naturals, for a set of them
LEMMA SetInduction ==
    ASSUME NEW S \in SUBSET Nat, 0 \in S, \A p \in S : p + 1 \in S
    PROVE  S = Nat
<1>1. SUFFICES ASSUME Nat \ S # {} PROVE FALSE
  OBVIOUS
<1>2. PICK m \in Nat \ S : \A k \in Nat \ S : m <= k
  <2> DEFINE C == Nat \ S
  <2>1. C \in SUBSET Nat /\ C # {}
    BY <1>1
  <2> HIDE DEF C
  <2>2. \E m \in C : \A k \in C : m <= k
    BY <2>1, LeastNatural
  <2> QED
    BY <2>2 DEF C
<1>3. m # 0 /\ m - 1 \in Nat
  BY <1>2
<1>4. m - 1 \in S
  BY <1>2, <1>3
<1>5. QED
  BY <1>2, <1>3, <1>4

\* the largest of some numbers below a bound is the one Max chooses
LEMMA MaxOfBounded ==
    ASSUME NEW p \in Nat, NEW S \in SUBSET (0..p), S # {}
    PROVE  Max(S) \in S /\ \A k \in S : k <= Max(S)
<1> DEFINE D == {p - k : k \in S}
<1>1. D \in SUBSET Nat /\ D # {}
  <2>1. \A k \in S : p - k \in Nat
    OBVIOUS
  <2>2. D # {}
    OBVIOUS
  <2> QED
    BY <2>1, <2>2
<1>2. PICK d \in D : \A e \in D : d <= e
  <2> HIDE DEF D
  <2> QED
    BY <1>1, LeastNatural
<1>3. PICK m \in S : d = p - m
  OBVIOUS
<1>4. \A k \in S : m >= k
  BY <1>2, <1>3
<1>5. QED
  BY <1>4 DEF Max

LEMMA MaxOfPair ==
    ASSUME NEW x \in Int, NEW y \in Int
    PROVE  Max({x, y}) = IF x >= y THEN x ELSE y
<1>1. \E m \in {x, y} : \A k \in {x, y} : m >= k
  OBVIOUS
<1>2. Max({x, y}) \in {x, y} /\ Max({x, y}) >= x /\ Max({x, y}) >= y
  BY <1>1 DEF Max
<1> QED
  BY <1>2

\* powers of two count the subsets of an interval
LEMMA PowerCounts ==
    ASSUME NEW p \in Nat
    PROVE  /\ IsFiniteSet(SUBSET (1..p)) /\ Cardinality(SUBSET (1..p)) = 2 ^ p
           /\ 2 ^ p \in Nat
<1>1. IsFiniteSet(1..p) /\ Cardinality(1..p) = p
  BY FS_Interval
<1>2. IsFiniteSet(SUBSET (1..p)) /\ Cardinality(SUBSET (1..p)) = 2 ^ p
  BY <1>1, FS_SUBSET
<1>3. QED
  BY <1>2, FS_CardinalityType

LEMMA PowerDoubles ==
    ASSUME NEW p \in Nat
    PROVE  2 ^ (p + 1) = 2 * 2 ^ p
<1> DEFINE S == SUBSET (1..p)
           W == {s \cup {p + 1} : s \in S}
<1>1. SUBSET (1..(p + 1)) = S \cup W
  <2>1. ASSUME NEW s \in SUBSET (1..(p + 1)) PROVE s \in S \cup W
    <3>1. CASE p + 1 \in s
      <4>1. \A k \in s \ {p + 1} : k \in 1..p
        OBVIOUS
      <4>2. s = (s \ {p + 1}) \cup {p + 1}
        BY <3>1
      <4> QED
        BY <4>1, <4>2
    <3>2. CASE p + 1 \notin s
      <4>1. \A k \in s : k \in 1..p
        BY <3>2
      <4> QED
        BY <4>1
    <3> QED
      BY <3>1, <3>2
  <2>2. 1..p \subseteq 1..(p + 1) /\ p + 1 \in 1..(p + 1)
    OBVIOUS
  <2>3. S \cup W \subseteq SUBSET (1..(p + 1))
    BY <2>2
  <2> QED
    BY <2>1, <2>3
<1>2. S \cap W = {}
  OBVIOUS
<1>3. IsFiniteSet(S) /\ Cardinality(S) = 2 ^ p /\ 2 ^ p \in Nat
  BY PowerCounts
<1>4. IsFiniteSet(W) /\ Cardinality(W) = Cardinality(S)
  <2> DEFINE f == [s \in S |-> s \cup {p + 1}]
  <2>1. ASSUME NEW s \in S, NEW t \in S, f[s] = f[t] PROVE s = t
    <3>1. p + 1 \notin s /\ p + 1 \notin t /\ s \cup {p + 1} = t \cup {p + 1}
      BY <2>1
    <3> QED
      BY <3>1
  <2>2. f \in [S -> W] /\ \A w \in W : \E s \in S : f[s] = w
    OBVIOUS
  <2>3. f \in Bijection(S, W)
    <3> HIDE DEF f, S, W
    <3> QED
      BY <2>1, <2>2 DEF Bijection, Injection, Surjection, IsInjective
  <2> HIDE DEF f, S, W
  <2> QED
    BY <1>3, <2>3, FS_Bijection DEF ExistsBijection
<1>5. Cardinality(S \cup W) = 2 ^ p + 2 ^ p
  <2>1. Cardinality({}) = 0
    BY FS_EmptySet
  <2> HIDE DEF S, W
  <2>2. Cardinality(S \cup W) = Cardinality(S) + Cardinality(W) - Cardinality(S \cap W)
    BY <1>3, <1>4, FS_Union
  <2>3. Cardinality(S \cap W) = 0
    BY <1>2, <2>1
  <2> QED
    BY <1>3, <1>4, <2>2, <2>3
<1>6. Cardinality(SUBSET (1..(p + 1))) = 2 ^ (p + 1)
  <2>1. p + 1 \in Nat
    OBVIOUS
  <2> QED
    BY <2>1, PowerCounts
<1> HIDE DEF S, W
<1>7. 2 ^ (p + 1) = 2 ^ p + 2 ^ p
  BY <1>1, <1>5, <1>6
<1>8. QED
  BY <1>3, <1>7

LEMMA PowersGrow ==
    ASSUME NEW m \in Nat, NEW p \in Nat, m <= p
    PROVE  2 ^ m <= 2 ^ p
<1>1. 1..m \subseteq 1..p
  OBVIOUS
<1>2. SUBSET (1..m) \in SUBSET (SUBSET (1..p))
  BY <1>1
<1>3. Cardinality(SUBSET (1..m)) <= Cardinality(SUBSET (1..p))
  <2> DEFINE A == SUBSET (1..m)
             B == SUBSET (1..p)
  <2>1. IsFiniteSet(B) /\ A \in SUBSET B
    BY <1>2, PowerCounts
  <2> HIDE DEF A, B
  <2>2. Cardinality(A) <= Cardinality(B)
    BY <2>1, FS_Subset
  <2> QED
    BY <2>2 DEF A, B
<1>4. QED
  BY <1>3, PowerCounts

LEMMA PowerOfZero == 2 ^ 0 = 1
<1>1. IsFiniteSet({}) /\ Cardinality({}) = 0
  BY FS_EmptySet
<1>2. Cardinality(SUBSET {}) = 2 ^ 0
  BY <1>1, FS_SUBSET
<1>3. SUBSET {} = {{}}
  OBVIOUS
<1>4. Cardinality({{}}) = 1
  BY FS_Singleton
<1>5. QED
  BY <1>2, <1>3, <1>4

LEMMA PowersArePositive ==
    ASSUME NEW p \in Nat
    PROVE  2 ^ p \in Nat /\ 1 <= 2 ^ p
<1>1. 0 \in Nat /\ 0 <= p
  OBVIOUS
<1>2. 2 ^ 0 <= 2 ^ p
  BY <1>1, PowersGrow
<1> QED
  BY <1>2, PowerOfZero, PowerCounts

\* a function whose first value is in a set, and each next one if its
\* predecessor is, has all its values there
LEMMA ValuesStay ==
    ASSUME NEW p \in Nat, NEW D, NEW f, f[0] \in D,
           \A i \in 1..p : f[i - 1] \in D => f[i] \in D
    PROVE  \A i \in 0..p : f[i] \in D
<1> DEFINE K == {k \in Nat : k <= p => f[k] \in D}
<1>1. K \in SUBSET Nat /\ 0 \in K
  OBVIOUS
<1>2. ASSUME NEW k \in K PROVE k + 1 \in K
  <2>1. SUFFICES ASSUME k + 1 <= p PROVE f[k + 1] \in D
    OBVIOUS
  <2>2. k + 1 \in 1..p /\ (k + 1) - 1 = k /\ f[k] \in D
    BY <1>2, <2>1
  <2> QED
    BY <2>2
<1>3. K = Nat
  <2> HIDE DEF K
  <2> QED
    BY <1>1, <1>2, SetInduction
<1> QED
  BY <1>3

\* the values of a step that is iterated, one step for each index
Iterates(g, m, D, start, step) ==
  /\ g \in [0..m -> D] /\ g[0] = start
  /\ \A i \in 1..m : g[i] = step[i][g[i - 1]]

\* a step that is a function can be iterated
LEMMA IterationExists ==
    ASSUME NEW p \in Nat, NEW D, NEW start \in D, NEW step \in [1..p -> [D -> D]]
    PROVE  \E g : Iterates(g, p, D, start, step)
<1> DEFINE Upto(k) == \E g : Iterates(g, k, D, start, step)
           K == {k \in Nat : k <= p => Upto(k)}
<1>1. 0 \in K
  <2>1. Iterates([i \in 0..0 |-> start], 0, D, start, step)
    BY DEF Iterates
  <2>2. Upto(0)
    BY <2>1
  <2> QED
    BY <2>2
<1>2. ASSUME NEW k \in K PROVE k + 1 \in K
  <2>1. SUFFICES ASSUME k + 1 <= p PROVE Upto(k + 1)
    <3>1. k + 1 \in Nat
      BY <1>2
    <3> HIDE DEF Upto
    <3> QED
      BY <3>1
  <2>2. PICK g : /\ g \in [0..k -> D] /\ g[0] = start
                 /\ \A i \in 1..k : g[i] = step[i][g[i - 1]]
    <3>1. k \in Nat /\ k <= p
      BY <1>2, <2>1
    <3>2. Upto(k)
      BY <1>2, <3>1
    <3> QED
      BY <3>2 DEF Iterates
  <2> DEFINE h == [i \in 0..k + 1 |-> IF i <= k THEN g[i] ELSE step[i][g[k]]]
  <2>3. k \in Nat /\ k + 1 \in 1..p /\ g[k] \in D
    BY <1>2, <2>1, <2>2
  <2>4. step[k + 1][g[k]] \in D
    BY <2>3
  <2>5. h \in [0..k + 1 -> D]
    <3>1. ASSUME NEW i \in 0..k + 1
          PROVE  (IF i <= k THEN g[i] ELSE step[i][g[k]]) \in D
      <4>1. CASE i <= k
        <5>1. i \in 0..k
          BY <2>3, <4>1
        <5> QED
          BY <2>2, <4>1, <5>1
      <4>2. CASE ~(i <= k)
        <5>1. i = k + 1
          BY <2>3, <4>2
        <5> QED
          BY <2>4, <4>2, <5>1
      <4> QED
        BY <4>1, <4>2
    <3> QED
      BY <3>1
  <2>6. h[0] = start
    BY <2>2, <2>3
  <2>7. ASSUME NEW i \in 1..k + 1 PROVE h[i] = step[i][h[i - 1]]
    <3>1. i - 1 \in 0..k + 1 /\ i - 1 <= k /\ i \in 0..k + 1
      BY <2>3
    <3>2. h[i - 1] = g[i - 1]
      BY <3>1
    <3>3. CASE i <= k
      <4>1. i \in 1..k
        BY <2>3, <3>3
      <4>2. h[i] = g[i]
        BY <3>1, <3>3
      <4> HIDE DEF h
      <4> QED
        BY <2>2, <3>2, <4>1, <4>2
    <3>4. CASE ~(i <= k)
      <4>1. i - 1 = k
        BY <2>3, <3>4
      <4>2. h[i] = step[i][g[k]]
        BY <3>1, <3>4
      <4> HIDE DEF h
      <4> QED
        BY <3>2, <4>1, <4>2
    <3> QED
      BY <3>3, <3>4
  <2>8. Iterates(h, k + 1, D, start, step)
    <3> HIDE DEF h
    <3> QED
      BY <2>5, <2>6, <2>7 DEF Iterates
  <2> QED
    BY <2>8
<1>3. K = Nat
  <2>1. K \in SUBSET Nat
    OBVIOUS
  <2> HIDE DEF K
  <2> QED
    BY <1>1, <1>2, <2>1, SetInduction
<1>4. p \in K /\ p <= p
  <2> HIDE DEF K
  <2> QED
    BY <1>3
<1> QED
  BY <1>4

-----------------------------------------------------------------------------
(* PortMapping *)

\* an answer of the gateway is the call's: its value is of this round
Answered ==
  \A d \in answers :
    d.from = "gateway" /\ protocolChecks(op, d) =>
        IF op = "addr" THEN d.value \in had ELSE d.value \in granted

\* nothing is under way to or from a closed socket
Quieted == at \in {"off", "dial", "sleep", "wait"} => ~asked /\ answers = {}

PortsInv ==
  /\ op \in {"addr", "map"}
  /\ home \in had
  /\ op = "map" => ex \in had
  /\ Answered
  /\ Quieted

LEMMA PortsBegin == PortsInit => PortsInv
  BY DEF PortsInit, PortsInv, Answered, Quieted

LEMMA PortsStep == PortsInv /\ [PortsNext]_portvars => PortsInv'
<1> SUFFICES ASSUME PortsInv, [PortsNext]_portvars PROVE PortsInv'
  OBVIOUS
<1>1. CASE Dial \/ Send \/ DeadlinePasses \/ Ignore \/ UNCHANGED portvars
  <2>1. /\ answers' \subseteq answers /\ UNCHANGED <<op, ex, home, had, granted>>
        /\ at' \in {"loop", "read"} \/ UNCHANGED <<at, asked, answers>>
    <3>1. CASE Dial \/ Send \/ DeadlinePasses \/ UNCHANGED portvars
      BY <3>1 DEF Dial, Send, DeadlinePasses, portvars, wirevars, gatevars
    <3>2. CASE Ignore
      BY <3>2 DEF Ignore, Receive, gatevars
    <3>3. QED
      BY <1>1, <3>1, <3>2
  <2>2. Answered'
    BY <2>1 DEF PortsInv, Answered
  <2>3. QED
    BY <2>1, <2>2 DEF PortsInv, Quieted
<1>2. CASE GotAddress \/ GotMapping \/ Refused \/ TimedOut \/ CallFails
  <2>1. answers' = {} /\ ~asked' /\ UNCHANGED <<home, had, granted>>
    BY <1>2
    DEF GotAddress, GotMapping, Refused, TimedOut, CallFails, Return, Close, Failed, gatevars
  <2>2. op' \in {"addr", "map"} /\ (op' = "map" => ex' \in had)
    BY <1>2
    DEF GotAddress, GotMapping, Refused, TimedOut, CallFails, Return, Failed, PortsInv,
        Answered
  <2>3. QED
    BY <2>1, <2>2 DEF PortsInv, Answered, Quieted
<1>3. CASE NextRound
  BY <1>3 DEF NextRound, wirevars, PortsInv, Answered, Quieted
<1>4. CASE GatewayAnswers
  <2>1. CASE op = "addr"
    <3>1. /\ asked /\ answers' = answers \cup {Datagram("gateway", 12, "addr", 0, home)}
          /\ UNCHANGED <<at, op, ex, asked, home, had, granted>>
      BY <1>4, <2>1 DEF GatewayAnswers, Reply, goroutine
    <3>2. Datagram("gateway", 12, "addr", 0, home).value = home
      BY DEF Datagram
    <3>3. QED
      BY <2>1, <3>1, <3>2 DEF PortsInv, Answered, Quieted
  <2>2. CASE op = "map"
    <3>1. PICK p \in Ports :
              /\ asked /\ answers' = answers \cup {Datagram("gateway", 16, "map", 0, p)}
              /\ granted' = granted \cup {p}
              /\ UNCHANGED <<at, op, ex, asked, home, had>>
      BY <1>4, <2>2 DEF GatewayAnswers, Reply, goroutine
    <3>2. Datagram("gateway", 16, "map", 0, p).value = p
      BY DEF Datagram
    <3>3. QED
      BY <2>2, <3>1, <3>2 DEF PortsInv, Answered, Quieted
  <2>3. QED
    BY <2>1, <2>2 DEF PortsInv
<1>5. CASE GatewayErrs \/ Stray
  <2>1. PICK d : /\ answers' = answers \cup {d}
                 /\ d.from # "gateway" \/ ~protocolChecks(op, d)
                 /\ asked \/ at \in {"loop", "read"}
    <3>1. CASE Stray
      BY <3>1 DEF Stray, Datagram
    <3>2. CASE GatewayErrs
      <4>1. ASSUME NEW d \in { Datagram("gateway", Size(op), op, 1, NoAddr),
                               Datagram("gateway", Size(op), "other", 0, NoAddr),
                               Datagram("gateway", 8, op, 0, NoAddr) }
            PROVE  ~protocolChecks(op, d)
        BY DEF Datagram, protocolChecks, Size, PortsInv
      <4>2. QED
        BY <3>2, <4>1 DEF GatewayErrs, Reply
    <3>3. QED
      BY <1>5, <3>1, <3>2
  <2>2. UNCHANGED <<at, op, ex, asked, home, had, granted>>
    BY <1>5 DEF GatewayErrs, Stray, goroutine, gatevars
  <2>3. QED
    BY <2>1, <2>2 DEF PortsInv, Answered, Quieted
<1>6. CASE Lose
  <2>1. answers' \subseteq answers /\ (asked' => asked)
    BY <1>6 DEF Lose
  <2>2. UNCHANGED <<at, op, ex, home, had, granted>>
    BY <1>6 DEF Lose, goroutine, gatevars
  <2>3. QED
    BY <2>1, <2>2 DEF PortsInv, Answered, Quieted
<1>7. CASE Move
  <2>1. had \subseteq had' /\ home' \in had'
    BY <1>7 DEF Move
  <2>2. UNCHANGED <<at, op, ex, asked, answers, granted>>
    BY <1>7 DEF Move, goroutine, wirevars
  <2>3. QED
    BY <2>1, <2>2 DEF PortsInv, Answered, Quieted
<1>8. QED
  BY <1>1, <1>2, <1>3, <1>4, <1>5, <1>6, <1>7 DEF PortsNext

\* Whatever the network loses, repeats and delays, and whoever else sends: what
\* DynamicIP announces is an address the gateway had and a port it mapped, both in
\* the round that announces them.
THEOREM AnnouncesGranted == PortsSpec => AnnouncedIsGranted
<1> DEFINE Granted == announced' # announced =>
                        announced'.addr \in had /\ announced'.port \in granted
<1>1. PortsInv /\ [PortsNext]_portvars => [Granted]_portvars
  <2> SUFFICES ASSUME PortsInv, PortsNext, announced' # announced
               PROVE  announced'.addr \in had /\ announced'.port \in granted
    OBVIOUS
  <2>1. CASE GotMapping
    <3>1. PICK d \in answers : /\ d.from = "gateway" /\ protocolChecks(op, d)
                               /\ announced' = [addr |-> ex, port |-> d.value]
      BY <2>1 DEF GotMapping, Return
    <3>2. op = "map" /\ ex \in had /\ d.value \in granted
      BY <2>1, <3>1 DEF GotMapping, PortsInv, Answered
    <3>3. QED
      BY <3>1, <3>2
  <2>2. CASE ~GotMapping
    BY <2>2
    DEF PortsNext, Dial, Send, DeadlinePasses, Ignore, GotAddress, Refused, TimedOut,
        CallFails, Failed, NextRound, GatewayAnswers, GatewayErrs, Stray, Lose, Move,
        goroutine
  <2>3. QED
    BY <2>1, <2>2
<1>2. QED
  BY <1>1, PortsBegin, PortsStep, PTL DEF PortsSpec, AnnouncedIsGranted

-----------------------------------------------------------------------------
(* BlockRange *)

\* Division with remainder, for any block length: the quotient is the block, the
\* remainder the position in it, and both are determined by the byte they give.
LEMMA Division ==
    ASSUME NEW b \in Nat \ {0}, NEW o \in Nat
    PROVE  /\ o \div b \in Nat /\ (o \div b) * b \in Nat
           /\ o % b \in 0..b - 1
           /\ (o \div b) * b + (o % b) = o
           /\ (o \div b) * b <= o /\ o < (o \div b) * b + b
<1>1. o \div b \in Nat /\ o % b \in 0..b - 1
  BY SMT
<1>2. (o \div b) * b <= o /\ o < (o \div b) * b + b
  BY SMT
<1>3. o = (o \div b) * b + (o % b)
  BY Z3
<1>4. (o \div b) * b \in Nat
  BY <1>1, SMT
<1> QED
  BY <1>1, <1>2, <1>3, <1>4

LEMMA DivisionIsUnique ==
    ASSUME NEW b \in Nat \ {0}, NEW q \in Nat, NEW r \in 0..b - 1
    PROVE  (q * b + r) \div b = q /\ (q * b + r) % b = r
<1>1. (q * b + r) \div b = q
  BY SMT
<1>2. (q * b + r) % b = r
  BY SMT
<1> QED
  BY <1>1, <1>2

LEMMA MinOfTwo ==
    ASSUME NEW x \in Int, NEW y \in Int
    PROVE  Min({x, y}) = IF x <= y THEN x ELSE y
  BY DEF Min

\* the code's unsigned integers do not wrap below the end of the range
LEMMA WordIsWide ==
    ASSUME NEW x \in Nat, x < Word
    PROVE  x % Word = x
  BY BlockAssumption

\* the range of a byte's block, as both formulas give it
FileBlock(b, o, length) ==
  LET first == (o \div b) * b
  IN [first |-> first, len |-> IF first + b <= length THEN b ELSE length - first]

LEMMA RangeIsFileBlock ==
    ASSUME NEW b \in BlockLengths, NEW length \in 0..MaxLength, NEW o \in 0..length - 1
    PROVE  calculateBlockRange(b, o, length) = FileBlock(b, o, length)
<1> DEFINE first == (o \div b) * b
<1>0. b \in Nat \ {0} /\ MaxLength \in Nat /\ Word \in Nat /\ MaxLength + b < Word
  BY BlockAssumption
<1>1. o \in Nat /\ first \in Nat /\ first <= o /\ o < length /\ length <= MaxLength
  <2>1. o \in Nat /\ o < length /\ length <= MaxLength
    BY <1>0
  <2> QED
    BY <1>0, <2>1, Division
<1> HIDE DEF first
<1>2. (first + b) % Word = first + b
  BY <1>0, <1>1, WordIsWide
<1>3. Min({first + b, length}) = IF first + b <= length THEN first + b ELSE length
  BY <1>0, <1>1, MinOfTwo
<1>r. calculateBlockRange(b, o, length)
        = [first |-> first, len |-> (Min({(first + b) % Word, length}) - first) % Word]
  BY DEF calculateBlockRange, first
<1>f. FileBlock(b, o, length)
        = [first |-> first, len |-> IF first + b <= length THEN b ELSE length - first]
  BY DEF FileBlock, first
<1>4. CASE first + b <= length
  <2>1. ((first + b) - first) % Word = b
    <3>1. (first + b) - first = b
      BY <1>0, <1>1
    <3>2. b % Word = b
      BY <1>0, WordIsWide
    <3> QED BY <3>1, <3>2
  <2>2. Min({(first + b) % Word, length}) = first + b
    BY <1>2, <1>3, <1>4
  <2>3. calculateBlockRange(b, o, length) = [first |-> first, len |-> b]
    BY <1>r, <2>1, <2>2, Zenon
  <2>4. FileBlock(b, o, length) = [first |-> first, len |-> b]
    BY <1>4, <1>f, Zenon
  <2> QED
    BY <2>3, <2>4, Zenon
<1>5. CASE ~(first + b <= length)
  <2>1. (length - first) % Word = length - first
    BY <1>0, <1>1, WordIsWide
  <2> QED
    BY <1>2, <1>3, <1>5, <2>1 DEF calculateBlockRange, FileBlock, first
<1> QED
  BY <1>4, <1>5

LEMMA ReaderRangeIsFileBlock ==
    ASSUME NEW b \in BlockLengths, NEW length \in 0..MaxLength, NEW o \in 0..length - 1
    PROVE  readerBlockRange(b, o, length) = FileBlock(b, o, length)
<1> DEFINE first == (o \div b) * b
           end == Min({(first + b) % Word, length})
<1>0. b \in Nat \ {0} /\ MaxLength \in Nat /\ Word \in Nat /\ MaxLength + b < Word
  BY BlockAssumption
<1>1. /\ o \in Nat /\ o \div b \in Nat /\ first \in Nat /\ first <= o /\ o < first + b
      /\ o < length /\ length <= MaxLength
  <2>1. o \in Nat /\ o < length /\ length <= MaxLength
    BY <1>0
  <2> QED
    BY <1>0, <2>1, Division
<1>2. (first + b) % Word = first + b
  <2> HIDE DEF first
  <2> QED BY <1>0, <1>1, WordIsWide
<1>3. end = IF first + b <= length THEN first + b ELSE length
  <2> HIDE DEF first
  <2> QED BY <1>0, <1>1, <1>2, MinOfTwo
<1>4. CASE first + b <= length
  \* the block ends where the next begins: the remainder is none
  <2>1. first + b = (o \div b + 1) * b + 0
    BY <1>0, <1>1
  <2>2. o \div b + 1 \in Nat /\ 0 \in 0..b - 1
    BY <1>0, <1>1
  <2>3. (first + b) % b = 0
    BY <1>0, <2>1, <2>2, DivisionIsUnique
  <2>4. end % b = 0
    BY <1>3, <1>4, <2>3
  <2> QED
    BY <1>4, <2>4 DEF readerBlockRange, FileBlock
<1>5. CASE ~(first + b <= length)
  \* the block ends with the file: the remainder is what the file has of it
  <2>1. length - first \in 0..b - 1 /\ length - first # 0
    <3> HIDE DEF first
    <3> QED BY <1>0, <1>1, <1>5
  <2>2. length = (o \div b) * b + (length - first)
    <3>1. length = first + (length - first)
      <4> HIDE DEF first
      <4> QED BY <1>1
    <3> QED BY <3>1
  <2>3. ((o \div b) * b + (length - first)) % b = length - first
    <3> HIDE DEF first
    <3> QED BY <1>0, <1>1, <2>1, DivisionIsUnique
  <2>4. end % b = length - first
    BY <1>3, <1>5, <2>2, <2>3
  <2> QED
    BY <1>5, <2>1, <2>4 DEF readerBlockRange, FileBlock
<1> QED
  BY <1>4, <1>5

\* a byte is in a block exactly when the block's first byte and length say so
LEMMA InBlock ==
    ASSUME NEW b \in Nat \ {0}, NEW q \in Nat, NEW i \in Nat
    PROVE  i \div b = q <=> (q * b <= i /\ i < q * b + b)
<1>1. ASSUME i \div b = q PROVE q * b <= i /\ i < q * b + b
  BY <1>1, Division
<1>2. ASSUME q * b <= i, i < q * b + b PROVE i \div b = q
  <2>1. q * b \in Nat
    BY SMT
  <2> DEFINE first == q * b
             r == i - first
  <2>2. r \in 0..b - 1 /\ i = first + r
    <3> HIDE DEF first
    <3>1. first \in Nat /\ first <= i /\ i < first + b
      BY <1>2, <2>1 DEF first
    <3> QED BY <3>1
  <2>3. (q * b + r) \div b = q
    <3> HIDE DEF r
    <3> QED BY <2>2, DivisionIsUnique
  <2> QED
    BY <2>2, <2>3
<1> QED
  BY <1>1, <1>2

LEMMA FileBlockBytes ==
    ASSUME NEW a \in Accesses, NEW o \in 0..a.length - 1
    PROVE  Bytes(FileBlock(a.bl, o, a.length)) = BlockOf(a, o)
<1> DEFINE q == o \div a.bl
           first == q * a.bl
<1>0. a.bl \in Nat \ {0} /\ a.length \in Nat /\ o \in Nat
  <2>1. /\ a.bl \in BlockLengths /\ a.length \in 1..MaxLength
    BY DEF Accesses
  <2>2. a.bl \in Nat \ {0} /\ MaxLength \in Nat
    BY <2>1, BlockAssumption
  <2>3. a.length \in Nat
    BY <2>1, <2>2
  <2>4. o \in Nat
    BY <2>3
  <2> QED
    BY <2>2, <2>3, <2>4
<1>1. q \in Nat /\ first \in Nat
  BY <1>0, Division
<1>2. BlockOf(a, o) = {i \in 0..a.length - 1 : first <= i /\ i < first + a.bl}
  <2>1. ASSUME NEW i \in 0..a.length - 1
        PROVE  i \div a.bl = q <=> (first <= i /\ i < first + a.bl)
    <3>1. i \in Nat
      BY <1>0
    <3> HIDE DEF q
    <3> QED BY <1>0, <1>1, <3>1, InBlock
  <2> QED
    BY <2>1 DEF BlockOf
<1>3. Bytes(FileBlock(a.bl, o, a.length))
        = first..first + (IF first + a.bl <= a.length THEN a.bl ELSE a.length - first) - 1
  BY DEF Bytes, FileBlock
<1> HIDE DEF first
<1> QED
  BY <1>0, <1>1, <1>2, <1>3

\* every byte of the pieces is the next byte of the access
IsByte(i, p) ==
  /\ p.pos \in 0..extent.bl - 1
  /\ p.block * extent.bl + p.pos = extent.off + i - 1

BlockInv ==
  /\ extent \in Accesses
  /\ n \in 0..extent.len
  /\ pieces \in Seq([block : Nat, pos : Nat]) /\ Len(pieces) = n
  /\ \A i \in 1..Len(pieces) : IsByte(i, pieces[i])

\* what an access consists of
LEMMA ExtentTyped ==
    ASSUME NEW a \in Accesses
    PROVE  /\ a.bl \in BlockLengths /\ a.bl \in Nat \ {0}
           /\ a.off \in Nat /\ a.len \in Nat /\ a.length \in 0..MaxLength
<1>1. /\ a.bl \in BlockLengths /\ a.length \in 1..MaxLength
      /\ a.off \in 0..MaxLength /\ a.len \in 0..MaxLength
  BY DEF Accesses
<1>2. a.bl \in Nat \ {0} /\ MaxLength \in Nat
  BY <1>1, BlockAssumption
<1> QED
  BY <1>1, <1>2

\* the bytes a chunk moves are one block's, and the next ones of the access
LEMMA ChunkBytes ==
    ASSUME NEW b \in Nat \ {0}, NEW o \in Nat, NEW count \in 0..(b - (o % b))
    PROVE  /\ Chunk(b, o, count) \in Seq([block : Nat, pos : Nat])
           /\ Len(Chunk(b, o, count)) = count
           /\ \A i \in 1..count :
                /\ Chunk(b, o, count)[i].pos \in 0..b - 1
                /\ Chunk(b, o, count)[i].block * b + Chunk(b, o, count)[i].pos = o + i - 1
<1> DEFINE q == o \div b
           r == o % b
           c == [i \in 1..count |-> [block |-> q, pos |-> r + i - 1]]
<1>1. Chunk(b, o, count) = c
  BY DEF Chunk, path, offset
<1>2. q \in Nat /\ r \in 0..b - 1 /\ q * b \in Nat /\ q * b + r = o
  BY Division
<1>3. count \in Nat /\ count <= b - r
  <2> HIDE DEF q
  <2>1. b - r \in Nat
    BY <1>2
  <2> QED BY <2>1
<1> HIDE DEF q, r
<1>4. \A i \in 1..count : r + i - 1 \in 0..b - 1 /\ r + i - 1 \in Nat
  BY <1>2, <1>3
<1>5. \A i \in 1..count : q * b + (r + i - 1) = o + i - 1
  <2> DEFINE first == q * b
  <2>1. first \in Nat /\ first + r = o
    BY <1>2
  <2> HIDE DEF first
  <2>2. \A i \in 1..count : first + (r + i - 1) = o + i - 1
    BY <1>2, <1>3, <2>1
  <2> QED
    BY <2>2 DEF first
<1>6. c \in Seq([block : Nat, pos : Nat]) /\ Len(c) = count
  BY <1>2, <1>3, <1>4
<1>7. \A i \in 1..count : c[i].block = q /\ c[i].pos = r + i - 1
  OBVIOUS
<1> HIDE DEF c
<1> QED
  BY <1>1, <1>4, <1>5, <1>6, <1>7

\* an access goes on with a chunk, whole or not
LEMMA PiecesGrow ==
    ASSUME BlockInv, n < extent.len,
           NEW more \in 0..Min({extent.len - n, offset(extent.bl, extent.off + n).max}),
           n' = n + more, extent' = extent,
           pieces' = pieces \o Chunk(extent.bl, extent.off + n, more)
    PROVE  BlockInv'
<1> DEFINE b == extent.bl
           from == extent.off + n
           c == Chunk(b, from, more)
<1>0. /\ b \in Nat \ {0} /\ extent.off \in Nat /\ extent.len \in Nat
      /\ n \in Nat /\ from \in Nat
  BY ExtentTyped DEF BlockInv
<1>1. from % b \in 0..b - 1 /\ offset(b, from).max = b - (from % b)
  BY <1>0, Division DEF offset
<1>2. more \in Nat /\ more <= extent.len - n /\ more \in 0..(b - (from % b))
  <2>1. b - (from % b) \in Int /\ extent.len - n \in Int
    <3>1. b \in Int /\ from % b \in Int
      BY <1>0, <1>1
    <3>2. extent.len \in Int /\ n \in Int
      BY <1>0
    <3> QED
      BY <3>1, <3>2
  <2>2. more \in 0..Min({extent.len - n, b - (from % b)})
    BY <1>1
  <2> HIDE DEF b, from
  <2> QED
    BY <2>1, <2>2, MinOfTwo
<1>3. /\ c \in Seq([block : Nat, pos : Nat]) /\ Len(c) = more
      /\ \A i \in 1..more : /\ c[i].pos \in 0..b - 1
                             /\ c[i].block * b + c[i].pos = from + i - 1
  <2> HIDE DEF b, from
  <2> QED BY <1>0, <1>2, ChunkBytes DEF c
<1> HIDE DEF c
<1>4. /\ pieces' \in Seq([block : Nat, pos : Nat])
      /\ Len(pieces') = n + more
      /\ \A i \in 1..n : pieces'[i] = pieces[i]
      /\ \A i \in n + 1..n + more : pieces'[i] = c[i - n]
  <2>1. pieces' = pieces \o c
    BY DEF c
  <2>2. pieces \in Seq([block : Nat, pos : Nat]) /\ Len(pieces) = n
    BY DEF BlockInv
  <2>3. /\ pieces \o c \in Seq([block : Nat, pos : Nat])
        /\ Len(pieces \o c) = n + more
        /\ \A i \in 1..Len(pieces) + Len(c) :
             (pieces \o c)[i] = IF i <= Len(pieces) THEN pieces[i] ELSE c[i - Len(pieces)]
    BY <1>3, <2>2, ConcatProperties
  <2> DEFINE s == pieces \o c
  <2>4. s \in Seq([block : Nat, pos : Nat]) /\ Len(s) = n + more
    BY <2>3
  <2>5. \A i \in 1..n + more : s[i] = IF i <= n THEN pieces[i] ELSE c[i - n]
    BY <1>3, <2>2, <2>3
  <2> HIDE DEF s
  <2>6. ASSUME NEW i \in 1..n PROVE s[i] = pieces[i]
    <3>1. i \in 1..n + more /\ i <= n
      BY <1>0, <1>2
    <3> QED BY <2>5, <3>1, Zenon
  <2>7. \A i \in n + 1..n + more : s[i] = c[i - n]
    BY <1>0, <1>2, <2>5
  <2> QED
    BY <2>1, <2>4, <2>6, <2>7 DEF s
<1>5. n' \in 0..extent.len /\ n' = n + more
  BY <1>0, <1>2
<1>6. ASSUME NEW i \in 1..n + more PROVE IsByte(i, pieces[i])'
  <2>1. CASE i \in 1..n
    BY <1>4, <2>1 DEF BlockInv, IsByte
  <2>2. CASE i \in n + 1..n + more
    <3>1. i - n \in 1..more
      BY <1>0, <1>2, <2>2
    <3>2. from + (i - n) - 1 = extent.off + i - 1
      BY <1>0, <1>2
    <3>3. /\ c[i - n].pos \in 0..b - 1
          /\ c[i - n].block * b + c[i - n].pos = from + (i - n) - 1
      BY <1>3, <3>1
    <3>4. pieces'[i] = c[i - n]
      BY <1>4, <2>2
    <3> QED
      BY <3>2, <3>3, <3>4, Zenon DEF IsByte
  <2>3. i \in 1..n \/ i \in n + 1..n + more
    BY <1>0, <1>2
  <2> QED
    BY <2>1, <2>2, <2>3
<1>7. \A i \in 1..Len(pieces') : IsByte(i, pieces[i])'
  BY <1>4, <1>6
<1> QED
  BY <1>4, <1>5, <1>7 DEF BlockInv

LEMMA BlockIsInductive ==
    ASSUME BlockInv, [Next]_vars
    PROVE  BlockInv'
<1> DEFINE count == Min({extent.len - n, offset(extent.bl, extent.off + n).max})
<1>0. /\ n \in Nat /\ extent.len \in Nat /\ extent.bl \in Nat \ {0} /\ extent.off \in Nat
  BY ExtentTyped DEF BlockInv
<1>1. ASSUME n < extent.len PROVE count \in Nat
  <2>0. extent.off + n \in Nat
    BY <1>0
  <2>1. /\ offset(extent.bl, extent.off + n).max = extent.bl - ((extent.off + n) % extent.bl)
        /\ (extent.off + n) % extent.bl \in 0..extent.bl - 1
    BY <1>0, <2>0, Division DEF offset
  <2>2. offset(extent.bl, extent.off + n).max \in Nat /\ extent.len - n \in Nat
    BY <1>0, <1>1, <2>1
  <2> QED
    BY <2>2, MinOfTwo
<1>2. CASE NextChunk
  <2>1. n < extent.len /\ n' = n + count /\ extent' = extent
        /\ pieces' = pieces \o Chunk(extent.bl, extent.off + n, count)
    BY <1>2 DEF NextChunk
  <2>2. count \in 0..count
    BY <1>1, <2>1
  <2> HIDE DEF count
  <2> QED
    BY <2>1, <2>2, PiecesGrow DEF count
<1>3. CASE ChunkFailed
  <2>1. n < extent.len /\ extent' = extent
    BY <1>3 DEF ChunkFailed
  <2>2. PICK more \in 0..count - 1 :
          n' = n + more /\ pieces' = pieces \o Chunk(extent.bl, extent.off + n, more)
    BY <1>3 DEF ChunkFailed
  <2>3. more \in 0..count
    BY <1>1, <2>1
  <2> QED
    BY <2>1, <2>2, <2>3, PiecesGrow
<1>4. CASE Done
  BY <1>4 DEF Done, BlockInv, IsByte
<1>5. CASE UNCHANGED vars
  BY <1>5 DEF vars, BlockInv, IsByte
<1> QED
  BY <1>2, <1>3, <1>4, <1>5 DEF Next

\* What is fetched for a byte is its block of the file, by the torrent readers'
\* formula and by the media readers', and the chunks of an access neither skip nor
\* repeat a byte nor cross a block, also when a later one fails: for block lengths,
\* files and accesses of any size, as long as a word holds the end of every block.
THEOREM BlocksAreSound == Spec => []BlocksAreCut
<1>1. Init => BlockInv
  <2> SUFFICES ASSUME Init PROVE BlockInv
    OBVIOUS
  <2>1. extent \in Accesses /\ n = 0 /\ pieces = <<>>
    BY DEF Init
  <2>2. n \in 0..extent.len
    BY <2>1, ExtentTyped
  <2> QED
    BY <2>1, <2>2 DEF BlockInv
<1>2. BlockInv /\ [Next]_vars => BlockInv'
  BY BlockIsInductive
<1>3. BlockInv => BlocksAreCut
  <2> SUFFICES ASSUME BlockInv PROVE BlocksAreCut
    OBVIOUS
  <2>1. extent \in Accesses
    BY DEF BlockInv
  <2>2. extent.bl \in BlockLengths /\ extent.length \in 0..MaxLength
    BY <2>1, ExtentTyped
  <2>3. RangeIsBlock
    BY <2>1, <2>2, RangeIsFileBlock, FileBlockBytes DEF RangeIsBlock
  <2>4. RangesAgree
    BY <2>2, RangeIsFileBlock, ReaderRangeIsFileBlock DEF RangesAgree
  <2>5. AccessContiguous
    BY DEF BlockInv, IsByte, AccessContiguous
  <2> QED
    BY <2>3, <2>4, <2>5 DEF BlocksAreCut
<1> QED
  BY <1>1, <1>2, <1>3, PTL DEF Spec

-----------------------------------------------------------------------------
(* Results *)

\* what a batch is to store for the structs 1..n
BatchRow(k) ==
  [i \in DOMAIN BatchColumns |->
      <<IF BatchColumns[i] \in BatchDefault THEN 0 ELSE k, BatchColumns[i]>>]

\* Each parameter of the first tuple goes to the column of its field, and exactly the
\* columns the declaration leaves to the table are given none.
LEMMA BatchTables ==
    /\ DOMAIN BatchColumns = 1..24
    /\ \A i \in 1..24 :
        /\ BatchValues[i] \in 0..17
        /\ BatchValues[i] = 0 <=> BatchColumns[i] \in BatchDefault
        /\ BatchValues[i] # 0 => transform[BatchValues[i]] = BatchColumns[i]
<1>1. DOMAIN BatchColumns = 1..24
  BY DEF BatchColumns
<1>2. \A i \in 1..24 : BatchValues[i] \in 0..17
  BY DEF BatchValues
<1>3. \A i \in 1..24 : BatchValues[i] = 0 <=> BatchColumns[i] \in BatchDefault
  BY DEF BatchColumns, BatchValues, BatchDefault
<1>4. \A i \in 1..24 : BatchValues[i] # 0 => transform[BatchValues[i]] = BatchColumns[i]
  BY DEF BatchColumns, BatchValues, transform
<1> QED
  BY <1>1, <1>2, <1>3, <1>4

\* the statement for fewer than ten structs takes each of them once and in order
LEMMA BatchSizes ==
    ASSUME NEW m \in 1..9
    PROVE  /\ DOMAIN advance(m).shift = 1..m
           /\ \A t \in 1..m : advance(m).shift[t] = 17 * (t - 1) /\ advance(m).structs[t] = t
           /\ advance(m).rest = m + 1
           /\ advance(m).advanced
<1> USE DEF advance, Batch, Batch1, Batch2, Batch3, Batch4, Batch5, Batch6, Batch7, Batch8,
            Batch9
<1>1. CASE m = 1
  BY <1>1
<1>2. CASE m = 2
  BY <1>2
<1>3. CASE m = 3
  BY <1>3
<1>4. CASE m = 4
  BY <1>4
<1>5. CASE m = 5
  BY <1>5
<1>6. CASE m = 6
  BY <1>6
<1>7. CASE m = 7
  BY <1>7
<1>8. CASE m = 8
  BY <1>8
<1>9. CASE m = 9
  <2>1. advance(m) = Batch9
    BY <1>9 DEF Batch9
  <2>2. DOMAIN Batch9.shift = 1..9 /\ Batch9.rest = 10 /\ Batch9.advanced
    OBVIOUS
  <2>3. \A t \in 1..9 : Batch9.shift[t] = 17 * (t - 1)
    OBVIOUS
  <2>4. \A t \in 1..9 : Batch9.structs[t] = t
    OBVIOUS
  <2> HIDE DEF Batch9, advance
  <2> QED
    BY <1>9, <2>1, <2>2, <2>3, <2>4
<1> HIDE DEF advance
<1> QED
  BY <1>1, <1>2, <1>3, <1>4, <1>5, <1>6, <1>7, <1>8, <1>9

LEMMA BatchStores ==
    ASSUME NEW m \in 1..9, NEW p, p = [k \in 1..m |-> k]
    PROVE  Tuples(advance(m), p) = [k \in 1..m |-> BatchRow(k)]
<1> DEFINE b == advance(m)
           parameter(k) == <<p[b.structs[((k - 1) \div 17) + 1]],
                             transform[((k - 1) % 17) + 1]>>
           bound(i, shift) == IF BatchValues[i] = 0 THEN <<0, BatchColumns[i]>>
                              ELSE parameter(BatchValues[i] + shift)
<1>1. Tuples(b, p)
        = [t \in DOMAIN b.shift |-> [i \in DOMAIN BatchColumns |-> bound(i, b.shift[t])]]
  BY DEF Tuples
<1>2. ASSUME NEW t \in 1..m, NEW i \in 1..24
      PROVE  bound(i, b.shift[t])
               = <<IF BatchColumns[i] \in BatchDefault THEN 0 ELSE t, BatchColumns[i]>>
  <2>1. b.shift[t] = 17 * (t - 1) /\ b.structs[t] = t
    BY BatchSizes
  <2>2. CASE BatchValues[i] = 0
    <3>1. BatchColumns[i] \in BatchDefault
      BY <2>2, BatchTables
    <3> QED
      BY <2>2, <3>1
  <2>3. CASE BatchValues[i] # 0
    <3> DEFINE v == BatchValues[i]
               k == v + 17 * (t - 1)
    <3>0. v \in 0..17 /\ v # 0 /\ BatchColumns[i] \notin BatchDefault
      BY <2>3, BatchTables, Zenon
    <3>1. v \in 1..17
      <4> HIDE DEF v
      <4> QED BY <3>0
    <3>2. (k - 1) \div 17 = t - 1 /\ (k - 1) % 17 = v - 1
      <4> HIDE DEF v
      <4> QED BY <3>1
    <3>3. ((k - 1) \div 17) + 1 = t /\ ((k - 1) % 17) + 1 = v
      <4> HIDE DEF v
      <4> QED BY <3>1, <3>2
    <3>4. transform[BatchValues[i]] = BatchColumns[i]
      BY <2>3, BatchTables
    <3>5. parameter(k) = <<t, BatchColumns[i]>>
      <4> HIDE DEF k, b
      <4> QED BY <2>1, <3>3, <3>4
    <3> QED
      BY <2>1, <2>3, <3>0, <3>5
  <2> QED
    BY <2>2, <2>3
<1>3. DOMAIN b.shift = 1..m /\ DOMAIN BatchColumns = 1..24
  BY BatchSizes, BatchTables
<1> HIDE DEF bound, b
<1>4. \A t \in 1..m :
        [i \in DOMAIN BatchColumns |-> bound(i, b.shift[t])] = BatchRow(t)
  BY <1>2, <1>3 DEF BatchRow
<1> QED
  BY <1>1, <1>3, <1>4 DEF b

Names == {BatchColumns[i] : i \in DOMAIN BatchColumns}

AnyRow == Nat \cup [DOMAIN BatchColumns -> Nat \X Names]

\* what the caller has and what its scanner will still give it are the rows there are,
\* in their order, and all of them unless the connection broke
Delivered(g, s, rows) ==
  /\ s \in [kind : {"rows"}, rows : Seq(AnyRow), broken : BOOLEAN]
  /\ g \in Seq(AnyRow) /\ rows \in Seq(AnyRow)
  /\ Len(g) + Len(s.rows) <= Len(rows)
  /\ ~s.broken => Len(g) + Len(s.rows) = Len(rows)
  /\ \A i \in 1..Len(g) : g[i] = rows[i]
  /\ \A i \in 1..Len(s.rows) : s.rows[i] = rows[Len(g) + i]

QueryInv ==
  loop \in {"next", "scan"} /\ reader \in {"all", "one"} =>
      /\ remaining = <<>> /\ cause = "none"
      /\ wanted \in Seq(AnyRow)
      /\ reader = "one" => got = <<>>
      /\ scanner = errScanner \/ Delivered(got, scanner, wanted)

BatchRows(m) == [k \in 1..m |-> BatchRow(k)]

\* before the statement, and after it
BatchInv ==
  loop \in {"next", "scan"} /\ reader = "batch" =>
      \E m \in Nat :
        /\ wanted = [k \in 1..m |-> k]
        /\ m < 10 =>
            /\ cause = "none"
            /\ \/ loop = "next" /\ scanner = NoScanner /\ remaining = wanted
                  /\ stored = <<>> /\ got = <<>>
               \/ remaining = <<>> /\ stored = BatchRows(m) /\ Delivered(got, scanner, stored)

ResultsInv ==
  /\ loop \in {"idle", "next", "scan", "done"}
  /\ loop = "idle" => /\ scanner = NoScanner /\ remaining = <<>> /\ stored = <<>>
                      /\ got = <<>> /\ cause = "none"
  /\ loop # "idle" => reader \in {"all", "one", "batch"}
  /\ loop = "scan" => scanner.kind = "rows" /\ scanner.rows # <<>>
  /\ QueryInv
  /\ BatchInv
  /\ NothingLost

LEMMA ResultsBegin == ResultsInit => ResultsInv
  BY DEF ResultsInit, ResultsInv, QueryInv, BatchInv, NothingLost

LEMMA BatchRowsTyped ==
    ASSUME NEW m \in Nat
    PROVE  BatchRows(m) \in Seq(AnyRow) /\ Len(BatchRows(m)) = m
<1>1. ASSUME NEW k \in 1..m PROVE BatchRow(k) \in AnyRow
  <2>1. \A i \in DOMAIN BatchColumns :
          <<IF BatchColumns[i] \in BatchDefault THEN 0 ELSE k, BatchColumns[i]>> \in Nat \X Names
    BY DEF Names
  <2> QED
    BY <2>1 DEF BatchRow, AnyRow
<1> QED
  BY <1>1 DEF BatchRows


\* what the database answers is an error, or has the first of the rows
LEMMA AnswersDeliver ==
    ASSUME NEW rows \in Seq(AnyRow), NEW s \in Answers(rows)
    PROVE  s = errScanner \/ Delivered(<<>>, s, rows)
<1>1. CASE s = errScanner
  BY <1>1
<1>2. CASE s = NewScannerStatic(rows, FALSE)
  BY <1>2 DEF NewScannerStatic, Delivered
<1>3. CASE \E k \in 0..(Len(rows) - 1) : s = NewScannerStatic(SubSeq(rows, 1, k), TRUE)
  <2>1. PICK k \in 0..(Len(rows) - 1) : s = NewScannerStatic(SubSeq(rows, 1, k), TRUE)
    BY <1>3
  <2> DEFINE r == SubSeq(rows, 1, k)
  <2>2. /\ r \in Seq(AnyRow) /\ Len(r) = k
        /\ \A i \in 1..k : r[i] = rows[i]
    BY SubSeqProperties
  <2>3. s = [kind |-> "rows", rows |-> r, broken |-> TRUE]
    BY <2>1 DEF NewScannerStatic
  <2> HIDE DEF r
  <2> QED
    BY <2>2, <2>3 DEF Delivered
<1> QED
  BY <1>1, <1>2, <1>3 DEF Answers

LEMMA ScanDelivers ==
    ASSUME NEW g, NEW s, NEW rows, Delivered(g, s, rows), s.rows # <<>>
    PROVE  /\ Delivered(Append(g, Head(s.rows)), [s EXCEPT !.rows = Tail(@)], rows)
           /\ Len(rows) > 0 /\ (g = <<>> => Head(s.rows) = rows[1])
<1> DEFINE r == s.rows
           h == Append(g, Head(r))
           u == Tail(r)
           e == [s EXCEPT !.rows = Tail(@)]
<1>1. /\ g \in Seq(AnyRow) /\ r \in Seq(AnyRow) /\ r # <<>> /\ rows \in Seq(AnyRow)
      /\ s \in [kind : {"rows"}, rows : Seq(AnyRow), broken : BOOLEAN]
      /\ Len(g) + Len(r) <= Len(rows)
      /\ ~s.broken => Len(g) + Len(r) = Len(rows)
      /\ \A i \in 1..Len(g) : g[i] = rows[i]
      /\ \A i \in 1..Len(r) : r[i] = rows[Len(g) + i]
  BY DEF Delivered
<1> HIDE DEF r
<1>3. /\ Head(r) \in AnyRow /\ Head(r) = r[1] /\ Len(r) \in Nat \ {0}
      /\ u \in Seq(AnyRow) /\ Len(u) = Len(r) - 1
      /\ \A i \in 1..Len(u) : u[i] = r[i + 1]
  BY <1>1
<1>4. /\ h \in Seq(AnyRow) /\ Len(h) = Len(g) + 1
      /\ \A i \in 1..Len(g) : h[i] = g[i]
      /\ h[Len(g) + 1] = Head(r)
  BY <1>1, <1>3
<1>5. Len(g) \in Nat /\ Len(rows) \in Nat
  BY <1>1
<1>6. Head(r) = rows[Len(g) + 1]
  BY <1>1, <1>3
<1>7. \A i \in 1..Len(h) : h[i] = rows[i]
  BY <1>1, <1>4, <1>5, <1>6
<1>8. \A i \in 1..Len(u) : u[i] = rows[Len(h) + i]
  <2> SUFFICES ASSUME NEW i \in 1..Len(u) PROVE u[i] = rows[Len(h) + i]
    OBVIOUS
  <2>1. u[i] = r[i + 1] /\ i + 1 \in 1..Len(r)
    BY <1>3
  <2>2. r[i + 1] = rows[Len(g) + (i + 1)] /\ Len(g) + (i + 1) = Len(h) + i
    BY <1>1, <1>4, <1>5, <2>1
  <2> QED
    BY <2>1, <2>2
<1>9. /\ Len(h) + Len(u) <= Len(rows)
      /\ ~s.broken => Len(h) + Len(u) = Len(rows)
  BY <1>1, <1>3, <1>4, <1>5
<1>10. /\ e \in [kind : {"rows"}, rows : Seq(AnyRow), broken : BOOLEAN]
       /\ e.rows = u /\ e.broken = s.broken
  BY <1>1, <1>3 DEF r
<1> HIDE DEF h, u, e
<1>11. Delivered(h, e, rows)
  BY <1>1, <1>4, <1>7, <1>8, <1>9, <1>10 DEF Delivered
<1>12. Len(rows) > 0 /\ (g = <<>> => Head(r) = rows[1])
  BY <1>1, <1>3, <1>5, <1>6
<1> QED
  BY <1>11, <1>12 DEF e, h, r

\* a scanner with no rows left and no error has given the caller all of them
LEMMA AllDelivered ==
    ASSUME NEW g, NEW s, NEW rows, Delivered(g, s, rows), ~ScannerNext(s), ~ScannerErr(s)
    PROVE  g = rows
<1>1. s.rows = <<>> /\ ~s.broken
  BY DEF Delivered, ScannerNext, ScannerErr
<1>2. Len(g) = Len(rows) /\ g \in Seq(AnyRow) /\ rows \in Seq(AnyRow)
  BY <1>1 DEF Delivered
<1>3. \A i \in 1..Len(g) : g[i] = rows[i]
  BY DEF Delivered
<1> QED
  BY <1>2, <1>3, SeqEqual

LEMMA ResultsStep == ResultsInv /\ [ResultsNext]_resultVars => ResultsInv'
<1> SUFFICES ASSUME ResultsInv, [ResultsNext]_resultVars PROVE ResultsInv'
  OBVIOUS
<1>1. ASSUME NEW m \in 0..MaxRows, NEW r \in {"all", "one"}, Query(m, r)
      PROVE  ResultsInv'
  <2>1. /\ loop = "idle" /\ loop' = "next" /\ reader' = r /\ wanted' = [k \in 1..m |-> k]
        /\ scanner' \in Answers(wanted')
        /\ remaining' = <<>> /\ got' = <<>> /\ cause' = "none"
    BY <1>1 DEF Query, ResultsInv
  <2>2. wanted' \in Seq(AnyRow)
    <3>1. m \in Nat /\ \A k \in 1..m : k \in AnyRow
      BY ResultsAssumption DEF AnyRow
    <3> QED
      BY <2>1, <3>1
  <2>3. scanner' = errScanner \/ Delivered(got', scanner', wanted')
    BY <2>1, <2>2, AnswersDeliver
  <2>4. QueryInv'
    BY <2>1, <2>2, <2>3 DEF QueryInv
  <2> QED
    BY <2>1, <2>4 DEF ResultsInv, BatchInv, NothingLost
<1>2. ASSUME NEW m \in 0..MaxBatch, NewMetadataBatchInsertWithDefaults(m)
      PROVE  ResultsInv'
  <2>1. /\ loop = "idle" /\ loop' = "next" /\ reader' = "batch"
        /\ wanted' = [k \in 1..m |-> k] /\ remaining' = wanted'
        /\ scanner' = NoScanner /\ stored' = <<>> /\ got' = <<>> /\ cause' = "none"
    BY <1>2 DEF NewMetadataBatchInsertWithDefaults, ResultsInv
  <2>2. m \in Nat
    BY ResultsAssumption
  <2>3. BatchInv'
    BY <2>1, <2>2 DEF BatchInv
  <2> QED
    BY <2>1, <2>3 DEF ResultsInv, QueryInv, NothingLost
<1>3. CASE Next1
  <2>1. /\ loop = "next" /\ loop' = "scan" /\ scanner.kind = "rows" /\ scanner.rows # <<>>
        /\ UNCHANGED <<reader, scanner, remaining, wanted, stored, got, cause>>
    BY <1>3 DEF Next1, ScannerNext
  <2>2. QueryInv'
    BY <2>1 DEF ResultsInv, QueryInv
  <2>3. BatchInv'
    BY <2>1 DEF ResultsInv, BatchInv, NoScanner
  <2> QED
    BY <2>1, <2>2, <2>3 DEF ResultsInv, NothingLost
<1>4. CASE NextEnds
  <2>1. /\ loop = "next" /\ loop' = "done" /\ ~ScannerNext(scanner) /\ remaining = <<>>
        /\ reader = "one" \/ ScannerErr(scanner) => cause' # "none"
        /\ UNCHANGED <<reader, scanner, remaining, wanted, stored, got>>
    BY <1>4 DEF NextEnds, Ended
  <2>2. CASE cause' # "none"
    BY <2>1, <2>2 DEF ResultsInv, QueryInv, BatchInv, NothingLost
  <2>3. CASE cause' = "none" /\ reader = "all"
    <3>1. scanner # errScanner /\ ~ScannerErr(scanner)
      BY <2>1, <2>3 DEF errScanner, ScannerErr
    <3>2. Delivered(got, scanner, wanted)
      BY <2>1, <2>3, <3>1 DEF ResultsInv, QueryInv
    <3>3. got = wanted
      BY <2>1, <3>1, <3>2, AllDelivered
    <3> QED
      BY <2>1, <2>3, <3>3 DEF ResultsInv, QueryInv, BatchInv, NothingLost
  <2>4. CASE cause' = "none" /\ reader = "batch"
    <3>1. ~ScannerErr(scanner)
      BY <2>1, <2>4
    <3>2. PICK m \in Nat :
            /\ wanted = [k \in 1..m |-> k]
            /\ m < 10 =>
                /\ cause = "none"
                /\ \/ loop = "next" /\ scanner = NoScanner /\ remaining = wanted
                      /\ stored = <<>> /\ got = <<>>
                   \/ remaining = <<>> /\ stored = BatchRows(m)
                      /\ Delivered(got, scanner, stored)
      BY <2>1, <2>4 DEF ResultsInv, BatchInv
    <3>3. Len(wanted) = m /\ DOMAIN wanted = 1..m
      BY <3>2
    <3>4. ASSUME m < 10 PROVE got = stored /\ stored = BatchRows(m)
      <4>1. CASE /\ remaining = wanted /\ stored = <<>> /\ got = <<>>
        <5>1. m = 0
          BY <2>1, <3>3, <4>1
        <5>2. BatchRows(m) = <<>>
          BY <5>1 DEF BatchRows
        <5> QED
          BY <4>1, <5>2
      <4>2. CASE stored = BatchRows(m) /\ Delivered(got, scanner, stored)
        BY <2>1, <3>1, <4>2, AllDelivered
      <4> QED
        BY <3>2, <3>4, <4>1, <4>2
    <3>5. NothingLost'
      BY <2>1, <2>4, <3>3, <3>4 DEF NothingLost, BatchRows, BatchRow
    <3> QED
      BY <2>1, <2>4, <3>5 DEF ResultsInv, QueryInv, BatchInv
  <2> QED
    BY <2>1, <2>2, <2>3, <2>4 DEF ResultsInv
<1>5. CASE NextAdvances
  <2>1. loop = "next" /\ reader = "batch"
        /\ UNCHANGED <<reader, wanted, got>>
    BY <1>5 DEF NextAdvances, ResultsInv, QueryInv
  <2> DEFINE b == advance(Len(remaining))
             rows == Tuples(b, remaining)
  <2>2. PICK s \in Answers(rows) :
          /\ scanner' = s
          /\ stored' = IF s.kind = "err" THEN stored ELSE stored \o rows
          /\ remaining' = SubSeq(remaining, b.rest, Len(remaining))
          /\ IF b.advanced /\ ScannerNext(s)
             THEN loop' = "scan" /\ UNCHANGED cause
             ELSE Ended(s)
    BY <1>5 DEF NextAdvances
  <2>3. PICK m \in Nat :
          /\ wanted = [k \in 1..m |-> k]
          /\ m < 10 =>
              /\ cause = "none"
              /\ \/ loop = "next" /\ scanner = NoScanner /\ remaining = wanted
                    /\ stored = <<>> /\ got = <<>>
                 \/ remaining = <<>> /\ stored = BatchRows(m)
                    /\ Delivered(got, scanner, stored)
    BY <2>1 DEF ResultsInv, BatchInv
  <2>4. Len(wanted) = m
    BY <2>3
  <2>5. CASE m < 10
    <3>1. remaining # <<>>
      BY <1>5 DEF NextAdvances
    <3>2. /\ cause = "none" /\ remaining = wanted /\ stored = <<>> /\ got = <<>>
      BY <2>3, <2>5, <3>1
    <3>3. m \in 1..9
      BY <2>3, <2>4, <2>5, <3>1, <3>2
    <3>4. rows = BatchRows(m) /\ b.rest = m + 1 /\ b.advanced
      BY <2>3, <2>4, <3>2, <3>3, BatchStores, BatchSizes DEF BatchRows
    <3>5. rows \in Seq(AnyRow) /\ Len(rows) = m
      BY <2>3, <3>4, BatchRowsTyped
    <3> HIDE DEF b, rows
    <3>6. s = errScanner \/ Delivered(<<>>, s, rows)
      BY <3>5, AnswersDeliver
    <3>7. CASE ScannerNext(s)
      <4>1. s.kind = "rows" /\ s.rows # <<>> /\ s # errScanner
        BY <3>7 DEF ScannerNext, errScanner
      <4>2. loop' = "scan" /\ cause' = "none"
        BY <2>2, <3>2, <3>4, <3>7
      <4>3. stored' = rows
        BY <2>2, <3>2, <3>5, <4>1
      <4>4. remaining' = <<>>
        BY <2>2, <2>3, <2>4, <3>2, <3>3, <3>4
      <4>5. Delivered(got', scanner', stored')
        BY <2>1, <2>2, <3>2, <3>6, <4>1, <4>3
      <4>6. BatchInv'
        BY <2>1, <2>3, <3>4, <4>2, <4>3, <4>4, <4>5 DEF BatchInv
      <4> QED
        BY <2>1, <2>2, <4>1, <4>2, <4>6 DEF ResultsInv, QueryInv, NothingLost
    <3>8. CASE ~ScannerNext(s)
      <4>1. ScannerErr(s)
        <5>1. CASE s = errScanner
          BY <5>1 DEF errScanner, ScannerErr
        <5>2. CASE Delivered(<<>>, s, rows)
          <6>1. s.kind = "rows" /\ s.rows = <<>>
            BY <3>8, <5>2 DEF Delivered, ScannerNext
          <6>2. s.broken
            BY <3>3, <3>5, <5>2, <6>1 DEF Delivered
          <6> QED
            BY <6>1, <6>2 DEF ScannerErr
        <5> QED
          BY <3>6, <5>1, <5>2
      <4>2. loop' = "done" /\ cause' = "error"
        BY <2>2, <3>8, <4>1 DEF Ended
      <4> QED
        BY <2>1, <4>2 DEF ResultsInv, QueryInv, BatchInv, NothingLost
    <3> QED
      BY <3>7, <3>8
  <2>6. CASE ~(m < 10)
    <3>1. NothingLost'
      BY <2>1, <2>3, <2>4, <2>6 DEF NothingLost
    <3>2. BatchInv'
      BY <2>1, <2>3, <2>6 DEF BatchInv
    <3>3. /\ loop' \in {"scan", "done"}
          /\ loop' = "scan" => scanner'.kind = "rows" /\ scanner'.rows # <<>>
      BY <2>2 DEF Ended, ScannerNext
    <3> QED
      BY <2>1, <3>1, <3>2, <3>3 DEF ResultsInv, QueryInv
  <2> QED
    BY <2>5, <2>6
<1>6. CASE ScanRow
  <2>1. /\ loop = "scan" /\ loop' = IF reader = "one" THEN "done" ELSE "next"
        /\ got' = Append(got, Head(scanner.rows))
        /\ scanner' = [scanner EXCEPT !.rows = Tail(@)]
        /\ scanner.rows # <<>>
        /\ UNCHANGED <<reader, remaining, wanted, stored, cause>>
    BY <1>6 DEF ScanRow, ResultsInv
  <2>2. scanner.kind = "rows" /\ scanner # errScanner
    BY <2>1 DEF ResultsInv, errScanner
  <2>3. CASE reader = "all"
    <3>1. Delivered(got, scanner, wanted)
      BY <2>1, <2>2, <2>3 DEF ResultsInv, QueryInv
    <3>2. Delivered(got', scanner', wanted')
      BY <2>1, <3>1, ScanDelivers
    <3>3. QueryInv'
      BY <2>1, <2>3, <3>2 DEF ResultsInv, QueryInv
    <3> QED
      BY <2>1, <2>3, <3>3 DEF ResultsInv, BatchInv, NothingLost
  <2>4. CASE reader = "one"
    <3>1. Delivered(got, scanner, wanted) /\ got = <<>> /\ wanted \in Seq(AnyRow)
      BY <2>1, <2>2, <2>4 DEF ResultsInv, QueryInv
    <3>2. Len(wanted) > 0 /\ Head(scanner.rows) = wanted[1]
      BY <2>1, <3>1, ScanDelivers
    <3>3. got' = <<wanted[1]>>
      BY <2>1, <3>1, <3>2
    <3>4. SubSeq(wanted, 1, 1) = <<wanted[1]>> /\ wanted # <<>>
      <4>1. Len(wanted) \in Nat /\ 1 <= Len(wanted)
        BY <3>1, <3>2
      <4> DEFINE first == SubSeq(wanted, 1, 1)
                 single == <<wanted[1]>>
      <4>2. first \in Seq(AnyRow) /\ Len(first) = 1 /\ first[1] = wanted[1]
        BY <3>1, <4>1, SubSeqProperties
      <4>3. single \in Seq(AnyRow) /\ Len(single) = 1 /\ single[1] = wanted[1]
        BY <3>1, <4>1
      <4> HIDE DEF first, single
      <4>4. ASSUME NEW i \in 1..Len(first) PROVE first[i] = single[i]
        <5>1. i = 1
          BY <4>2
        <5> QED
          BY <4>2, <4>3, <5>1
      <4>5. first = single
        BY <4>2, <4>3, <4>4, SeqEqual
      <4>6. wanted # <<>>
        BY <4>1
      <4> QED
        BY <4>5, <4>6 DEF first, single
    <3>5. NothingLost'
      BY <2>1, <2>4, <3>3, <3>4 DEF NothingLost
    <3> QED
      BY <2>1, <2>4, <3>5 DEF ResultsInv, QueryInv, BatchInv
  <2>5. CASE reader = "batch"
    <3>1. PICK m \in Nat :
            /\ wanted = [k \in 1..m |-> k]
            /\ m < 10 => /\ cause = "none"
                         /\ remaining = <<>> /\ stored = BatchRows(m)
                         /\ Delivered(got, scanner, stored)
      BY <2>1, <2>5 DEF ResultsInv, BatchInv
    <3>2. ASSUME m < 10 PROVE Delivered(got', scanner', stored')
      BY <2>1, <3>1, <3>2, ScanDelivers
    <3>3. BatchInv'
      BY <2>1, <3>1, <3>2 DEF BatchInv
    <3> QED
      BY <2>1, <2>5, <3>3 DEF ResultsInv, QueryInv, NothingLost
  <2> QED
    BY <2>1, <2>3, <2>4, <2>5 DEF ResultsInv
<1>7. CASE ScanFails
  BY <1>7 DEF ScanFails, ResultsInv, QueryInv, BatchInv, NothingLost
<1>8. CASE UNCHANGED resultVars
  BY <1>8 DEF resultVars, ResultsInv, QueryInv, BatchInv, NothingLost
<1> QED
  BY <1>1, <1>2, <1>3, <1>4, <1>5, <1>6, <1>7, <1>8 DEF ResultsNext

\* For queries of any length: a loop that ends without an error has received every row,
\* in order, whether the statement was refused, the connection broke or a value did not
\* convert.  A batch of fewer than ten has stored each struct once, every field in its
\* own column; the tables of columns and parameters are the code's.
THEOREM NoRowIsLost == ResultsSpec => []NothingLost
<1>1. ResultsInv => NothingLost
  BY DEF ResultsInv
<1>2. QED
  BY <1>1, ResultsBegin, ResultsStep, PTL DEF ResultsSpec

-----------------------------------------------------------------------------
(* Retry *)

\* the transports that are in their second attempt
Seconds == {i \in Levels : second[i]}

\* s was before c: they agree on the outer transports up to one c alone has
Before(s, c) == \E i \in c \ s : \A j \in Levels : j < i => (j \in s <=> j \in c)
AllBefore(c) == {s \in SUBSET Levels : Before(s, c)}

\* whoever may still have to send the body again has all of it
BodyIsKept ==
    ~early =>
       \A i \in Levels : \/ buf[i] = BodyLength
                         \/ request = "send" /\ \A j \in i..Len(codes) : ~second[j]

\* each attempt had another set of second attempts, each set after the one before
AttemptsAreCounted ==
    /\ request = "send" => attempts <= Cardinality(AllBefore(Seconds))
    /\ request \in {"answer", "done"} =>
          attempts >= 1 /\ attempts <= Cardinality(AllBefore(Seconds)) + 1
    /\ Seconds # {} => attempts >= IF request = "send" THEN 1 ELSE 2

RetryTyped ==
    /\ codes \in Seq(CodeSets) /\ attempts \in Nat
    /\ second \in [Levels -> BOOLEAN] /\ buf \in [Levels -> Nat] /\ given \in Nat
    /\ request \in {"send", "answer", "done"}

RetryInv ==
    IF request = "none" THEN codes \in Seq(CodeSets) /\ attempts = 0 /\ ~early
    ELSE /\ RetryTyped /\ BodyIsKept /\ AttemptsAreCounted
         /\ (request = "send" /\ ~early) => given = BodyLength
         /\ request = "done" => \A i \in Levels : ~Reattempts(i, outcome)

LEMMA LevelsAreNumbered ==
    ASSUME codes \in Seq(CodeSets)
    PROVE  Levels = 1..Len(codes) /\ Len(codes) \in Nat
  BY DEF Levels

\* no set is before itself, and there are 2^n of them
LEMMA BeforeIsBounded ==
    ASSUME codes \in Seq(CodeSets), NEW c \in SUBSET Levels
    PROVE  /\ IsFiniteSet(AllBefore(c)) /\ c \notin AllBefore(c)
           /\ Cardinality(AllBefore(c)) \in Nat
           /\ Cardinality(AllBefore(c)) + 1 <= 2 ^ Len(codes)
<1>1. Levels = 1..Len(codes) /\ Len(codes) \in Nat
  BY LevelsAreNumbered
<1>2. IsFiniteSet(SUBSET Levels) /\ Cardinality(SUBSET Levels) = 2 ^ Len(codes)
  BY <1>1, PowerCounts
<1>3. AllBefore(c) \in SUBSET (SUBSET Levels) /\ AllBefore(c) \cup {c} \in SUBSET (SUBSET Levels)
  BY DEF AllBefore
<1>4. c \notin AllBefore(c)
  BY DEF AllBefore, Before
<1>5. IsFiniteSet(AllBefore(c)) /\ Cardinality(AllBefore(c)) \in Nat
  BY <1>2, <1>3, FS_Subset, FS_CardinalityType
<1>6. Cardinality(AllBefore(c) \cup {c}) = Cardinality(AllBefore(c)) + 1
  BY <1>4, <1>5, FS_AddElement
<1>7. Cardinality(AllBefore(c) \cup {c}) <= 2 ^ Len(codes)
  BY <1>2, <1>3, FS_Subset
<1>8. QED
  BY <1>4, <1>5, <1>6, <1>7

\* a further attempt comes after the one it repeats
LEMMA ReattemptsAdvance ==
    ASSUME codes \in Seq(CodeSets), NEW c \in SUBSET Levels, NEW m \in Levels \ c
    PROVE  Cardinality(AllBefore(c)) + 1 <= Cardinality(AllBefore({i \in c : i < m} \cup {m}))
<1> DEFINE d == {i \in c : i < m} \cup {m}
<1>1. Levels \subseteq Nat
  BY LevelsAreNumbered
<1>2. d \in SUBSET Levels
  OBVIOUS
<1>3. \A j \in Levels : j < m => (j \in c <=> j \in d)
  BY <1>1
<1>4. c \in AllBefore(d)
  BY <1>3 DEF AllBefore, Before
<1>5. ASSUME NEW s \in AllBefore(c) PROVE s \in AllBefore(d)
  <2>1. PICK i \in c \ s : \A j \in Levels : j < i => (j \in s <=> j \in c)
    BY <1>5 DEF AllBefore, Before
  <2>2. i \in Levels /\ i # m /\ i \in Nat /\ m \in Nat
    BY <1>1, <2>1
  <2>3. CASE i < m
    <3>1. i \in d \ s
      BY <2>1, <2>2, <2>3
    <3>2. \A j \in Levels : j < i => (j \in s <=> j \in d)
      BY <1>1, <1>3, <2>1, <2>2, <2>3
    <3> HIDE DEF d
    <3>3. QED
      BY <3>1, <3>2 DEF AllBefore, Before
  <2>4. CASE m < i
    <3>1. m \in d \ s
      BY <2>1, <2>4
    <3>2. \A j \in Levels : j < m => (j \in s <=> j \in d)
      BY <1>1, <1>3, <2>1, <2>2, <2>4
    <3> HIDE DEF d
    <3>3. QED
      BY <3>1, <3>2 DEF AllBefore, Before
  <2>5. QED
    BY <2>2, <2>3, <2>4
<1> HIDE DEF d
<1>6. AllBefore(c) \cup {c} \in SUBSET AllBefore(d)
  BY <1>4, <1>5
<1>7. IsFiniteSet(AllBefore(d))
  BY <1>2, BeforeIsBounded
<1>8. Cardinality(AllBefore(c) \cup {c}) <= Cardinality(AllBefore(d))
  BY <1>6, <1>7, FS_Subset
<1>9. Cardinality(AllBefore(c) \cup {c}) = Cardinality(AllBefore(c)) + 1
  BY BeforeIsBounded, FS_AddElement
<1>10. QED
  BY <1>8, <1>9 DEF d

LEMMA RetryStep == RetryInv /\ [RetryNext]_retryvars => RetryInv'
<1> SUFFICES ASSUME RetryInv, [RetryNext]_retryvars PROVE RetryInv'
  OBVIOUS
<1> USE DEF Levels
<1>1. CASE UNCHANGED retryvars
  BY <1>1 DEF retryvars, RetryInv, RetryTyped, BodyIsKept, AttemptsAreCounted, AllBefore,
              Before, Seconds, Reattempts
<1>2. ASSUME NEW s \in CodeSets, BindRetryTransport(s) PROVE RetryInv'
  <2>1. <<s>> \o codes \in Seq(CodeSets)
    BY <1>2 DEF BindRetryTransport, RetryInv
  <2> QED
    BY <1>2, <2>1 DEF BindRetryTransport, RetryInv
<1>3. CASE RoundTrip
  <2>1. /\ request' = "send" /\ attempts' = 0 /\ ~early' /\ codes' = codes
        /\ codes \in Seq(CodeSets) /\ given' = BodyLength
        /\ second' = [i \in Levels |-> FALSE] /\ buf' = [i \in Levels |-> 0]
    BY <1>3 DEF RoundTrip, RetryInv
  <2>2. RetryTyped'
    BY <2>1, RetryAssumption DEF RetryTyped
  <2>3. Levels = 1..Len(codes) /\ Len(codes) \in Nat
    BY <2>1
  <2>4. BodyIsKept'
    BY <2>1, <2>3 DEF BodyIsKept
  <2>5. Seconds' = {} /\ AllBefore(Seconds)' = {}
    BY <2>1 DEF Seconds, AllBefore, Before
  <2>6. Cardinality({}) = 0
    BY FS_EmptySet
  <2>7. AttemptsAreCounted'
    <3>1. Cardinality(AllBefore(Seconds)') = 0
      BY <2>5, <2>6
    <3>2. /\ request' = "send" /\ attempts' = 0 /\ Seconds' = {}
          /\ attempts' <= Cardinality(AllBefore(Seconds)')
      BY <2>1, <2>5, <3>1
    <3> QED
      BY <3>2 DEF AttemptsAreCounted
  <2> QED
    BY <2>1, <2>2, <2>4, <2>7 DEF RetryInv
<1>4. ASSUME NEW out \in Outcomes, NEW read \in 0..given, Attempt(out, read) PROVE RetryInv'
  <2>1. /\ request = "send" /\ request' = "answer" /\ attempts' = attempts + 1
        /\ buf' = [i \in Levels |-> IF \A j \in i .. Len(codes) : ~second[j] THEN read ELSE buf[i]]
        /\ early' = (early \/ read < given) /\ UNCHANGED <<codes, second, given>>
        /\ RetryTyped /\ BodyIsKept /\ AttemptsAreCounted
        /\ ~early => given = BodyLength
    BY <1>4 DEF Attempt, RetryInv
  <2>2. read \in Nat /\ given \in Nat /\ attempts \in Nat
    BY <2>1 DEF RetryTyped
  <2>3. RetryTyped'
    BY <2>1, <2>2 DEF RetryTyped
  <2>4. ~early' => read = BodyLength /\ ~early
    <3>1. read <= given
      OBVIOUS
    <3>2. ~early' => ~early /\ ~(read < given)
      BY <2>1
    <3> QED
      BY <2>1, <2>2, <3>1, <3>2
  <2>5. BodyIsKept'
    BY <2>1, <2>4 DEF BodyIsKept
  <2>6. Seconds' = Seconds /\ AllBefore(Seconds)' = AllBefore(Seconds)
    BY <2>1 DEF Seconds, AllBefore, Before
  <2>7. Cardinality(AllBefore(Seconds)) \in Nat
    BY <2>1, BeforeIsBounded DEF RetryTyped, Seconds
  <2>8. AttemptsAreCounted'
    BY <2>1, <2>2, <2>6, <2>7 DEF AttemptsAreCounted
  <2> QED
    BY <2>1, <2>3, <2>5, <2>8 DEF RetryInv
<1>5. CASE Reattempt
  <2> DEFINE again == {i \in Levels : Reattempts(i, outcome)}
             m == Max(again)
  <2>1. /\ request = "answer" /\ again # {} /\ request' = "send"
        /\ second' = [i \in Levels |-> CASE i = m -> TRUE [] i > m -> FALSE [] OTHER -> second[i]]
        /\ given' = buf[m] /\ UNCHANGED <<codes, buf, outcome, attempts, early>>
        /\ RetryTyped /\ BodyIsKept /\ AttemptsAreCounted
    BY <1>5 DEF Reattempt, RetryInv
  <2>2. Levels = 1..Len(codes) /\ Len(codes) \in Nat
    BY <2>1, LevelsAreNumbered DEF RetryTyped
  <2>3. m \in again
    <3>1. again \in SUBSET (0..Len(codes))
      BY <2>2
    <3> HIDE DEF again
    <3> QED
      BY <2>1, <2>2, <3>1, MaxOfBounded
  <2>4. m \in Levels /\ ~second[m] /\ m \in Nat
    BY <2>2, <2>3 DEF Reattempts
  <2> HIDE DEF m
  <2>5. RetryTyped'
    <3>1. \A i \in Levels : second'[i] \in BOOLEAN
      BY <2>1, <2>2, <2>4 DEF RetryTyped
    <3>2. second' \in [Levels -> BOOLEAN] /\ buf[m] \in Nat
      BY <2>1, <2>4, <3>1 DEF RetryTyped
    <3> QED
      BY <2>1, <3>2 DEF RetryTyped
  <2>6. ~early => \A i \in Levels : buf[i] = BodyLength
    BY <2>1 DEF BodyIsKept
  <2>7. BodyIsKept' /\ (~early' => given' = BodyLength)
    BY <2>1, <2>4, <2>6 DEF BodyIsKept
  <2>8. Seconds' = {i \in Seconds : i < m} \cup {m}
    <3>1. \A i \in Levels : second'[i] <=> i = m \/ (i < m /\ second[i])
      BY <2>1, <2>2, <2>4 DEF RetryTyped
    <3> QED
      BY <2>1, <2>4, <3>1 DEF Seconds
  <2>9. m \in Levels \ Seconds /\ Seconds \in SUBSET Levels
    BY <2>4 DEF Seconds
  <2>10. /\ Cardinality(AllBefore(Seconds)) + 1 <= Cardinality(AllBefore(Seconds)')
         /\ Cardinality(AllBefore(Seconds)) \in Nat /\ Cardinality(AllBefore(Seconds)') \in Nat
    <3> DEFINE next == {i \in Seconds : i < m} \cup {m}
    <3>1. AllBefore(Seconds)' = AllBefore(next)
      BY <2>1, <2>8 DEF AllBefore, Before
    <3>2. codes \in Seq(CodeSets) /\ next \in SUBSET Levels
      BY <2>1, <2>9 DEF RetryTyped
    <3>3. Cardinality(AllBefore(Seconds)) + 1 <= Cardinality(AllBefore(next))
      BY <2>9, <3>2, ReattemptsAdvance
    <3> HIDE DEF next
    <3>4. Cardinality(AllBefore(Seconds)) \in Nat /\ Cardinality(AllBefore(next)) \in Nat
      BY <2>9, <3>2, BeforeIsBounded
    <3> QED
      BY <3>1, <3>3, <3>4
  <2>11. AttemptsAreCounted'
    <3>2. attempts \in Nat /\ attempts >= 1 /\ attempts <= Cardinality(AllBefore(Seconds)) + 1
      BY <2>1 DEF AttemptsAreCounted, RetryTyped
    <3>3. attempts <= Cardinality(AllBefore(Seconds)')
      BY <2>10, <3>2
    <3> QED
      BY <2>1, <3>2, <3>3 DEF AttemptsAreCounted
  <2> QED
    BY <2>1, <2>5, <2>7, <2>11 DEF RetryInv
<1>6. CASE Answer
  <2>1. /\ request = "answer" /\ request' = "done" /\ \A i \in Levels : ~Reattempts(i, outcome)
        /\ UNCHANGED <<codes, second, buf, given, outcome, attempts, early>>
        /\ RetryTyped /\ BodyIsKept /\ AttemptsAreCounted
    BY <1>6 DEF Answer, RetryInv
  <2>2. RetryTyped' /\ BodyIsKept' /\ \A i \in Levels' : ~Reattempts(i, outcome)'
    BY <2>1 DEF RetryTyped, BodyIsKept, Reattempts
  <2>3. AttemptsAreCounted'
    BY <2>1 DEF AttemptsAreCounted, AllBefore, Before, Seconds
  <2> QED
    BY <2>1, <2>2, <2>3 DEF RetryInv
<1>7. QED
  BY <1>1, <1>2, <1>3, <1>4, <1>5, <1>6 DEF RetryNext

\* Whatever codes a client is bound with and however often: an attempt after one that
\* read its body has all of it, n transports make 2^n attempts at the most, and what
\* one of them would have tried again was tried again.
THEOREM RetriesStaySound == RetrySpec => []RetriesAreSound
<1>1. RetryInit => RetryInv
  BY DEF RetryInit, RetryInv
<1>2. RetryInv => RetriesAreSound
  <2> SUFFICES ASSUME RetryInv PROVE RetriesAreSound
    OBVIOUS
  <2>1. CASE request = "none"
    <3>1. codes \in Seq(CodeSets) /\ Len(codes) \in Nat /\ attempts = 0
      BY <2>1 DEF RetryInv
    <3>2. 2 ^ Len(codes) \in Nat
      BY <3>1, PowerCounts
    <3> QED
      BY <2>1, <3>1, <3>2 DEF RetriesAreSound
  <2>2. CASE request # "none"
    <3>1. RetryTyped /\ AttemptsAreCounted
      BY <2>2 DEF RetryInv
    <3>2. Seconds \in SUBSET Levels
      BY DEF Seconds
    <3>3. /\ Cardinality(AllBefore(Seconds)) \in Nat
          /\ Cardinality(AllBefore(Seconds)) + 1 <= 2 ^ Len(codes)
          /\ 2 ^ Len(codes) \in Nat
      <4>1. codes \in Seq(CodeSets) /\ Len(codes) \in Nat
        BY <3>1 DEF RetryTyped
      <4> QED
        BY <3>2, <4>1, BeforeIsBounded, PowerCounts
    <3>4. attempts <= 2 ^ Len(codes)
      BY <3>1, <3>3 DEF RetryTyped, AttemptsAreCounted
    <3>5. ASSUME request = "done", NEW i \in Levels, outcome = "deadline" \/ outcome \in codes[i]
          PROVE  attempts >= 2
      <4>1. second[i]
        BY <2>2, <3>5 DEF RetryInv, Reattempts
      <4>2. Seconds # {}
        BY <4>1 DEF Seconds
      <4> QED
        BY <3>1, <3>5, <4>2 DEF AttemptsAreCounted
    <3>6. (request = "send" /\ ~early) => given = BodyLength
      BY <2>2 DEF RetryInv
    <3> QED
      BY <3>4, <3>5, <3>6 DEF RetriesAreSound
  <2> QED
    BY <2>1, <2>2
<1>3. QED
  BY <1>1, <1>2, RetryStep, PTL DEF RetrySpec

-----------------------------------------------------------------------------
(* Backoff *)

\* the widest signed integer, whatever the width
LEMMA IntegersAreWide ==
    /\ 2 ^ (Width - 1) \in Nat /\ MaxInt64 \in Nat /\ MaxInt64 = 2 ^ (Width - 1) - 1
    /\ 2 ^ Width = 2 * 2 ^ (Width - 1) /\ 2 ^ Width \in Nat \ {0}
    /\ Bounds \subseteq 1..MaxInt64 /\ Scales \subseteq 1..MaxInt64
<1>1. Width \in Nat /\ Width - 1 \in Nat /\ Width = (Width - 1) + 1
  BY BackoffAssumption
<1>2. 2 ^ (Width - 1) \in Nat /\ 2 ^ Width \in Nat
  BY <1>1, PowerCounts
<1>3. 2 ^ ((Width - 1) + 1) = 2 * 2 ^ (Width - 1)
  <2> DEFINE w == Width - 1
  <2>1. w \in Nat
    BY <1>1
  <2> HIDE DEF w
  <2>2. 2 ^ (w + 1) = 2 * 2 ^ w
    BY <2>1, PowerDoubles
  <2> QED
    BY <2>2 DEF w
<1>4. 2 ^ Width = 2 * 2 ^ (Width - 1)
  BY <1>1, <1>3
<1>5. 1 <= 2 ^ (Width - 1)
  BY <1>1, PowersArePositive
<1>6. MaxInt64 = 2 ^ (Width - 1) - 1 /\ MaxInt64 \in Nat
  BY <1>2, <1>5 DEF MaxInt64
<1>7. Bounds \subseteq 1..MaxInt64 /\ Scales \subseteq 1..MaxInt64
  BY BackoffAssumption DEF MaxInt64
<1> QED
  BY <1>2, <1>4, <1>5, <1>6, <1>7

\* a product that does not fit is caught by the shift, the upper word or the sign
LEMMA ExponentialIsExact ==
    ASSUME NEW scale \in 1..MaxInt64, NEW p \in Nat
    PROVE  /\ 2 ^ p \in Nat /\ scale * 2 ^ p \in Nat
           /\ Exponential(scale, p) =
                 IF scale * 2 ^ p <= MaxInt64 THEN scale * 2 ^ p ELSE MaxInt64
<1> DEFINE top == 2 ^ (Width - 1)
           two == 2 ^ p
           exp == Signed(IF p >= Width THEN 0 ELSE 2 ^ p)
           hi == (exp * scale) \div 2 ^ Width
           lo == (exp * scale) % 2 ^ Width
<1>1. Width \in Nat \ {0, 1} /\ Width - 1 \in Nat /\ scale \in Nat \ {0}
  BY BackoffAssumption, IntegersAreWide
<1>2. /\ top \in Nat /\ MaxInt64 = top - 1 /\ MaxInt64 \in Nat
      /\ 2 ^ Width = 2 * top /\ 2 ^ Width \in Nat \ {0}
  BY IntegersAreWide
<1>3. two \in Nat /\ 1 <= two
  BY PowerCounts, PowersArePositive
<1>4. scale * two \in Nat /\ two <= scale * two
  <2> HIDE DEF two
  <2> QED
    BY <1>1, <1>3
<1>5. Exponential(scale, p) =
        IF exp <= 0 \/ hi # 0 \/ lo > MaxInt64 THEN MaxInt64 ELSE lo
  BY DEF Exponential
<1>6. CASE p >= Width
  <2>1. exp = 0
    BY <1>2, <1>6 DEF Signed
  <2>2. 2 ^ Width <= two
    BY <1>1, <1>6, PowersGrow
  <2> HIDE DEF two, exp, top
  <2>3. ~(scale * two <= MaxInt64)
    BY <1>2, <1>3, <1>4, <2>2
  <2> QED
    BY <1>3, <1>4, <1>5, <2>1, <2>3 DEF two
<1>7. CASE p < Width /\ ~(two <= MaxInt64)
  <2>1. p = Width - 1
    <3>1. CASE p + 1 <= Width - 1
      <4>1. 2 ^ (p + 1) <= top
        BY <1>1, <3>1, PowersGrow
      <4>2. 2 ^ (p + 1) = 2 * two
        BY PowerDoubles
      <4> HIDE DEF two, top
      <4> QED
        BY <1>2, <1>3, <1>7, <4>1, <4>2
    <3>2. CASE ~(p + 1 <= Width - 1)
      BY <1>1, <1>7, <3>2
    <3> QED
      BY <3>1, <3>2
  <2>2. two = top
    BY <2>1
  <2>3. exp = two - 2 ^ Width
    <3>1. exp = Signed(two)
      BY <1>1, <1>7
    <3> HIDE DEF two, exp
    <3> QED
      BY <1>2, <1>3, <1>7, <3>1 DEF Signed
  <2> HIDE DEF two, exp, top
  <2>4. exp <= 0 /\ ~(scale * two <= MaxInt64)
    BY <1>2, <1>3, <1>4, <1>7, <2>2, <2>3
  <2> QED
    BY <1>3, <1>4, <1>5, <2>4 DEF two
<1>8. CASE p < Width /\ two <= MaxInt64
  <2>1. exp = two
    BY <1>1, <1>2, <1>3, <1>8 DEF Signed
  <2> DEFINE q == scale * two
             d == 2 ^ Width
  <2>2. exp * scale = q
    <3> HIDE DEF two, exp
    <3> QED
      BY <1>1, <1>3, <2>1
  <2>3. hi = q \div d /\ lo = q % d /\ q \in Nat /\ d \in Nat \ {0} /\ d = 2 * top
    BY <1>2, <1>4, <2>2
  <2>4. exp > 0
    BY <1>3, <2>1
  <2> HIDE DEF hi, lo, q, d, exp, top
  <2>5. /\ hi \in Nat /\ hi * d + lo = q /\ lo \in Nat
    <3>1. q \div d \in Nat /\ q % d \in 0..d - 1 /\ (q \div d) * d + (q % d) = q
      BY <2>3, Division
    <3> QED
      BY <2>3, <3>1
  <2>6. CASE q <= MaxInt64
    <3>1. q = 0 * d + q /\ q \in 0..d - 1
      BY <1>2, <2>3, <2>6
    <3>2. hi = 0 /\ lo = q
      BY <2>3, <3>1, DivisionIsUnique
    <3>3. ~(exp <= 0) /\ ~(lo > MaxInt64)
      BY <1>2, <2>3, <2>4, <2>6, <3>2, <2>1, <1>3
    <3>4. Exponential(scale, p) = q
      BY <1>5, <3>2, <3>3
    <3> QED
      BY <1>3, <1>4, <2>6, <3>4 DEF q
  <2>7. CASE ~(q <= MaxInt64)
    <3>1. hi = 0 => lo = q
      BY <2>3, <2>5
    <3>2. hi # 0 \/ lo > MaxInt64
      BY <1>2, <2>3, <2>5, <2>7, <3>1
    <3> QED
      BY <1>3, <1>4, <1>5, <2>7, <3>2 DEF q
  <2> QED
    BY <2>6, <2>7
<1>9. QED
  BY <1>1, <1>3, <1>6, <1>7, <1>8

\* the sum may wrap, and is then negative
LEMMA JitterAdds ==
    ASSUME NEW x \in 10..MaxInt64, NEW d \in Jitter(x)
    PROVE  x <= d /\ d * 10 < x * 11
<1> DEFINE top == 2 ^ (Width - 1)
<1>1. top \in Nat /\ MaxInt64 = top - 1 /\ 2 ^ Width = 2 * top /\ 2 ^ Width \in Nat \ {0}
  BY IntegersAreWide
<1> HIDE DEF top
<1>2. x \in Nat /\ 10 <= x /\ x <= top - 1
  BY <1>1
<1>3. CASE x = MaxInt64
  BY <1>2, <1>3 DEF Jitter
<1>4. CASE x # MaxInt64
  <2>1. PICK r \in 0..(x \div 10) - 1 : d = Max({x, Signed((x + r) % 2 ^ Width)})
    BY <1>4 DEF Jitter
  <2>2. r \in Nat /\ 10 * r < x
    BY <1>2, <2>1
  <2> DEFINE y == x + r
  <2>3. y \in 0..2 ^ Width - 1 /\ y \in Nat
    BY <1>1, <1>2, <2>2
  <2>4. y % 2 ^ Width = y
    <3> HIDE DEF y
    <3>1. (0 * 2 ^ Width + y) % 2 ^ Width = y
      BY <1>1, <2>3, DivisionIsUnique
    <3>2. 0 * 2 ^ Width + y = y
      BY <1>1, <2>3
    <3> QED
      BY <3>1, <3>2
  <2>5. Signed(y) = IF y > MaxInt64 THEN y - 2 ^ Width ELSE y
    BY DEF Signed
  <2>6. d = IF x >= Signed(y) THEN x ELSE Signed(y)
    <3>1. Signed(y) \in Int
      BY <1>1, <2>3, <2>5
    <3> HIDE DEF y
    <3>2. Max({x, Signed(y)}) = IF x >= Signed(y) THEN x ELSE Signed(y)
      BY <1>2, <3>1, MaxOfPair
    <3> QED
      BY <2>1, <2>4, <3>2 DEF y
  <2>7. d = y \/ d = x
    <3>1. CASE y > MaxInt64
      BY <1>1, <1>2, <2>2, <2>5, <2>6, <3>1
    <3>2. CASE ~(y > MaxInt64)
      BY <1>2, <2>2, <2>5, <2>6, <3>2
    <3> QED
      BY <3>1, <3>2
  <2> QED
    BY <1>2, <2>2, <2>7
<1> QED
  BY <1>3, <1>4

\* what DelaysAreExact says of one delay
IsExact(s, a, d) ==
    CASE s.kind = "capped" -> d = Min({s.max, s.scale * 2 ^ a})
      [] s.kind = "clamped" -> d = Min({s.max, Max({s.min, s.scale * 2 ^ a})})
      [] s.kind = "jittered" -> s.scale <= d /\ d * 10 < s.scale * 11
      [] s.kind = "cycle" ->
           \E k \in 0..MaxAttempt, i \in 1..3 : a = 3 * k + i - 1 /\ d = s.delays[i]
      [] s.kind = "hashed" -> d >= 0 /\ (d < s.window \/ d = 0)

LEMMA DelayIsExact ==
    ASSUME NEW a \in 0..MaxAttempt, NEW s \in Strategies, NEW d \in Delays(s, a)
    PROVE  IsExact(s, a, d)
<1>1. a \in Nat /\ MaxAttempt \in Nat /\ MaxInt64 \in Nat
  BY BackoffAssumption, IntegersAreWide
<1>2. Bounds \subseteq 1..MaxInt64 /\ Scales \subseteq 1..MaxInt64
  BY IntegersAreWide
<1>3. CASE s \in [kind : {"capped"}, scale : Scales, max : Bounds]
  <2>1. s.kind = "capped" /\ s.scale \in 1..MaxInt64 /\ s.max \in 1..MaxInt64
    BY <1>2, <1>3
  <2> DEFINE e == s.scale * 2 ^ a
  <2>2. /\ Exponential(s.scale, a) = IF e <= MaxInt64 THEN e ELSE MaxInt64
        /\ e \in Nat
    BY <1>1, <2>1, ExponentialIsExact
  <2>3. d = Maximum(s.max, Exponential(s.scale, a))
    BY <2>1 DEF Delays
  <2> HIDE DEF e
  <2>4. d = IF s.max <= e THEN s.max ELSE e
    BY <1>1, <2>1, <2>2, <2>3 DEF Maximum
  <2>5. d = Min({s.max, e})
    BY <1>1, <2>1, <2>2, <2>4, MinOfTwo
  <2> QED
    BY <2>1, <2>5 DEF e, IsExact
<1>4. CASE s \in [kind : {"clamped"}, scale : Scales, min : Bounds, max : Bounds]
  <2>1. /\ s.kind = "clamped" /\ s.scale \in 1..MaxInt64
        /\ s.max \in 1..MaxInt64 /\ s.min \in 1..MaxInt64
    BY <1>2, <1>4
  <2> DEFINE e == s.scale * 2 ^ a
  <2>2. /\ Exponential(s.scale, a) = IF e <= MaxInt64 THEN e ELSE MaxInt64
        /\ e \in Nat
    BY <1>1, <2>1, ExponentialIsExact
  <2>3. d = Maximum(s.max, Minimum(s.min, Exponential(s.scale, a)))
    BY <2>1 DEF Delays
  <2> DEFINE m == IF s.min >= e THEN s.min ELSE e
  <2> HIDE DEF e
  <2>4. m \in Nat /\ Max({s.min, e}) = m
    BY <1>1, <2>1, <2>2, MaxOfPair
  <2>5. d = IF s.max <= m THEN s.max ELSE m
    BY <1>1, <2>1, <2>2, <2>3 DEF Maximum, Minimum
  <2> HIDE DEF m
  <2>6. d = Min({s.max, m})
    BY <1>1, <2>1, <2>4, <2>5, MinOfTwo
  <2> QED
    BY <2>1, <2>4, <2>6 DEF e, IsExact
<1>5. CASE s \in [kind : {"jittered"}, scale : {c \in Bounds : c >= 10}]
  <2>1. s.kind = "jittered" /\ s.scale \in 10..MaxInt64
    <3>1. s.kind = "jittered" /\ s.scale \in {c \in Bounds : c >= 10}
      BY <1>5
    <3>2. \A c \in Bounds : c >= 10 => c \in 10..MaxInt64
      BY <1>1, <1>2
    <3> QED
      BY <3>1, <3>2
  <2>2. d \in Jitter(s.scale)
    BY <2>1 DEF Delays
  <2>3. s.scale <= d /\ d * 10 < s.scale * 11
    BY <2>1, <2>2, JitterAdds
  <2> QED
    BY <2>1, <2>3 DEF IsExact
<1>6. CASE s \in [kind : {"cycle"}, delays : {<<x, y, z>> : x, y, z \in Bounds}]
  <2>1. s.kind = "cycle" /\ Len(s.delays) = 3
    BY <1>6
  <2>2. d = s.delays[(a % 3) + 1]
    BY <2>1 DEF Delays, Cycle
  <2>3. /\ a \div 3 \in 0..MaxAttempt /\ (a % 3) + 1 \in 1..3
        /\ a = 3 * (a \div 3) + ((a % 3) + 1) - 1
    BY <1>1
  <2> QED
    BY <2>1, <2>2, <2>3 DEF IsExact
<1>7. CASE s \in [kind : {"hashed"}, window : Bounds \cup {0}]
  <2>1. s.kind = "hashed" /\ s.window \in 0..MaxInt64
    <3>1. s.kind = "hashed" /\ s.window \in Bounds \cup {0}
      BY <1>7
    <3>2. Bounds \cup {0} \subseteq 0..MaxInt64
      <4>1. 0 \in 0..MaxInt64 /\ \A c \in 1..MaxInt64 : c \in 0..MaxInt64
        BY <1>1
      <4> QED
        BY <1>2, <4>1
    <3> QED
      BY <3>1, <3>2
  <2>2. PICK h \in 0..2 ^ Width - 1 : d = DynamicHashDuration(h, s.window)
    BY <2>1 DEF Delays
  <2>3. h \in Nat /\ s.window \in Nat
    BY <2>1, IntegersAreWide
  <2>4. CASE s.window = 0
    BY <2>1, <2>2, <2>4 DEF DynamicHashDuration, IsExact
  <2>5. CASE s.window # 0
    <3>1. d = h % s.window
      BY <2>2, <2>5 DEF DynamicHashDuration, DynamicHashWindow
    <3>2. d \in 0..s.window - 1
      BY <2>3, <2>5, <3>1, Division
    <3> QED
      BY <2>1, <2>3, <3>2 DEF IsExact
  <2> QED
    BY <2>4, <2>5
<1>8. \/ s \in [kind : {"capped"}, scale : Scales, max : Bounds]
      \/ s \in [kind : {"clamped"}, scale : Scales, min : Bounds, max : Bounds]
      \/ s \in [kind : {"jittered"}, scale : {c \in Bounds : c >= 10}]
      \/ s \in [kind : {"cycle"}, delays : {<<x, y, z>> : x, y, z \in Bounds}]
      \/ s \in [kind : {"hashed"}, window : Bounds \cup {0}]
  BY DEF Strategies
<1>9. QED
  BY <1>3, <1>4, <1>5, <1>6, <1>7, <1>8

\* the strategy is fixed and the attempt a number; a delay is that of the attempt
BackoffInv ==
    /\ strategy \in Strategies /\ attempt \in 0..MaxAttempt
    /\ delay # Unset => delay \in Delays(strategy, attempt)

LEMMA BackoffStep == BackoffInv /\ [BackoffNext]_backoffvars => BackoffInv'
<1> SUFFICES ASSUME BackoffInv, [BackoffNext]_backoffvars PROVE BackoffInv'
  OBVIOUS
<1>1. MaxAttempt \in Nat
  BY BackoffAssumption
<1>2. CASE Iter
  <2>1. attempt' \in 0..MaxAttempt
    BY <1>1, <1>2 DEF Iter, BackoffInv
  <2> QED
    BY <1>2, <2>1 DEF Iter, BackoffInv
<1>3. CASE StartOver
  BY <1>1, <1>3 DEF StartOver, BackoffInv
<1>4. CASE UNCHANGED backoffvars
  BY <1>4 DEF BackoffInv, backoffvars
<1>5. QED
  BY <1>2, <1>3, <1>4 DEF BackoffNext

\* For integers of any width, any scales and bounds they hold, and any number of
\* attempts: a delay is exactly what the strategy means.
THEOREM DelaysStayExact == BackoffSpec => []DelaysAreExact
<1>1. BackoffInit => BackoffInv
  BY BackoffAssumption DEF BackoffInit, BackoffInv
<1>2. BackoffInv => DelaysAreExact
  BY DelayIsExact DEF BackoffInv, DelaysAreExact, IsExact
<1>3. QED
  BY <1>1, <1>2, BackoffStep, PTL DEF BackoffSpec

-----------------------------------------------------------------------------
(* VirtualFiles *)

\* what the recursion of Offsets defines: each file begins where the one before
\* it ends, and the first at 0
LEMMA OffsetsAddUp ==
    ASSUME NEW p \in Nat, NEW lengths \in [1..p -> Nat]
    PROVE  /\ Offsets(lengths) \in [1..p -> Nat]
           /\ \A i \in 1..p : i + 1 <= p =>
                 Offsets(lengths)[i + 1] = Offsets(lengths)[i] + lengths[i]
<1> DEFINE Ends(e) == e = [i \in 0..Len(lengths) |->
                              IF i = 0 THEN 0 ELSE e[i - 1] + lengths[i]]
           ends == CHOOSE e : Ends(e)
           step == [i \in 1..p |-> [x \in Nat |-> x + lengths[i]]]
<1>1. lengths \in Seq(Nat) /\ Len(lengths) = p /\ DOMAIN lengths = 1..p
  <2>1. lengths \in Seq(Nat)
    BY SeqDef
  <2> QED
    BY <2>1, LenProperties
<1>2. \E e : Ends(e)
  <2>1. step \in [1..p -> [Nat -> Nat]] /\ 0 \in Nat
    OBVIOUS
  <2>2. PICK e : /\ e \in [0..p -> Nat] /\ e[0] = 0
                 /\ \A i \in 1..p : e[i] = step[i][e[i - 1]]
    <3>1. \E e : Iterates(e, p, Nat, 0, step)
      <4>1. p \in Nat
        OBVIOUS
      <4> HIDE DEF step
      <4> QED
        BY <2>1, <4>1, IterationExists
    <3> HIDE DEF step
    <3> QED
      BY <3>1 DEF Iterates
  <2>3. ASSUME NEW i \in 0..p
        PROVE  e[i] = IF i = 0 THEN 0 ELSE e[i - 1] + lengths[i]
    <3>1. i # 0 => i \in 1..p /\ i - 1 \in 0..p
      OBVIOUS
    <3>2. ASSUME i # 0 PROVE step[i][e[i - 1]] = e[i - 1] + lengths[i]
      <4>1. i \in 1..p /\ e[i - 1] \in Nat
        BY <2>2, <3>1, <3>2
      <4>2. step[i] = [x \in Nat |-> x + lengths[i]]
        BY <4>1
      <4> HIDE DEF step
      <4> QED
        BY <4>1, <4>2
    <3> HIDE DEF step
    <3> QED
      BY <2>2, <3>1, <3>2
  <2>4. e = [i \in 0..p |-> e[i]]
    BY <2>2
  <2>5. Ends(e)
    BY <1>1, <2>3, <2>4
  <2> QED
    BY <2>5
<1>3. Ends(ends)
  <2> HIDE DEF Ends
  <2> QED
    BY <1>2
<1>4. Offsets(lengths) = [i \in 1..p |-> ends[i - 1]]
  BY <1>1 DEF Offsets
<1> HIDE DEF ends
<1>5. ends[0] = 0 /\ \A i \in 1..p : ends[i] = ends[i - 1] + lengths[i]
  <2>1. 0 \in 0..p /\ \A i \in 1..p : i \in 0..p /\ i # 0
    OBVIOUS
  <2>2. ends = [i \in 0..p |-> IF i = 0 THEN 0 ELSE ends[i - 1] + lengths[i]]
    BY <1>1, <1>3
  <2> HIDE DEF Ends
  <2> QED
    BY <2>1, <2>2
<1>6. \A i \in 0..p : ends[i] \in Nat
  <2>1. \A i \in 1..p : ends[i - 1] \in Nat => ends[i] \in Nat
    BY <1>5
  <2>2. p \in Nat /\ ends[0] \in Nat
    BY <1>5
  <2> HIDE DEF Ends
  <2> QED
    BY <2>1, <2>2, ValuesStay
<1>7. \A i \in 1..p : i - 1 \in 0..p /\ (i + 1) - 1 = i
  OBVIOUS
<1> HIDE DEF Ends
<1> QED
  BY <1>4, <1>5, <1>6, <1>7

\* the end of a file is not past the end of the last one
LEMMA EndsInside ==
    ASSUME NEW p \in Nat, NEW lengths \in [1..p -> Nat], NEW i \in 1..p
    PROVE  Offsets(lengths)[i] + lengths[i] <= Offsets(lengths)[p] + lengths[p]
<1> DEFINE offsets == Offsets(lengths)
           End(k) == offsets[k] + lengths[k]
           K == {k \in Nat : i + k <= p => End(i) <= End(i + k)}
<1>1. /\ offsets \in [1..p -> Nat]
      /\ \A k \in 1..p : k + 1 <= p => offsets[k + 1] = offsets[k] + lengths[k]
  BY OffsetsAddUp
<1> HIDE DEF offsets
<1>2. K \in SUBSET Nat /\ 0 \in K
  BY <1>1
<1>3. ASSUME NEW k \in K PROVE k + 1 \in K
  <2>1. SUFFICES ASSUME i + (k + 1) <= p PROVE End(i) <= End(i + (k + 1))
    OBVIOUS
  <2>2. /\ i + k \in 1..p /\ i + (k + 1) \in 1..p /\ (i + k) + 1 = i + (k + 1)
        /\ i + k <= p
    BY <1>3, <2>1
  <2>3. End(i) <= End(i + k)
    BY <1>3, <2>2
  <2>4. End(i + k) = offsets[i + (k + 1)]
    BY <1>1, <2>2
  <2>5. End(i) \in Nat /\ End(i + k) \in Nat /\ lengths[i + (k + 1)] \in Nat
    BY <1>1, <2>2
  <2>6. End(i + (k + 1)) = End(i + k) + lengths[i + (k + 1)]
    BY <2>4
  <2> HIDE DEF End
  <2> QED
    BY <2>3, <2>5, <2>6
<1>4. K = Nat
  <2> HIDE DEF K
  <2> QED
    BY <1>2, <1>3, SetInduction
<1>5. p - i \in K /\ i + (p - i) = p
  <2> HIDE DEF K
  <2> QED
    BY <1>4
<1>6. End(i) <= End(p)
  BY <1>5
<1> QED
  BY <1>6 DEF offsets

\* what a torrent's files are: they lie inside it, and none where another has a
\* directory
IsTorrent(fs) ==
  /\ fs \in Seq([path : Paths, length : Nat, offset : Nat]) /\ Len(fs) > 0
  /\ \A i \in DOMAIN fs : fs[i].offset + fs[i].length <= Total(fs)
  /\ \A i, j \in DOMAIN fs : i # j => ~IsPrefix(fs[i].path, fs[j].path)

LEMMA TorrentsAreSound ==
    ASSUME NEW m \in Nat \ {0}, NEW fs \in Torrents(m)
    PROVE  IsTorrent(fs)
<1>1. PICK paths \in [1..m -> Paths], lengths \in [1..m -> Lengths] :
          /\ Separate(paths)
          /\ fs = [i \in 1..m |-> [path |-> paths[i], length |-> lengths[i],
                                   offset |-> Offsets(lengths)[i]]]
  BY DEF Torrents
<1> DEFINE File == [path : Paths, length : Nat, offset : Nat]
<1>2. lengths \in [1..m -> Nat]
  BY VfsAssumption
<1>3. Offsets(lengths) \in [1..m -> Nat]
  BY <1>2, OffsetsAddUp
<1>4. fs \in [1..m -> File]
  BY <1>1, <1>2, <1>3
<1>5. fs \in Seq(File) /\ Len(fs) = m /\ DOMAIN fs = 1..m
  <2> HIDE DEF File
  <2>1. fs \in Seq(File)
    BY <1>4, SeqDef
  <2> QED
    BY <1>4, <2>1, LenProperties
<1>6. \A i \in 1..m : /\ fs[i].path = paths[i] /\ fs[i].length = lengths[i]
                      /\ fs[i].offset = Offsets(lengths)[i]
  BY <1>1
<1>7. m \in 1..m
  OBVIOUS
<1>8. \A i \in 1..m : fs[i].offset + fs[i].length <= Total(fs)
  <2>1. \A i \in 1..m :
            Offsets(lengths)[i] + lengths[i] <= Offsets(lengths)[m] + lengths[m]
    BY <1>2, EndsInside
  <2> QED
    BY <1>5, <1>6, <1>7, <2>1 DEF Total
<1>9. \A i, j \in 1..m : i # j => ~IsPrefix(fs[i].path, fs[j].path)
  <2>1. DOMAIN paths = 1..m
    OBVIOUS
  <2> QED
    BY <1>1, <1>6, <2>1 DEF Separate
<1> QED
  BY <1>5, <1>8, <1>9 DEF IsTorrent

\* the entries a directory may have: the paths of files and what leads to them
Leading(fs) == UNION {{SubSeq(fs[i].path, 1, k) : k \in 0..Len(fs[i].path)} : i \in DOMAIN fs}

Trees(fs) == [Directories(fs) -> Seq(Leading(fs))]

\* the entries of every directory above the first m files lead to them
ListsFirst(fs, tree, m) ==
  \A i \in DOMAIN fs : i <= m =>
    \A d \in Parents(fs[i].path) : \E j \in DOMAIN tree[d] :
        tree[d][j] = SubSeq(fs[i].path, 1, Len(d) + 1)

LEMMA PathsAreSequences ==
    ASSUME NEW fs, IsTorrent(fs), NEW i \in DOMAIN fs
    PROVE  /\ fs[i].path # <<>> /\ Len(fs[i].path) \in Nat \ {0}
           /\ \E S : fs[i].path \in Seq(S)
<1>1. fs[i].path \in Paths
  <2>1. /\ fs \in Seq([path : Paths, length : Nat, offset : Nat])
        /\ i \in 1..Len(fs)
    BY LenProperties DEF IsTorrent
  <2>2. fs[i] \in [path : Paths, length : Nat, offset : Nat]
    BY <2>1, ElementOfSeq
  <2> QED
    BY <2>2
<1>2. PICK S : fs[i].path \in Seq(S)
  BY <1>1, VfsAssumption
<1>3. fs[i].path # <<>>
  BY <1>1, VfsAssumption
<1> QED
  BY <1>2, <1>3, LenProperties, EmptySeq

LEMMA LeadingLength ==
    ASSUME NEW fs, IsTorrent(fs), NEW i \in DOMAIN fs, NEW k \in 0..Len(fs[i].path)
    PROVE  /\ Len(SubSeq(fs[i].path, 1, k)) = k
           /\ SubSeq(fs[i].path, 1, Len(fs[i].path)) = fs[i].path
<1> DEFINE way == fs[i].path
<1>1. PICK S : way \in Seq(S)
  BY PathsAreSequences
<1> HIDE DEF way
<1>2. Len(way) \in Nat /\ k \in 0..Len(way)
  BY <1>1, LenProperties DEF way
<1>3. \A j \in 1..k : way[j] \in S
  <2>1. \A j \in 1..k : j \in 1..Len(way)
    BY <1>2
  <2> QED
    BY <1>1, <2>1, ElementOfSeq
<1>4. k \in Int /\ 1 \in Int
  BY <1>2
<1>5. Len(SubSeq(way, 1, k)) = IF 1 <= k THEN k - 1 + 1 ELSE 0
  BY <1>3, <1>4, SubSeqProperties
<1>6. SubSeq(way, 1, Len(way)) = way
  BY <1>1, SubSeqFull
<1> QED
  BY <1>2, <1>5, <1>6 DEF way

\* a directory above a file: its length, and the entry that leads on
LEMMA ParentsLead ==
    ASSUME NEW fs, IsTorrent(fs), NEW i \in DOMAIN fs, NEW d \in Parents(fs[i].path)
    PROVE  /\ d \in Directories(fs) /\ Len(d) \in 0..Len(fs[i].path) - 1
           /\ d = SubSeq(fs[i].path, 1, Len(d))
           /\ SubSeq(fs[i].path, 1, Len(d) + 1) \in Leading(fs)
<1> DEFINE way == fs[i].path
<1>1. Len(way) \in Nat \ {0} /\ \E S : way \in Seq(S)
  BY PathsAreSequences
<1>2. PICK k \in 0..Len(way) - 1 : d = SubSeq(way, 1, k)
  BY DEF Parents
<1>3. Len(d) = k
  <2>1. k \in 0..Len(way)
    BY <1>1
  <2> QED
    BY <1>2, <2>1, LeadingLength
<1>4. Len(d) + 1 \in 0..Len(way)
  BY <1>1, <1>3
<1>5. SubSeq(way, 1, Len(d) + 1) \in Leading(fs)
  BY <1>4 DEF Leading
<1>6. d \in Directories(fs)
  BY DEF Directories
<1> QED
  BY <1>2, <1>3, <1>5, <1>6

\* one file more: the tree stays a tree, keeps its entries and gets the file's
LEMMA PutsParents ==
    ASSUME NEW fs, IsTorrent(fs), NEW m \in DOMAIN fs, NEW tree \in Trees(fs)
    PROVE  /\ PutParents(tree, fs[m].path) \in Trees(fs)
           /\ ListsFirst(fs, tree, m - 1) =>
                 ListsFirst(fs, PutParents(tree, fs[m].path), m)
<1> DEFINE more == PutParents(tree, fs[m].path)
           new(d) == SubSeq(fs[m].path, 1, Len(d) + 1)
<1>1. /\ \A d \in Directories(fs) :
             more[d] = IF d \in Parents(fs[m].path) THEN Append(tree[d], new(d)) ELSE tree[d]
      /\ more = [d \in Directories(fs) |-> more[d]]
  BY DEF PutParents, Trees
<1>2. \A d \in Directories(fs) : tree[d] \in Seq(Leading(fs))
  BY DEF Trees
<1> HIDE DEF more
<1>3. ASSUME NEW d \in Directories(fs)
      PROVE  /\ more[d] \in Seq(Leading(fs))
             /\ \A j \in DOMAIN tree[d] : j \in DOMAIN more[d] /\ more[d][j] = tree[d][j]
             /\ d \in Parents(fs[m].path) =>
                   \E j \in DOMAIN more[d] : more[d][j] = new(d)
  <2>1. CASE d \in Parents(fs[m].path)
    <3>1. new(d) \in Leading(fs) /\ tree[d] \in Seq(Leading(fs))
      BY <1>2, <2>1, ParentsLead
    <3>2. more[d] = Append(tree[d], new(d))
      BY <1>1, <2>1
    <3> DEFINE seq == tree[d]
               elt == new(d)
    <3> HIDE DEF new, seq, elt
    <3>3. /\ Append(seq, elt) \in Seq(Leading(fs)) /\ Len(Append(seq, elt)) = Len(seq) + 1
          /\ \A j \in 1..Len(seq) : Append(seq, elt)[j] = seq[j]
          /\ Append(seq, elt)[Len(seq) + 1] = elt
      BY <3>1, AppendProperties DEF seq, elt
    <3>4. /\ Len(seq) \in Nat /\ DOMAIN seq = 1..Len(seq)
          /\ DOMAIN Append(seq, elt) = 1..Len(seq) + 1
      BY <3>1, <3>3, LenProperties DEF seq
    <3> QED
      BY <3>2, <3>3, <3>4 DEF seq, elt
  <2>2. CASE d \notin Parents(fs[m].path)
    BY <1>1, <1>2, <2>2
  <2> QED
    BY <2>1, <2>2
<1>4. more \in Trees(fs)
  BY <1>1, <1>3 DEF Trees
<1>5. ASSUME ListsFirst(fs, tree, m - 1), NEW i \in DOMAIN fs, i <= m,
             NEW d \in Parents(fs[i].path)
      PROVE  \E j \in DOMAIN more[d] : more[d][j] = SubSeq(fs[i].path, 1, Len(d) + 1)
  <2>1. d \in Directories(fs)
    BY ParentsLead
  <2>2. CASE i = m
    BY <1>3, <2>1, <2>2
  <2>3. CASE i # m
    <3>1. i <= m - 1
      <4>1. i \in Nat /\ m \in Nat
        BY DEF IsTorrent
      <4> QED
        BY <1>5, <2>3, <4>1
    <3>2. PICK j \in DOMAIN tree[d] : tree[d][j] = SubSeq(fs[i].path, 1, Len(d) + 1)
      BY <1>5, <3>1 DEF ListsFirst
    <3> QED
      BY <1>3, <2>1, <3>2
  <2> QED
    BY <2>2, <2>3
<1> QED
  BY <1>4, <1>5 DEF ListsFirst, more

\* every directory of the tree NewFS builds has an entry on the way to each file below it
LEMMA TreeLeadsToFiles ==
    ASSUME NEW fs, IsTorrent(fs)
    PROVE  NewFS(fs) \in Trees(fs) /\ ListsFirst(fs, NewFS(fs), Len(fs))
<1> DEFINE p == Len(fs)
           start == [d \in Directories(fs) |-> <<>>]
           Grown(t) == t = [i \in 0..p |-> IF i = 0 THEN start
                                           ELSE PutParents(t[i - 1], fs[i].path)]
           trees == CHOOSE t : Grown(t)
           step == [i \in 1..p |-> [t \in Trees(fs) |-> PutParents(t, fs[i].path)]]
<1>1. p \in Nat /\ DOMAIN fs = 1..p
  BY DEF IsTorrent
<1>2. start \in Trees(fs)
  <2>1. <<>> \in Seq(Leading(fs))
    BY EmptySeq
  <2> QED
    BY <2>1 DEF Trees
<1>3. \A i \in 1..p, t \in Trees(fs) : PutParents(t, fs[i].path) \in Trees(fs)
  BY <1>1, PutsParents
<1> HIDE DEF p, start
<1>4. \E t : Grown(t)
  <2>1. step \in [1..p -> [Trees(fs) -> Trees(fs)]]
    BY <1>3
  <2>2. PICK g : Iterates(g, p, Trees(fs), start, step)
    <3> HIDE DEF step
    <3> QED
      BY <1>1, <1>2, <2>1, IterationExists
  <2>3. ASSUME NEW i \in 0..p
        PROVE  g[i] = IF i = 0 THEN start ELSE PutParents(g[i - 1], fs[i].path)
    <3>1. g \in [0..p -> Trees(fs)] /\ g[0] = start
      BY <2>2 DEF Iterates
    <3>2. ASSUME i # 0 PROVE g[i] = PutParents(g[i - 1], fs[i].path)
      <4>1. i \in 1..p /\ i - 1 \in 0..p
        BY <1>1, <3>2
      <4>2. g[i] = step[i][g[i - 1]]
        BY <2>2, <4>1 DEF Iterates
      <4>3. g[i - 1] \in Trees(fs)
        BY <3>1, <4>1
      <4>4. step[i] = [t \in Trees(fs) |-> PutParents(t, fs[i].path)]
        BY <4>1
      <4> HIDE DEF step
      <4> QED
        BY <4>2, <4>3, <4>4
    <3> QED
      BY <3>1, <3>2
  <2>4. g = [i \in 0..p |-> g[i]]
    BY <2>2 DEF Iterates
  <2>5. Grown(g)
    BY <2>3, <2>4
  <2> QED
    BY <2>5
<1>5. Grown(trees)
  <2> HIDE DEF Grown
  <2> QED
    BY <1>4
<1>6. NewFS(fs) = trees[p]
  BY DEF NewFS, p, start
<1> HIDE DEF trees
<1>7. /\ trees[0] = start
      /\ \A i \in 1..p : trees[i] = PutParents(trees[i - 1], fs[i].path)
  <2>1. 0 \in 0..p /\ \A i \in 1..p : i \in 0..p /\ i # 0
    BY <1>1
  <2>2. trees = [i \in 0..p |-> IF i = 0 THEN start
                                ELSE PutParents(trees[i - 1], fs[i].path)]
    BY <1>5
  <2> HIDE DEF Grown
  <2> QED
    BY <2>1, <2>2
<1> HIDE DEF Grown
<1>8. \A i \in 0..p : trees[i] \in Trees(fs)
  <2>1. trees[0] \in Trees(fs)
    BY <1>2, <1>7
  <2>2. \A i \in 1..p : trees[i - 1] \in Trees(fs) => trees[i] \in Trees(fs)
    BY <1>3, <1>7
  <2> QED
    BY <1>1, <2>1, <2>2, ValuesStay
<1> DEFINE K == {k \in Nat : k <= p => ListsFirst(fs, trees[k], k)}
<1>9. 0 \in K
  <2>1. ListsFirst(fs, trees[0], 0)
    BY <1>1 DEF ListsFirst
  <2> QED
    BY <2>1
<1>10. ASSUME NEW k \in K PROVE k + 1 \in K
  <2>1. k \in Nat
    BY <1>10
  <2>2. ASSUME k + 1 <= p PROVE ListsFirst(fs, trees[k + 1], k + 1)
    <3>1. k + 1 \in 1..p /\ k \in 0..p /\ (k + 1) - 1 = k /\ k <= p
      BY <1>1, <2>1, <2>2
    <3>2. trees[k] \in Trees(fs) /\ trees[k + 1] = PutParents(trees[k], fs[k + 1].path)
      BY <1>7, <1>8, <3>1
    <3>3. ListsFirst(fs, trees[k], (k + 1) - 1)
      BY <1>10, <3>1
    <3>4. k + 1 \in DOMAIN fs
      BY <1>1, <3>1
    <3> HIDE DEF K
    <3> QED
      BY <3>2, <3>3, <3>4, PutsParents
  <2> QED
    BY <2>1, <2>2
<1>11. K = Nat
  <2>1. K \in SUBSET Nat
    OBVIOUS
  <2> HIDE DEF K
  <2> QED
    BY <1>9, <1>10, <2>1, SetInduction
<1>12. ListsFirst(fs, trees[p], p)
  <2>1. p \in K
    <3> HIDE DEF K
    <3> QED
      BY <1>1, <1>11
  <2> QED
    BY <1>1, <2>1
<1>13. trees[p] \in Trees(fs)
  <2>1. p \in 0..p
    BY <1>1
  <2> QED
    BY <1>8, <2>1
<1> QED
  BY <1>6, <1>12, <1>13 DEF p

\* m places one after the other
InRow(off, m) == [i \in 1..m |-> off + i - 1]

\* a read takes the places from its offset on, up to one that is not there
LEMMA ReadsInOrder ==
    ASSUME NEW count \in Nat, NEW off \in Nat
    PROVE  \E m \in 0..count :
              /\ CacheReadAt(count, off).places = InRow(off, m)
              /\ CacheReadAt(count, off).err = "EOF" =>
                    ~Has(off + m) /\ BlockSize((off + m) \div bl) # Absent
<1> DEFINE S == {k \in 0..count : \A i \in 0..k - 1 : Has(off + i)}
           m == Max(S)
<1>1. S \in SUBSET (0..count) /\ 0 \in S
  OBVIOUS
<1>2. m \in S /\ \A k \in S : k <= m
  <2> HIDE DEF S
  <2> QED
    BY <1>1, MaxOfBounded
<1>3. m \in 0..count
  <2> HIDE DEF m
  <2> QED
    BY <1>2
<1>4. /\ CacheReadAt(count, off).places = InRow(off, m)
      /\ CacheReadAt(count, off).err =
            IF m = count THEN "nil"
            ELSE IF BlockSize((off + m) \div bl) = Absent THEN "missing" ELSE "EOF"
  BY DEF CacheReadAt, InRow
<1> HIDE DEF m
<1>5. ASSUME m # count, Has(off + m) PROVE FALSE
  <2>1. m + 1 \in 0..count
    BY <1>3, <1>5
  <2>2. ASSUME NEW i \in 0..(m + 1) - 1 PROVE Has(off + i)
    <3>1. i = m \/ i \in 0..m - 1
      BY <1>3
    <3>2. \A j \in 0..m - 1 : Has(off + j)
      BY <1>2
    <3> QED
      BY <1>5, <3>1, <3>2
  <2>3. m + 1 \in S
    BY <2>1, <2>2
  <2>4. m + 1 <= m
    <3> HIDE DEF S
    <3> QED
      BY <1>2, <2>3
  <2> QED
    BY <1>3, <2>4
<1>6. CacheReadAt(count, off).err = "EOF" =>
         ~Has(off + m) /\ BlockSize((off + m) \div bl) # Absent
  BY <1>4, <1>5
<1> QED
  BY <1>3, <1>4, <1>6

\* the block files as the download left them, but for those that are lost
DiskIsStored ==
  \A k \in DOMAIN disk : k \in Nat /\
      (disk[k] # Absent =>
         k * bl < Total(files) /\ disk[k] = Min({bl, Total(files) - k * bl}))

\* a place that is missing in a block that is there is past the end of the torrent
LEMMA EndIsReached ==
    ASSUME DiskIsStored, bl \in Nat \ {0}, Total(files) \in Nat,
           NEW o \in Nat, ~Has(o), BlockSize(o \div bl) # Absent
    PROVE  Total(files) <= o
<1> DEFINE k == o \div bl
           start == k * bl
           total == Total(files)
<1>1. k \in DOMAIN disk /\ disk[k] # Absent /\ BlockSize(k) = disk[k]
  BY DEF BlockSize
<1>2. start < total /\ disk[k] = Min({bl, total - start})
  BY <1>1 DEF DiskIsStored
<1>3. ~(o % bl < disk[k])
  BY <1>1 DEF Has
<1>4. start \in Nat /\ o % bl \in 0..bl - 1 /\ start + (o % bl) = o
  BY Division
<1>5. total - start \in Int
  BY <1>4
<1>6. disk[k] = IF bl <= total - start THEN bl ELSE total - start
  BY <1>2, <1>5, MinOfTwo
<1> DEFINE r == o % bl
<1> HIDE DEF start, total, k, r
<1>7. r \in 0..bl - 1 /\ ~(r < disk[k]) /\ start + r = o
  BY <1>3, <1>4 DEF r
<1> QED
  BY <1>4, <1>5, <1>6, <1>7 DEF total

Moves == [call : {"read", "write"}, index : Nat, place : Nat]

\* what was moved once a call has moved m places from one on
MovedOn(later, call, off, m) ==
  /\ later \in Seq(Moves) /\ Len(later) = Len(moved) + m
  /\ \A i \in 1..Len(moved) : later[i] = moved[i]
  /\ \A i \in 1..m :
        later[Len(moved) + i] =
           [call |-> call, index |-> handle.index + i - 1, place |-> off + i - 1]

\* what a call moves follows what was moved before
LEMMA MovesFollow ==
    ASSUME NEW call \in {"read", "write"}, NEW m \in Nat, NEW off \in Nat,
           moved \in Seq(Moves), handle.index \in Nat,
           NEW places, places = InRow(off, m),
           NEW later, later = moved \o MovedBy(call, places)
    PROVE  MovedOn(later, call, off, m)
<1> DEFINE new == MovedBy(call, places)
<1>0. later = moved \o new
  OBVIOUS
<1>1. DOMAIN places = 1..m /\ \A i \in 1..m : places[i] = off + i - 1
  BY DEF InRow
<1>2. new = [i \in 1..m |-> [call |-> call, index |-> handle.index + i - 1,
                             place |-> places[i]]]
  BY <1>1 DEF MovedBy
<1>3. \A i \in 1..m :
         /\ new[i] = [call |-> call, index |-> handle.index + i - 1,
                      place |-> off + i - 1]
         /\ new[i] \in Moves
  <2>1. ASSUME NEW i \in 1..m
        PROVE  handle.index + i - 1 \in Nat /\ off + i - 1 \in Nat
    OBVIOUS
  <2>2. ASSUME NEW i \in 1..m
        PROVE  new[i] = [call |-> call, index |-> handle.index + i - 1,
                         place |-> off + i - 1]
    BY <1>1, <1>2
  <2> HIDE DEF new
  <2> QED
    BY <2>1, <2>2 DEF Moves
<1>4. new \in [1..m -> Moves]
  <2>1. new = [i \in 1..m |-> new[i]]
    BY <1>2
  <2> HIDE DEF new
  <2> QED
    BY <1>3, <2>1
<1> HIDE DEF new
<1>5. new \in Seq(Moves) /\ Len(new) = m
  <2>1. new \in Seq(Moves)
    BY <1>4, SeqDef
  <2> QED
    BY <1>4, <2>1, LenProperties
<1>6. /\ later \in Seq(Moves) /\ Len(later) = Len(moved) + m
      /\ \A i \in 1..Len(moved) + m :
            later[i] = IF i <= Len(moved) THEN moved[i] ELSE new[i - Len(moved)]
  <2> DEFINE both == moved \o new
  <2>1. /\ both \in Seq(Moves) /\ Len(both) = Len(moved) + m
        /\ \A i \in 1..Len(moved) + m :
              both[i] = IF i <= Len(moved) THEN moved[i] ELSE new[i - Len(moved)]
    BY <1>5, ConcatProperties
  <2> HIDE DEF both
  <2> QED
    BY <1>0, <2>1 DEF both
<1>7. Len(moved) \in Nat
  BY LenProperties
<1>8. \A i \in 1..Len(moved) : later[i] = moved[i]
  BY <1>6, <1>7
<1>9. ASSUME NEW i \in 1..m PROVE later[Len(moved) + i] = new[i]
  <2>1. /\ Len(moved) + i \in 1..Len(moved) + m /\ ~(Len(moved) + i <= Len(moved))
        /\ (Len(moved) + i) - Len(moved) = i
    BY <1>7
  <2> QED
    BY <1>6, <2>1
<1> QED
  BY <1>3, <1>6, <1>8, <1>9 DEF MovedOn

\* the open handle of an import has copied its file's bytes from the first on
CopyInOrder ==
  handle # NoHandle =>
    /\ Len(moved) = handle.index
    /\ \A i \in DOMAIN moved : moved[i].call = "read" /\ moved[i].index = i - 1

\* a file the walk still has to come to
Ahead(q, f) ==
  \E j \in DOMAIN q, k \in 0..Len(files[f].path) : q[j] = SubSeq(files[f].path, 1, k)

CopiedFile(f) == \E i \in DOMAIN imported : imported[i].file = f

Copies == [file : DOMAIN files, offset : Nat, places : Seq(Nat)]

\* an import: no file is forgotten between the tree and the copies
ImportInv ==
  /\ DiskIsStored
  /\ CopyInOrder
  /\ todo \in Seq(Leading(files))
  /\ imported \in Seq(Copies)
  /\ CopiesBeginWithFile
  /\ failed \subseteq DOMAIN files
  /\ \A f \in DOMAIN files :
        f \in failed \/ CopiedFile(f) \/ (handle # NoHandle /\ handle.file = f) \/ Ahead(todo, f)

\* a handle's user: the import's state stays as it was
UserInv == handle # NoHandle /\ calls \in Nat /\ imported = <<>>

VfsInv ==
  /\ IsTorrent(files) /\ bl \in Nat \ {0}
  /\ handle = NoHandle \/ handle \in [file : DOMAIN files, index : Nat]
  /\ moved \in Seq(Moves) /\ (handle = NoHandle => moved = <<>>)
  /\ HandleReadsFile
  /\ IF calls = Importing THEN ImportInv ELSE UserInv

LEMMA FileFacts ==
    ASSUME NEW fs, IsTorrent(fs)
    PROVE  /\ DOMAIN fs = 1..Len(fs) /\ Len(fs) \in Nat \ {0}
           /\ \A f \in DOMAIN fs : fs[f].offset \in Nat /\ fs[f].length \in Nat
           /\ Total(fs) \in Nat
<1>1. /\ fs \in Seq([path : Paths, length : Nat, offset : Nat])
      /\ DOMAIN fs = 1..Len(fs) /\ Len(fs) \in Nat \ {0}
  BY LenProperties DEF IsTorrent
<1>2. \A f \in DOMAIN fs : fs[f] \in [path : Paths, length : Nat, offset : Nat]
  BY <1>1, ElementOfSeq
<1>3. Len(fs) \in DOMAIN fs
  BY <1>1
<1> QED
  BY <1>1, <1>2, <1>3 DEF Total

LEMMA NoHandleIsNone ==
    ASSUME IsTorrent(files), NEW h \in [file : DOMAIN files, index : Nat]
    PROVE  h # NoHandle /\ h.file \in DOMAIN files /\ h.index \in Nat
<1>1. h.file \in DOMAIN files
  OBVIOUS
<1>2. h.file # 0
  BY <1>1, FileFacts
<1> QED
  BY <1>2 DEF NoHandle

\* what a handle's read changes
LEMMA ReadMoves ==
    ASSUME IsTorrent(files), handle \in [file : DOMAIN files, index : Nat],
           moved \in Seq(Moves), HandleReadsFile, files' = files,
           NEW count \in Nat, FileRead(count)
    PROVE  \E m \in 0..count :
              /\ handle' = [handle EXCEPT !.index = @ + m]
              /\ handle' \in [file : DOMAIN files, index : Nat]
              /\ handle'.file = handle.file /\ handle'.index = handle.index + m
              /\ moved' \in Seq(Moves) /\ Len(moved') = Len(moved) + m
              /\ \A i \in 1..Len(moved) : moved'[i] = moved[i]
              /\ \A i \in 1..m : /\ moved'[Len(moved) + i].call = "read"
                                 /\ moved'[Len(moved) + i].index = handle.index + i - 1
              /\ HandleReadsFile'
<1> DEFINE off == files[handle.file].offset + handle.index
           r == FileReadAt(handle.file, count, handle.index)
<1>1. /\ handle.file \in DOMAIN files /\ handle.index \in Nat
      /\ files[handle.file].offset \in Nat
  BY FileFacts
<1>2. off \in Nat
  BY <1>1
<1>3. r = CacheReadAt(count, off)
  BY DEF FileReadAt
<1> HIDE DEF off, r
<1>4. PICK m \in 0..count : r.places = InRow(off, m)
  BY <1>2, <1>3, ReadsInOrder
<1>5. m \in Nat /\ Len(r.places) = m
  <2>1. m \in Nat /\ \A i \in 1..m : off + i - 1 \in Nat
    BY <1>2
  <2>2. r.places \in [1..m -> Nat]
    BY <1>4, <2>1 DEF InRow
  <2>3. r.places \in Seq(Nat)
    BY <2>1, <2>2, SeqDef
  <2> QED
    BY <2>1, <2>2, <2>3, LenProperties
<1>6. /\ handle' = [handle EXCEPT !.index = @ + m]
      /\ moved' = moved \o MovedBy("read", r.places)
  BY <1>5 DEF FileRead, r
<1>7. /\ handle' \in [file : DOMAIN files, index : Nat]
      /\ handle'.file = handle.file /\ handle'.index = handle.index + m
  <2>1. handle = [file |-> handle.file, index |-> handle.index]
    OBVIOUS
  <2>2. handle' = [file |-> handle.file, index |-> handle.index + m]
    BY <1>6, <2>1
  <2> QED
    BY <1>1, <1>5, <2>2
<1>8. /\ moved' \in Seq(Moves) /\ Len(moved') = Len(moved) + m
      /\ \A i \in 1..Len(moved) : moved'[i] = moved[i]
      /\ \A i \in 1..m :
            moved'[Len(moved) + i] =
               [call |-> "read", index |-> handle.index + i - 1, place |-> off + i - 1]
  <2>1. "read" \in {"read", "write"}
    OBVIOUS
  <2> DEFINE later == moved'
             places == r.places
  <2>2. /\ places = InRow(off, m)
        /\ later = moved \o MovedBy("read", places)
    BY <1>4, <1>6
  <2> HIDE DEF later, places
  <2>3. MovedOn(later, "read", off, m)
    BY <1>1, <1>2, <1>5, <2>1, <2>2, MovesFollow
  <2> QED
    BY <2>3 DEF later, MovedOn
<1>9. Len(moved) \in Nat /\ DOMAIN moved = 1..Len(moved) /\ DOMAIN moved' = 1..Len(moved) + m
  BY <1>8, LenProperties
<1>10. HandleReadsFile'
  <2>1. SUFFICES ASSUME NEW i \in DOMAIN moved', moved'[i].call = "read"
                 PROVE  moved'[i].place = files[handle.file].offset + moved'[i].index
    BY <1>7 DEF HandleReadsFile
  <2>2. CASE i \in 1..Len(moved)
    BY <1>8, <1>9, <2>1, <2>2 DEF HandleReadsFile
  <2>3. CASE i \notin 1..Len(moved)
    <3>1. i - Len(moved) \in 1..m /\ Len(moved) + (i - Len(moved)) = i
      BY <1>5, <1>9, <2>3
    <3> DEFINE k == i - Len(moved)
    <3>2. moved'[i] = [call |-> "read", index |-> handle.index + k - 1, place |-> off + k - 1]
      BY <1>8, <3>1
    <3>3. k \in Nat
      BY <3>1
    <3> HIDE DEF k
    <3>4. moved'[i].place = off + k - 1 /\ moved'[i].index = handle.index + k - 1
      BY <3>2
    <3> DEFINE o == files[handle.file].offset
               l == handle.index
    <3>5. off = o + l /\ o \in Nat /\ l \in Nat
      BY <1>1 DEF off
    <3>6. off + k - 1 = o + (l + k - 1)
      <4> HIDE DEF o, l
      <4> QED
        BY <3>3, <3>5
    <3> QED
      BY <3>4, <3>6
  <2> QED
    BY <2>2, <2>3
<1>11. \A i \in 1..m : /\ moved'[Len(moved) + i].call = "read"
                       /\ moved'[Len(moved) + i].index = handle.index + i - 1
  <2> TAKE i \in 1..m
  <2>1. moved'[Len(moved) + i] =
           [call |-> "read", index |-> handle.index + i - 1, place |-> off + i - 1]
    BY <1>8
  <2> QED
    BY <2>1
<1> QED
  BY <1>6, <1>7, <1>8, <1>10, <1>11

\* what is ahead is at the head or in the tail
LEMMA AheadParts ==
    ASSUME NEW S, NEW q \in Seq(S), q # <<>>, NEW f, Ahead(q, f)
    PROVE  \/ \E k \in 0..Len(files[f].path) : Head(q) = SubSeq(files[f].path, 1, k)
           \/ Ahead(Tail(q), f)
<1>1. PICK j \in DOMAIN q, k \in 0..Len(files[f].path) : q[j] = SubSeq(files[f].path, 1, k)
  BY DEF Ahead
<1>2. /\ Len(q) \in Nat /\ DOMAIN q = 1..Len(q)
      /\ Tail(q) \in Seq(S) /\ Len(Tail(q)) = Len(q) - 1
      /\ \A i \in 1..Len(Tail(q)) : Tail(q)[i] = q[i + 1]
  BY HeadTailProperties, LenProperties
<1>3. DOMAIN Tail(q) = 1..Len(Tail(q))
  BY <1>2, LenProperties
<1>4. CASE j = 1
  BY <1>1, <1>4
<1>5. CASE j # 1
  <2>1. j - 1 \in 1..Len(Tail(q)) /\ (j - 1) + 1 = j
    BY <1>2, <1>5
  <2>2. Tail(q)[j - 1] = q[j]
    BY <1>2, <2>1
  <2>3. j - 1 \in DOMAIN Tail(q)
    BY <1>3, <2>1
  <2> QED
    BY <1>1, <2>2, <2>3 DEF Ahead
<1> QED
  BY <1>4, <1>5

LEMMA AheadJoined ==
    ASSUME NEW S, NEW q \in Seq(S), NEW r \in Seq(S), NEW f, Ahead(q, f) \/ Ahead(r, f)
    PROVE  Ahead(q \o r, f)
<1> DEFINE both == q \o r
<1>1. /\ Len(q) \in Nat /\ Len(r) \in Nat
      /\ DOMAIN q = 1..Len(q) /\ DOMAIN r = 1..Len(r)
  BY LenProperties
<1>2. /\ both \in Seq(S) /\ Len(both) = Len(q) + Len(r)
      /\ \A i \in 1..Len(q) + Len(r) :
            both[i] = IF i <= Len(q) THEN q[i] ELSE r[i - Len(q)]
  BY ConcatProperties
<1> HIDE DEF both
<1>3. DOMAIN both = 1..Len(q) + Len(r)
  BY <1>2, LenProperties
<1>4. \A i \in DOMAIN q : i \in DOMAIN both /\ both[i] = q[i]
  BY <1>1, <1>2, <1>3
<1>5. ASSUME NEW i \in DOMAIN r
      PROVE  Len(q) + i \in DOMAIN both /\ both[Len(q) + i] = r[i]
  <2>1. /\ Len(q) + i \in 1..Len(q) + Len(r) /\ ~(Len(q) + i <= Len(q))
        /\ (Len(q) + i) - Len(q) = i
    BY <1>1
  <2> QED
    BY <1>2, <1>3, <2>1
<1>6. CASE Ahead(q, f)
  BY <1>4, <1>6 DEF Ahead, both
<1>7. CASE Ahead(r, f)
  <2>1. PICK j \in DOMAIN r, k \in 0..Len(files[f].path) : r[j] = SubSeq(files[f].path, 1, k)
    BY <1>7 DEF Ahead
  <2>2. Len(q) + j \in DOMAIN both /\ both[Len(q) + j] = SubSeq(files[f].path, 1, k)
    BY <1>5, <2>1
  <2> QED
    BY <2>2 DEF Ahead, both
<1> QED
  BY <1>6, <1>7

\* the root is above every file
LEMMA RootLeads ==
    ASSUME IsTorrent(files)
    PROVE  <<Root>> \in Seq(Leading(files)) /\ \A f \in DOMAIN files : Ahead(<<Root>>, f)
<1>1. ASSUME NEW f \in DOMAIN files
      PROVE  /\ 0 \in 0..Len(files[f].path)
             /\ Root = SubSeq(files[f].path, 1, 0)
  <2>1. 0 \in 0..Len(files[f].path)
    BY PathsAreSequences
  <2>2. SubSeq(files[f].path, 1, 0) = <<>>
    BY SubSeqEmpty
  <2> QED
    BY <2>1, <2>2 DEF Root
<1>2. 1 \in DOMAIN files
  BY FileFacts
<1>3. Root \in Leading(files)
  BY <1>1, <1>2 DEF Leading
<1>4. <<Root>> \in Seq(Leading(files))
  BY <1>3
<1>5. 1 \in DOMAIN <<Root>> /\ <<Root>>[1] = Root
  OBVIOUS
<1> QED
  BY <1>1, <1>4, <1>5 DEF Ahead

LEMMA VfsBegin == VfsInit => VfsInv
<1> SUFFICES ASSUME VfsInit PROVE VfsInv
  OBVIOUS
<1>1. IsTorrent(files)
  <2>1. PICK k \in 1..MaxFiles : files \in Torrents(k)
    BY DEF VfsInit
  <2>2. k \in Nat \ {0}
    BY <2>1
  <2> QED
    BY <2>1, <2>2, TorrentsAreSound
<1>2. bl \in Nat \ {0} /\ Total(files) \in Nat
  BY <1>1, VfsAssumption, FileFacts DEF VfsInit
<1>3. moved = <<>> /\ moved \in Seq(Moves) /\ HandleReadsFile
  BY DEF VfsInit, HandleReadsFile
<1>4. CASE todo = <<Root>> /\ handle = NoHandle /\ calls = Importing
  <2>1. DiskIsStored
    <3>1. SUFFICES ASSUME NEW k \in DOMAIN disk
                   PROVE  /\ k \in Nat
                          /\ disk[k] # Absent =>
                                /\ k * bl < Total(files)
                                /\ disk[k] = Min({bl, Total(files) - k * bl})
      BY DEF DiskIsStored
    <3>2. PICK lost \in {{}, {0}, {1}} :
              disk = [j \in 0..MaxBlock |->
                         IF j \in lost THEN Absent ELSE Stored(Total(files), bl)[j]]
      BY DEF VfsInit
    <3>3. k \in 0..MaxBlock /\ k \in Nat
      BY <3>2
    <3> DEFINE start == k * bl
    <3>4. start \in Nat
      BY <1>2, <3>3
    <3>5. disk[k] # Absent => disk[k] = Stored(Total(files), bl)[k]
      BY <3>2, <3>3
    <3>6. Stored(Total(files), bl)[k] =
             IF start >= Total(files) THEN Absent ELSE Min({bl, Total(files) - start})
      BY <3>3 DEF Stored
    <3> HIDE DEF start
    <3>7. disk[k] # Absent =>
             start < Total(files) /\ disk[k] = Min({bl, Total(files) - start})
      BY <1>2, <3>4, <3>5, <3>6
    <3> QED
      BY <3>3, <3>7 DEF start
  <2>2. todo \in Seq(Leading(files)) /\ \A f \in DOMAIN files : Ahead(todo, f)
    BY <1>1, <1>4, RootLeads
  <2>3. imported = <<>> /\ imported \in Seq(Copies) /\ failed = {} /\ CopiesBeginWithFile
    BY DEF VfsInit, CopiesBeginWithFile
  <2>4. CopyInOrder
    BY <1>4 DEF CopyInOrder
  <2>5. ImportInv
    BY <2>1, <2>2, <2>3, <2>4 DEF ImportInv
  <2> QED
    BY <1>1, <1>2, <1>3, <1>4, <2>5 DEF VfsInv
<1>5. CASE /\ \E f \in DOMAIN files : handle = [file |-> f, index |-> 0]
           /\ todo = <<>> /\ calls = MaxCalls
  <2>1. handle \in [file : DOMAIN files, index : Nat]
    BY <1>5
  <2>2. handle # NoHandle
    BY <1>1, <2>1, NoHandleIsNone
  <2>3. calls \in Nat /\ calls # Importing /\ imported = <<>>
    BY <1>5, VfsAssumption DEF Importing, VfsInit
  <2> QED
    BY <1>1, <1>2, <1>3, <2>1, <2>2, <2>3 DEF VfsInv, UserInv
<1> QED
  BY <1>4, <1>5 DEF VfsInit

\* a directory the walk comes to is above the files it leads to, and lists them
LEMMA WalkStep == VfsInv /\ WalkDir => VfsInv'
<1> SUFFICES ASSUME VfsInv, WalkDir PROVE VfsInv'
  OBVIOUS
<1> DEFINE h == Head(todo)
           ents == NewFS(files)[h]
           L == Leading(files)
<1>1. /\ IsTorrent(files) /\ handle = NoHandle /\ todo # <<>> /\ FileAt(h) = {}
      /\ UNCHANGED <<files, bl, disk, handle, moved, imported, failed, calls>>
  BY DEF VfsInv, WalkDir
<1>2. calls = Importing /\ ImportInv
  BY <1>1 DEF VfsInv, UserInv
<1>3. todo \in Seq(L)
  BY <1>2 DEF ImportInv
<1> HIDE DEF L
<1>4. h \in L /\ Tail(todo) \in Seq(L)
  BY <1>1, <1>3, HeadTailProperties
<1>5. ASSUME NEW f \in DOMAIN files, NEW k \in 0..Len(files[f].path),
             h = SubSeq(files[f].path, 1, k)
      PROVE  h \in Parents(files[f].path) /\ Len(h) = k
  <2>1. Len(files[f].path) \in Nat
    BY <1>1, PathsAreSequences
  <2>2. files[f].path # h
    BY <1>1 DEF FileAt
  <2>3. /\ Len(SubSeq(files[f].path, 1, k)) = k
        /\ SubSeq(files[f].path, 1, Len(files[f].path)) = files[f].path
    BY <1>1, LeadingLength
  <2>4. k # Len(files[f].path)
    BY <1>5, <2>2, <2>3
  <2>5. k \in 0..Len(files[f].path) - 1
    BY <2>1, <2>4
  <2> QED
    BY <1>5, <2>3, <2>5 DEF Parents
<1>6. h \in Directories(files)
  <2>1. PICK f \in DOMAIN files :
            \E k \in 0..Len(files[f].path) : h = SubSeq(files[f].path, 1, k)
    BY <1>4 DEF Leading, L
  <2>2. h \in Parents(files[f].path)
    BY <1>5, <2>1
  <2> QED
    BY <2>2 DEF Directories
<1>7. /\ ents \in Seq(L)
      /\ \A f \in DOMAIN files : h \in Parents(files[f].path) =>
            \E j \in DOMAIN ents : ents[j] = SubSeq(files[f].path, 1, Len(h) + 1)
  <2>1. NewFS(files) \in Trees(files) /\ ListsFirst(files, NewFS(files), Len(files))
    BY <1>1, TreeLeadsToFiles
  <2>2. ents \in Seq(L)
    BY <1>6, <2>1 DEF Trees, L
  <2>3. \A f \in DOMAIN files : f <= Len(files)
    BY <1>1, FileFacts
  <2> HIDE DEF h
  <2> QED
    BY <2>1, <2>2, <2>3 DEF ListsFirst
<1>8. todo' = ents \o Tail(todo)
  <2>1. -1 <= 0
    OBVIOUS
  <2>2. ReadDir(ents, 0, -1).ents = ents
    BY <2>1 DEF ReadDir
  <2> QED
    BY <2>2 DEF WalkDir
<1> HIDE DEF ents
<1>9. todo' \in Seq(L)
  BY <1>4, <1>7, <1>8, ConcatProperties
<1>10. ASSUME NEW f \in DOMAIN files, Ahead(todo, f) PROVE Ahead(todo', f)
  <2>1. CASE \E k \in 0..Len(files[f].path) : h = SubSeq(files[f].path, 1, k)
    <3>1. PICK k \in 0..Len(files[f].path) : h = SubSeq(files[f].path, 1, k)
      BY <2>1
    <3>2. h \in Parents(files[f].path)
      BY <1>5, <3>1
    <3>3. PICK j \in DOMAIN ents : ents[j] = SubSeq(files[f].path, 1, Len(h) + 1)
      BY <1>7, <3>2
    <3>4. Len(h) + 1 \in 0..Len(files[f].path)
      <4>1. Len(h) \in 0..Len(files[f].path) - 1
        BY <1>1, <3>2, ParentsLead
      <4> QED
        BY <4>1
    <3>5. Ahead(ents, f)
      BY <3>3, <3>4 DEF Ahead
    <3> QED
      BY <1>4, <1>7, <1>8, <3>5, AheadJoined
  <2>2. CASE Ahead(Tail(todo), f)
    BY <1>4, <1>7, <1>8, <2>2, AheadJoined
  <2> QED
    BY <1>1, <1>3, <1>10, <2>1, <2>2, AheadParts
<1>11. ImportInv'
  <2>1. /\ DiskIsStored' /\ CopyInOrder' /\ CopiesBeginWithFile'
        /\ imported' \in Seq(Copies)' /\ failed' \subseteq DOMAIN files'
    BY <1>1, <1>2
    DEF ImportInv, DiskIsStored, CopyInOrder, CopiesBeginWithFile, Copies
  <2>2. todo' \in Seq(Leading(files)')
    BY <1>1, <1>9 DEF L, Leading
  <2>3. \A f \in DOMAIN files : CopiedFile(f)' <=> CopiedFile(f)
    BY <1>1 DEF CopiedFile
  <2>4. \A f \in DOMAIN files : Ahead(todo', f) => Ahead(todo, f)'
    BY <1>1 DEF Ahead
  <2>5. ASSUME NEW f \in DOMAIN files'
        PROVE  \/ f \in failed' \/ CopiedFile(f)'
               \/ (handle' # NoHandle /\ handle'.file = f) \/ Ahead(todo, f)'
    <3>1. f \in DOMAIN files
      BY <1>1
    <3>2. f \in failed \/ CopiedFile(f) \/ Ahead(todo, f)
      BY <1>1, <1>2, <3>1 DEF ImportInv
    <3> QED
      BY <1>1, <1>10, <2>3, <2>4, <3>1, <3>2
  <2> QED
    BY <2>1, <2>2, <2>5 DEF ImportInv
<1> QED
  BY <1>1, <1>2, <1>11 DEF VfsInv, HandleReadsFile, IsTorrent, Total

\* a file the walk comes to is opened, or reported: no other is at its path
LEMMA OpenStep == VfsInv /\ OpenFile => VfsInv'
<1> SUFFICES ASSUME VfsInv, OpenFile PROVE VfsInv'
  OBVIOUS
<1> DEFINE h == Head(todo)
           L == Leading(files)
<1>1. /\ IsTorrent(files) /\ handle = NoHandle /\ todo # <<>>
      /\ todo' = Tail(todo) /\ moved' = <<>>
      /\ UNCHANGED <<files, bl, disk, imported, calls>>
  BY DEF VfsInv, OpenFile
<1>2. calls = Importing /\ ImportInv
  BY <1>1 DEF VfsInv, UserInv
<1>3. PICK f \in FileAt(h) :
          \/ failed' = failed \cup {f} /\ handle' = handle
          \/ handle' = [file |-> f, index |-> 0] /\ failed' = failed
  BY DEF OpenFile
<1>4. f \in DOMAIN files /\ files[f].path = h
  BY <1>3 DEF FileAt
<1>5. todo \in Seq(L)
  BY <1>2 DEF ImportInv
<1> HIDE DEF L
<1>6. Tail(todo) \in Seq(L)
  BY <1>1, <1>5, HeadTailProperties
<1>7. ASSUME NEW g \in DOMAIN files, NEW k \in 0..Len(files[g].path),
             h = SubSeq(files[g].path, 1, k)
      PROVE  g = f
  <2>1. Len(files[g].path) \in Nat
    BY <1>1, PathsAreSequences
  <2>2. Len(h) = k /\ SubSeq(h, 1, Len(h)) = h
    <3>1. Len(SubSeq(files[g].path, 1, k)) = k
      BY <1>1, LeadingLength
    <3>2. Len(files[f].path) \in 0..Len(files[f].path)
      BY <1>1, <1>4, PathsAreSequences
    <3>3. SubSeq(files[f].path, 1, Len(files[f].path)) = files[f].path
      BY <1>1, <1>4, <3>2, LeadingLength
    <3> QED
      BY <1>4, <1>7, <3>1, <3>3
  <2>3. IsPrefix(files[f].path, files[g].path)
    BY <1>4, <1>7, <2>1, <2>2 DEF IsPrefix
  <2> QED
    BY <1>1, <1>4, <2>3 DEF IsTorrent
<1>8. handle' = NoHandle \/ handle' \in [file : DOMAIN files, index : Nat]
  BY <1>1, <1>3, <1>4
<1>9. moved' \in Seq(Moves) /\ HandleReadsFile'
  BY <1>1 DEF HandleReadsFile
<1>10. ImportInv'
  <2>1. /\ DiskIsStored' /\ CopiesBeginWithFile'
        /\ imported' \in Seq(Copies)' /\ failed' \subseteq DOMAIN files'
    BY <1>1, <1>2, <1>3, <1>4
    DEF ImportInv, DiskIsStored, CopiesBeginWithFile, Copies
  <2>2. todo' \in Seq(Leading(files)')
    BY <1>1, <1>6 DEF L, Leading
  <2>3. CopyInOrder'
    <3>1. handle' # NoHandle => handle'.index = 0
      BY <1>1, <1>3
    <3>2. Len(moved') = 0 /\ DOMAIN moved' = {}
      BY <1>1
    <3> QED
      BY <3>1, <3>2 DEF CopyInOrder
  <2>4. ASSUME NEW g \in DOMAIN files'
        PROVE  \/ g \in failed' \/ CopiedFile(g)'
               \/ (handle' # NoHandle /\ handle'.file = g) \/ Ahead(todo, g)'
    <3>1. g \in DOMAIN files
      BY <1>1
    <3>2. g \in failed \/ CopiedFile(g) \/ Ahead(todo, g)
      BY <1>1, <1>2, <3>1 DEF ImportInv
    <3>3. CASE g \in failed
      BY <1>3, <3>3
    <3>4. CASE CopiedFile(g)
      BY <1>1, <3>4 DEF CopiedFile
    <3>5. CASE Ahead(Tail(todo), g)
      BY <1>1, <3>5 DEF Ahead
    <3>6. CASE \E k \in 0..Len(files[g].path) : h = SubSeq(files[g].path, 1, k)
      <4>1. g = f
        BY <1>7, <3>1, <3>6
      <4>2. handle' = [file |-> f, index |-> 0] => handle' # NoHandle /\ handle'.file = f
        <5>1. [file |-> f, index |-> 0] \in [file : DOMAIN files, index : Nat]
          BY <1>4
        <5> QED
          BY <1>1, <5>1, NoHandleIsNone
      <4> QED
        BY <1>3, <4>1, <4>2
    <3> QED
      BY <1>1, <1>5, <3>2, <3>3, <3>4, <3>5, <3>6, AheadParts
  <2> QED
    BY <2>1, <2>2, <2>3, <2>4 DEF ImportInv
<1> QED
  BY <1>1, <1>2, <1>8, <1>9, <1>10 DEF VfsInv, IsTorrent, Total

LEMMA LeadingStays == files' = files => Leading(files') = Leading(files)
  OBVIOUS

LEMMA CopyMoreStep == VfsInv /\ CopyMore => VfsInv'
<1> SUFFICES ASSUME VfsInv, CopyMore PROVE VfsInv'
  OBVIOUS
<1>1. /\ IsTorrent(files) /\ handle # NoHandle /\ calls = Importing /\ ImportInv
      /\ handle \in [file : DOMAIN files, index : Nat]
      /\ moved \in Seq(Moves) /\ HandleReadsFile
      /\ UNCHANGED <<files, bl, disk, todo, imported, failed, calls>>
  BY DEF VfsInv, CopyMore
<1>2. PICK count \in Buffers : FileRead(count)
  BY DEF CopyMore
<1>3. count \in Nat
  BY VfsAssumption
<1>4. PICK m \in 0..count :
          /\ handle' \in [file : DOMAIN files, index : Nat]
          /\ handle'.file = handle.file /\ handle'.index = handle.index + m
          /\ moved' \in Seq(Moves) /\ Len(moved') = Len(moved) + m
          /\ \A i \in 1..Len(moved) : moved'[i] = moved[i]
          /\ \A i \in 1..m : /\ moved'[Len(moved) + i].call = "read"
                             /\ moved'[Len(moved) + i].index = handle.index + i - 1
          /\ HandleReadsFile'
  BY <1>1, <1>2, <1>3, ReadMoves
<1>5. handle' # NoHandle
  BY <1>1, <1>4, NoHandleIsNone
<1>6. CopyInOrder'
  <2>1. /\ Len(moved) = handle.index /\ Len(moved) \in Nat /\ m \in Nat
        /\ DOMAIN moved = 1..Len(moved)
        /\ \A i \in DOMAIN moved : moved[i].call = "read" /\ moved[i].index = i - 1
    BY <1>1, <1>3, LenProperties DEF ImportInv, CopyInOrder
  <2>2. DOMAIN moved' = 1..Len(moved) + m
    BY <1>4, LenProperties
  <2>3. ASSUME NEW i \in DOMAIN moved'
        PROVE  moved'[i].call = "read" /\ moved'[i].index = i - 1
    <3>1. CASE i \in 1..Len(moved)
      BY <1>4, <2>1, <3>1
    <3>2. CASE i \notin 1..Len(moved)
      <4>1. i - Len(moved) \in 1..m /\ Len(moved) + (i - Len(moved)) = i
        BY <2>1, <2>2, <3>2
      <4>2. /\ moved'[i].call = "read"
            /\ moved'[i].index = handle.index + (i - Len(moved)) - 1
        BY <1>4, <4>1
      <4>3. handle.index + (i - Len(moved)) - 1 = i - 1
        BY <2>1, <4>1
      <4> QED
        BY <4>2, <4>3
    <3> QED
      BY <3>1, <3>2
  <2>4. Len(moved') = handle'.index
    BY <1>4, <2>1
  <2> QED
    BY <2>3, <2>4 DEF CopyInOrder
<1>7. ImportInv'
  <2>1. /\ DiskIsStored' /\ CopiesBeginWithFile'
        /\ imported' \in Seq(Copies)' /\ failed' \subseteq DOMAIN files'
    BY <1>1 DEF ImportInv, DiskIsStored, CopiesBeginWithFile, Copies
  <2>2. todo' \in Seq(Leading(files)')
    BY <1>1, LeadingStays DEF ImportInv
  <2>3. ASSUME NEW f \in DOMAIN files'
        PROVE  \/ f \in failed' \/ CopiedFile(f)'
               \/ (handle' # NoHandle /\ handle'.file = f) \/ Ahead(todo, f)'
    <3>1. f \in DOMAIN files
      BY <1>1
    <3>2. f \in failed \/ CopiedFile(f) \/ handle.file = f \/ Ahead(todo, f)
      BY <1>1, <3>1 DEF ImportInv
    <3>3. (CopiedFile(f) => CopiedFile(f)') /\ (Ahead(todo, f) => Ahead(todo, f)')
      BY <1>1 DEF CopiedFile, Ahead
    <3> QED
      BY <1>1, <1>4, <1>5, <3>2, <3>3
  <2> QED
    BY <1>6, <2>1, <2>2, <2>3 DEF ImportInv
<1> QED
  BY <1>1, <1>4, <1>5, <1>7 DEF VfsInv, IsTorrent, Total

\* a copy that ends has come to the end of the torrent, so it has all of its file
LEMMA CopyIsWhole ==
    ASSUME VfsInv, calls = Importing, handle # NoHandle, NEW count \in Nat,
           FileReadAt(handle.file, count, handle.index).err = "EOF"
    PROVE  LET f == files[handle.file]
               places == [i \in DOMAIN moved |-> moved[i].place]
                            \o FileReadAt(handle.file, count, handle.index).places
           IN /\ places \in Seq(Nat) /\ Len(places) >= f.length
              /\ \A k \in DOMAIN places : places[k] = f.offset + k - 1
<1> DEFINE f == files[handle.file]
           r == FileReadAt(handle.file, count, handle.index)
           earlier == [i \in DOMAIN moved |-> moved[i].place]
           places == earlier \o r.places
           l == handle.index
<1>1. /\ IsTorrent(files) /\ bl \in Nat \ {0} /\ ImportInv
      /\ handle \in [file : DOMAIN files, index : Nat]
      /\ moved \in Seq(Moves) /\ HandleReadsFile
  BY DEF VfsInv
<1>2. /\ handle.file \in DOMAIN files /\ l \in Nat
      /\ f.offset \in Nat /\ f.length \in Nat /\ Total(files) \in Nat
      /\ f.offset + f.length <= Total(files)
  BY <1>1, FileFacts DEF IsTorrent
<1>3. /\ DOMAIN moved = 1..l
      /\ \A i \in 1..l : moved[i].call = "read" /\ moved[i].index = i - 1
  BY <1>1, LenProperties DEF ImportInv, CopyInOrder
<1>4. \A i \in 1..l : moved[i].place = f.offset + i - 1
  <2>1. ASSUME NEW i \in 1..l PROVE moved[i].place = f.offset + i - 1
    <3>1. moved[i].place = f.offset + moved[i].index /\ moved[i].index = i - 1
      BY <1>1, <1>3 DEF HandleReadsFile
    <3> QED
      BY <1>2, <3>1
  <2> QED
    BY <2>1
<1> DEFINE off == f.offset + l
<1>5. off \in Nat /\ r = CacheReadAt(count, off)
  BY <1>2 DEF FileReadAt
<1>6. PICK m \in 0..count :
          /\ r.places = InRow(off, m)
          /\ ~Has(off + m) /\ BlockSize((off + m) \div bl) # Absent
  <2> HIDE DEF r, off
  <2>1. r.err = "EOF"
    BY DEF r
  <2> QED
    BY <1>5, <2>1, ReadsInOrder
<1>7. m \in Nat /\ off + m \in Nat
  BY <1>5, <1>6
<1>8. Total(files) <= off + m
  BY <1>1, <1>2, <1>6, <1>7, EndIsReached DEF ImportInv
<1> HIDE DEF f, l, r
<1>9. earlier \in Seq(Nat) /\ Len(earlier) = l /\ \A i \in 1..l : earlier[i] = f.offset + i - 1
  <2>1. \A i \in 1..l : f.offset + i - 1 \in Nat
    BY <1>2
  <2>2. earlier \in [1..l -> Nat] /\ \A i \in 1..l : earlier[i] = f.offset + i - 1
    BY <1>3, <1>4, <2>1
  <2> HIDE DEF earlier
  <2>3. earlier \in Seq(Nat)
    BY <1>2, <2>2, SeqDef
  <2> QED
    BY <1>2, <2>2, <2>3, LenProperties
<1> HIDE DEF earlier
<1>10. r.places \in Seq(Nat) /\ Len(r.places) = m /\ \A i \in 1..m : r.places[i] = off + i - 1
  <2>1. \A i \in 1..m : off + i - 1 \in Nat
    BY <1>5, <1>7
  <2>2. r.places \in [1..m -> Nat] /\ \A i \in 1..m : r.places[i] = off + i - 1
    BY <1>6, <2>1 DEF InRow
  <2>3. r.places \in Seq(Nat)
    BY <1>7, <2>2, SeqDef
  <2> QED
    BY <1>7, <2>2, <2>3, LenProperties
<1>11. /\ places \in Seq(Nat) /\ Len(places) = l + m
       /\ \A i \in 1..l + m :
             places[i] = IF i <= l THEN earlier[i] ELSE r.places[i - l]
  <2> DEFINE rest == r.places
  <2>1. rest \in Seq(Nat) /\ Len(rest) = m
    BY <1>10
  <2> HIDE DEF rest
  <2>2. /\ earlier \o rest \in Seq(Nat) /\ Len(earlier \o rest) = Len(earlier) + Len(rest)
        /\ \A i \in 1..Len(earlier) + Len(rest) :
              (earlier \o rest)[i] =
                 IF i <= Len(earlier) THEN earlier[i] ELSE rest[i - Len(earlier)]
    BY <1>9, <2>1, ConcatProperties
  <2>3. places = earlier \o rest
    BY DEF rest
  <2> HIDE DEF places
  <2> QED
    BY <1>9, <2>1, <2>2, <2>3 DEF rest
<1> HIDE DEF places
<1>12. Len(places) >= f.length
  BY <1>2, <1>7, <1>8, <1>11
<1>13. ASSUME NEW k \in DOMAIN places PROVE places[k] = f.offset + k - 1
  <2>1. k \in 1..l + m
    BY <1>11, LenProperties
  <2>2. CASE k <= l
    <3>1. k \in 1..l
      BY <1>2, <2>1, <2>2
    <3> QED
      BY <1>9, <1>11, <2>1, <2>2, <3>1
  <2>3. CASE ~(k <= l)
    <3>1. k - l \in 1..m /\ off + (k - l) - 1 = f.offset + k - 1
      BY <1>2, <1>7, <2>1, <2>3
    <3>2. places[k] = r.places[k - l]
      BY <1>11, <2>1, <2>3
    <3> QED
      BY <1>10, <3>1, <3>2
  <2> QED
    BY <2>2, <2>3
<1> QED
  BY <1>11, <1>12, <1>13 DEF places, earlier, r, f

LEMMA CopyEndsStep == VfsInv /\ CopyEnds => VfsInv'
<1> SUFFICES ASSUME VfsInv, CopyEnds PROVE VfsInv'
  OBVIOUS
<1>1. /\ IsTorrent(files) /\ handle # NoHandle /\ calls = Importing /\ ImportInv
      /\ handle \in [file : DOMAIN files, index : Nat]
      /\ handle' = NoHandle /\ moved' = <<>>
      /\ UNCHANGED <<files, bl, disk, todo, failed, calls>>
  BY DEF VfsInv, CopyEnds
<1>2. PICK count \in Buffers :
          /\ FileReadAt(handle.file, count, handle.index).err = "EOF"
          /\ imported' = Append(imported,
                [file |-> handle.file, offset |-> files[handle.file].offset,
                 places |-> [i \in DOMAIN moved |-> moved[i].place]
                               \o FileReadAt(handle.file, count, handle.index).places])
  BY DEF CopyEnds
<1> DEFINE places == [i \in DOMAIN moved |-> moved[i].place]
                        \o FileReadAt(handle.file, count, handle.index).places
           copy == [file |-> handle.file, offset |-> files[handle.file].offset,
                    places |-> places]
<1>3. /\ places \in Seq(Nat) /\ Len(places) >= files[handle.file].length
      /\ \A k \in DOMAIN places : places[k] = files[handle.file].offset + k - 1
  BY <1>1, <1>2, VfsAssumption, CopyIsWhole
<1>4. imported' = Append(imported, copy)
  BY <1>2
<1> HIDE DEF places
<1>5. handle.file \in DOMAIN files /\ files[handle.file].offset \in Nat
  BY <1>1, FileFacts
<1>6. copy \in Copies /\ copy.file = handle.file /\ copy.places = places
  BY <1>3, <1>5 DEF Copies
<1> HIDE DEF copy
<1>7. imported \in Seq(Copies)
  BY <1>1 DEF ImportInv
<1>8. /\ imported' \in Seq(Copies) /\ Len(imported') = Len(imported) + 1
      /\ \A i \in 1..Len(imported) : imported'[i] = imported[i]
      /\ imported'[Len(imported) + 1] = copy
  BY <1>4, <1>6, <1>7, AppendProperties
<1>9. /\ Len(imported) \in Nat /\ DOMAIN imported = 1..Len(imported)
      /\ DOMAIN imported' = 1..Len(imported) + 1
  BY <1>7, <1>8, LenProperties
<1>10. CopiesBeginWithFile'
  <2>1. SUFFICES ASSUME NEW i \in DOMAIN imported'
        PROVE  LET f == files[imported'[i].file] IN
               /\ Len(imported'[i].places) >= f.length
               /\ \A k \in DOMAIN imported'[i].places :
                     imported'[i].places[k] = f.offset + k - 1
    BY <1>1 DEF CopiesBeginWithFile
  <2>2. CASE i \in 1..Len(imported)
    <3>1. imported'[i] = imported[i] /\ i \in DOMAIN imported
      BY <1>8, <1>9, <2>2
    <3> QED
      BY <1>1, <3>1 DEF ImportInv, CopiesBeginWithFile
  <2>3. CASE i \notin 1..Len(imported)
    <3>1. i = Len(imported) + 1
      BY <1>9, <2>3
    <3>2. imported'[i].file = handle.file /\ imported'[i].places = places
      BY <1>6, <1>8, <3>1
    <3> QED
      BY <1>3, <3>2
  <2> QED
    BY <2>2, <2>3
<1>11. ImportInv'
  <2>1. DiskIsStored' /\ failed' \subseteq DOMAIN files'
    BY <1>1 DEF ImportInv, DiskIsStored
  <2>2. imported' \in Seq(Copies)'
    BY <1>1, <1>8 DEF Copies
  <2>3. CopyInOrder'
    BY <1>1 DEF CopyInOrder
  <2>4. todo' \in Seq(Leading(files)')
    BY <1>1, LeadingStays DEF ImportInv
  <2>5. ASSUME NEW f \in DOMAIN files'
        PROVE  \/ f \in failed' \/ CopiedFile(f)'
               \/ (handle' # NoHandle /\ handle'.file = f) \/ Ahead(todo, f)'
    <3>1. f \in DOMAIN files
      BY <1>1
    <3>2. f \in failed \/ CopiedFile(f) \/ handle.file = f \/ Ahead(todo, f)
      BY <1>1, <3>1 DEF ImportInv
    <3>3. CopiedFile(f) => CopiedFile(f)'
      <4>1. \A i \in DOMAIN imported : i \in DOMAIN imported' /\ imported'[i] = imported[i]
        BY <1>8, <1>9
      <4> QED
        BY <4>1 DEF CopiedFile
    <3>4. handle.file = f => CopiedFile(f)'
      <4>1. Len(imported) + 1 \in DOMAIN imported'
        BY <1>9
      <4> QED
        BY <1>6, <1>8, <4>1 DEF CopiedFile
    <3>5. Ahead(todo, f) => Ahead(todo, f)'
      BY <1>1 DEF Ahead
    <3> QED
      BY <1>1, <3>2, <3>3, <3>4, <3>5
  <2> QED
    BY <1>10, <2>1, <2>2, <2>3, <2>4, <2>5 DEF ImportInv
<1>12. moved' \in Seq(Moves) /\ HandleReadsFile'
  BY <1>1 DEF HandleReadsFile
<1> QED
  BY <1>1, <1>11, <1>12 DEF VfsInv, IsTorrent, Total

LEMMA CopyFailsStep == VfsInv /\ CopyFails => VfsInv'
<1> SUFFICES ASSUME VfsInv, CopyFails PROVE VfsInv'
  OBVIOUS
<1>1. /\ IsTorrent(files) /\ handle # NoHandle /\ calls = Importing /\ ImportInv
      /\ handle \in [file : DOMAIN files, index : Nat]
      /\ handle' = NoHandle /\ moved' = <<>> /\ failed' = failed \cup {handle.file}
      /\ UNCHANGED <<files, bl, disk, todo, imported, calls>>
  BY DEF VfsInv, CopyFails
<1>2. handle.file \in DOMAIN files
  BY <1>1
<1>3. ImportInv'
  <2>1. /\ DiskIsStored' /\ CopiesBeginWithFile'
        /\ imported' \in Seq(Copies)' /\ failed' \subseteq DOMAIN files'
    BY <1>1, <1>2 DEF ImportInv, DiskIsStored, CopiesBeginWithFile, Copies
  <2>2. CopyInOrder'
    BY <1>1 DEF CopyInOrder
  <2>3. todo' \in Seq(Leading(files)')
    BY <1>1, LeadingStays DEF ImportInv
  <2>4. ASSUME NEW f \in DOMAIN files'
        PROVE  \/ f \in failed' \/ CopiedFile(f)'
               \/ (handle' # NoHandle /\ handle'.file = f) \/ Ahead(todo, f)'
    <3>1. f \in DOMAIN files
      BY <1>1
    <3>2. f \in failed' \/ CopiedFile(f) \/ Ahead(todo, f)
      BY <1>1, <3>1 DEF ImportInv
    <3>3. (CopiedFile(f) => CopiedFile(f)') /\ (Ahead(todo, f) => Ahead(todo, f)')
      BY <1>1 DEF CopiedFile, Ahead
    <3> QED
      BY <3>2, <3>3
  <2> QED
    BY <2>1, <2>2, <2>3, <2>4 DEF ImportInv
<1>4. moved' \in Seq(Moves) /\ HandleReadsFile'
  BY <1>1 DEF HandleReadsFile
<1> QED
  BY <1>1, <1>3, <1>4 DEF VfsInv, IsTorrent, Total

\* the user of a handle reads, seeks and writes: the places stay the file's
LEMMA UserStep ==
    VfsInv /\ (\/ \E count \in Buffers : UserRead(count) \/ UserWrite(count)
               \/ \E whence \in {"start", "current", "end"}, by \in {-2, 1} :
                     UserSeek(whence, by))
    => VfsInv'
<1> SUFFICES ASSUME VfsInv,
                    \/ \E count \in Buffers : UserRead(count) \/ UserWrite(count)
                    \/ \E whence \in {"start", "current", "end"}, by \in {-2, 1} :
                          UserSeek(whence, by)
             PROVE  VfsInv'
  OBVIOUS
<1>1. /\ calls > 0 /\ calls' = calls - 1
      /\ UNCHANGED <<files, bl, todo, imported, failed>>
  BY DEF UserRead, UserWrite, UserSeek
<1>2. calls # Importing
  BY <1>1 DEF Importing
<1>3. /\ IsTorrent(files) /\ UserInv
      /\ handle \in [file : DOMAIN files, index : Nat]
      /\ moved \in Seq(Moves) /\ HandleReadsFile
  BY <1>2 DEF VfsInv, UserInv
<1>4. /\ handle.file \in DOMAIN files /\ handle.index \in Nat
      /\ files[handle.file].offset \in Nat /\ files[handle.file].length \in Nat
  BY <1>3, FileFacts
<1>5. calls' \in Nat /\ calls' # Importing /\ imported' = <<>>
  BY <1>1, <1>3 DEF UserInv, Importing
<1>6. /\ handle' \in [file : DOMAIN files, index : Nat]
      /\ moved' \in Seq(Moves) /\ HandleReadsFile'
  <2>1. ASSUME NEW count \in Buffers, UserRead(count)
        PROVE  /\ handle' \in [file : DOMAIN files, index : Nat]
               /\ moved' \in Seq(Moves) /\ HandleReadsFile'
    <3>1. FileRead(count) /\ count \in Nat /\ files' = files
      BY <1>1, <2>1, VfsAssumption DEF UserRead
    <3> QED
      BY <1>3, <3>1, ReadMoves
  <2>2. ASSUME NEW count \in Buffers, UserWrite(count)
        PROVE  /\ handle' \in [file : DOMAIN files, index : Nat]
               /\ moved' \in Seq(Moves) /\ HandleReadsFile'
    <3> DEFINE later == moved'
               places == InRow(handle.index, count)
    <3>1. /\ count \in Nat /\ handle' = [handle EXCEPT !.index = @ + count]
          /\ later = moved \o MovedBy("write", places)
      BY <2>2, VfsAssumption DEF UserWrite, InRow
    <3>2. /\ handle' \in [file : DOMAIN files, index : Nat]
          /\ handle'.file = handle.file
      <4>1. handle = [file |-> handle.file, index |-> handle.index]
        BY <1>3
      <4>2. handle' = [file |-> handle.file, index |-> handle.index + count]
        BY <3>1, <4>1
      <4>3. handle.index + count \in Nat
        BY <1>4, <3>1
      <4> QED
        BY <1>4, <4>2, <4>3
    <3>3. "write" \in {"read", "write"} /\ places = InRow(handle.index, count)
      OBVIOUS
    <3> HIDE DEF later, places
    <3>4. MovedOn(later, "write", handle.index, count)
      BY <1>3, <1>4, <3>1, <3>3, MovesFollow
    <3>5. /\ moved' \in Seq(Moves) /\ Len(moved') = Len(moved) + count
          /\ \A i \in 1..Len(moved) : moved'[i] = moved[i]
          /\ \A i \in 1..count : moved'[Len(moved) + i].call = "write"
      <4>1. /\ later \in Seq(Moves) /\ Len(later) = Len(moved) + count
            /\ \A i \in 1..Len(moved) : later[i] = moved[i]
        BY <3>4 DEF MovedOn
      <4>2. ASSUME NEW i \in 1..count PROVE later[Len(moved) + i].call = "write"
        <5>1. later[Len(moved) + i] = [call |-> "write", index |-> handle.index + i - 1,
                                       place |-> handle.index + i - 1]
          BY <3>4 DEF MovedOn
        <5> QED
          BY <5>1
      <4> QED
        BY <4>1, <4>2 DEF later
    <3>6. /\ Len(moved) \in Nat /\ DOMAIN moved = 1..Len(moved)
          /\ DOMAIN moved' = 1..Len(moved) + count
      BY <1>3, <3>5, LenProperties
    <3>7. ASSUME NEW i \in DOMAIN moved', moved'[i].call = "read"
          PROVE  i \in DOMAIN moved /\ moved'[i] = moved[i]
      <4>1. CASE i \in 1..Len(moved)
        BY <3>5, <3>6, <4>1
      <4>2. CASE i \notin 1..Len(moved)
        <5>1. i - Len(moved) \in 1..count /\ Len(moved) + (i - Len(moved)) = i
          BY <3>1, <3>6, <4>2
        <5> QED
          BY <3>5, <3>7, <5>1
      <4> QED
        BY <4>1, <4>2
    <3>8. HandleReadsFile'
      BY <1>1, <1>3, <3>2, <3>7 DEF HandleReadsFile
    <3> QED
      BY <3>2, <3>5, <3>8
  <2>3. ASSUME NEW whence \in {"start", "current", "end"}, NEW by \in {-2, 1},
               UserSeek(whence, by)
        PROVE  /\ handle' \in [file : DOMAIN files, index : Nat]
               /\ moved' \in Seq(Moves) /\ HandleReadsFile'
    <3>1. SeekTo(whence, by) \in Int
      BY <1>4 DEF SeekTo
    <3>2. /\ moved' = moved
          /\ handle' = IF SeekTo(whence, by) < 0 THEN handle
                       ELSE [handle EXCEPT !.index = SeekTo(whence, by)]
      BY <2>3 DEF UserSeek
    <3>3. /\ handle' \in [file : DOMAIN files, index : Nat]
          /\ handle'.file = handle.file
      BY <1>3, <3>1, <3>2
    <3> QED
      BY <1>1, <1>3, <3>2, <3>3 DEF HandleReadsFile
  <2> QED
    BY <2>1, <2>2, <2>3
<1>7. handle' # NoHandle
  BY <1>3, <1>6, NoHandleIsNone
<1>8. IsTorrent(files') /\ bl' \in Nat \ {0}
  BY <1>1 DEF VfsInv
<1> QED
  BY <1>1, <1>5, <1>6, <1>7, <1>8 DEF VfsInv, UserInv, IsTorrent, Total

LEMMA VfsStep == VfsInv /\ [VfsNext]_vfsVars => VfsInv'
<1> SUFFICES ASSUME VfsInv, [VfsNext]_vfsVars PROVE VfsInv'
  OBVIOUS
<1>1. CASE WalkDir
  BY <1>1, WalkStep
<1>2. CASE OpenFile
  BY <1>2, OpenStep
<1>3. CASE CopyMore
  BY <1>3, CopyMoreStep
<1>4. CASE CopyEnds
  BY <1>4, CopyEndsStep
<1>5. CASE CopyFails
  BY <1>5, CopyFailsStep
<1>6. CASE \/ \E count \in Buffers : UserRead(count) \/ UserWrite(count)
           \/ \E whence \in {"start", "current", "end"}, by \in {-2, 1} :
                 UserSeek(whence, by)
  BY <1>6, UserStep
<1>7. CASE UNCHANGED vfsVars
  <2>1. UNCHANGED <<files, bl, disk, todo, handle, moved, imported, failed, calls>>
    BY <1>7 DEF vfsVars
  <2>2. IsTorrent(files)' /\ HandleReadsFile' /\ UserInv' = UserInv
    BY <2>1 DEF VfsInv, IsTorrent, Total, HandleReadsFile, UserInv
  <2>3. ASSUME ImportInv PROVE ImportInv'
    <3>1. DiskIsStored' /\ CopyInOrder' /\ CopiesBeginWithFile'
      BY <2>1, <2>3 DEF ImportInv, DiskIsStored, CopyInOrder, CopiesBeginWithFile
    <3>2. imported' \in Seq(Copies)' /\ failed' \subseteq DOMAIN files'
      BY <2>1, <2>3 DEF ImportInv, Copies
    <3>3. todo' \in Seq(Leading(files)')
      BY <2>1, <2>3, LeadingStays DEF ImportInv
    <3>4. \A f : (CopiedFile(f)' <=> CopiedFile(f)) /\ (Ahead(todo, f)' <=> Ahead(todo, f))
      BY <2>1 DEF CopiedFile, Ahead
    <3>5. \A f \in DOMAIN files' :
             \/ f \in failed' \/ CopiedFile(f)'
             \/ (handle' # NoHandle /\ handle'.file = f) \/ Ahead(todo, f)'
      BY <2>1, <2>3, <3>4 DEF ImportInv
    <3> QED
      BY <3>1, <3>2, <3>3, <3>5 DEF ImportInv
  <2> QED
    BY <2>1, <2>2, <2>3 DEF VfsInv
<1> QED
  BY <1>1, <1>2, <1>3, <1>4, <1>5, <1>6, <1>7 DEF VfsNext

\* The filesystem: a handle reads the bytes of its file, whatever its user did
\* before, and an import misses no file and copies each from its first byte to
\* its last at least (File.Read, NewFS, ImportSymlink), for any files, lengths
\* of blocks, buffers and lost blocks.
THEOREM FilesStayReadable == VfsSpec => []FilesAreRead
<1>1. VfsInv => FilesAreRead
  <2> SUFFICES ASSUME VfsInv PROVE FilesAreRead
    OBVIOUS
  <2>1. HandleReadsFile
    BY DEF VfsInv
  <2>2. CopiesBeginWithFile
    <3>1. CASE calls = Importing
      BY <3>1 DEF VfsInv, ImportInv
    <3>2. CASE calls # Importing
      BY <3>2 DEF VfsInv, UserInv, CopiesBeginWithFile
    <3> QED
      BY <3>1, <3>2
  <2>3. WalkMeetsEveryFile
    <3>1. SUFFICES ASSUME calls = Importing, todo = <<>>, handle = NoHandle
                   PROVE  DOMAIN files
                            = failed \cup {imported[i].file : i \in DOMAIN imported}
      BY DEF WalkMeetsEveryFile
    <3>2. ImportInv
      BY <3>1 DEF VfsInv
    <3>3. \A f \in DOMAIN files : f \in failed \/ CopiedFile(f)
      BY <3>1, <3>2 DEF ImportInv, Ahead
    <3>4. \A i \in DOMAIN imported : imported[i].file \in DOMAIN files
      <4>1. imported \in Seq(Copies) /\ DOMAIN imported = 1..Len(imported)
        BY <3>2, LenProperties DEF ImportInv
      <4>2. \A i \in DOMAIN imported : imported[i] \in Copies
        BY <4>1, ElementOfSeq
      <4> QED
        BY <4>2 DEF Copies
    <3>5. failed \subseteq DOMAIN files
      BY <3>2 DEF ImportInv
    <3> QED
      BY <3>3, <3>4, <3>5 DEF CopiedFile
  <2> QED
    BY <2>1, <2>2, <2>3 DEF FilesAreRead
<1> QED
  BY <1>1, VfsBegin, VfsStep, PTL DEF VfsSpec
=============================================================================
