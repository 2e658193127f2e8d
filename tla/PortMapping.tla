---------------------------- MODULE PortMapping -----------------------------
(***************************************************************************)
(* How the torrent client behind a VPN learns the address peers can reach  *)
(* it by: DynamicIP asks the VPN's gateway for its address and for a       *)
(* mapping of the torrent port (ExternalPort), announces the pair, sleeps  *)
(* for the lifetime granted, and starts over.                              *)
(*                                                                         *)
(* Both calls are NAT-PMP over UDP (internal/natpmp): a socket per call,   *)
(* the request sent again whenever a deadline passes or a packet of        *)
(* another host arrives.  Packets are lost, duplicated, delayed and        *)
(* reordered; time is the choice of when a deadline passes.                *)
(***************************************************************************)
EXTENDS Naturals, FiniteSets

CONSTANTS
  Addrs,       \* addresses the gateway may have
  Ports,       \* ports it may map
  MaxTries,    \* nAT_TRIES
  MaxMoves,    \* bound on the gateway's changes of address
  MaxFaults    \* bound on failing system calls and packets of other hosts

VARIABLES
  bounded,     \* the client has a timeout of its own
  at,          \* where the goroutine of DynamicIP is; "off" without a VPN
  op,          \* the operation of the call: "addr" or "map"
  tries,       \* deadlines that passed
  deadline,    \* the socket has a deadline that has not passed
  over,        \* the client's timeout has passed
  asked,       \* the call's request is on its way to the gateway
  answers,     \* datagrams on their way to the call's socket
  ex,          \* the address the first call brought
  announced,   \* dynamicaddr
  home,        \* the gateway's address
  moves,       \* its changes so far
  faults,      \* faults so far
  had,         \* history: addresses the gateway had in this round
  granted      \* history: ports it mapped in this round

portvars == <<bounded, at, op, tries, deadline, over, asked, answers, ex,
              announced, home, moves, faults, had, granted>>
callvars == <<tries, deadline, over>>
wirevars == <<asked, answers>>
gatevars == <<home, moves, had, granted>>

NoAddr == "none"
Unknown == [addr |-> NoAddr, port |-> NoAddr]

\* a datagram to the client: where from, its length, the operation it
\* answers, its result code and what it brings
Datagram(from, size, answered, code, value) ==
  [from |-> from, size |-> size, op |-> answered, code |-> code, value |-> value]

\* resultSize of GetExternalAddress and AddPortMapping
Size(o) == IF o = "addr" THEN 12 ELSE 16

PortsInit ==
  /\ bounded \in BOOLEAN
  /\ at \in {"off", "dial"} /\ op = "addr"
  /\ tries = 0 /\ deadline = FALSE /\ over = FALSE
  /\ asked = FALSE /\ answers = {}
  /\ ex = NoAddr /\ announced = Unknown
  /\ home \in Addrs /\ moves = 0 /\ faults = 0
  /\ had = {home} /\ granted = {}

-----------------------------------------------------------------------------
(* network.call *)

\* a socket of its own, and the client's timeout starts
Dial ==
  /\ at = "dial" /\ at' = "loop"
  /\ tries' = 0 /\ deadline' = FALSE /\ over' = FALSE
  /\ UNCHANGED <<bounded, op, wirevars, ex, announced, gatevars, faults>>

GoesOn == IF bounded THEN ~over ELSE tries < MaxTries

\* a new deadline when one is needed, the request, and the wait for a packet
Send ==
  /\ at = "loop" /\ GoesOn
  /\ deadline' = TRUE
  /\ asked' = TRUE
  /\ at' = "read"
  /\ UNCHANGED <<bounded, op, tries, over, answers, ex, announced, gatevars, faults>>

\* the deadline, which is at most the client's timeout, passes
DeadlinePasses ==
  /\ at = "read"
  /\ tries' = IF tries < MaxTries THEN tries + 1 ELSE tries
  /\ over' \in IF bounded THEN {over, TRUE} ELSE {over}
  /\ deadline' = FALSE
  /\ at' = "loop"
  /\ UNCHANGED <<bounded, op, asked, answers, ex, announced, gatevars, faults>>

\* the next datagram, which the network may deliver again
Receive(d) ==
  /\ at = "read" /\ d \in answers
  /\ answers' \in {answers, answers \ {d}}

\* a packet of another host: the request again, under the same deadline
Ignore ==
  /\ \E d \in answers : Receive(d) /\ d.from # "gateway"
  /\ at' = "loop"
  /\ over' \in IF bounded THEN {over, TRUE} ELSE {over}
  /\ UNCHANGED <<bounded, op, tries, deadline, asked, ex, announced, gatevars, faults>>

-----------------------------------------------------------------------------
(* rpc and its callers *)

\* the call returns and its socket is closed: what is still under way to or
\* from it reaches nobody
Close == asked' = FALSE /\ answers' = {}

\* an answer of the gateway is read and the call returns
Return(d) == at = "read" /\ d \in answers /\ d.from = "gateway" /\ Close

protocolChecks(o, d) == d.size = Size(o) /\ d.op = o /\ d.code = 0

\* GetExternalAddress returns: the mapping is asked for next
GotAddress ==
  /\ op = "addr"
  /\ \E d \in answers :
      /\ Return(d) /\ protocolChecks(op, d)
      /\ ex' = d.value
  /\ at' = "dial" /\ op' = "map"
  /\ UNCHANGED <<bounded, callvars, announced, gatevars, faults>>

\* AddPortMapping returns: the address is yielded, and sleep begins
GotMapping ==
  /\ op = "map"
  /\ \E d \in answers :
      /\ Return(d) /\ protocolChecks(op, d)
      /\ announced' = [addr |-> ex, port |-> d.value]
  /\ at' = "sleep"
  /\ UNCHANGED <<bounded, op, callvars, ex, gatevars, faults>>

Failed ==
  /\ at' = "wait"
  /\ UNCHANGED <<bounded, op, callvars, ex, announced, gatevars>>

\* an answer that fails the checks fails the call: it is not sent again
Refused ==
  /\ \E d \in answers :
      Return(d) /\ ~protocolChecks(op, d)
  /\ Failed /\ UNCHANGED faults

\* the loop is over
TimedOut ==
  /\ at = "loop" /\ ~GoesOn
  /\ Failed /\ Close /\ UNCHANGED faults

\* dialing, setting the deadline, writing or reading fails
CallFails ==
  /\ at \in {"dial", "loop", "read"} /\ faults < MaxFaults
  /\ faults' = faults + 1
  /\ Failed /\ Close

-----------------------------------------------------------------------------
(* DynamicIP *)

\* Mutant of NextRound: a round that failed goes on with the mapping.
NextRoundResumes ==
  /\ at \in {"sleep", "wait"} /\ at' = "dial"
  /\ op' = IF at = "sleep" THEN "addr" ELSE op
  /\ had' = {home} /\ granted' = {}
  /\ UNCHANGED <<bounded, callvars, wirevars, ex, announced, home, moves, faults>>

\* after the lifetime of the mapping, or a minute after a failure
NextRound ==
  /\ at \in {"sleep", "wait"} /\ at' = "dial" /\ op' = "addr"
  /\ had' = {home} /\ granted' = {}
  /\ UNCHANGED <<bounded, callvars, wirevars, ex, announced, home, moves, faults>>

-----------------------------------------------------------------------------
(* The gateway and the network *)

goroutine == <<bounded, at, op, tries, deadline, over, ex, announced>>

Reply(d) == asked /\ answers' = answers \cup {d}

\* the request arrives, now or once more later, and is answered
GatewayAnswers ==
  /\ \/ /\ op = "addr"
        /\ Reply(Datagram("gateway", 12, "addr", 0, home))
        /\ UNCHANGED granted
     \/ /\ op = "map"
        /\ \E p \in Ports :
            /\ Reply(Datagram("gateway", 16, "map", 0, p))
            /\ granted' = granted \cup {p}
  /\ UNCHANGED <<goroutine, asked, home, moves, faults, had>>

\* or refused, or answered with a datagram that is no answer to it
GatewayErrs ==
  /\ faults < MaxFaults /\ faults' = faults + 1
  /\ \/ Reply(Datagram("gateway", Size(op), op, 1, NoAddr))
     \/ Reply(Datagram("gateway", Size(op), "other", 0, NoAddr))
     \/ Reply(Datagram("gateway", 8, op, 0, NoAddr))
  /\ UNCHANGED <<goroutine, asked, gatevars>>

\* a host that is not the gateway sends what looks like an answer
Stray ==
  /\ faults < MaxFaults /\ faults' = faults + 1
  /\ at \in {"loop", "read"}
  /\ answers' = answers \cup {Datagram("other", Size(op), op, 0, NoAddr)}
  /\ UNCHANGED <<goroutine, asked, gatevars>>

Lose ==
  /\ \/ asked' = FALSE /\ UNCHANGED answers
     \/ \E d \in answers : answers' = answers \ {d} /\ UNCHANGED asked
  /\ UNCHANGED <<goroutine, gatevars, faults>>

\* the gateway gets another address
Move ==
  /\ moves < MaxMoves /\ moves' = moves + 1
  /\ \E a \in Addrs \ {home} : home' = a /\ had' = had \cup {a}
  /\ UNCHANGED <<goroutine, wirevars, faults, granted>>

PortsNext ==
  \/ Dial \/ Send \/ DeadlinePasses \/ Ignore
  \/ GotAddress \/ GotMapping \/ Refused \/ TimedOut \/ CallFails \/ NextRound
  \/ GatewayAnswers \/ GatewayErrs \/ Stray \/ Lose \/ Move

PortsSpec == PortsInit /\ [][PortsNext]_portvars

-----------------------------------------------------------------------------
\* The pair announced is the gateway's own, and of one round: an address it
\* had while the round ran and a port it mapped in it, whatever other hosts
\* sent and whatever arrived late or twice (torrentx.go, ExternalPort).
AnnouncedIsGranted ==
  [][announced' # announced =>
        announced'.addr \in had /\ announced'.port \in granted]_portvars
=============================================================================
