------------------------------ MODULE Connect ------------------------------
(***************************************************************************)
(* socket::connect_to() of include/coasio/net/tcp/socket.hpp: a task of    *)
(* the library that takes an address apart, resolves the host and connects *)
(* to one of the endpoints, called by a program like any other task.       *)
(***************************************************************************)
EXTENDS Task, HostPort

CONSTANT Addresses       \* what the program asks connect_to() for

(* connect_impl() is private: programs call it through connect_to() only.  *)
ASSUME ConnectAssumption == "connect_impl" \notin Used

ASSUME AddressAssumption == Addresses \subseteq Seq(STRING)

VARIABLES
    step,       \* step[c]: how far connect_to() is, when c is a frame of it
    address,    \* address[c]: host_and_port, while it is looked at
    asked,      \* asked[c]: the host and the port found in it
    socket      \* socket[c]: what is co_returned

connectVars == <<step, address, asked, socket>>
allVars == <<asyncVars, taskVars, connectVars>>

ConnectInit ==
    /\ TaskInit
    /\ step = [c \in Frames |-> "other"]
    /\ address = [c \in Frames |-> <<>>]
    /\ asked = [c \in Frames |-> Nowhere]
    /\ socket = [c \in Frames |-> "none"]

(* The program calls connect_to() and holds the task.                      *)
CreateConnect(t, c) ==
    /\ Create(t, c)
    /\ step' = [step EXCEPT ![c] = "parse"]
    /\ UNCHANGED <<address, asked, socket>>

(* connect_to() has control and is at s, then it goes on to next.          *)
Proceeds(t, s, next) ==
    /\ step[top[t]] = s
    /\ Runs(t, "body")
    /\ step' = [step EXCEPT ![top[t]] = next]

Returns(t, what) == Return(t) /\ socket' = [socket EXCEPT ![top[t]] = what]

(* The characters of host_and_port are read when the task first runs.      *)
Parse(t) ==
    /\ Proceeds(t, "parse", "parsed")
    /\ \E s \in Addresses, past \in Past :
           /\ address' = [address EXCEPT ![top[t]] = s]
           /\ asked' = [asked EXCEPT ![top[t]] = ParseHostPort(s, past)]
    /\ UNCHANGED <<asyncVars, taskVars, socket>>

PortOptional(p) == p # Nowhere    \* a mutant of Usable: has_value() of the port is not asked

Usable(p) == p # Nowhere /\ p.port # NoPort

Refuse(t) ==
    /\ Proceeds(t, "parsed", "over")
    /\ ~Usable(asked[top[t]])
    /\ Returns(t, "invalid_argument")
    /\ address' = [address EXCEPT ![top[t]] = <<>>]
    /\ UNCHANGED asked

Resolve(t) ==
    /\ Proceeds(t, "parsed", "resolving")
    /\ Usable(asked[top[t]])
    /\ Begin(t, "resolve")
    /\ address' = [address EXCEPT ![top[t]] = <<>>]
    /\ UNCHANGED <<taskVars, asked, socket>>

ErrorIgnored(t) == TRUE           \* a mutant of Succeeded: the result is used unseen

Succeeded(t) == result[t] = "value"

ConnectSocket(t) ==
    /\ Proceeds(t, "resolving", "connecting")
    /\ Succeeded(t)
    /\ Begin(t, "connect_impl")
    /\ UNCHANGED <<taskVars, address, asked, socket>>

ReturnSocket(t) ==
    /\ Proceeds(t, "connecting", "over")
    /\ Succeeded(t)
    /\ Returns(t, "connected")
    /\ UNCHANGED <<address, asked>>

ReturnError(t) ==
    /\ \E s \in {"resolving", "connecting"} : Proceeds(t, s, "over")
    /\ ~Succeeded(t)
    /\ Returns(t, result[t])
    /\ UNCHANGED <<address, asked>>

ConnectStep(t) ==
    \/ Parse(t) \/ Refuse(t) \/ Resolve(t) \/ ConnectSocket(t) \/ ReturnSocket(t) \/ ReturnError(t)

(* Frames other than those of connect_to() do as they like.                *)
ProgramStep(t) == step[top[t]] = "other" /\ FreeBody(t) /\ UNCHANGED connectVars

ConnectNext ==
    \E t \in Tasks :
        \/ ConnectStep(t) \/ ProgramStep(t)
        \/ step[top[t]] = "other" /\ \E c \in Children : CreateConnect(t, c)
        \/ (ControlStep(t) \/ Awaiting(t)) /\ UNCHANGED connectVars

(* A program does not run for ever: its steps are bounded.                 *)
ConnectFairness ==
    \A t \in Tasks :
        /\ WF_allVars(ConnectStep(t)) /\ WF_allVars(ProgramStep(t))
        /\ WF_allVars(ControlStep(t) /\ UNCHANGED connectVars)
        /\ WF_allVars(AwaitStep(t) /\ UNCHANGED <<taskVars, connectVars>>)
        /\ SF_allVars(Take(t) /\ UNCHANGED <<taskVars, connectVars>>)
        /\ WF_allVars(HandlerStep(t) /\ UNCHANGED <<taskVars, connectVars>>)
        /\ WF_allVars(Emit(t) /\ UNCHANGED <<taskVars, connectVars>>)
        /\ WF_allVars(LookupEnds(t) /\ UNCHANGED <<taskVars, connectVars>>)

ConnectSpec == ConnectInit /\ [][ConnectNext]_allVars
FairConnectSpec == ConnectSpec /\ ConnectFairness

-----------------------------------------------------------------------------
(* connect_to() finds a host and a port exactly in the addresses that have *)
(* them, whatever lies behind the address in memory. *)
ParseExact ==
    \A c \in Frames :
        step[c] = "parsed" =>
            Named(address[c]) = IF Usable(asked[c]) THEN {asked[c]} ELSE {}

(* Nothing is connected to before its name is resolved, and the socket is  *)
(* returned as connected only when asio has connected it, whatever was     *)
(* cancelled or failed on the way. *)
ConnectsInOrder ==
    [][\A t \in Tasks :
          /\ kind'[t] = "connect_impl" /\ kind[t] # "connect_impl" =>
                kind[t] = "resolve" /\ op[t] = "over" /\ outcome[t] = "value"
          /\ socket'[top[t]] = "connected" /\ socket[top[t]] # "connected" =>
                kind[t] = "connect_impl" /\ op[t] = "over" /\ outcome[t] = "value"]_allVars

(* A root whose scope is cancelled ends, however deep in its tasks it is   *)
(* and whatever they await. *)
CancelEnds == \A t \in Tasks : Requested(t) ~> at[t] = "ended"
=============================================================================
