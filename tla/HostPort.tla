------------------------------ MODULE HostPort ------------------------------
(***************************************************************************)
(* include/coasio/net/helper.hpp: the address "host:port" or "[host]:port" *)
(* taken apart.  An address is a sequence of characters; positions count   *)
(* from 1 where the code counts from 0.                                    *)
(***************************************************************************)
EXTENDS Integers, SequencesExt

CONSTANTS
    MaxPort,     \* bound: 65535
    Past         \* the bytes that may follow an address in memory

Space == " "
Digits == <<"0", "1", "2", "3", "4", "5", "6", "7", "8", "9">>
NoPort == {}                                                   \* std::nullopt
Nowhere == [host |-> <<>>, port |-> NoPort]                    \* std::unexpected

Position(s, c) ==
    IF c \in ToSet(s) THEN SelectInSeq(s, LAMBDA x : x = c) ELSE Len(s) + 1
From(s, i) == SubSeq(s, i, Len(s))

(* trim_whitespace(): leading blanks go, and what follows is cut after the *)
(* first blank, which stays.  When only the last character is left to look *)
(* at, `end` still is the length and the view takes in the byte after it.  *)
Beginning(s) ==
    CHOOSE i \in 1..Len(s) :
        /\ \A k \in 1..(i - 1) : s[k] = Space
        /\ s[i] # Space \/ i = Len(s)

Trimmed(s, past) ==
    LET start == Beginning(s)
    IN  IF s = <<>> THEN <<>>
        ELSE IF start = Len(s) THEN <<s[start], past>>
        ELSE SubSeq(s, start, start + Position(SubSeq(s, start + 1, Len(s) - 1), Space))

Decimal(digits) == FoldLeft(LAMBDA n, c : 10 * n + Position(Digits, c) - 1, 0, digits)

(* parse_port() gives a value                                              *)
IsPort(digits) ==
    /\ digits # <<>>
    /\ ToSet(digits) \subseteq ToSet(Digits)
    /\ Decimal(digits) <= MaxPort

HostAnd(host, digits) ==
    IF host # <<>> /\ IsPort(digits) THEN [host |-> host, port |-> {Decimal(digits)}] ELSE Nowhere

(* parse_host_port(), the branch of "[" ...                                *)
Bracketed(s) ==
    LET close == Position(s, "]")
        host == SubSeq(s, 2, close - 1)
    IN  IF close > Len(s) \/ host = <<>> THEN Nowhere
        ELSE IF close = Len(s) THEN [host |-> host, port |-> NoPort]
        ELSE IF s[close + 1] = ":" THEN HostAnd(host, From(s, close + 2)) ELSE Nowhere

(* ... and that of a name or an IPv4 or bare IPv6 address.                 *)
Plain(s) ==
    LET colon == Position(s, ":")
    IN  IF Cardinality({i \in DOMAIN s : s[i] = ":"}) = 1
        THEN HostAnd(SubSeq(s, 1, colon - 1), From(s, colon + 1))
        ELSE [host |-> s, port |-> NoPort]

ParseHostPort(input, past) ==
    LET s == Trimmed(input, past)
    IN  IF s = <<>> THEN Nowhere ELSE IF s[1] = "[" THEN Bracketed(s) ELSE Plain(s)

-----------------------------------------------------------------------------
(* What an address with a port is, said without an algorithm: b blanks,    *)
(* then a name, the colon at c and a number that is a port; no other       *)
(* blank.  The name is the host, or has it in brackets. *)
Name(s, b, c) == SubSeq(s, b + 1, c - 1)
Inner(name) == SubSeq(name, 2, Len(name) - 1)

Splits(s, b, c) ==
    /\ \A i \in 1..b : s[i] = Space
    /\ s[c] = ":"
    /\ From(s, c + 1) # <<>> /\ ToSet(From(s, c + 1)) \subseteq ToSet(Digits)
    /\ Decimal(From(s, c + 1)) <= MaxPort
    /\ Name(s, b, c) # <<>> /\ Space \notin ToSet(Name(s, b, c))

IsName(name) == name[1] # "[" /\ ":" \notin ToSet(name)

IsBracketed(name) ==
    /\ name[1] = "[" /\ Last(name) = "]"
    /\ Inner(name) # <<>> /\ "]" \notin ToSet(Inner(name))

Hosts(name) ==
    IF IsName(name) THEN {name} ELSE IF IsBracketed(name) THEN {Inner(name)} ELSE {}

Named(s) ==
    UNION {{[host |-> host, port |-> {Decimal(From(s, x[2] + 1))}] :
               host \in Hosts(Name(s, x[1], x[2]))} :
              x \in {y \in (0..Len(s)) \X (1..Len(s)) : Splits(s, y[1], y[2])}}

(* The parser finds a host and a port exactly in the addresses that have   *)
(* them, whatever lies behind the address in memory. *)
ExactOn(addresses) ==
    \A s \in addresses, past \in Past :
        LET parsed == ParseHostPort(s, past)
        IN  Named(s) = IF parsed.port = NoPort THEN {} ELSE {parsed}
=============================================================================
