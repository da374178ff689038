----------------------------- MODULE MCConnect -----------------------------
(* Instances of Connect for TLC: the addresses.                            *)
EXTENDS Connect

Sample ==
    {<<"h", ":", "6">>, <<" ", "h", ":", "6">>, <<"h", ":", "6", " ">>, <<"h", ":", "6", "6">>, <<"h">>,
     <<>>, <<" ", " ">>, <<"[", "h", "]", ":", "6">>, <<"[", ":", ":", "]">>, <<"h", "[", ":", "6">>}

Alphabet == {" ", "h", "6", ":", "[", "]"}

(* ... and all the addresses of at most five characters.                   *)
ASSUME ParserExact == ExactOn(UNION {[1..n -> Alphabet] : n \in 0..5})
=============================================================================
