---------------------------- MODULE MCYedisParser ----------------------------
(***************************************************************************)
(* The parser on every cut of requests of one or two of a few parameters   *)
(* and of one of three, on whole requests followed by other bytes, and on  *)
(* bytes that are no request.                                              *)
(***************************************************************************)
EXTENDS YedisParser

MCBytes == Range(Digits) \cup {CR, LF, "*", "$", "+", "-", "x"}

Long   == [i \in 1 .. 11 |-> "x"]
Params == {<<>>, <<"x">>, <<CR, LF>>, <<"$", "1">>, Long}

MCRequests == UNION {[1 .. n -> Params] : n \in 1 .. 2} \cup {<<<<"x">>, <<>>, <<CR, LF>>>>}

Cut(r)    == {[request |-> r, bytes |-> SubSeq(Encode(r), 1, n)] : n \in 1 .. Len(Encode(r))}
Followed(r) == {[request |-> r, bytes |-> Encode(r) \o rest] :
                  rest \in {<<"x">>, Encode(<<<<"x">>>>), <<"*", "1", CR>>}}

(* Bytes that are no request: a wrong tag, a missing or a wrong line end, a  *)
(* negative count.                                                          *)
Malformed ==
    {<<"x", "1", CR, LF>>, <<"*", "1", "x", LF>>, <<"*", "-", "2", CR, LF>>,
     <<"*", "1", CR, LF, "x", "1", CR, LF>>, <<"*", "1", CR, LF, "$", "-", "3", CR, LF>>,
     <<"*", "1", CR, LF, "$", "-", "1", CR, LF>>,
     <<"*", "1", CR, LF, "$", "1", CR, LF, "x", "x", "x">>}

MCInputs ==
    UNION {Cut(r) \cup Followed(r) : r \in MCRequests}
      \cup {[request |-> <<>>, bytes |-> b] : b \in Malformed}
=============================================================================
