----------------------------- MODULE YedisParser -----------------------------
(***************************************************************************)
(* src/src/YedisParser.cpp: what YProtoParse makes of the bytes one onRead *)
(* has taken from the connection's buffer.  A byte is a one-character      *)
(* string; letters stand for any other byte.                               *)
(* Lengths and counts stay below the width of int.                         *)
(***************************************************************************)
EXTENDS Integers, Sequences, SequencesExt

CONSTANTS Bytes,     (* the values of a byte                                *)
          Inputs     (* what may arrive: the request meant and the bytes    *)

Digits == <<"0", "1", "2", "3", "4", "5", "6", "7", "8", "9">>
CR == "\r"
LF == "\n"

ASSUME InputsAssumption ==
    /\ Range(Digits) \cup {CR, LF, "*", "$", "+", "-"} \subseteq Bytes
    /\ Inputs \subseteq [request : Seq(Seq(Bytes)), bytes : Seq(Bytes)]

IsDigit(b) == b \in Range(Digits)
Value(b)   == (CHOOSE i \in DOMAIN Digits : Digits[i] = b) - 1

VARIABLES input,          (* an element of Inputs                            *)
          pc,             (* the function that runs next                     *)
          ptr,            (* index of the next byte                          *)
          m_nMulti, m_nParamLen, m_nNumOfParam, m_vecParams,
          result          (* what parseRequest returns                       *)

vars == <<input, pc, ptr, m_nMulti, m_nParamLen, m_nNumOfParam, m_vecParams, result>>

buffer    == input.bytes
end       == Len(buffer) + 1
Left(p)   == end - p

Init ==
    /\ input \in Inputs
    /\ pc = "parseMulti"
    /\ ptr = 1
    /\ m_nMulti = -1
    /\ m_nParamLen = -1
    /\ m_nNumOfParam = 0
    /\ m_vecParams = <<>>
    /\ result = "wait"

-----------------------------------------------------------------------------
(* The number that digits spell.                                             *)
Number(s) ==
    LET upTo[k \in 0 .. Len(s)] == IF k = 0 THEN 0 ELSE 10 * upTo[k - 1] + Value(s[k])
    IN  upTo[Len(s)]

(* Where the digits from p on end.                                           *)
DigitsEnd(p) ==
    IF \A i \in p .. end - 1 : IsDigit(buffer[i]) THEN end
    ELSE CHOOSE i \in p .. end - 1 :
            /\ ~IsDigit(buffer[i])
            /\ \A j \in p .. i - 1 : IsDigit(buffer[j])

Nothing(r, p) == [ret |-> r, val |-> -1, next |-> p]

(* getIntUntilCRLF from p on.  Digits up to the very end count as a complete *)
(* number: the position returned is then beyond the end.                    *)
getIntUntilCRLF(p) ==
    LET signed == Left(p) >= 3 /\ buffer[p] \in {"-", "+"}
        first  == IF signed THEN p + 1 ELSE p
        stop   == DigitsEnd(first)
        sign   == IF signed /\ buffer[p] = "-" THEN -1 ELSE 1
    IN  IF Left(p) < 3 THEN Nothing("wait", p)
        ELSE IF stop < end /\ (buffer[stop] # CR \/ (stop + 1 < end /\ buffer[stop + 1] # LF))
        THEN Nothing("error", p)
        ELSE IF stop + 1 = end THEN Nothing("wait", p)
        ELSE [ret |-> "ok", val |-> sign * Number(SubSeq(buffer, first, stop - 1)), next |-> stop + 2]

Stop(r) ==
    /\ pc' = "done"
    /\ result' = r

Continue(f) ==
    /\ pc' = f
    /\ UNCHANGED result

(* A prefix, then a number: the first half of parseMulti and of parseStrlen. *)
Tagged(tag) ==
    IF Left(ptr) < 3 THEN Nothing("wait", ptr)
    ELSE IF buffer[ptr] # tag THEN Nothing("error", ptr)
    ELSE getIntUntilCRLF(ptr + 1)

(* parseMulti and what parseRequest makes of it.  Unlike parseStrlen it does *)
(* not step back over its tag when the number is not complete.              *)
parseMulti ==
    /\ pc = "parseMulti"
    /\ LET n == Tagged("*") IN
       /\ ptr' = n.next
       /\ \/ n.ret # "ok" /\ Stop(n.ret) /\ UNCHANGED m_nMulti
          \/ /\ n.ret = "ok"
             /\ m_nMulti' = n.val
             /\ IF n.val < -1 THEN Stop("error") ELSE Continue("parseStrlist")
    /\ UNCHANGED <<input, m_nParamLen, m_nNumOfParam, m_vecParams>>

(* Mutant of parseStrlist: no room is made for the parameter.                *)
parseStrlistNoRoom ==
    /\ pc = "parseStrlist"
    /\ IF m_nNumOfParam < m_nMulti
       THEN UNCHANGED m_vecParams /\ Continue("parseStrlen")
       ELSE m_vecParams' = SubSeq(m_vecParams, 1, m_nNumOfParam) /\ Stop("ok")
    /\ UNCHANGED <<input, ptr, m_nMulti, m_nParamLen, m_nNumOfParam>>

(* The head of parseStrlist's loop: room for one more parameter, or the end. *)
parseStrlist ==
    /\ pc = "parseStrlist"
    /\ IF m_nNumOfParam < m_nMulti
       THEN /\ m_vecParams' = IF Len(m_vecParams) < m_nNumOfParam + 1
                              THEN Append(m_vecParams, <<>>) ELSE m_vecParams
            /\ Continue("parseStrlen")
       ELSE /\ m_vecParams' = SubSeq(m_vecParams, 1, m_nNumOfParam)
            /\ Stop("ok")
    /\ UNCHANGED <<input, ptr, m_nMulti, m_nParamLen, m_nNumOfParam>>

(* parseStrlen, and parseStr for a parameter of length -1: it is empty.      *)
parseStrlen ==
    /\ pc = "parseStrlen"
    /\ LET n == Tagged("$") IN
       \/ /\ n.ret # "ok"
          /\ Stop(n.ret)
          /\ UNCHANGED <<ptr, m_nParamLen, m_nNumOfParam>>
       \/ /\ n.ret = "ok"
          /\ ptr' = n.next
          /\ m_nParamLen' = n.val
          /\ IF n.val < -1 THEN Stop("error") /\ UNCHANGED m_nNumOfParam
             ELSE IF n.val = -1
             THEN Continue("parseStrlist") /\ m_nNumOfParam' = m_nNumOfParam + 1
             ELSE Continue("parseStrval") /\ UNCHANGED m_nNumOfParam
    /\ UNCHANGED <<input, m_nMulti, m_vecParams>>

(* Mutant of parseStrval: it does not wait for the line end.                 *)
parseStrvalEager ==
    /\ pc = "parseStrval"
    /\ LET tail == ptr + m_nParamLen IN
       \/ /\ Left(ptr) < m_nParamLen
          /\ Stop("wait")
          /\ UNCHANGED <<ptr, m_nParamLen, m_nNumOfParam, m_vecParams>>
       \/ /\ Left(ptr) >= m_nParamLen
          /\ m_vecParams' = [m_vecParams EXCEPT ![m_nNumOfParam + 1] = SubSeq(buffer, ptr, tail - 1)]
          /\ ptr' = tail + 2
          /\ m_nParamLen' = -1
          /\ m_nNumOfParam' = m_nNumOfParam + 1
          /\ Continue("parseStrlist")
    /\ UNCHANGED <<input, m_nMulti>>

(* Mutant of parseStrval: the next parameter is looked for at the line end.  *)
parseStrvalShort ==
    /\ pc = "parseStrval"
    /\ LET tail == ptr + m_nParamLen IN
       \/ /\ Left(ptr) < m_nParamLen + 2
          /\ Stop("wait")
          /\ UNCHANGED <<ptr, m_nParamLen, m_nNumOfParam, m_vecParams>>
       \/ /\ Left(ptr) >= m_nParamLen + 2
          /\ m_vecParams' = [m_vecParams EXCEPT ![m_nNumOfParam + 1] = SubSeq(buffer, ptr, tail - 1)]
          /\ ptr' = tail
          /\ m_nParamLen' = -1
          /\ m_nNumOfParam' = m_nNumOfParam + 1
          /\ Continue("parseStrlist")
    /\ UNCHANGED <<input, m_nMulti>>

parseStrval ==
    /\ pc = "parseStrval"
    /\ LET tail == ptr + m_nParamLen IN
       \/ /\ Left(ptr) < m_nParamLen + 2
          /\ Stop("wait")
          /\ UNCHANGED <<ptr, m_nParamLen, m_nNumOfParam, m_vecParams>>
       \/ /\ Left(ptr) >= m_nParamLen + 2
          /\ <<buffer[tail], buffer[tail + 1]>> # <<CR, LF>>
          /\ Stop("error")
          /\ UNCHANGED <<ptr, m_nParamLen, m_nNumOfParam, m_vecParams>>
       \/ /\ Left(ptr) >= m_nParamLen + 2
          /\ <<buffer[tail], buffer[tail + 1]>> = <<CR, LF>>
          /\ m_vecParams' = [m_vecParams EXCEPT ![m_nNumOfParam + 1] = SubSeq(buffer, ptr, tail - 1)]
          /\ ptr' = tail + 2
          /\ m_nParamLen' = -1
          /\ m_nNumOfParam' = m_nNumOfParam + 1
          /\ Continue("parseStrlist")
    /\ UNCHANGED <<input, m_nMulti>>

Next == parseMulti \/ parseStrlist \/ parseStrlen \/ parseStrval

Spec == Init /\ [][Next]_vars

-----------------------------------------------------------------------------
(* How a client writes a request.                                            *)

NumberBytes(n) ==
    LET bytes[k \in 0 .. n] ==
          IF k < 10 THEN <<Digits[k + 1]>>
          ELSE Append(bytes[k \div 10], Digits[(k % 10) + 1])
    IN  bytes[n]

Line(tag, n) == <<tag>> \o NumberBytes(n) \o <<CR, LF>>

Encode(params) ==
    LET Parameter(p) == Line("$", Len(p)) \o p \o <<CR, LF>>
    IN  Line("*", Len(params)) \o FlattenSeq([i \in DOMAIN params |-> Parameter(params[i])])

-----------------------------------------------------------------------------
TypeOK ==
    /\ pc \in {"parseMulti", "parseStrlist", "parseStrlen", "parseStrval", "done"}
    /\ ptr \in Nat \ {0}
    /\ m_nMulti \in Int
    /\ m_nParamLen \in Int
    /\ m_nNumOfParam \in 0 .. Len(m_vecParams)
    /\ Len(m_vecParams) <= m_nNumOfParam + 1
    /\ result \in {"ok", "wait", "error"}

(* A request that has arrived whole is read back as it was written, and the  *)
(* parser stops right behind it, whatever follows.                          *)
WholeRequestRead ==
    pc = "done" /\ IsPrefix(Encode(input.request), buffer) =>
        /\ result = "ok"
        /\ m_vecParams = input.request
        /\ ptr = Len(Encode(input.request)) + 1

(* Of a request cut anywhere the parser asks for more; the parameters it has *)
(* by then are the request's, and at most one more, empty.                  *)
CutRequestWaits ==
    pc = "done" /\ IsStrictPrefix(buffer, Encode(input.request)) =>
        /\ result = "wait"
        /\ LET n == m_nNumOfParam IN
           /\ SubSeq(m_vecParams, 1, n) = SubSeq(input.request, 1, n)
           /\ \A i \in n + 1 .. Len(m_vecParams) : m_vecParams[i] = <<>>
=============================================================================
