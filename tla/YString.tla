------------------------------- MODULE YString -------------------------------
(* src/src/YString.cpp: set, get, setnx.  params[1] is the command name.     *)
EXTENDS YStore

(* getDecodeString.                                                          *)
Decode(object) == IF object.encoding = "raw" THEN object.value ELSE ToText[object.value]

(* set replaces whatever the key holds, of any type.                         *)
setCmd(params) ==
    /\ store' = setValue(params[2], createString(params[3]))
    /\ Reply(<<formatOK>>)

getCmd(params) ==
    /\ UNCHANGED store
    /\ LET err == getValueByType(params[2], "string")
       IN  Reply(CASE err = "ok"       -> <<formatBulk(Decode(store[params[2]]))>>
                   [] err = "notExist" -> <<formatNull>>
                   [] OTHER            -> <<Error>>)

setnxCmd(params) ==
    IF getValue(params[2]) = "ok"
    THEN Refuse(<<format0>>)
    ELSE /\ store' = setValue(params[2], createString(params[3]))
         /\ Reply(<<format1>>)
=============================================================================
