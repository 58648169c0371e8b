-------------------------------- MODULE YSet --------------------------------
(* src/src/YSet.cpp: sets of texts.  Where getSet and creatrOrGetSet have    *)
(* written an error and returned nullptr, the handler writes its own error   *)
(* after theirs.                                                             *)
EXTENDS YStore

Members(params) == {params[i] : i \in 3..Len(params)}

(* The reply getSet writes when it finds no set.                             *)
getSetError(key) ==
    IF getValueByType(key, "set") = "notExist" THEN formatNull ELSE OpenError

(* A missing set is created even when the request names no member.           *)
sadd(params) ==
    LET key == params[2]
        err == getValueByType(key, "set")
        old == IF err = "ok" THEN store[key].value ELSE createSet.value
        new == old \cup Members(params)
    IN  IF err = "type"
        THEN Refuse(<<OpenError, OpenError>>)
        ELSE /\ store' = setValue(key, [createSet EXCEPT !.value = new])
             /\ Reply(<<formatInt(Cardinality(new) - Cardinality(old))>>)

scard(params) ==
    LET key == params[2]
    IN  IF getValueByType(key, "set") # "ok"
        THEN Refuse(<<getSetError(key), OpenError>>)
        ELSE Refuse(<<formatInt(Cardinality(store[key].value))>>)

(* The members come in the order of the hash table: any order.               *)
smember(params) ==
    LET key  == params[2]
        size == Cardinality(store[key].value)
    IN  IF getValueByType(key, "set") # "ok"
        THEN Refuse(<<getSetError(key), OpenError>>)
        ELSE \E order \in Bijection(1..size, store[key].value) :
               Refuse(<<preFormatMultiBulk(size)>>
                        \o [i \in 1..size |-> formatBulk(order[i])])

(* randomHashMember picks any member, or none of an empty set; a set emptied *)
(* by the pop is deleted.                                                    *)
spop(params) ==
    LET key == params[2]
        set == store[key].value
    IN  IF getValueByType(key, "set") # "ok"
        THEN Refuse(<<getSetError(key), OpenError>>)
        ELSE IF set = {} THEN Refuse(<<formatNull>>)
        ELSE \E m \in set :
               /\ store' = IF set = {m} THEN deleteKey(key) ELSE Update(key, set \ {m})
               /\ Reply(<<formatBulk(m)>>)
=============================================================================
