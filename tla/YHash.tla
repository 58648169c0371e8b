-------------------------------- MODULE YHash --------------------------------
(* src/src/YHash.cpp: hashes from field texts to value texts.                *)
EXTENDS YStore

(* getOrCreateHash, then insert or overwrite; always answered with 1.        *)
hset(params) ==
    LET key  == params[2]
        err  == getValueByType(key, "hash")
        hash == IF err = "ok" THEN store[key].value ELSE createHash.value
        new  == [f \in DOMAIN hash \cup {params[3]} |->
                   IF f = params[3] THEN params[4] ELSE hash[f]]
    IN  IF err = "type"
        THEN Refuse(<<OpenError>>)
        ELSE /\ store' = setValue(key, [createHash EXCEPT !.value = new])
             /\ Reply(<<formatInt(1)>>)

(* A missing hash and a key of another type are the same error.              *)
hget(params) ==
    LET key  == params[2]
        hash == store[key].value
    IN  IF getValueByType(key, "hash") # "ok" THEN Refuse(<<OpenError>>)
        ELSE IF params[3] \in DOMAIN hash THEN Refuse(<<formatBulk(hash[params[3]])>>)
        ELSE Refuse(<<formatNull>>)
=============================================================================
