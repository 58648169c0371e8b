-------------------------------- MODULE YList --------------------------------
(* src/src/YList.cpp, YList.h: lists of texts, pushed and popped at both     *)
(* ends and read by index range.                                             *)
EXTENDS YStore, SequencesExt

Values(params) == SubSeq(params, 3, Len(params))

(* The values are pushed one after the other; a request without values still *)
(* creates the list.                                                         *)
push(params, pos, createIfNotExist) ==
    LET key == params[2]
        err == getValueByType(key, "list")
        old == IF err = "ok" THEN store[key].value ELSE createList.value
        new == IF pos = "head" THEN Reverse(Values(params)) \o old ELSE old \o Values(params)
    IN  IF err = "ok" \/ (err = "notExist" /\ createIfNotExist)
        THEN /\ store' = setValue(key, [createList EXCEPT !.value = new])
             /\ Reply(<<formatInt(Len(new))>>)
        ELSE Refuse(<<Error>>)

lpush(params)  == push(params, "head", TRUE)
rpush(params)  == push(params, "tail", TRUE)
lpushx(params) == push(params, "head", FALSE)
rpushx(params) == push(params, "tail", FALSE)

(* Mutant of pop: an emptied list stays in the keyspace.                     *)
popKeepingEmpty(params, pos) ==
    LET key  == params[2]
        list == store[key].value
        rest == IF pos = "head" THEN Tail(list) ELSE Front(list)
    IN  IF getValueByType(key, "list") # "ok" THEN Refuse(<<>>)
        ELSE IF list = <<>>
        THEN process' = "assertFailed" /\ UNCHANGED <<store, reply>>
        ELSE /\ store' = Update(key, rest)
             /\ Reply(<<formatBulk(IF pos = "head" THEN Head(list) ELSE Last(list))>>)

(* The assert is compiled in; on an empty list it ends the process.  A list  *)
(* emptied by the pop is deleted.  An error leaves the reply empty.          *)
pop(params, pos) ==
    LET key  == params[2]
        list == store[key].value
        rest == IF pos = "head" THEN Tail(list) ELSE Front(list)
    IN  IF getValueByType(key, "list") # "ok" THEN Refuse(<<>>)
        ELSE IF list = <<>>
        THEN process' = "assertFailed" /\ UNCHANGED <<store, reply>>
        ELSE /\ store' = IF rest = <<>> THEN deleteKey(key) ELSE Update(key, rest)
             /\ Reply(<<formatBulk(IF pos = "head" THEN Head(list) ELSE Last(list))>>)

lpop(params) == pop(params, "head")
rpop(params) == pop(params, "tail")

llen(params) ==
    LET err == getValueByType(params[2], "list")
    IN  Refuse(CASE err = "ok"   -> <<formatInt(Len(store[params[2]].value))>>
                 [] err = "type" -> <<Error>>
                 [] OTHER        -> <<format0>>)

-----------------------------------------------------------------------------
(* Index ranges.  Indices count from 0, from the end if negative.            *)

(* Mutant of adjustIndex: a negative end counts from the last index.         *)
adjustIndexFromLast(start, end, size) ==
    IF size = 0 THEN [start |-> 1, end |-> 0]
    ELSE LET s == IF start < 0 THEN start + size ELSE start
             e == IF end < 0 THEN end + size - 1 ELSE end
         IN  [start |-> IF s < 0 THEN 0 ELSE s,
              end   |-> IF e >= size THEN size - 1 ELSE e]

adjustIndex(start, end, size) ==
    IF size = 0 THEN [start |-> 1, end |-> 0]
    ELSE LET s == IF start < 0 THEN start + size ELSE start
             e == IF end < 0 THEN end + size ELSE end
         IN  [start |-> IF s < 0 THEN 0 ELSE s,
              end   |-> IF e >= size THEN size - 1 ELSE e]

(* index2Iterator walks to the start from the nearer end of the list; the    *)
(* position past the last element is size.                                   *)
index2Iterator(start, size) ==
    IF start * 2 < size THEN start ELSE size - (size - start)

(* Where the range begins and how many elements it has.                      *)
getRange(range, size) ==
    IF range.start > range.end
    THEN [begin |-> size, len |-> 0]
    ELSE IF range.start # 0 \/ range.end + 1 # size
    THEN [begin |-> index2Iterator(range.start, size), len |-> range.end - range.start + 1]
    ELSE [begin |-> 0, len |-> size]

(* A missing key, a key of another type and an index that is not a number    *)
(* leave the reply empty.                                                    *)
lrange(params) ==
    LET key  == params[2]
        list == store[key].value
        from == AsLong[params[3]]
        to   == AsLong[params[4]]
        size == Len(list)
        r    == getRange(adjustIndex(from, to, size), size)
    IN  IF getValueByType(key, "list") # "ok" \/ from = NotLong \/ to = NotLong
        THEN Refuse(<<>>)
        ELSE Refuse(<<preFormatMultiBulk(r.len)>>
                      \o [i \in 1..r.len |-> formatBulk(list[r.begin + i])])
=============================================================================
