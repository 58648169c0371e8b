------------------------------- MODULE YStore -------------------------------
(***************************************************************************)
(* src/src/YedisStore.cpp, YedisCommon.cpp, YedisFormate.cpp: the keyspace *)
(* of the one database, the objects it holds and the replies the handlers  *)
(* write.  The executor thread is the only one that touches it.            *)
(*                                                                         *)
(* A text is an element of Strings.  What strtol(.., 0), atof and "%ld"    *)
(* make of the texts of an instance is given by AsLong, AsDouble, ToText.  *)
(* A double is its rank among the doubles, which are finitely many; NaN is *)
(* the one without a rank.                                                 *)
(***************************************************************************)
EXTENDS Integers, Sequences, FiniteSets, Functions

CONSTANTS Keys,      (* key names                                            *)
          Strings,   (* the other arguments of a request                     *)
          AsLong,    (* stringToLong, YedisStrtol: a long, or NotLong        *)
          AsDouble,  (* atof, which makes something of every text            *)
          ToText,    (* the decimal text of a long                           *)
          NotLong, NaN

Doubles == Nat \cup {NaN}

ASSUME TextAssumption ==
    /\ AsLong \in [Strings -> DOMAIN ToText \cup {NotLong}]
    /\ DOMAIN ToText \subseteq Int
    /\ NotLong \notin Int
    /\ \A n \in DOMAIN ToText : ToText[n] \in Strings => AsLong[ToText[n]] = n
    /\ AsDouble \in [Strings -> Doubles]
    /\ NaN \notin Nat

VARIABLES store,     (* m_vecStore[0]: a function on the keys that exist     *)
          reply,     (* what the last command wrote into its ReplyBuffer     *)
          process    (* "running", or how the executor took the process down *)

storeVars == <<store, reply, process>>

-----------------------------------------------------------------------------
(* YObject: type, encoding and value.                                       *)

createString(s) ==
    IF AsLong[s] # NotLong
    THEN [type |-> "string", encoding |-> "int", value |-> AsLong[s]]
    ELSE [type |-> "string", encoding |-> "raw", value |-> s]

(* Mutant of createList: the constructor's switch misses the case.          *)
createListUnencoded == [type |-> "list", encoding |-> "invalid", value |-> <<>>]

createList == [type |-> "list", encoding |-> "list", value |-> <<>>]
createSet  == [type |-> "set",  encoding |-> "set",  value |-> {}]
createHash == [type |-> "hash", encoding |-> "hash", value |-> <<>>]

(* YSortedSet(): both maps empty.                                           *)
createSSet == [type |-> "zset", encoding |-> "zset",
               value |-> [member2Scores |-> <<>>, score2Members |-> <<>>]]

-----------------------------------------------------------------------------
(* YStore.                                                                  *)

getValueByType(key, type) ==
    IF key \notin DOMAIN store THEN "notExist"
    ELSE IF type # "invalid" /\ type # store[key].type THEN "type"
    ELSE "ok"

getValue(key) == getValueByType(key, "invalid")

(* A move-assignment: the old object of the key, if any, is freed.          *)
setValue(key, object) ==
    [k \in DOMAIN store \cup {key} |-> IF k = key THEN object ELSE store[k]]

(* The handlers change an object in place.                                  *)
Update(key, value) == [store EXCEPT ![key].value = value]

deleteKey(key) == Restrict(store, DOMAIN store \ {key})

-----------------------------------------------------------------------------
(* YedisFormate: the pieces a reply is made of.                             *)

formatInt(n)          == [kind |-> "int", val |-> n]
format0               == formatInt(0)
format1               == formatInt(1)
formatBulk(s)         == [kind |-> "bulk", val |-> s]
formatNull            == [kind |-> "null"]
formatOK              == [kind |-> "status"]
preFormatMultiBulk(n) == [kind |-> "array", val |-> n]
Error                 == [kind |-> "error"]

(* pushData("-ERR error type\r\n", sizeof("-ERR error type") - 1): the size  *)
(* given leaves the line end out.                                           *)
OpenError == [kind |-> "openError"]

Reply(r) == reply' = r /\ UNCHANGED process

Refuse(r) == Reply(r) /\ UNCHANGED store
=============================================================================
