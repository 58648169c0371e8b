------------------------------ MODULE YCommand ------------------------------
(***************************************************************************)
(* src/src/YedisCommand.cpp, YedisRegisterCmd.cpp: the table of commands   *)
(* and their execution, one at a time, on the executor thread.  A state is *)
(* the keyspace between two commands.                                      *)
(*                                                                         *)
(* The handlers index params without looking at its size.  A request has   *)
(* here at least the parameters its handler reads; a shorter one reads     *)
(* past the end of the vector and is not a behaviour of this module.       *)
(***************************************************************************)
EXTENDS YString, YList, YSet, YHash, YSortedSet

CONSTANTS Commands,    (* the command names clients use                      *)
          MinMembers,  (* the fewest values or members a client names        *)
          MaxMembers,  (* the most                                           *)
          MaxLen,      (* bound: a list does not grow beyond it              *)
          ScoreTexts   (* the texts that are spelled as a number             *)

ASSUME BoundsAssumption ==
    /\ MinMembers \in 0..1 /\ MaxMembers \in Nat /\ MaxLen \in Nat
    /\ \A s \in ScoreTexts \cap Strings : AsDouble[s] # NaN

VARIABLE request       (* the command executed last                          *)

vars == <<store, reply, process, request>>

(* The registered commands and how many parameters a request has.            *)
ParamCounts ==
    LET members == (2 + MinMembers)..(2 + MaxMembers)
    IN  [COMMAND |-> {1},
         set |-> {3}, get |-> {2}, setnx |-> {3},
         LPUSH |-> members, RPUSH |-> members, LPUSHX |-> members, RPUSHX |-> members,
         LPOP |-> {2}, RPOP |-> {2}, LLEN |-> {2}, LRANGE |-> {4},
         SADD |-> members, SCARD |-> {2}, SMEMBERS |-> {2}, SPOP |-> {2},
         HSET |-> {4}, HGET |-> {3},
         ZADD |-> (2 + MinMembers)..(2 + 2 * MaxMembers)]

(* A name that is not registered; matching is by case.                       *)
Unregistered == Commands \ DOMAIN ParamCounts

(* The commands that name a key.                                             *)
KeyCommands == DOMAIN ParamCounts \ {"COMMAND"}

(* What may follow the key.                                                  *)
ArgLists(c) == UNION {[1..(n - 2) -> Strings] : n \in ParamCounts[c]}

RequestsOf(c) == UNION {{<<c, k>> \o args : args \in ArgLists(c)} : k \in Keys}

Requests ==
    {<<c>> : c \in Commands \cap ({"COMMAND"} \cup Unregistered)}
      \cup UNION {RequestsOf(c) : c \in Commands \cap KeyCommands}

command(params) == Refuse(<<formatOK>>)

(* getCommand, then the handler.                                             *)
execCommand(params) ==
    \/ params[1] \notin DOMAIN ParamCounts /\ Refuse(<<Error>>)
    \/ params[1] = "COMMAND"  /\ command(params)
    \/ params[1] = "set"      /\ setCmd(params)
    \/ params[1] = "get"      /\ getCmd(params)
    \/ params[1] = "setnx"    /\ setnxCmd(params)
    \/ params[1] = "LPUSH"    /\ lpush(params)
    \/ params[1] = "RPUSH"    /\ rpush(params)
    \/ params[1] = "LPUSHX"   /\ lpushx(params)
    \/ params[1] = "RPUSHX"   /\ rpushx(params)
    \/ params[1] = "LPOP"     /\ lpop(params)
    \/ params[1] = "RPOP"     /\ rpop(params)
    \/ params[1] = "LLEN"     /\ llen(params)
    \/ params[1] = "LRANGE"   /\ lrange(params)
    \/ params[1] = "SADD"     /\ sadd(params)
    \/ params[1] = "SCARD"    /\ scard(params)
    \/ params[1] = "SMEMBERS" /\ smember(params)
    \/ params[1] = "SPOP"     /\ spop(params)
    \/ params[1] = "HSET"     /\ hset(params)
    \/ params[1] = "HGET"     /\ hget(params)
    \/ params[1] = "ZADD"     /\ zadd(params)

(* Bound: pushes stop when a list would exceed MaxLen.                       *)
WithinBounds(params) ==
    params[1] \in {"LPUSH", "RPUSH", "LPUSHX", "RPUSHX"}
      /\ getValueByType(params[2], "list") = "ok"
    => Len(store[params[2]].value) + Len(params) - 2 <= MaxLen

Init ==
    /\ store = <<>>
    /\ reply = <<>>
    /\ process = "running"
    /\ request = <<>>

Next ==
    /\ process = "running"
    /\ \E params \in Requests :
         /\ WithinBounds(params)
         /\ request' = params
         /\ execCommand(params)

Spec == Init /\ [][Next]_vars

-----------------------------------------------------------------------------
ObjectOK(o) ==
    \/ o.type = "string" /\ o.encoding = "raw" /\ o.value \in Strings
    \/ o.type = "string" /\ o.encoding = "int" /\ o.value \in DOMAIN ToText
    \/ o.type = "list" /\ o.encoding = "list" /\ o.value \in Seq(Strings)
    \/ o.type = "set" /\ o.encoding = "set" /\ o.value \subseteq Strings
    \/ o.type = "hash" /\ o.encoding = "hash" /\ DOMAIN o.value \subseteq Strings
                       /\ \A f \in DOMAIN o.value : o.value[f] \in Strings
    \/ o.type = "zset" /\ o.encoding = "zset"
                       /\ DOMAIN o.value.member2Scores \subseteq Strings
                       /\ DOMAIN o.value.score2Members \subseteq Doubles

TypeOK ==
    /\ DOMAIN store \subseteq Keys
    /\ \A k \in DOMAIN store : ObjectOK(store[k])
    /\ process \in {"running", "assertFailed", "nullDereference"}
    /\ request \in Requests \cup {<<>>}

OfType(t) == {k \in DOMAIN store : store[k].type = t}

(* A list, a set or a hash that becomes empty is gone: whoever finds a key of *)
(* one of these types finds something in it.                                *)
NoEmptyCollections ==
    /\ \A k \in OfType("list") : store[k].value # <<>>
    /\ \A k \in OfType("set") : store[k].value # {}
    /\ \A k \in OfType("hash") : DOMAIN store[k].value # {}

(* The scores under which a sorted set files a member.                       *)
FiledUnder(zset, member) ==
    {s \in DOMAIN zset.score2Members : member \in zset.score2Members[s]}

(* The two maps of a sorted set fit: each member is filed under one score,   *)
(* no score files a stranger or nobody, and as long as no member has the     *)
(* score NaN, which std::map takes for another, each is filed under its own. *)
ScoresAgree ==
    \A k \in OfType("zset") :
      LET z == store[k].value
      IN  /\ \A m \in DOMAIN z.member2Scores : \E s \in DOMAIN z.score2Members : FiledUnder(z, m) = {s}
          /\ \A s \in DOMAIN z.score2Members :
               z.score2Members[s] # {} /\ z.score2Members[s] \subseteq DOMAIN z.member2Scores
          /\ (\A m \in DOMAIN z.member2Scores : z.member2Scores[m] # NaN)
             => \A m \in DOMAIN z.member2Scores : FiledUnder(z, m) = {z.member2Scores[m]}

(* assert (!list->empty()) in YList::pop: a list in the keyspace is never    *)
(* empty when an element is popped.                                         *)
PopAssertHolds == process # "assertFailed"

(* The client reads one value, or cannot make out a value at all.            *)
ClientReads(r) ==
    IF Len(r) = 1 /\ r[1].kind \in {"int", "bulk", "null", "status", "error"}
    THEN r[1]
    ELSE IF Len(r) > 0 /\ r[1].kind = "array" /\ Len(r) = 1 + r[1].val
    THEN [kind |-> "array", val |-> [i \in 1..r[1].val |-> r[i + 1].val]]
    ELSE [kind |-> "none"]

(* Every command is answered, by a process that lives on, with exactly one   *)
(* complete protocol reply, so that a client that sends the next one after   *)
(* it stays in step with the server.                                         *)
OneReplyPerCommand ==
    request # <<>> => process = "running" /\ ClientReads(reply).kind # "none"

-----------------------------------------------------------------------------
(* Refinement: encodings decoded, the two maps of a sorted set reduced to    *)
(* the scores of its members, the reply as the client reads it.              *)
Abstract(o) ==
    [type |-> o.type,
     value |-> IF o.type = "string" THEN Decode(o)
               ELSE IF o.type = "zset" THEN o.value.member2Scores
               ELSE o.value]

AbstractStore == [k \in DOMAIN store |-> Abstract(store[k])]

(* What RedisKeyspace is told about a text.                                  *)
IsLiteral(s) == AsLong[s] # NotLong
LiteralOf(s) == AsLong[s]
InDecimal(s) == ToText[AsLong[s]]
IsScore(s)   == s \in ScoreTexts
ScoreOf(s)   == AsDouble[s]

(* The ways in which this code departs from Redis, of those RedisKeyspace    *)
(* knows: all of them.                                                       *)
Yedis == INSTANCE RedisKeyspace WITH
           Departures <- {"C literals are numbers", "any text is a score",
                          "members keep their scores", "HSET answers 1"},
           db <- AbstractStore, result <- ClientReads(reply)

(* The commands do to the keyspace what Redis does, and a command that       *)
(* applies is answered with the one value Redis answers with, but for the    *)
(* four departures.                                                          *)
ImplementsRedisButFor == Yedis!Spec

Redis == INSTANCE RedisKeyspace WITH
           Departures <- {},
           db <- AbstractStore, result <- ClientReads(reply)

(* The commands do what Redis does.                                          *)
ImplementsRedis == Redis!Spec
=============================================================================
