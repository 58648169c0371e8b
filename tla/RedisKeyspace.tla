---------------------------- MODULE RedisKeyspace ----------------------------
(***************************************************************************)
(* What Redis promises of the commands, without encodings, iterators,      *)
(* paired maps or reply bytes: keys hold values of five types, a command   *)
(* answers with one value, and a command for which a key is missing or has *)
(* another type, or whose arguments are malformed, leaves the keyspace     *)
(* alone (its answer is not specified here).                               *)
(*                                                                         *)
(* Departures names what an implementation does otherwise; without any,    *)
(* this is Redis.                                                          *)
(***************************************************************************)
EXTENDS Integers, Sequences, FiniteSets

CONSTANTS Requests,        (* the commands a client may send                 *)
          IsLiteral(_),    (* a text spells an integer as a C program may    *)
          LiteralOf(_),    (* that integer                                   *)
          InDecimal(_),    (* its decimal text                               *)
          IsScore(_),      (* a text spells a number                         *)
          ScoreOf(_),      (* the number, or what becomes of another text    *)
          Departures       (* some of "C literals are numbers", "any text is *)
                           (* a score", "members keep their scores" and      *)
                           (* "HSET answers 1"                               *)

VARIABLES db,              (* [keys that exist -> [type, value]]             *)
          request,         (* the last command                               *)
          result           (* what the client read as its answer             *)

vars == <<db, request, result>>

TypeOfCommand == [get |-> "string",
                  LPUSH |-> "list", RPUSH |-> "list", LPUSHX |-> "list", RPUSHX |-> "list",
                  LPOP |-> "list", RPOP |-> "list", LLEN |-> "list", LRANGE |-> "list",
                  SADD |-> "set", SCARD |-> "set", SMEMBERS |-> "set", SPOP |-> "set",
                  HSET |-> "hash", HGET |-> "hash", ZADD |-> "zset"]

(* Commands that treat a missing key as an empty value of their type.        *)
Creators == {"LPUSH", "RPUSH", "SADD", "HSET", "ZADD"}

Empty == [list |-> <<>>, set |-> {}, hash |-> <<>>, zset |-> <<>>]

Has(k, type) == k \in DOMAIN db /\ db[k].type = type
ValueAt(k, type) == IF Has(k, type) THEN db[k].value ELSE Empty[type]

With(k, t, v) ==
    [x \in DOMAIN db \cup {k} |-> IF x = k THEN [type |-> t, value |-> v] ELSE db[x]]
Without(k) == [x \in DOMAIN db \ {k} |-> db[x]]

Store(k, t, v) == db' = IF v = Empty[t] THEN Without(k) ELSE With(k, t, v)
Answer(r) == result' = r
Just(r) == Answer(r) /\ UNCHANGED db

Number(n) == [kind |-> "int", val |-> n]
Text(s)   == [kind |-> "bulk", val |-> s]
Texts(q)  == [kind |-> "array", val |-> q]
Nil       == [kind |-> "null"]
Ok        == [kind |-> "status"]

Reversed(q) == [i \in DOMAIN q |-> q[Len(q) + 1 - i]]
SetOf(q) == {q[i] : i \in DOMAIN q}

(* The elements from index a to index b, both counted from 0, or from the    *)
(* end if negative.                                                          *)
Slice(q, a, b) ==
    LET n == Len(q)
        absolute(i) == IF i < 0 THEN n + i ELSE i
        wanted == {i \in 1..n : absolute(a) <= i - 1 /\ i - 1 <= absolute(b)}
        first == CHOOSE i \in wanted : \A j \in wanted : i <= j
    IN  IF wanted = {} THEN <<>> ELSE SubSeq(q, first, first + Cardinality(wanted) - 1)

-----------------------------------------------------------------------------
Departs(d) == d \in Departures

(* Redis keeps a text as it was set.                                         *)
Kept(s) == IF Departs("C literals are numbers") /\ IsLiteral(s) THEN InDecimal(s) ELSE s

(* Redis takes an index in decimal only.                                     *)
IsIndex(s) == /\ IsLiteral(s)
              /\ Departs("C literals are numbers") \/ InDecimal(s) = s

Set(k, s) == db' = With(k, "string", Kept(s)) /\ Answer(Ok)

SetNX(k, s) == IF k \in DOMAIN db THEN Just(Number(0))
               ELSE db' = With(k, "string", Kept(s)) /\ Answer(Number(1))

ListCommand(c, k, args) ==
    LET q == ValueAt(k, "list")
        pushed == IF c \in {"LPUSH", "LPUSHX"} THEN Reversed(args) \o q ELSE q \o args
    IN  CASE c \in {"LPUSH", "RPUSH", "LPUSHX", "RPUSHX"} ->
               Store(k, "list", pushed) /\ Answer(Number(Len(pushed)))
          [] c = "LPOP" -> Store(k, "list", Tail(q)) /\ Answer(Text(q[1]))
          [] c = "RPOP" -> Store(k, "list", SubSeq(q, 1, Len(q) - 1)) /\ Answer(Text(q[Len(q)]))
          [] c = "LLEN" -> Just(Number(Len(q)))
          [] c = "LRANGE" -> Just(Texts(Slice(q, LiteralOf(args[1]), LiteralOf(args[2]))))

SetCommand(c, k, args) ==
    LET s == ValueAt(k, "set")
    IN  CASE c = "SADD" -> /\ Store(k, "set", s \cup SetOf(args))
                           /\ Answer(Number(Cardinality(SetOf(args) \ s)))
          [] c = "SCARD" -> Just(Number(Cardinality(s)))
          [] c = "SMEMBERS" -> /\ UNCHANGED db
                               /\ result'.kind = "array"
                               /\ Len(result'.val) = Cardinality(s)
                               /\ SetOf(result'.val) = s
          [] c = "SPOP" -> \E m \in s : Store(k, "set", s \ {m}) /\ Answer(Text(m))

HashCommand(c, k, args) ==
    LET h == ValueAt(k, "hash")
        new == [f \in DOMAIN h \cup {args[1]} |-> IF f = args[1] THEN args[2] ELSE h[f]]
        isNew == args[1] \notin DOMAIN h
    IN  CASE c = "HSET" ->
               /\ Store(k, "hash", new)
               /\ Answer(Number(IF isNew \/ Departs("HSET answers 1") THEN 1 ELSE 0))
          [] c = "HGET" -> Just(IF args[1] \in DOMAIN h THEN Text(h[args[1]]) ELSE Nil)

(* The last score given for a member counts.                                 *)
SortedSetCommand(k, args) ==
    LET z == ValueAt(k, "zset")
        keep == Departs("members keep their scores")
        pairs == 1..(Len(args) \div 2)
        named == {args[2 * i] : i \in pairs}
        countsOver(i, j) == IF keep THEN i <= j ELSE i >= j
        chosen(m) == CHOOSE i \in pairs : /\ args[2 * i] = m
                                          /\ \A j \in pairs : args[2 * j] = m => countsOver(i, j)
        scored == IF keep THEN named \ DOMAIN z ELSE named
    IN  /\ Store(k, "zset", [m \in DOMAIN z \cup named |->
                               IF m \in scored THEN ScoreOf(args[2 * chosen(m) - 1]) ELSE z[m]])
        /\ Answer(Number(Cardinality(named \ DOMAIN z)))

(* The key is there with the command's type, or the command creates it, and  *)
(* its arguments are well-formed.                                            *)
Applicable(c, k, args) ==
    /\ Has(k, TypeOfCommand[c]) \/ (c \in Creators /\ k \notin DOMAIN db)
    /\ c = "LRANGE" => IsIndex(args[1]) /\ IsIndex(args[2])
    /\ c = "ZADD" => /\ Len(args) % 2 = 0
                     /\ \A i \in 1..(Len(args) \div 2) :
                          Departs("any text is a score") \/ IsScore(args[2 * i - 1])

(* What an applicable command does.                                          *)
Perform(c, k, args) ==
    CASE c = "get" -> Just(Text(db[k].value))
      [] c \in {"LPUSH", "RPUSH", "LPUSHX", "RPUSHX", "LPOP", "RPOP", "LLEN", "LRANGE"} ->
           ListCommand(c, k, args)
      [] c \in {"SADD", "SCARD", "SMEMBERS", "SPOP"} -> SetCommand(c, k, args)
      [] c \in {"HSET", "HGET"} -> HashCommand(c, k, args)
      [] c = "ZADD" -> SortedSetCommand(k, args)

Command(c, k, args) ==
    IF c = "set" THEN Set(k, args[1])
    ELSE IF c = "setnx" THEN SetNX(k, args[1])
    ELSE IF Applicable(c, k, args) THEN Perform(c, k, args)
    ELSE UNCHANGED db

Init == db = <<>> /\ request = <<>> /\ result = [kind |-> "none"]

Next ==
    \E r \in Requests :
      /\ request' = r
      /\ IF Len(r) = 1 THEN UNCHANGED db
         ELSE Command(r[1], r[2], SubSeq(r, 3, Len(r)))

Spec == Init /\ [][Next]_vars
=============================================================================
