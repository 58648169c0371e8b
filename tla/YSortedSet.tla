----------------------------- MODULE YSortedSet -----------------------------
(* src/src/YSortedSet.cpp: a sorted set is two maps, from members to scores  *)
(* and from scores to members.                                               *)
EXTENDS YStore

findMember(zset, member) == member \in DOMAIN zset.member2Scores

(* operator< of doubles.                                                     *)
less(a, b) == NaN \notin {a, b} /\ a < b

(* The key operator[] of std::map finds or makes for a score: the first key  *)
(* that is not less (lower_bound), unless the score is less than that one.   *)
(* NaN, which nothing is less than, is thus taken for the first key there    *)
(* is, and as a key is taken for every score.                                *)
keyOf(keys, score) ==
    LET notLess == {s \in keys : ~less(s, score)}
        first == CHOOSE s \in notLess : \A t \in notLess : ~less(t, s)
    IN  IF notLess = {} \/ less(score, first) THEN score ELSE first

(* Both maps gain the member; the caller has seen that it is absent.         *)
addMember(zset, member, score) ==
    LET at(s) == IF s \in DOMAIN zset.score2Members THEN zset.score2Members[s] ELSE {}
        key == keyOf(DOMAIN zset.score2Members, score)
    IN  [member2Scores |->
            [m \in DOMAIN zset.member2Scores \cup {member} |->
               IF m = member THEN score ELSE zset.member2Scores[m]],
         score2Members |->
            [s \in DOMAIN zset.score2Members \cup {key} |->
               IF s = key THEN at(s) \cup {member} ELSE at(s)]]

(* The (score, member) pairs that follow the key, in their order.            *)
ScoresAndMembers(params) ==
    [i \in 1..((Len(params) - 2) \div 2) |->
       [score |-> AsDouble[params[2 * i + 1]], member |-> params[2 * i + 2]]]

(* Mutant of addIfAbsent: a present member is filed under the new score too. *)
addAlways(zset, pair) == addMember(zset, pair.member, pair.score)

(* A member that is present keeps its score.                                 *)
addIfAbsent(zset, pair) ==
    IF findMember(zset, pair.member) THEN zset ELSE addMember(zset, pair.member, pair.score)

(* The loop of zadd: the sorted set after each pair.                         *)
Added(zset, pairs) ==
    LET upTo[i \in 0 .. Len(pairs)] ==
          IF i = 0 THEN zset ELSE addIfAbsent(upTo[i - 1], pairs[i])
    IN  upTo[Len(pairs)]

(* An odd number of parameters is a syntax error.  getOrCreateSortedset      *)
(* returns nullptr for a key of another type and zadd uses it unchecked.     *)
zadd(params) ==
    LET key == params[2]
        err == getValueByType(key, "zset")
        old == IF err = "ok" THEN store[key].value ELSE createSSet.value
        new == Added(old, ScoresAndMembers(params))
        newMembers == Cardinality(DOMAIN new.member2Scores)
                        - Cardinality(DOMAIN old.member2Scores)
    IN  IF Len(params) % 2 # 0 THEN Refuse(<<Error>>)
        ELSE IF err = "type"
        THEN process' = "nullDereference" /\ UNCHANGED <<store, reply>>
        ELSE /\ store' = setValue(key, [createSSet EXCEPT !.value = new])
             /\ Reply(<<formatInt(newMembers)>>)
=============================================================================
