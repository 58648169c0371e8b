--------------------------- MODULE YCommandProofs ---------------------------
(***************************************************************************)
(* Theorems about YCommand for any keys, texts, commands and bounds, if a  *)
(* client that pushes or adds names at least one value (MinMembers = 1):   *)
(* no empty list, set or hash stays in the keyspace, so the assert of pop  *)
(* holds; the two maps of a sorted set fit; and every command does what    *)
(* RedisKeyspace promises, but for the four departures that YCommand       *)
(* names.  The run list_empty_push shows that the condition is needed, the *)
(* run redis that the departures are.                                      *)
(***************************************************************************)
EXTENDS YCommand, NatRecursion, TLAPS

(* An object that a lookup may find.                                        *)
Kept(o) ==
    /\ o = [type |-> o.type, encoding |-> o.encoding, value |-> o.value]
    /\ o.type = "list" => o.value \in Seq(Strings) \ {<<>>}
    /\ o.type = "set" => o.value # {}
    /\ o.type = "hash" => DOMAIN o.value # {}

StoreKept == \A k \in DOMAIN store : Kept(store[k])

KeptInv == MinMembers = 1 /\ StoreKept /\ process # "assertFailed"

LEMMA Found ==
    ASSUME KeptInv, NEW key, NEW type, type # "invalid", getValueByType(key, type) = "ok"
    PROVE  key \in DOMAIN store /\ store[key].type = type /\ Kept(store[key])
BY DEF getValueByType, KeptInv, StoreKept

(* Replacing, changing and deleting an object.                              *)
LEMMA Set ==
    ASSUME KeptInv, NEW key, NEW o, Kept(o), store' = setValue(key, o)
    PROVE  StoreKept'
BY DEF setValue, KeptInv, StoreKept

LEMMA Deleted ==
    ASSUME KeptInv, NEW key, store' = deleteKey(key)
    PROVE  StoreKept'
BY DEF deleteKey, Restrict, KeptInv, StoreKept

LEMMA Changed ==
    ASSUME KeptInv, NEW key \in DOMAIN store, NEW v,
           Kept([type |-> store[key].type, encoding |-> store[key].encoding, value |-> v]),
           store' = Update(key, v)
    PROVE  StoreKept'
<1>1. store[key] = [type |-> store[key].type, encoding |-> store[key].encoding, value |-> store[key].value]
  BY DEF KeptInv, StoreKept, Kept
<1>2. [store[key] EXCEPT !.value = v] = [type |-> store[key].type, encoding |-> store[key].encoding, value |-> v]
  BY <1>1
<1>3. /\ DOMAIN store' = DOMAIN store
      /\ \A k \in DOMAIN store : store'[k] = IF k = key THEN [store[key] EXCEPT !.value = v] ELSE store[k]
  BY DEF Update
<1> QED
  BY <1>2, <1>3 DEF KeptInv, StoreKept

LEMMA Refused ==
    ASSUME KeptInv, NEW r, Refuse(r)
    PROVE  StoreKept' /\ process' # "assertFailed"
BY DEF Refuse, Reply, KeptInv, StoreKept

LEMMA Replied ==
    ASSUME KeptInv, NEW r, Reply(r)
    PROVE  process' # "assertFailed"
BY DEF Reply, KeptInv

(* A text makes a string, whatever it denotes.                              *)
LEMMA StringKept ==
    ASSUME NEW s
    PROVE  Kept(createString(s))
BY DEF createString, Kept

-----------------------------------------------------------------------------
(* Requests.                                                                *)

(* The commands that would leave an empty collection if they had no value.  *)
Adders == {"LPUSH", "RPUSH", "LPUSHX", "RPUSHX", "SADD"}

LEMMA Counts ==
    ASSUME NEW c \in KeyCommands, NEW n \in ParamCounts[c]
    PROVE  n \in Nat /\ n >= 2 /\ (MinMembers = 1 /\ c \in Adders => n >= 3)
BY BoundsAssumption DEF KeyCommands, ParamCounts, Adders

(* What follows the key is texts, and an adder names one.                   *)
LEMMA RequestShape ==
    ASSUME NEW params \in Requests, params[1] \in KeyCommands
    PROVE  /\ params[2] \in Keys
           /\ Len(params) \in ParamCounts[params[1]]
           /\ Len(params) \in Nat /\ Len(params) >= 2
           /\ MinMembers = 1 /\ params[1] \in Adders => Len(params) >= 3
           /\ \A i \in 3 .. Len(params) : params[i] \in Strings
           /\ SubSeq(params, 3, Len(params)) \in Seq(Strings)
           /\ Len(SubSeq(params, 3, Len(params))) = Len(params) - 2
           /\ \A i \in 1 .. Len(params) - 2 : SubSeq(params, 3, Len(params))[i] = params[i + 2]
<1>1. PICK c \in KeyCommands : params \in RequestsOf(c)
  <2>1. KeyCommands \cap ({"COMMAND"} \cup Unregistered) = {}
    BY DEF KeyCommands, Unregistered
  <2>2. \A d : <<d>>[1] = d
    OBVIOUS
  <2> QED
    BY <2>1, <2>2 DEF Requests
<1>0. PICK k \in Keys, args \in ArgLists(c) : params = <<c, k>> \o args
  BY <1>1 DEF RequestsOf
<1>2. PICK n \in ParamCounts[c] : args \in [1..(n - 2) -> Strings]
  BY DEF ArgLists
<1>3. n \in Nat /\ n >= 2 /\ (MinMembers = 1 /\ c \in Adders => n >= 3)
  BY <1>2, Counts
<1> DEFINE S == {c, k} \cup Strings
<1>4. args \in Seq(S) /\ Len(args) = n - 2 /\ <<c, k>> \in Seq(S)
  BY <1>2, <1>3
<1>5. /\ params \in Seq(S) /\ Len(params) = n /\ params[1] = c /\ params[2] = k
      /\ \A i \in 3 .. n : params[i] = args[i - 2] /\ i - 2 \in 1 .. (n - 2)
  <2> HIDE DEF S
  <2> QED
    BY <1>0, <1>2, <1>3, <1>4
<1>6. \A i \in 3 .. n : params[i] \in Strings
  BY <1>2, <1>5
<1> HIDE DEF S
<1>7. /\ SubSeq(params, 3, n) \in Seq(Strings) /\ Len(SubSeq(params, 3, n)) = n - 2
      /\ \A i \in 1 .. n - 2 : SubSeq(params, 3, n)[i] = params[i + 2]
  <2>1. SubSeq(params, 3, n) = [i \in 1 .. (n - 2) |-> params[i + 2]]
    BY <1>3, <1>5
  <2>2. \A i \in 1 .. (n - 2) : i + 2 \in 3 .. n
    BY <1>3
  <2> QED
    BY <1>3, <1>6, <2>1, <2>2
<1> QED
  BY <1>3, <1>5, <1>6, <1>7

-----------------------------------------------------------------------------
(* Sorted sets.                                                             *)

ScoreMaps  == UNION {[M -> Doubles] : M \in SUBSET Strings}
MemberMaps == UNION {[S -> SUBSET Strings] : S \in SUBSET Doubles}

ZSets == [member2Scores : ScoreMaps, score2Members : MemberMaps]

(* The two maps of a sorted set fit.  NaN is a key only alone, and only      *)
(* because a member has it as its score; a member is filed under another     *)
(* score than its own only where one of the two is NaN.                      *)
Agree(z) ==
    /\ \A m \in DOMAIN z.member2Scores : \E s \in DOMAIN z.score2Members : FiledUnder(z, m) = {s}
    /\ \A s \in DOMAIN z.score2Members :
         z.score2Members[s] # {} /\ z.score2Members[s] \subseteq DOMAIN z.member2Scores
    /\ NaN \in DOMAIN z.score2Members =>
         /\ DOMAIN z.score2Members = {NaN}
         /\ \E m \in DOMAIN z.member2Scores : z.member2Scores[m] = NaN
    /\ \A m \in DOMAIN z.member2Scores, s \in DOMAIN z.score2Members :
         m \in z.score2Members[s] => NaN \in {s, z.member2Scores[m]} \/ s = z.member2Scores[m]

SortedSets == {z \in ZSets : Agree(z) /\ IsFiniteSet(DOMAIN z.member2Scores)}

Pairs == [score : Doubles, member : Strings]

LEMMA SortedSetParts ==
    ASSUME NEW z \in SortedSets
    PROVE  /\ DOMAIN z.member2Scores \subseteq Strings
           /\ \A m \in DOMAIN z.member2Scores : z.member2Scores[m] \in Doubles
           /\ DOMAIN z.score2Members \subseteq Doubles
           /\ \A s \in DOMAIN z.score2Members : z.score2Members[s] \subseteq Strings
           /\ Agree(z) /\ IsFiniteSet(DOMAIN z.member2Scores)
<1>1. z.member2Scores \in ScoreMaps /\ z.score2Members \in MemberMaps
  BY DEF SortedSets, ZSets
<1>2. PICK M \in SUBSET Strings : z.member2Scores \in [M -> Doubles]
  BY <1>1 DEF ScoreMaps
<1>3. PICK S \in SUBSET Doubles : z.score2Members \in [S -> SUBSET Strings]
  BY <1>1 DEF MemberMaps
<1> QED
  BY <1>2, <1>3 DEF SortedSets

LEMMA EmptySortedSet == createSSet.value \in SortedSets /\ DOMAIN createSSet.value.member2Scores = {}
<1> DEFINE e == <<>>
           z == [member2Scores |-> e, score2Members |-> e]
<1>1. createSSet.value = z
  BY DEF createSSet
<1>2. DOMAIN e = {}
  OBVIOUS
<1>3. e \in [{} -> Doubles] /\ e \in [{} -> SUBSET Strings]
  OBVIOUS
<1>4. e \in ScoreMaps
  BY <1>3 DEF ScoreMaps
<1>5. e \in MemberMaps
  BY <1>3 DEF MemberMaps
<1> HIDE DEF e
<1>6. z \in ZSets
  BY <1>4, <1>5 DEF ZSets
<1>7. Agree(z) /\ IsFiniteSet(DOMAIN z.member2Scores)
  BY <1>2, FS_EmptySet DEF Agree
<1> HIDE DEF z
<1>8. z \in SortedSets
  BY <1>6, <1>7 DEF SortedSets
<1> QED
  BY <1>1, <1>2, <1>8 DEF z

(* A lookup in a map with NaN for a key finds NaN; in one without, it finds  *)
(* or makes the score, or, if that is NaN, finds a key if there is one.      *)
LEMMA KeyFound ==
    ASSUME NEW keys \in SUBSET Doubles, NaN \in keys => keys = {NaN}, NEW score \in Doubles
    PROVE  /\ NaN \in keys => keyOf(keys, score) = NaN
           /\ keyOf(keys, score) # score => keyOf(keys, score) \in keys /\ NaN \in {score, keyOf(keys, score)}
           /\ score = NaN /\ keys # {} => keyOf(keys, score) \in keys
<1> DEFINE notLess == {s \in keys : ~less(s, score)}
           first == CHOOSE s \in notLess : \A t \in notLess : ~less(t, s)
<1>1. keyOf(keys, score) = IF notLess = {} \/ less(score, first) THEN score ELSE first
  BY DEF keyOf
<1>2. CASE keys = {NaN}
  <2>1. notLess = {NaN}
    BY <1>2 DEF less
  <2>2. \A t \in notLess : ~less(t, NaN)
    BY DEF less
  <2>3. first = NaN
    BY <2>1, <2>2
  <2>4. ~less(score, NaN)
    BY DEF less
  <2> HIDE DEF notLess, first
  <2> QED
    BY <1>1, <1>2, <2>1, <2>3, <2>4
<1>3. CASE keys # {NaN}
  <2>1. keys \subseteq Nat /\ notLess \subseteq Nat /\ NaN \notin keys
    BY <1>3 DEF Doubles
  <2>2. ASSUME notLess # {}
        PROVE  first \in notLess /\ first \in Nat
    <3>0. notLess \in SUBSET Nat
      BY <2>1
    <3>1. PICK n \in notLess : \A t \in notLess : n <= t
      <4> HIDE DEF notLess
      <4> QED
        BY <2>2, <3>0, LeastNumber
    <3>2. \A t \in notLess : ~less(t, n)
      BY <2>1, <3>1 DEF less
    <3> HIDE DEF notLess
    <3> QED
      BY <2>1, <3>1, <3>2
  <2>3. CASE score = NaN
    <3>1. notLess = keys /\ ~less(score, first)
      BY <2>3 DEF less
    <3> HIDE DEF notLess, first
    <3> QED
      BY <1>1, <2>1, <2>2, <2>3, <3>1
  <2>4. CASE score \in Nat
    <3>1. \A s \in keys : ~less(s, score) => s = score \/ less(score, s)
      BY <2>1, <2>4, TextAssumption DEF less
    <3>2. notLess # {} /\ ~less(score, first) => first = score
      BY <2>2, <3>1
    <3> HIDE DEF notLess, first
    <3> QED
      BY <1>1, <2>1, <2>4, <3>2, TextAssumption
  <2> QED
    BY <2>3, <2>4 DEF Doubles
<1> QED
  BY <1>2, <1>3

(* A member added to both maps leaves them in agreement.                     *)
LEMMA MemberAdded ==
    ASSUME NEW z \in SortedSets, NEW pair \in Pairs, ~findMember(z, pair.member)
    PROVE  addMember(z, pair.member, pair.score) \in SortedSets
<1> DEFINE m0 == pair.member
           score == pair.score
           M == DOMAIN z.member2Scores
           S == DOMAIN z.score2Members
           s0 == keyOf(S, score)
           at(s) == IF s \in S THEN z.score2Members[s] ELSE {}
           scores == [m \in M \cup {m0} |-> IF m = m0 THEN score ELSE z.member2Scores[m]]
           members == [s \in S \cup {s0} |-> IF s = s0 THEN at(s) \cup {m0} ELSE at(s)]
           new == [member2Scores |-> scores, score2Members |-> members]
<1>0. addMember(z, m0, score) = new
  BY DEF addMember
<1>1. m0 \in Strings /\ score \in Doubles /\ m0 \notin M
  BY DEF Pairs, findMember
<1>2. scores \in [M \cup {m0} -> Doubles] /\ M \cup {m0} \in SUBSET Strings
  BY <1>1, SortedSetParts
<1>8. /\ NaN \in S => s0 = NaN
      /\ s0 # score => s0 \in S /\ NaN \in {score, s0}
      /\ score = NaN /\ S # {} => s0 \in S
      /\ s0 \in Doubles
  <2>1. S \in SUBSET Doubles /\ (NaN \in S => S = {NaN})
    BY SortedSetParts DEF Agree
  <2> HIDE DEF S, score
  <2> QED
    BY <1>1, <2>1, KeyFound
<1> HIDE DEF s0
<1>3. members \in [S \cup {s0} -> SUBSET Strings] /\ S \cup {s0} \in SUBSET Doubles
  BY <1>1, <1>8, SortedSetParts
<1>4. scores \in ScoreMaps /\ members \in MemberMaps
  <2> HIDE DEF scores, members
  <2> QED
    BY <1>2, <1>3 DEF ScoreMaps, MemberMaps
<1>5. new \in ZSets
  <2> HIDE DEF scores, members
  <2> QED
    BY <1>4 DEF ZSets
<1>6. IsFiniteSet(DOMAIN new.member2Scores)
  BY SortedSetParts, FS_AddElement
<1>7. Agree(new)
  <2>0. /\ Agree(z)
        /\ \A s \in S : m0 \notin z.score2Members[s]
    BY <1>1, SortedSetParts DEF Agree
  <2>1. ASSUME NEW m \in M \cup {m0}
        PROVE  \E s \in S \cup {s0} : FiledUnder(new, m) = {s}
    <3>1. FiledUnder(new, m) = {s \in S \cup {s0} : m \in members[s]}
      BY DEF FiledUnder
    <3>2. CASE m = m0
      <4>1. \A s \in S \cup {s0} : m0 \in members[s] <=> s = s0
        BY <2>0
      <4> HIDE DEF members
      <4> QED
        BY <3>1, <3>2, <4>1
    <3>3. CASE m \in M /\ m # m0
      <4>1. \A s \in S \cup {s0} : m \in members[s] <=> s \in FiledUnder(z, m)
        BY <3>3 DEF FiledUnder
      <4>2. PICK s \in S : FiledUnder(z, m) = {s}
        BY <2>0, <3>3 DEF Agree
      <4> HIDE DEF members, S
      <4> QED
        BY <3>1, <4>1, <4>2
    <3> QED
      BY <3>2, <3>3
  <2>2. \A s \in S \cup {s0} : members[s] # {} /\ members[s] \subseteq M \cup {m0}
    BY <2>0 DEF Agree
  <2>3. ASSUME NaN \in S \cup {s0}
        PROVE  S \cup {s0} = {NaN} /\ \E m \in M \cup {m0} : scores[m] = NaN
    <3>1. CASE NaN \in S
      BY <1>1, <1>8, <2>0, <3>1 DEF Agree
    <3>2. CASE NaN \notin S /\ s0 = NaN
      <4>1. score = NaN /\ S = {}
        BY <1>8, <3>2
      <4> QED
        BY <3>2, <4>1
    <3> QED
      BY <2>3, <3>1, <3>2
  <2>4. ASSUME NEW m \in M \cup {m0}, NEW s \in S \cup {s0}, m \in members[s]
        PROVE  NaN \in {s, scores[m]} \/ s = scores[m]
    <3>1. CASE m = m0
      <4>1. s = s0
        BY <2>0, <2>4, <3>1
      <4> QED
        BY <1>8, <3>1, <4>1
    <3>2. CASE m \in M /\ m # m0
      <4>1. s \in S /\ m \in z.score2Members[s] /\ scores[m] = z.member2Scores[m]
        BY <2>4, <3>2
      <4> QED
        BY <2>0, <3>2, <4>1 DEF Agree
    <3> QED
      BY <3>1, <3>2
  <2>5. DOMAIN new.member2Scores = M \cup {m0} /\ DOMAIN new.score2Members = S \cup {s0}
        /\ new.member2Scores = scores /\ new.score2Members = members
    OBVIOUS
  <2> HIDE DEF new, scores, members, M, S
  <2> QED
    BY <2>1, <2>2, <2>3, <2>4, <2>5 DEF Agree
<1> HIDE DEF new
<1> QED
  BY <1>0, <1>5, <1>6, <1>7 DEF SortedSets

LEMMA AddedIfAbsent ==
    ASSUME NEW z \in SortedSets, NEW pair \in Pairs
    PROVE  addIfAbsent(z, pair) \in SortedSets
BY MemberAdded DEF addIfAbsent

(* The loop of zadd, pair by pair.                                           *)
LEMMA LoopSteps ==
    ASSUME NEW z \in SortedSets, NEW pairs \in Seq(Pairs)
    PROVE  \E upTo \in [0 .. Len(pairs) -> SortedSets] :
              /\ upTo[0] = z
              /\ \A i \in 1 .. Len(pairs) : upTo[i] = addIfAbsent(upTo[i - 1], pairs[i])
              /\ Added(z, pairs) = upTo[Len(pairs)]
<1> DEFINE n == Len(pairs)
           F == [i \in 1 .. n |-> [t \in SortedSets |-> addIfAbsent(t, pairs[i])]]
           E(g) == [i \in 0 .. n |-> IF i = 0 THEN z ELSE addIfAbsent(g[i - 1], pairs[i])]
           loop == CHOOSE g : g = E(g)
<1>0. n \in Nat /\ \A i \in 1 .. n : pairs[i] \in Pairs
  OBVIOUS
<1>1. F \in [1 .. n -> [SortedSets -> SortedSets]]
  BY <1>0, AddedIfAbsent
<1>2. \E g \in [0 .. n -> SortedSets] : Iterates(g, z, n, F)
  <2> HIDE DEF F, n
  <2> QED
    BY <1>0, <1>1, IterationExists
<1>3. PICK g \in [0 .. n -> SortedSets] : g = [i \in 0 .. n |-> IF i = 0 THEN z ELSE F[i][g[i - 1]]]
  BY <1>2 DEF Iterates
<1>4. \A i \in 1 .. n : g[i - 1] \in SortedSets /\ F[i][g[i - 1]] = addIfAbsent(g[i - 1], pairs[i])
  BY <1>0
<1>5. g = E(g)
  <2> HIDE DEF F, n
  <2> QED
    BY <1>0, <1>3, <1>4
<1>6. loop = E(loop)
  <2> HIDE DEF E
  <2> QED
    BY <1>5
<1>7. DOMAIN loop = 0 .. n /\ loop[0] = z /\ \A i \in 1 .. n : loop[i] = addIfAbsent(loop[i - 1], pairs[i])
  <2> HIDE DEF loop, n
  <2> QED
    BY <1>0, <1>6
<1>8. \A i \in 0 .. n : loop[i] \in SortedSets
  <2> DEFINE S == {i \in 0 .. n : loop[i] \in SortedSets}
  <2> HIDE DEF loop, n
  <2>1. 0 \in S
    BY <1>0, <1>7
  <2>2. \A i \in 1 .. n : i - 1 \in S => i \in S
    BY <1>0, <1>7, AddedIfAbsent
  <2>3. \A i \in 0 .. n : i \in S
    <3> HIDE DEF S
    <3> QED
      BY <1>0, <2>1, <2>2, IndicesReached
  <2> QED
    BY <2>3
<1>9. Added(z, pairs) = loop[n]
  BY DEF Added
<1>10. loop \in [0 .. n -> SortedSets]
  <2> HIDE DEF loop
  <2>1. loop = [i \in 0 .. n |-> loop[i]]
    BY <1>6, <1>7
  <2> QED
    BY <1>8, <2>1
<1> HIDE DEF loop
<1> QED
  BY <1>7, <1>9, <1>10

-----------------------------------------------------------------------------
(* Types.  An object is one of six kinds, whatever the commands do.          *)

RawStrings   == [type : {"string"}, encoding : {"raw"}, value : Strings]
IntStrings   == [type : {"string"}, encoding : {"int"}, value : DOMAIN ToText]
Lists        == [type : {"list"}, encoding : {"list"}, value : Seq(Strings)]
PlainSets    == [type : {"set"}, encoding : {"set"}, value : FiniteSubsetsOf(Strings)]
FieldMaps    == UNION {[F -> Strings] : F \in SUBSET Strings}
Hashes       == [type : {"hash"}, encoding : {"hash"}, value : FieldMaps]
ScoredSets   == [type : {"zset"}, encoding : {"zset"}, value : SortedSets]

Objects == RawStrings \cup IntStrings \cup Lists \cup PlainSets \cup Hashes \cup ScoredSets

TypedStore == DOMAIN store \subseteq Keys /\ \A k \in DOMAIN store : store[k] \in Objects

TypedInv ==
    /\ TypedStore
    /\ process \in {"running", "assertFailed", "nullDereference"}
    /\ request \in Requests \cup {<<>>}

(* What a command may do to the keyspace: nothing, replace one object, or    *)
(* delete one.                                                              *)
TypedEffect ==
    /\ \/ UNCHANGED store
       \/ \E key \in Keys, o \in Objects : store' = setValue(key, o)
       \/ \E key : store' = deleteKey(key)
    /\ process' \in {"running", "assertFailed", "nullDereference"}

LEMMA EffectTyped ==
    ASSUME TypedStore, TypedEffect
    PROVE  TypedStore'
<1>1. CASE UNCHANGED store
  BY <1>1 DEF TypedStore
<1>2. CASE \E key \in Keys, o \in Objects : store' = setValue(key, o)
  <2>1. PICK key \in Keys, o \in Objects : store' = setValue(key, o)
    BY <1>2
  <2>2. /\ DOMAIN store' = DOMAIN store \cup {key}
        /\ \A k \in DOMAIN store' : store'[k] = IF k = key THEN o ELSE store[k]
    BY <2>1 DEF setValue
  <2> QED
    BY <2>2 DEF TypedStore
<1>3. CASE \E key : store' = deleteKey(key)
  <2>1. PICK key : store' = deleteKey(key)
    BY <1>3
  <2>2. /\ DOMAIN store' = DOMAIN store \ {key}
        /\ \A k \in DOMAIN store' : store'[k] = store[k]
    BY <2>1 DEF deleteKey, Restrict
  <2> QED
    BY <2>2 DEF TypedStore
<1> QED
  BY <1>1, <1>2, <1>3 DEF TypedEffect

(* The value of an object found is what its type says.                       *)
LEMMA ValueOfType ==
    ASSUME NEW o \in Objects
    PROVE  /\ o.type = "string" => \/ o.encoding = "raw" /\ o.value \in Strings
                                   \/ o.encoding = "int" /\ o.value \in DOMAIN ToText
           /\ o.type = "list" => o.value \in Seq(Strings)
           /\ o.type = "set" => o.value \in SUBSET Strings /\ IsFiniteSet(o.value)
           /\ o.type = "hash" => o.value \in FieldMaps
           /\ o.type = "zset" => o.value \in SortedSets
           /\ o.type \in {"string", "list", "set", "hash", "zset"}
           /\ o.type # "string" => o.encoding = o.type
           /\ o = [type |-> o.type, encoding |-> o.encoding, value |-> o.value]
<1>1. CASE o \in RawStrings
  BY <1>1 DEF RawStrings
<1>2. CASE o \in IntStrings
  BY <1>2 DEF IntStrings
<1>3. CASE o \in Lists
  BY <1>3 DEF Lists
<1>4. CASE o \in PlainSets
  BY <1>4 DEF PlainSets, FiniteSubsetsOf
<1>5. CASE o \in Hashes
  BY <1>5 DEF Hashes
<1>6. CASE o \in ScoredSets
  BY <1>6 DEF ScoredSets
<1> QED
  BY <1>1, <1>2, <1>3, <1>4, <1>5, <1>6 DEF Objects

LEMMA FoundTyped ==
    ASSUME TypedStore, NEW key, NEW type, type # "invalid", getValueByType(key, type) = "ok"
    PROVE  key \in DOMAIN store /\ key \in Keys /\ store[key] \in Objects /\ store[key].type = type
BY DEF getValueByType, TypedStore

LEMMA ObjectsMade ==
    /\ \A s \in Strings : createString(s) \in Objects
    /\ \A q \in Seq(Strings) : [createList EXCEPT !.value = q] \in Objects
    /\ \A s \in SUBSET Strings : IsFiniteSet(s) => [createSet EXCEPT !.value = s] \in Objects
    /\ \A h \in FieldMaps : [createHash EXCEPT !.value = h] \in Objects
    /\ \A z \in SortedSets : [createSSet EXCEPT !.value = z] \in Objects
<1>1. ASSUME NEW s \in Strings PROVE createString(s) \in Objects
  <2>1. CASE AsLong[s] # NotLong
    <3>1. AsLong[s] \in DOMAIN ToText
      BY <2>1, TextAssumption
    <3>2. createString(s) = [type |-> "string", encoding |-> "int", value |-> AsLong[s]]
      BY <2>1 DEF createString
    <3> QED
      BY <3>1, <3>2 DEF Objects, IntStrings
  <2>2. CASE AsLong[s] = NotLong
    BY <2>2 DEF createString, Objects, RawStrings
  <2> QED
    BY <2>1, <2>2
<1>2. ASSUME NEW q \in Seq(Strings) PROVE [createList EXCEPT !.value = q] \in Objects
  <2>1. [createList EXCEPT !.value = q] = [type |-> "list", encoding |-> "list", value |-> q]
    BY DEF createList
  <2> QED
    BY <2>1 DEF Objects, Lists
<1>3. ASSUME NEW s \in SUBSET Strings, IsFiniteSet(s) PROVE [createSet EXCEPT !.value = s] \in Objects
  <2>1. [createSet EXCEPT !.value = s] = [type |-> "set", encoding |-> "set", value |-> s]
    BY DEF createSet
  <2> QED
    BY <1>3, <2>1 DEF Objects, PlainSets, FiniteSubsetsOf
<1>4. ASSUME NEW h \in FieldMaps PROVE [createHash EXCEPT !.value = h] \in Objects
  <2>1. [createHash EXCEPT !.value = h] = [type |-> "hash", encoding |-> "hash", value |-> h]
    BY DEF createHash
  <2> QED
    BY <2>1 DEF Objects, Hashes
<1>5. ASSUME NEW z \in SortedSets PROVE [createSSet EXCEPT !.value = z] \in Objects
  <2>1. [createSSet EXCEPT !.value = z] = [type |-> "zset", encoding |-> "zset", value |-> z]
    BY DEF createSSet
  <2> QED
    BY <2>1 DEF Objects, ScoredSets
<1> QED
  BY <1>1, <1>2, <1>3, <1>4, <1>5

(* Changing an object in place is replacing it.                              *)
LEMMA UpdateReplaces ==
    ASSUME TypedStore, NEW key \in DOMAIN store, NEW v
    PROVE  Update(key, v) = setValue(key, [type |-> store[key].type, encoding |-> store[key].encoding, value |-> v])
<1>1. store[key] = [type |-> store[key].type, encoding |-> store[key].encoding, value |-> store[key].value]
  BY ValueOfType DEF TypedStore
<1>2. [store[key] EXCEPT !.value = v] = [type |-> store[key].type, encoding |-> store[key].encoding, value |-> v]
  BY <1>1
<1> DEFINE o == [type |-> store[key].type, encoding |-> store[key].encoding, value |-> v]
<1>3. Update(key, v) = [store EXCEPT ![key] = [store[key] EXCEPT !.value = v]]
  BY DEF Update
<1>4. Update(key, v) = [store EXCEPT ![key] = o]
  BY <1>2, <1>3
<1>5. DOMAIN store \cup {key} = DOMAIN store
  OBVIOUS
<1> HIDE DEF o
<1>6. [store EXCEPT ![key] = o] = [k \in DOMAIN store |-> IF k = key THEN o ELSE store[k]]
  OBVIOUS
<1>7. setValue(key, o) = [k \in DOMAIN store |-> IF k = key THEN o ELSE store[k]]
  BY <1>5 DEF setValue
<1> QED
  BY <1>4, <1>6, <1>7 DEF o

-----------------------------------------------------------------------------
(* The commands.                                                            *)

LEMMA StringsKeep ==
    ASSUME KeptInv, NEW params, setCmd(params) \/ getCmd(params) \/ setnxCmd(params)
    PROVE  StoreKept' /\ process' # "assertFailed"
<1>1. CASE getCmd(params)
  <2>1. store' = store /\ process' = process
    BY <1>1 DEF getCmd, Reply
  <2> QED
    BY <2>1 DEF KeptInv, StoreKept
<1>2. CASE store' = setValue(params[2], createString(params[3])) /\ \E r : Reply(r)
  BY <1>2, StringKept, Set, Replied
<1>3. CASE \E r : Refuse(r)
  BY <1>3, Refused
<1> QED
  BY <1>1, <1>2, <1>3 DEF setCmd, setnxCmd

LEMMA PushKeeps ==
    ASSUME KeptInv, NEW params \in Requests, params[1] \in Adders \ {"SADD"},
           NEW pos, NEW createIfNotExist, push(params, pos, createIfNotExist)
    PROVE  StoreKept' /\ process' # "assertFailed"
<1> DEFINE key == params[2]
           old == IF getValueByType(key, "list") = "ok" THEN store[key].value ELSE createList.value
           vals == Values(params)
           new == IF pos = "head" THEN Reverse(vals) \o old ELSE old \o vals
<1>1. CASE \E r : Refuse(r)
  BY <1>1, Refused
<1>2. CASE /\ store' = setValue(key, [createList EXCEPT !.value = new])
           /\ \E r : Reply(r)
  <2>1. vals \in Seq(Strings) /\ Len(vals) >= 1
    <3>1. params[1] \in KeyCommands
      BY DEF Adders, KeyCommands, ParamCounts
    <3> QED
      BY <3>1, RequestShape DEF Values, KeptInv
  <2>2. old \in Seq(Strings)
    <3>1. CASE getValueByType(key, "list") = "ok"
      <4>1. store[key].type = "list" /\ Kept(store[key])
        BY <3>1, Found
      <4> QED
        BY <3>1, <4>1 DEF Kept
    <3>2. CASE getValueByType(key, "list") # "ok"
      <4>1. createList.value = <<>>
        BY DEF createList
      <4> QED
        BY <3>2, <4>1
    <3> QED
      BY <3>1, <3>2
  <2> HIDE DEF old, vals
  <2>3. Reverse(vals) \in Seq(Strings) /\ Len(Reverse(vals)) = Len(vals)
    BY <2>1 DEF Reverse
  <2>4. new \in Seq(Strings) /\ Len(new) >= 1
    BY <2>1, <2>2, <2>3
  <2> HIDE DEF new
  <2>5. [createList EXCEPT !.value = new] = [type |-> "list", encoding |-> "list", value |-> new]
    BY DEF createList
  <2>6. Kept([createList EXCEPT !.value = new])
    BY <2>4, <2>5 DEF Kept
  <2> QED
    BY <1>2, <2>6, Set, Replied
<1> QED
  BY <1>1, <1>2 DEF push

(* The list that pop finds is not empty, and neither is the one it leaves.   *)
LEMMA PopKeeps ==
    ASSUME KeptInv, NEW params, NEW pos, pop(params, pos)
    PROVE  StoreKept' /\ process' # "assertFailed"
<1> DEFINE key == params[2]
           list == store[key].value
           rest == IF pos = "head" THEN Tail(list) ELSE Front(list)
<1>1. CASE getValueByType(key, "list") # "ok"
  BY <1>1, Refused DEF pop
<1>2. CASE getValueByType(key, "list") = "ok"
  <2>1. key \in DOMAIN store /\ store[key].type = "list" /\ Kept(store[key])
    BY <1>2, Found
  <2>2. list \in Seq(Strings) /\ list # <<>>
    BY <2>1 DEF Kept
  <2>3. /\ store' = IF rest = <<>> THEN deleteKey(key) ELSE Update(key, rest)
        /\ \E r : Reply(r)
    BY <1>2, <2>2 DEF pop
  <2>4. rest \in Seq(Strings)
    BY <2>2 DEF Front
  <2> HIDE DEF rest
  <2>5. CASE rest = <<>>
    BY <2>3, <2>5, Deleted, Replied
  <2>6. CASE rest # <<>>
    <3>1. Kept([type |-> store[key].type, encoding |-> store[key].encoding, value |-> rest])
      BY <2>1, <2>4, <2>6 DEF Kept
    <3> QED
      BY <2>1, <2>3, <2>6, <3>1, Changed, Replied
  <2> QED
    BY <2>5, <2>6
<1> QED
  BY <1>1, <1>2

LEMMA ListsKeep ==
    ASSUME KeptInv, NEW params \in Requests,
           \/ params[1] = "LPUSH"  /\ lpush(params)
           \/ params[1] = "RPUSH"  /\ rpush(params)
           \/ params[1] = "LPUSHX" /\ lpushx(params)
           \/ params[1] = "RPUSHX" /\ rpushx(params)
           \/ lpop(params) \/ rpop(params) \/ llen(params) \/ lrange(params)
    PROVE  StoreKept' /\ process' # "assertFailed"
<1>1. CASE lpop(params) \/ rpop(params)
  BY <1>1, PopKeeps DEF lpop, rpop
<1>2. CASE llen(params) \/ lrange(params)
  <2>1. UNCHANGED <<store, process>>
    BY <1>2 DEF llen, lrange, Refuse, Reply
  <2> QED
    BY <2>1 DEF KeptInv, StoreKept
<1> QED
  BY <1>1, <1>2, PushKeeps DEF lpush, rpush, lpushx, rpushx, Adders

LEMMA SetsKeep ==
    ASSUME KeptInv, NEW params \in Requests,
           \/ params[1] = "SADD" /\ sadd(params)
           \/ scard(params) \/ smember(params) \/ spop(params)
    PROVE  StoreKept' /\ process' # "assertFailed"
<1> DEFINE key == params[2]
           set == store[key].value
<1>1. CASE scard(params) \/ smember(params)
  <2>1. UNCHANGED <<store, process>>
    BY <1>1 DEF scard, smember, Refuse, Reply
  <2> QED
    BY <2>1 DEF KeptInv, StoreKept
<1>2. CASE params[1] = "SADD" /\ sadd(params)
  <2> DEFINE old == IF getValueByType(key, "set") = "ok" THEN store[key].value ELSE createSet.value
             new == old \cup Members(params)
  <2>1. params[3] \in Members(params)
    <3>1. params[1] \in KeyCommands /\ params[1] \in Adders
      BY <1>2 DEF Adders, KeyCommands, ParamCounts
    <3>2. Len(params) \in Nat /\ Len(params) >= 3
      BY <3>1, RequestShape DEF KeptInv
    <3> QED
      BY <3>2 DEF Members
  <2>2. new # {}
    BY <2>1
  <2>3. CASE getValueByType(key, "set") = "type"
    BY <1>2, <2>3, Refused DEF sadd
  <2>4. CASE getValueByType(key, "set") # "type"
    <3>1. /\ store' = setValue(key, [createSet EXCEPT !.value = new])
          /\ \E r : Reply(r)
      BY <1>2, <2>4 DEF sadd
    <3> HIDE DEF new
    <3>2. Kept([createSet EXCEPT !.value = new])
      BY <2>2 DEF createSet, Kept
    <3> QED
      BY <3>1, <3>2, Set, Replied
  <2> QED
    BY <2>3, <2>4
<1>3. CASE spop(params)
  <2>1. CASE \E r : Refuse(r)
    BY <2>1, Refused
  <2>2. CASE getValueByType(key, "set") = "ok"
    <3>1. key \in DOMAIN store /\ store[key].type = "set" /\ Kept(store[key])
      BY <2>2, Found
    <3>2. set # {}
      BY <3>1 DEF Kept
    <3>3. PICK m \in set :
            /\ store' = IF set = {m} THEN deleteKey(key) ELSE Update(key, set \ {m})
            /\ \E r : Reply(r)
      BY <1>3, <2>2, <3>2 DEF spop
    <3>4. CASE set = {m}
      BY <3>3, <3>4, Deleted, Replied
    <3>5. CASE set # {m}
      <4>1. Kept([type |-> store[key].type, encoding |-> store[key].encoding, value |-> set \ {m}])
        BY <3>1, <3>3, <3>5 DEF Kept
      <4> QED
        BY <3>1, <3>3, <3>5, <4>1, Changed, Replied
    <3> QED
      BY <3>4, <3>5
  <2> QED
    BY <1>3, <2>1, <2>2 DEF spop
<1> QED
  BY <1>1, <1>2, <1>3

LEMMA HashesKeep ==
    ASSUME KeptInv, NEW params, hset(params) \/ hget(params)
    PROVE  StoreKept' /\ process' # "assertFailed"
<1>1. CASE \E r : Refuse(r)
  BY <1>1, Refused
<1>2. CASE hget(params)
  BY <1>2, <1>1 DEF hget
<1>3. CASE hset(params)
  <2> DEFINE key == params[2]
             hash == IF getValueByType(key, "hash") = "ok" THEN store[key].value ELSE createHash.value
             new == [f \in DOMAIN hash \cup {params[3]} |->
                       IF f = params[3] THEN params[4] ELSE hash[f]]
  <2>1. CASE getValueByType(key, "hash") = "type"
    BY <1>3, <2>1, <1>1 DEF hset
  <2>2. CASE getValueByType(key, "hash") # "type"
    <3>1. /\ store' = setValue(key, [createHash EXCEPT !.value = new])
          /\ \E r : Reply(r)
      BY <1>3, <2>2 DEF hset
    <3>2. DOMAIN new # {}
      OBVIOUS
    <3> HIDE DEF new
    <3>3. Kept([createHash EXCEPT !.value = new])
      BY <3>2 DEF createHash, Kept
    <3> QED
      BY <3>1, <3>3, Set, Replied
  <2> QED
    BY <2>1, <2>2
<1> QED
  BY <1>2, <1>3

LEMMA SortedSetsKeep ==
    ASSUME KeptInv, NEW params, zadd(params)
    PROVE  StoreKept' /\ process' # "assertFailed"
<1>1. CASE \E r : Refuse(r)
  BY <1>1, Refused
<1>2. CASE process' = "nullDereference" /\ UNCHANGED <<store, reply>>
  BY <1>2 DEF KeptInv, StoreKept
<1>3. CASE \E new : /\ store' = setValue(params[2], [createSSet EXCEPT !.value = new])
                     /\ \E r : Reply(r)
  <2>1. \A new : Kept([createSSet EXCEPT !.value = new])
    BY DEF createSSet, Kept
  <2> QED
    BY <1>3, <2>1, Set, Replied
<1> QED
  BY <1>1, <1>2, <1>3 DEF zadd

-----------------------------------------------------------------------------
LEMMA CommandsKeep ==
    ASSUME KeptInv, [Next]_vars
    PROVE  KeptInv'
<1>1. CASE UNCHANGED vars
  BY <1>1 DEF vars, KeptInv, StoreKept
<1>2. CASE Next
  <2>1. PICK params \in Requests : execCommand(params)
    BY <1>2 DEF Next
  <2>2. StoreKept' /\ process' # "assertFailed"
    BY <2>1, StringsKeep, ListsKeep, SetsKeep, HashesKeep, SortedSetsKeep, Refused
    DEF execCommand, command
  <2> QED
    BY <2>2 DEF KeptInv
<1> QED
  BY <1>1, <1>2

LEMMA KeptInit ==
    ASSUME MinMembers = 1, Init
    PROVE  KeptInv
BY DEF Init, KeptInv, StoreKept

THEOREM KeptInvariance == MinMembers = 1 /\ Spec => []KeptInv
<1>1. MinMembers = 1 /\ Init => KeptInv
  BY KeptInit
<1>2. KeptInv /\ [Next]_vars => KeptInv'
  BY CommandsKeep
<1> QED
  BY <1>1, <1>2, PTL DEF Spec

(* If every push and SADD names a value, whoever finds a list, a set or a    *)
(* hash in the keyspace finds something in it, whatever the commands.       *)
THEOREM CollectionsNeverEmpty == MinMembers = 1 /\ Spec => []NoEmptyCollections
<1>1. KeptInv => NoEmptyCollections
  BY DEF KeptInv, StoreKept, Kept, NoEmptyCollections, OfType
<1> QED
  BY <1>1, KeptInvariance, PTL

(* Then the assert of pop holds.                                            *)
THEOREM PopNeverAsserts == MinMembers = 1 /\ Spec => []PopAssertHolds
<1>1. KeptInv => PopAssertHolds
  BY DEF KeptInv, PopAssertHolds
<1> QED
  BY <1>1, KeptInvariance, PTL

(* How many parameters the commands have that read more than the key.        *)
LEMMA Lengths ==
    ASSUME NEW params \in Requests, params[1] \in KeyCommands
    PROVE  /\ params[1] \in {"set", "setnx", "HGET"} => Len(params) = 3
           /\ params[1] \in {"HSET", "LRANGE"} => Len(params) = 4
           /\ params[1] = "ZADD" /\ MinMembers = 1 /\ Len(params) % 2 = 0 => Len(params) >= 4
<1> DEFINE n == Len(params)
           c == params[1]
<1>1. n \in ParamCounts[c] /\ n \in Nat /\ n >= 2
  BY RequestShape
<1> HIDE DEF n, c
<1>2. c \in {"set", "setnx", "HGET"} => n = 3
  BY <1>1 DEF ParamCounts
<1>3. c \in {"HSET", "LRANGE"} => n = 4
  BY <1>1 DEF ParamCounts
<1>4. c = "ZADD" /\ MinMembers = 1 /\ n % 2 = 0 => n >= 4
  BY <1>1, BoundsAssumption DEF ParamCounts
<1> QED
  BY <1>2, <1>3, <1>4 DEF n, c

LEMMA KeyCommandNames ==
    {"set", "get", "setnx", "LPUSH", "RPUSH", "LPUSHX", "RPUSHX", "LPOP", "RPOP", "LLEN", "LRANGE",
     "SADD", "SCARD", "SMEMBERS", "SPOP", "HSET", "HGET", "ZADD"} = KeyCommands
BY DEF KeyCommands, ParamCounts

-----------------------------------------------------------------------------
(* What each command does to the keyspace is of that form.                   *)

LEMMA NothingDone ==
    ASSUME TypedInv, UNCHANGED store, process' \in {process, "nullDereference", "assertFailed"}
    PROVE  TypedEffect
BY DEF TypedInv, TypedEffect

LEMMA ObjectStored ==
    ASSUME TypedInv, NEW key \in Keys, NEW o \in Objects, store' = setValue(key, o), UNCHANGED process
    PROVE  TypedEffect
BY DEF TypedInv, TypedEffect

LEMMA StringsTyped ==
    ASSUME TypedInv, NEW params \in Requests,
           \/ params[1] = "set"   /\ setCmd(params)
           \/ params[1] = "get"   /\ getCmd(params)
           \/ params[1] = "setnx" /\ setnxCmd(params)
    PROVE  TypedEffect
<1>1. CASE UNCHANGED <<store, process>>
  BY <1>1, NothingDone
<1>2. CASE /\ params[1] \in {"set", "setnx"}
           /\ store' = setValue(params[2], createString(params[3]))
           /\ UNCHANGED process
  <2>1. params[2] \in Keys /\ params[3] \in Strings
    BY <1>2, KeyCommandNames, RequestShape, Lengths
  <2>2. createString(params[3]) \in Objects
    BY <2>1, ObjectsMade
  <2> QED
    BY <1>2, <2>1, <2>2, ObjectStored
<1> QED
  BY <1>1, <1>2 DEF setCmd, getCmd, setnxCmd, Refuse, Reply

LEMMA PushTyped ==
    ASSUME TypedInv, NEW params \in Requests, params[1] \in Adders \ {"SADD"},
           NEW pos, NEW createIfNotExist, push(params, pos, createIfNotExist)
    PROVE  TypedEffect
<1> DEFINE key == params[2]
           old == IF getValueByType(key, "list") = "ok" THEN store[key].value ELSE createList.value
           vals == Values(params)
           new == IF pos = "head" THEN Reverse(vals) \o old ELSE old \o vals
<1>0. params[1] \in KeyCommands
  BY KeyCommandNames DEF Adders
<1>1. CASE UNCHANGED <<store, process>>
  BY <1>1, NothingDone
<1>2. CASE /\ store' = setValue(key, [createList EXCEPT !.value = new])
           /\ UNCHANGED process
  <2>1. vals \in Seq(Strings) /\ key \in Keys
    BY <1>0, RequestShape DEF Values
  <2>2. old \in Seq(Strings)
    <3>1. CASE getValueByType(key, "list") = "ok"
      BY <3>1, FoundTyped, ValueOfType DEF TypedInv
    <3>2. CASE getValueByType(key, "list") # "ok"
      <4>1. createList.value = <<>>
        BY DEF createList
      <4> QED
        BY <3>2, <4>1
    <3> QED
      BY <3>1, <3>2
  <2> HIDE DEF old, vals
  <2>3. Reverse(vals) \in Seq(Strings)
    BY <2>1 DEF Reverse
  <2>4. new \in Seq(Strings)
    BY <2>1, <2>2, <2>3
  <2> HIDE DEF new
  <2>5. [createList EXCEPT !.value = new] \in Objects
    BY <2>4, ObjectsMade
  <2> QED
    BY <1>2, <2>1, <2>5, ObjectStored
<1> QED
  BY <1>1, <1>2 DEF push, Refuse, Reply

LEMMA PopTyped ==
    ASSUME TypedInv, NEW params, NEW pos, pop(params, pos)
    PROVE  TypedEffect
<1> DEFINE key == params[2]
           list == store[key].value
           rest == IF pos = "head" THEN Tail(list) ELSE Front(list)
<1>1. CASE UNCHANGED store /\ process' \in {process, "assertFailed"}
  BY <1>1, NothingDone
<1>2. CASE /\ getValueByType(key, "list") = "ok" /\ list # <<>>
           /\ store' = IF rest = <<>> THEN deleteKey(key) ELSE Update(key, rest)
           /\ UNCHANGED process
  <2>1. key \in DOMAIN store /\ key \in Keys /\ store[key] \in Objects /\ store[key].type = "list"
    BY <1>2, FoundTyped DEF TypedInv
  <2>2. list \in Seq(Strings) /\ store[key].encoding = "list"
    BY <2>1, ValueOfType
  <2>3. rest \in Seq(Strings)
    BY <1>2, <2>2 DEF Front
  <2> HIDE DEF rest
  <2>4. CASE rest = <<>>
    BY <1>2, <2>4 DEF TypedInv, TypedEffect
  <2>5. CASE rest # <<>>
    <3>1. store' = setValue(key, [type |-> "list", encoding |-> "list", value |-> rest])
      BY <1>2, <2>1, <2>2, <2>5, UpdateReplaces DEF TypedInv
    <3>2. [type |-> "list", encoding |-> "list", value |-> rest] \in Objects
      BY <2>3 DEF Objects, Lists
    <3> QED
      BY <1>2, <2>1, <3>1, <3>2, ObjectStored
  <2> QED
    BY <2>4, <2>5
<1> QED
  BY <1>1, <1>2 DEF pop, Refuse, Reply

LEMMA ListsTyped ==
    ASSUME TypedInv, NEW params \in Requests,
           \/ params[1] = "LPUSH"  /\ lpush(params)
           \/ params[1] = "RPUSH"  /\ rpush(params)
           \/ params[1] = "LPUSHX" /\ lpushx(params)
           \/ params[1] = "RPUSHX" /\ rpushx(params)
           \/ lpop(params) \/ rpop(params) \/ llen(params) \/ lrange(params)
    PROVE  TypedEffect
<1>1. CASE lpop(params) \/ rpop(params)
  BY <1>1, PopTyped DEF lpop, rpop
<1>2. CASE llen(params) \/ lrange(params)
  <2>1. UNCHANGED <<store, process>>
    BY <1>2 DEF llen, lrange, Refuse, Reply
  <2> QED
    BY <2>1, NothingDone
<1> QED
  BY <1>1, <1>2, PushTyped DEF lpush, rpush, lpushx, rpushx, Adders

LEMMA SetsTyped ==
    ASSUME TypedInv, NEW params \in Requests,
           \/ params[1] = "SADD" /\ sadd(params)
           \/ scard(params) \/ smember(params) \/ spop(params)
    PROVE  TypedEffect
<1> DEFINE key == params[2]
           set == store[key].value
<1>1. CASE UNCHANGED <<store, process>>
  BY <1>1, NothingDone
<1>2. CASE params[1] = "SADD" /\ sadd(params)
  <2> DEFINE old == IF getValueByType(key, "set") = "ok" THEN store[key].value ELSE createSet.value
             new == old \cup Members(params)
  <2>1. key \in Keys /\ Len(params) \in Nat /\ \A i \in 3 .. Len(params) : params[i] \in Strings
    BY <1>2, KeyCommandNames, RequestShape
  <2>2. Members(params) \in SUBSET Strings /\ IsFiniteSet(Members(params))
    <3>1. Members(params) \in SUBSET Strings
      BY <2>1 DEF Members
    <3>2. IsFiniteSet(3 .. Len(params))
      BY <2>1, FS_Interval
    <3>3. IsFiniteSet(Members(params))
      <4> DEFINE f == [i \in 3 .. Len(params) |-> params[i]]
      <4>1. f \in Surjection(3 .. Len(params), Members(params))
        BY DEF Surjection, Members
      <4> QED
        BY <3>2, <4>1, FS_Surjection
    <3> QED
      BY <3>1, <3>3
  <2>3. old \in SUBSET Strings /\ IsFiniteSet(old)
    <3>1. CASE getValueByType(key, "set") = "ok"
      BY <3>1, FoundTyped, ValueOfType DEF TypedInv
    <3>2. CASE getValueByType(key, "set") # "ok"
      <4>1. createSet.value = {}
        BY DEF createSet
      <4> QED
        BY <3>2, <4>1, FS_EmptySet
    <3> QED
      BY <3>1, <3>2
  <2> HIDE DEF old
  <2>4. new \in SUBSET Strings /\ IsFiniteSet(new)
    BY <2>2, <2>3, FS_Union
  <2> HIDE DEF new
  <2>5. [createSet EXCEPT !.value = new] \in Objects
    BY <2>4, ObjectsMade
  <2>6. CASE getValueByType(key, "set") = "type"
    BY <1>1, <1>2, <2>6 DEF sadd, Refuse, Reply
  <2>7. CASE getValueByType(key, "set") # "type"
    <3>1. store' = setValue(key, [createSet EXCEPT !.value = new]) /\ UNCHANGED process
      BY <1>2, <2>7 DEF sadd, Reply, old, new
    <3> QED
      BY <2>1, <2>5, <3>1, ObjectStored
  <2> QED
    BY <2>6, <2>7
<1>3. CASE scard(params) \/ smember(params)
  BY <1>1, <1>3 DEF scard, smember, Refuse, Reply
<1>4. CASE spop(params)
  <2>1. CASE getValueByType(key, "set") # "ok" \/ set = {}
    BY <1>1, <1>4, <2>1 DEF spop, Refuse, Reply
  <2>2. CASE getValueByType(key, "set") = "ok" /\ set # {}
    <3>1. PICK m \in set : store' = (IF set = {m} THEN deleteKey(key) ELSE Update(key, set \ {m})) /\ UNCHANGED process
      BY <1>4, <2>2 DEF spop, Reply
    <3>2. key \in DOMAIN store /\ key \in Keys /\ store[key] \in Objects /\ store[key].type = "set"
      BY <2>2, FoundTyped DEF TypedInv
    <3>3. set \in SUBSET Strings /\ IsFiniteSet(set) /\ store[key].encoding = "set"
      BY <3>2, ValueOfType
    <3>4. CASE set = {m}
      BY <3>1, <3>4 DEF TypedInv, TypedEffect
    <3>5. CASE set # {m}
      <4>1. store' = setValue(key, [type |-> "set", encoding |-> "set", value |-> set \ {m}])
        BY <3>1, <3>2, <3>3, <3>5, UpdateReplaces DEF TypedInv
      <4>2. IsFiniteSet(set \ {m})
        BY <3>3, FS_RemoveElement
      <4>3. [type |-> "set", encoding |-> "set", value |-> set \ {m}] \in Objects
        BY <3>3, <4>2 DEF Objects, PlainSets, FiniteSubsetsOf
      <4> QED
        BY <3>1, <3>2, <4>1, <4>3, ObjectStored
    <3> QED
      BY <3>4, <3>5
  <2> QED
    BY <2>1, <2>2
<1> QED
  BY <1>2, <1>3, <1>4

LEMMA HashesTyped ==
    ASSUME TypedInv, NEW params \in Requests,
           (params[1] = "HSET" /\ hset(params)) \/ hget(params)
    PROVE  TypedEffect
<1>1. CASE UNCHANGED <<store, process>>
  BY <1>1, NothingDone
<1>2. CASE hget(params)
  BY <1>2, <1>1 DEF hget, Refuse, Reply
<1>3. CASE params[1] = "HSET" /\ hset(params)
  <2> DEFINE key == params[2]
             hash == IF getValueByType(key, "hash") = "ok" THEN store[key].value ELSE createHash.value
             new == [f \in DOMAIN hash \cup {params[3]} |-> IF f = params[3] THEN params[4] ELSE hash[f]]
  <2>1. key \in Keys /\ params[3] \in Strings /\ params[4] \in Strings
    BY <1>3, KeyCommandNames, RequestShape, Lengths
  <2>2. hash \in FieldMaps
    <3>1. CASE getValueByType(key, "hash") = "ok"
      BY <3>1, FoundTyped, ValueOfType DEF TypedInv
    <3>2. CASE getValueByType(key, "hash") # "ok"
      <4>1. createHash.value = <<>> /\ <<>> \in [{} -> Strings]
        BY DEF createHash
      <4> QED
        BY <3>2, <4>1 DEF FieldMaps
    <3> QED
      BY <3>1, <3>2
  <2> HIDE DEF hash
  <2>3. PICK F \in SUBSET Strings : hash \in [F -> Strings]
    BY <2>2 DEF FieldMaps
  <2>4. new \in [F \cup {params[3]} -> Strings] /\ F \cup {params[3]} \in SUBSET Strings
    BY <2>1, <2>3
  <2> HIDE DEF new
  <2>5. [createHash EXCEPT !.value = new] \in Objects
    BY <2>4, ObjectsMade DEF FieldMaps
  <2>6. CASE getValueByType(key, "hash") = "type"
    BY <1>1, <1>3, <2>6 DEF hset, Refuse, Reply
  <2>7. CASE getValueByType(key, "hash") # "type"
    <3>1. store' = setValue(key, [createHash EXCEPT !.value = new]) /\ UNCHANGED process
      BY <1>3, <2>7 DEF hset, Reply, hash, new
    <3> QED
      BY <2>1, <2>5, <3>1, ObjectStored
  <2> QED
    BY <2>6, <2>7
<1> QED
  BY <1>2, <1>3

(* The pairs of a ZADD.                                                     *)
LEMMA PairsTyped ==
    ASSUME NEW params \in Requests, params[1] = "ZADD"
    PROVE  /\ ScoresAndMembers(params) \in Seq(Pairs)
           /\ Len(ScoresAndMembers(params)) = (Len(params) - 2) \div 2
           /\ params[2] \in Keys
<1> DEFINE n == (Len(params) - 2) \div 2
<1>1. /\ Len(params) \in Nat /\ Len(params) >= 2 /\ params[2] \in Keys
      /\ \A i \in 3 .. Len(params) : params[i] \in Strings
  BY KeyCommandNames, RequestShape
<1>2. \A i \in 1 .. n : 2 * i + 1 \in 3 .. Len(params) /\ 2 * i + 2 \in 3 .. Len(params)
  BY <1>1
<1>3. n \in Nat
  BY <1>1
<1>4. \A i \in 1 .. n : [score |-> AsDouble[params[2 * i + 1]], member |-> params[2 * i + 2]] \in Pairs
  BY <1>1, <1>2, TextAssumption DEF Pairs
<1>5. ScoresAndMembers(params) \in [1 .. n -> Pairs]
  BY <1>4 DEF ScoresAndMembers
<1> HIDE DEF n
<1> QED
  BY <1>1, <1>3, <1>5 DEF n

LEMMA SortedSetsTyped ==
    ASSUME TypedInv, NEW params \in Requests, params[1] = "ZADD", zadd(params)
    PROVE  TypedEffect
<1> DEFINE key == params[2]
           err == getValueByType(key, "zset")
           old == IF err = "ok" THEN store[key].value ELSE createSSet.value
           new == Added(old, ScoresAndMembers(params))
<1>1. CASE UNCHANGED store /\ process' \in {process, "nullDereference"}
  BY <1>1, NothingDone
<1>2. CASE store' = setValue(key, [createSSet EXCEPT !.value = new]) /\ UNCHANGED process
  <2>1. old \in SortedSets
    <3>1. CASE err = "ok"
      BY <3>1, FoundTyped, ValueOfType DEF TypedInv
    <3> QED
      BY <3>1, EmptySortedSet
  <2> HIDE DEF old
  <2>2. ScoresAndMembers(params) \in Seq(Pairs) /\ key \in Keys
    BY PairsTyped
  <2>3. new \in SortedSets
    BY <2>1, <2>2, LoopSteps
  <2> HIDE DEF new
  <2>4. [createSSet EXCEPT !.value = new] \in Objects
    BY <2>3, ObjectsMade
  <2> QED
    BY <1>2, <2>2, <2>4, ObjectStored
<1> QED
  BY <1>1, <1>2 DEF zadd, Refuse, Reply

-----------------------------------------------------------------------------
LEMMA TypedStep ==
    ASSUME TypedInv, [Next]_vars
    PROVE  TypedInv'
<1>1. CASE UNCHANGED vars
  BY <1>1 DEF vars, TypedInv, TypedStore
<1>2. CASE Next
  <2>1. PICK params \in Requests : request' = params /\ execCommand(params)
    BY <1>2 DEF Next
  <2>2. ASSUME NEW r, Refuse(r)
        PROVE  TypedEffect
    BY <2>2, NothingDone DEF Refuse, Reply
  <2>3. TypedEffect
    BY <2>1, <2>2, StringsTyped, ListsTyped, SetsTyped, HashesTyped, SortedSetsTyped
    DEF execCommand, command
  <2>4. TypedStore'
    BY <2>3, EffectTyped DEF TypedInv
  <2> QED
    BY <2>1, <2>3, <2>4 DEF TypedInv, TypedEffect
<1> QED
  BY <1>1, <1>2

LEMMA TypedInvariance == Spec => []TypedInv
<1>1. Init => TypedInv
  BY DEF Init, TypedInv, TypedStore
<1>2. TypedInv /\ [Next]_vars => TypedInv'
  BY TypedStep
<1> QED
  BY <1>1, <1>2, PTL DEF Spec

LEMMA ObjectTyped ==
    ASSUME NEW o \in Objects
    PROVE  ObjectOK(o)
<1>1. /\ o.type = "string" => \/ o.encoding = "raw" /\ o.value \in Strings
                              \/ o.encoding = "int" /\ o.value \in DOMAIN ToText
      /\ o.type = "list" => o.value \in Seq(Strings)
      /\ o.type = "set" => o.value \in SUBSET Strings /\ IsFiniteSet(o.value)
      /\ o.type \in {"string", "list", "set", "hash", "zset"}
      /\ o.type # "string" => o.encoding = o.type
  BY ValueOfType, Zenon
<1>2. CASE o.type = "string"
  <2>1. CASE o.encoding = "raw" /\ o.value \in Strings
    BY <1>2, <2>1, Zenon DEF ObjectOK
  <2>2. CASE o.encoding = "int" /\ o.value \in DOMAIN ToText
    BY <1>2, <2>2, Zenon DEF ObjectOK
  <2> QED
    BY <1>1, <1>2, <2>1, <2>2
<1>3. CASE o.type = "list"
  <2>1. o.value \in Seq(Strings) /\ o.encoding = "list"
    BY <1>1, <1>3
  <2> QED
    BY <1>3, <2>1, Zenon DEF ObjectOK
<1>4. CASE o.type = "set"
  <2>1. o.value \subseteq Strings /\ o.encoding = "set"
    BY <1>1, <1>4
  <2> QED
    BY <1>4, <2>1, Zenon DEF ObjectOK
<1>5. CASE o.type = "hash"
  <2>1. PICK F \in SUBSET Strings : o.value \in [F -> Strings]
    BY <1>5, ValueOfType DEF FieldMaps
  <2>2. DOMAIN o.value \subseteq Strings /\ \A f \in DOMAIN o.value : o.value[f] \in Strings
    BY <2>1
  <2>3. o.encoding = "hash"
    BY <1>1, <1>5
  <2> QED
    BY <1>5, <2>2, <2>3, Zenon DEF ObjectOK
<1>6. CASE o.type = "zset"
  <2>1. o.value \in SortedSets /\ o.encoding = "zset"
    BY <1>1, <1>6, ValueOfType
  <2>2. DOMAIN o.value.member2Scores \subseteq Strings /\ DOMAIN o.value.score2Members \subseteq Doubles
    BY <2>1, SortedSetParts
  <2> QED
    BY <1>6, <2>1, <2>2, Zenon DEF ObjectOK
<1> QED
  BY <1>1, <1>2, <1>3, <1>4, <1>5, <1>6

(* Whatever the commands and their arguments, each key of the keyspace holds *)
(* an object of one of the types, its encoding and its value fit the type.  *)
THEOREM TypeCorrect == Spec => []TypeOK
<1>1. TypedInv => TypeOK
  <2> SUFFICES ASSUME TypedInv
               PROVE  TypeOK
    OBVIOUS
  <2>1. ASSUME NEW k \in DOMAIN store
        PROVE  ObjectOK(store[k])
    BY ObjectTyped DEF TypedInv, TypedStore
  <2> QED
    BY <2>1 DEF TypeOK, TypedInv, TypedStore
<1> QED
  BY <1>1, TypedInvariance, PTL

(* However many pairs a ZADD names and however often it repeats a member,    *)
(* a member is filed exactly once and no score files anybody else; only the  *)
(* score NaN can bring it under another score than its own.                  *)
THEOREM MapsAgree == Spec => []ScoresAgree
<1>1. TypedInv => ScoresAgree
  <2> SUFFICES ASSUME TypedInv, NEW k \in OfType("zset"), NEW z, z = store[k].value
               PROVE  /\ \A m \in DOMAIN z.member2Scores :
                           \E s \in DOMAIN z.score2Members : FiledUnder(z, m) = {s}
                      /\ \A s \in DOMAIN z.score2Members :
                           z.score2Members[s] # {} /\ z.score2Members[s] \subseteq DOMAIN z.member2Scores
                      /\ (\A m \in DOMAIN z.member2Scores : z.member2Scores[m] # NaN)
                         => \A m \in DOMAIN z.member2Scores : FiledUnder(z, m) = {z.member2Scores[m]}
    BY DEF ScoresAgree
  <2>1. z \in SortedSets
    BY ValueOfType DEF OfType, TypedInv, TypedStore
  <2>2. Agree(z)
    BY <2>1 DEF SortedSets
  <2>3. ASSUME \A m \in DOMAIN z.member2Scores : z.member2Scores[m] # NaN,
               NEW m \in DOMAIN z.member2Scores
        PROVE  FiledUnder(z, m) = {z.member2Scores[m]}
    <3>1. PICK s \in DOMAIN z.score2Members : FiledUnder(z, m) = {s}
      BY <2>2 DEF Agree
    <3>2. m \in z.score2Members[s]
      BY <3>1 DEF FiledUnder
    <3>3. s # NaN
      BY <2>2, <2>3 DEF Agree
    <3>4. s = z.member2Scores[m]
      BY <2>2, <2>3, <3>2, <3>3 DEF Agree
    <3> QED
      BY <3>1, <3>4
  <2> QED
    BY <2>2, <2>3 DEF Agree
<1> QED
  BY <1>1, TypedInvariance, PTL
-----------------------------------------------------------------------------
(* YCommand implements RedisKeyspace, for any keys, texts and bounds, if a   *)
(* client that pushes or adds names at least one value (MinMembers = 1).     *)

RefInv == TypedInv /\ KeptInv

-----------------------------------------------------------------------------
(* What the client reads.                                                   *)

LEMMA OneValue ==
    ASSUME NEW r, r.kind \in {"int", "bulk", "null", "status", "error"}
    PROVE  ClientReads(<<r>>) = r
<1>1. Len(<<r>>) = 1 /\ <<r>>[1] = r
  OBVIOUS
<1> QED
  BY <1>1 DEF ClientReads

(* A command that writes one value is answered with it.                      *)
LEMMA Answered1 ==
    ASSUME NEW r, r.kind \in {"int", "bulk", "null", "status", "error"}, Reply(<<r>>)
    PROVE  Yedis!Answer(r)
BY OneValue DEF Reply, Yedis!Answer

LEMMA AnsweredNumber ==
    ASSUME NEW n, Reply(<<formatInt(n)>>)
    PROVE  Yedis!Answer(Yedis!Number(n))
BY Answered1 DEF formatInt, Yedis!Number

LEMMA AnsweredText ==
    ASSUME NEW s, Reply(<<formatBulk(s)>>)
    PROVE  Yedis!Answer(Yedis!Text(s))
BY Answered1 DEF formatBulk, Yedis!Text

LEMMA AnsweredNil ==
    ASSUME Reply(<<formatNull>>)
    PROVE  Yedis!Answer(Yedis!Nil)
BY Answered1 DEF formatNull, Yedis!Nil

LEMMA AnsweredOk ==
    ASSUME Reply(<<formatOK>>)
    PROVE  Yedis!Answer(Yedis!Ok)
BY Answered1 DEF formatOK, Yedis!Ok

LEMMA Joined ==
    ASSUME NEW S, NEW h \in Seq(S), NEW t \in Seq(S)
    PROVE  /\ Len(h \o t) = Len(h) + Len(t)
           /\ \A i \in 1 .. Len(h) + Len(t) :
                (h \o t)[i] = IF i <= Len(h) THEN h[i] ELSE t[i - Len(h)]
OBVIOUS

LEMMA OneBefore ==
    ASSUME NEW S, NEW h \in Seq(S), Len(h) = 1, NEW t \in Seq(S)
    PROVE  /\ Len(h \o t) = 1 + Len(t)
           /\ (h \o t)[1] = h[1]
           /\ \A i \in 1 .. Len(t) : (h \o t)[i + 1] = t[i]
<1> DEFINE joined == h \o t
           n == Len(t)
           m == Len(h)
<1>1. /\ Len(joined) = m + n
      /\ \A i \in 1 .. m + n : joined[i] = IF i <= m THEN h[i] ELSE t[i - m]
  BY Joined
<1>2. n \in Nat /\ m = 1
  OBVIOUS
<1> HIDE DEF joined, n, m
<1>3. Len(joined) = 1 + n /\ joined[1] = h[1] /\ \A i \in 1 .. n : joined[i + 1] = t[i]
  BY <1>1, <1>2
<1> QED
  BY <1>3 DEF joined, n

(* A header and as many values are read as one array.                        *)
LEMMA AnsweredTexts ==
    ASSUME NEW n \in Nat, NEW f,
           Reply(<<preFormatMultiBulk(n)>> \o [i \in 1 .. n |-> formatBulk(f[i])])
    PROVE  Yedis!Answer(Yedis!Texts([i \in 1 .. n |-> f[i]]))
<1> DEFINE head == <<preFormatMultiBulk(n)>>
           tail == [i \in 1 .. n |-> formatBulk(f[i])]
           r == head \o tail
           S == {preFormatMultiBulk(n)} \cup {formatBulk(f[i]) : i \in 1 .. n}
<1>1. head \in Seq(S) /\ Len(head) = 1 /\ head[1] = preFormatMultiBulk(n)
  OBVIOUS
<1>2. tail \in [1 .. n -> S]
  OBVIOUS
<1>3. tail \in Seq(S) /\ Len(tail) = n /\ \A i \in 1 .. n : tail[i] = formatBulk(f[i])
  <2>1. \A i \in 1 .. n : tail[i] = formatBulk(f[i])
    OBVIOUS
  <2> HIDE DEF tail, S
  <2> QED
    BY <1>2, <2>1
<1> HIDE DEF head, tail, S
<1>4. Len(r) = 1 + n /\ r[1] = preFormatMultiBulk(n) /\ \A i \in 1 .. n : r[i + 1] = formatBulk(f[i])
  <2>1. /\ Len(r) = 1 + Len(tail) /\ r[1] = head[1]
        /\ \A i \in 1 .. Len(tail) : r[i + 1] = tail[i]
    BY <1>1, <1>3, OneBefore
  <2> QED
    BY <1>1, <1>3, <2>1
<1> HIDE DEF r
<1>5. r[1].kind = "array" /\ r[1].val = n /\ \A i \in 1 .. n : r[i + 1].val = f[i]
  BY <1>4 DEF preFormatMultiBulk, formatBulk
<1>6. ClientReads(r) = [kind |-> "array", val |-> [i \in 1 .. n |-> r[i + 1].val]]
  <2>1. r[1].kind \notin {"int", "bulk", "null", "status", "error"} /\ Len(r) > 0 /\ Len(r) = 1 + r[1].val
    BY <1>4, <1>5
  <2> QED
    BY <1>5, <2>1 DEF ClientReads
<1>7. [i \in 1 .. n |-> r[i + 1].val] = [i \in 1 .. n |-> f[i]]
  BY <1>5
<1>8. reply' = r
  BY DEF Reply, r, head, tail
<1> QED
  BY <1>6, <1>7, <1>8 DEF Yedis!Answer, Yedis!Texts

-----------------------------------------------------------------------------
(* The keyspace as RedisKeyspace sees it.                                    *)

(* Both modules extend FiniteSets.                                           *)
LEMMA SameCardinality == \A S : Yedis!Cardinality(S) = Cardinality(S)
BY DEF Yedis!Cardinality, Cardinality

LEMMA AbstractValue ==
    ASSUME NEW k \in DOMAIN store
    PROVE  /\ k \in DOMAIN AbstractStore
           /\ AbstractStore[k] = Abstract(store[k])
           /\ AbstractStore[k].type = store[k].type
           /\ AbstractStore[k].value = Abstract(store[k]).value
BY DEF AbstractStore, Abstract

LEMMA SameKeys == DOMAIN AbstractStore = DOMAIN store
BY DEF AbstractStore

(* A lookup finds an object of a type where the keyspace has one.            *)
LEMMA HasWhenFound ==
    ASSUME NEW key, NEW type, type # "invalid"
    PROVE  /\ Yedis!Has(key, type) <=> getValueByType(key, type) = "ok"
           /\ key \in DOMAIN AbstractStore <=> getValueByType(key, type) # "notExist"
           /\ getValueByType(key, type) \in {"ok", "type", "notExist"}
           /\ getValueByType(key, type) # "notExist" => key \in DOMAIN store
<1>1. CASE key \in DOMAIN store
  BY <1>1, SameKeys, AbstractValue DEF Yedis!Has, getValueByType
<1>2. CASE key \notin DOMAIN store
  BY <1>2, SameKeys DEF Yedis!Has, getValueByType
<1> QED
  BY <1>1, <1>2

LEMMA Unchanged ==
    ASSUME UNCHANGED store
    PROVE  UNCHANGED AbstractStore
BY DEF AbstractStore

LEMMA Replaced ==
    ASSUME NEW key, NEW o, store' = setValue(key, o)
    PROVE  AbstractStore' = Yedis!With(key, o.type, Abstract(o).value)
<1>1. /\ DOMAIN store' = DOMAIN store \cup {key}
      /\ \A k \in DOMAIN store' : store'[k] = IF k = key THEN o ELSE store[k]
  BY DEF setValue
<1>2. Abstract(o) = [type |-> o.type, value |-> Abstract(o).value]
  BY DEF Abstract
<1>3. AbstractStore' = [k \in DOMAIN store \cup {key} |-> Abstract(store'[k])]
  BY <1>1 DEF AbstractStore
<1>4. \A k \in DOMAIN store \cup {key} :
        Abstract(store'[k]) = IF k = key THEN [type |-> o.type, value |-> Abstract(o).value] ELSE AbstractStore[k]
  BY <1>1, <1>2, AbstractValue
<1> QED
  BY <1>3, <1>4, SameKeys DEF Yedis!With

LEMMA Removed ==
    ASSUME NEW key, store' = deleteKey(key)
    PROVE  AbstractStore' = Yedis!Without(key)
<1>1. /\ DOMAIN store' = DOMAIN store \ {key}
      /\ \A k \in DOMAIN store' : store'[k] = store[k]
  BY DEF deleteKey, Restrict
<1>2. AbstractStore' = [k \in DOMAIN store \ {key} |-> Abstract(store'[k])]
  BY <1>1 DEF AbstractStore
<1>3. \A k \in DOMAIN store \ {key} : Abstract(store'[k]) = AbstractStore[k]
  BY <1>1, AbstractValue
<1> QED
  BY <1>2, <1>3, SameKeys DEF Yedis!Without

-----------------------------------------------------------------------------
(* Commands.                                                                *)

Arguments(params) == SubSeq(params, 3, Len(params))

Implements(params) == Yedis!Command(params[1], params[2], Arguments(params))

LEMMA ArgumentsGiven ==
    ASSUME NEW params \in Requests, params[1] \in KeyCommands
    PROVE  /\ Len(params) \in Nat /\ Len(params) >= 2
           /\ Arguments(params) \in Seq(Strings)
           /\ Len(Arguments(params)) = Len(params) - 2
           /\ \A i \in 1 .. Len(params) - 2 : Arguments(params)[i] = params[i + 2]
BY RequestShape DEF Arguments

(* A command that does not apply leaves the keyspace alone.                  *)
LEMMA NotApplicable ==
    ASSUME NEW params, params[1] \notin {"set", "setnx"},
           ~Yedis!Applicable(params[1], params[2], Arguments(params)), UNCHANGED store
    PROVE  Implements(params)
<1>1. UNCHANGED AbstractStore
  BY Unchanged
<1> QED
  BY <1>1 DEF Implements, Yedis!Command

LEMMA IsApplicable ==
    ASSUME NEW params, params[1] \notin {"set", "setnx"},
           Yedis!Applicable(params[1], params[2], Arguments(params)),
           Yedis!Perform(params[1], params[2], Arguments(params))
    PROVE  Implements(params)
BY DEF Implements, Yedis!Command

LEMMA AllDepartures ==
    /\ Yedis!Departs("C literals are numbers") /\ Yedis!Departs("any text is a score")
    /\ Yedis!Departs("members keep their scores") /\ Yedis!Departs("HSET answers 1")
BY DEF Yedis!Departs

(* When RedisKeyspace says that a command applies.                           *)
LEMMA AppliesWhen ==
    ASSUME NEW params \in Requests, params[1] \in KeyCommands \ {"set", "setnx"},
           NEW type, type = Yedis!TypeOfCommand[params[1]], type # "invalid"
    PROVE  Yedis!Applicable(params[1], params[2], Arguments(params)) <=>
              /\ \/ getValueByType(params[2], type) = "ok"
                 \/ params[1] \in Yedis!Creators /\ getValueByType(params[2], type) = "notExist"
              /\ params[1] = "LRANGE" => AsLong[params[3]] # NotLong /\ AsLong[params[4]] # NotLong
              /\ params[1] = "ZADD" => Len(params) % 2 = 0
<1> DEFINE c == params[1]
           k == params[2]
           args == Arguments(params)
           err == getValueByType(k, type)
<1>1. Yedis!Has(k, Yedis!TypeOfCommand[c]) <=> err = "ok"
  BY HasWhenFound
<1>2. k \notin DOMAIN AbstractStore <=> err = "notExist"
  BY HasWhenFound
<1>3. c = "LRANGE" => args[1] = params[3] /\ args[2] = params[4]
  BY ArgumentsGiven, Lengths
<1>4. Len(args) % 2 = 0 <=> Len(params) % 2 = 0
  <2>1. \A n \in Nat : n >= 2 => ((n - 2) % 2 = 0 <=> n % 2 = 0)
    OBVIOUS
  <2>2. Len(params) \in Nat /\ Len(params) >= 2 /\ Len(args) = Len(params) - 2
    BY ArgumentsGiven
  <2> HIDE DEF args
  <2> QED
    BY <2>1, <2>2
<1> HIDE DEF c, k, args, err
<1>5. Yedis!Applicable(c, k, args) <=>
              /\ \/ err = "ok"
                 \/ c \in Yedis!Creators /\ err = "notExist"
              /\ c = "LRANGE" => AsLong[params[3]] # NotLong /\ AsLong[params[4]] # NotLong
              /\ c = "ZADD" => Len(params) % 2 = 0
  <2>1. \A s : Yedis!IsIndex(s) <=> AsLong[s] # NotLong
    BY AllDepartures DEF Yedis!IsIndex, IsLiteral
  <2> QED
    BY <1>1, <1>2, <1>3, <1>4, <2>1, AllDepartures DEF Yedis!Applicable
<1> QED
  BY <1>5 DEF c, k, args, err

(* What a lookup of a type gives, the empty value of the type by default.    *)
LEMMA ValuesFound ==
    ASSUME TypedStore, NEW key
    PROVE  /\ Yedis!ValueAt(key, "list") =
                IF getValueByType(key, "list") = "ok" THEN store[key].value ELSE <<>>
           /\ Yedis!ValueAt(key, "set") =
                IF getValueByType(key, "set") = "ok" THEN store[key].value ELSE {}
           /\ Yedis!ValueAt(key, "hash") =
                IF getValueByType(key, "hash") = "ok" THEN store[key].value ELSE <<>>
           /\ Yedis!ValueAt(key, "zset") =
                IF getValueByType(key, "zset") = "ok" THEN store[key].value.member2Scores ELSE <<>>
<1>1. ASSUME NEW t \in {"list", "set", "hash", "zset"}
      PROVE  Yedis!ValueAt(key, t) =
                IF getValueByType(key, t) = "ok"
                THEN IF t = "zset" THEN store[key].value.member2Scores ELSE store[key].value
                ELSE Yedis!Empty[t]
  <2>1. CASE getValueByType(key, t) = "ok"
    <3>1. key \in DOMAIN store /\ store[key].type = t
      BY <2>1, FoundTyped
    <3>2. AbstractStore[key].value = Abstract(store[key]).value
      BY <3>1, AbstractValue
    <3>3. Abstract(store[key]).value = IF t = "zset" THEN store[key].value.member2Scores ELSE store[key].value
      BY <3>1 DEF Abstract
    <3>4. Yedis!Has(key, t)
      BY <2>1, HasWhenFound
    <3> QED
      BY <2>1, <3>2, <3>3, <3>4 DEF Yedis!ValueAt
  <2>2. CASE getValueByType(key, t) # "ok"
    <3>1. ~Yedis!Has(key, t)
      BY <2>2, HasWhenFound
    <3> QED
      BY <2>2, <3>1 DEF Yedis!ValueAt
  <2> QED
    BY <2>1, <2>2
<1>2. /\ Yedis!Empty["list"] = <<>> /\ Yedis!Empty["set"] = {}
      /\ Yedis!Empty["hash"] = <<>> /\ Yedis!Empty["zset"] = <<>>
  BY DEF Yedis!Empty
<1> QED
  BY <1>1, <1>2

(* Storing a value that is not empty, and deleting an emptied one.           *)
LEMMA Stored ==
    ASSUME NEW key, NEW o, store' = setValue(key, o),
           NEW v, v = Abstract(o).value, v # Yedis!Empty[o.type]
    PROVE  Yedis!Store(key, o.type, v)
BY Replaced DEF Yedis!Store

LEMMA StoredEmpty ==
    ASSUME NEW key, store' = deleteKey(key), NEW type
    PROVE  Yedis!Store(key, type, Yedis!Empty[type])
BY Removed DEF Yedis!Store

-----------------------------------------------------------------------------
(* Strings.                                                                 *)

LEMMA StringMade ==
    ASSUME NEW key, NEW s, store' = setValue(key, createString(s))
    PROVE  AbstractStore' = Yedis!With(key, "string", Yedis!Kept(s))
<1>1. createString(s).type = "string"
  BY DEF createString
<1>2. Abstract(createString(s)).value = Decode(createString(s))
  BY <1>1 DEF Abstract
<1>3. Decode(createString(s)) = Yedis!Kept(s)
  BY AllDepartures DEF Decode, createString, Yedis!Kept, IsLiteral, InDecimal
<1> QED
  BY <1>1, <1>2, <1>3, Replaced

LEMMA StringsImplement ==
    ASSUME NEW params \in Requests,
           \/ params[1] = "set"   /\ setCmd(params)
           \/ params[1] = "get"   /\ getCmd(params)
           \/ params[1] = "setnx" /\ setnxCmd(params)
    PROVE  Implements(params)
<1> DEFINE key == params[2]
           args == Arguments(params)
<1>1. CASE params[1] = "set" /\ setCmd(params)
  <2>1. args[1] = params[3]
    BY <1>1, KeyCommandNames, ArgumentsGiven, Lengths
  <2>2. Yedis!Answer(Yedis!Ok)
    BY <1>1, AnsweredOk DEF setCmd
  <2>3. AbstractStore' = Yedis!With(key, "string", Yedis!Kept(params[3]))
    BY <1>1, StringMade DEF setCmd
  <2>4. Yedis!Set(key, args[1])
    BY <2>1, <2>2, <2>3 DEF Yedis!Set
  <2> QED
    BY <1>1, <2>4 DEF Implements, Yedis!Command
<1>2. CASE params[1] = "setnx" /\ setnxCmd(params)
  <2>1. args[1] = params[3]
    BY <1>2, KeyCommandNames, ArgumentsGiven, Lengths
  <2>2. getValue(key) = "ok" <=> key \in DOMAIN AbstractStore
    BY SameKeys DEF getValue, getValueByType
  <2>3. CASE getValue(key) = "ok"
    <3>1. Yedis!Just(Yedis!Number(0))
      BY <1>2, <2>3, AnsweredNumber, Unchanged DEF setnxCmd, Refuse, format0, Yedis!Just
    <3> QED
      BY <1>2, <2>2, <2>3, <3>1 DEF Implements, Yedis!Command, Yedis!SetNX
  <2>4. CASE getValue(key) # "ok"
    <3>1. Yedis!Answer(Yedis!Number(1))
      BY <1>2, <2>4, AnsweredNumber DEF setnxCmd, format1
    <3>2. AbstractStore' = Yedis!With(key, "string", Yedis!Kept(params[3]))
      BY <1>2, <2>4, StringMade DEF setnxCmd
    <3>3. Yedis!SetNX(key, args[1])
      BY <2>1, <2>2, <2>4, <3>1, <3>2 DEF Yedis!SetNX
    <3> QED
      BY <1>2, <3>3 DEF Implements, Yedis!Command
  <2> QED
    BY <2>3, <2>4
<1>3. CASE params[1] = "get" /\ getCmd(params)
  <2>1. Yedis!Applicable(params[1], key, args) <=> getValueByType(key, "string") = "ok"
    <3>1. Yedis!TypeOfCommand["get"] = "string" /\ "get" \notin Yedis!Creators
      BY DEF Yedis!TypeOfCommand, Yedis!Creators
    <3>2. params[1] \in KeyCommands \ {"set", "setnx"}
      BY <1>3, KeyCommandNames
    <3> QED
      BY <1>3, <3>1, <3>2, AppliesWhen
  <2>2. CASE getValueByType(key, "string") = "ok"
    <3>1. key \in DOMAIN store /\ store[key].type = "string"
      BY <2>2 DEF getValueByType
    <3>2. AbstractStore[key].value = Decode(store[key])
      BY <3>1, AbstractValue DEF Abstract
    <3>3. Reply(<<formatBulk(Decode(store[key]))>>) /\ UNCHANGED store
      BY <1>3, <2>2 DEF getCmd
    <3>4. Yedis!Just(Yedis!Text(AbstractStore[key].value))
      BY <3>2, <3>3, AnsweredText, Unchanged DEF Yedis!Just
    <3>5. Yedis!Perform("get", key, args)
      BY <3>4 DEF Yedis!Perform
    <3> QED
      BY <1>3, <2>1, <2>2, <3>5, IsApplicable
  <2>3. CASE getValueByType(key, "string") # "ok"
    <3>1. UNCHANGED store
      BY <1>3 DEF getCmd
    <3> QED
      BY <1>3, <2>1, <2>3, <3>1, NotApplicable
  <2> QED
    BY <2>2, <2>3
<1> QED
  BY <1>1, <1>2, <1>3

-----------------------------------------------------------------------------
(* Lists.                                                                   *)

(* What the table says of each command's type.                               *)
LEMMA TypesOfCommands ==
    /\ \A c \in {"LPUSH", "RPUSH", "LPUSHX", "RPUSHX", "LPOP", "RPOP", "LLEN", "LRANGE"} :
         Yedis!TypeOfCommand[c] = "list"
    /\ \A c \in {"SADD", "SCARD", "SMEMBERS", "SPOP"} : Yedis!TypeOfCommand[c] = "set"
    /\ \A c \in {"HSET", "HGET"} : Yedis!TypeOfCommand[c] = "hash"
    /\ Yedis!TypeOfCommand["ZADD"] = "zset"
BY DEF Yedis!TypeOfCommand

LEMMA EmptyValues ==
    /\ Yedis!Empty["list"] = <<>> /\ Yedis!Empty["set"] = {}
    /\ Yedis!Empty["hash"] = <<>> /\ Yedis!Empty["zset"] = <<>>
BY DEF Yedis!Empty

(* Reverse is RedisKeyspace's Reversed.                                      *)
LEMMA SameReversal ==
    ASSUME NEW q \in Seq(Strings)
    PROVE  /\ Reverse(q) = Yedis!Reversed(q)
           /\ Reverse(q) \in Seq(Strings) /\ Len(Reverse(q)) = Len(q)
<1>1. \A i \in 1 .. Len(q) : q[(Len(q) - i) + 1] = q[Len(q) + 1 - i] /\ q[(Len(q) - i) + 1] \in Strings
  OBVIOUS
<1>2. Reverse(q) = Yedis!Reversed(q)
  BY <1>1 DEF Reverse, Yedis!Reversed
<1>3. Reverse(q) \in [1 .. Len(q) -> Strings]
  BY <1>1 DEF Reverse
<1> QED
  BY <1>2, <1>3

LEMMA Longer ==
    ASSUME NEW h \in Seq(Strings), NEW t \in Seq(Strings), h # <<>> \/ t # <<>>
    PROVE  h \o t # <<>>
<1>1. Len(h) > 0 \/ Len(t) > 0
  OBVIOUS
<1>2. Len(h \o t) = Len(h) + Len(t) /\ Len(h) \in Nat /\ Len(t) \in Nat
  OBVIOUS
<1> QED
  BY <1>1, <1>2

LEMMA PushImplements ==
    ASSUME RefInv, NEW params \in Requests, params[1] \in {"LPUSH", "RPUSH", "LPUSHX", "RPUSHX"},
           NEW pos, pos = "head" <=> params[1] \in {"LPUSH", "LPUSHX"},
           NEW createIfNotExist \in BOOLEAN, createIfNotExist <=> params[1] \in {"LPUSH", "RPUSH"},
           push(params, pos, createIfNotExist)
    PROVE  Implements(params)
<1> DEFINE key == params[2]
           c == params[1]
           args == Arguments(params)
           err == getValueByType(key, "list")
           old == IF err = "ok" THEN store[key].value ELSE <<>>
           new == IF pos = "head" THEN Yedis!Reversed(args) \o old ELSE old \o args
           applies == err = "ok" \/ (err = "notExist" /\ createIfNotExist)
<1>0. c \in KeyCommands \ {"set", "setnx"} /\ c \in Adders \ {"SADD"}
  BY KeyCommandNames DEF Adders
<1>1. args \in Seq(Strings) /\ args # <<>> /\ args = Values(params)
  <2>1. args \in Seq(Strings) /\ Len(args) = Len(params) - 2 /\ Len(params) \in Nat
    BY <1>0, ArgumentsGiven
  <2>2. Len(params) >= 3
    BY <1>0, RequestShape DEF RefInv, KeptInv
  <2>3. args = Values(params)
    BY DEF Arguments, Values
  <2> HIDE DEF args
  <2> QED
    BY <2>1, <2>2, <2>3
<1>2. old \in Seq(Strings)
  BY FoundTyped, ValueOfType DEF RefInv, TypedInv
<1>3. Yedis!Applicable(c, key, args) <=> applies
  <2>1. c \in Yedis!Creators <=> createIfNotExist
    BY DEF Yedis!Creators
  <2>2. Yedis!TypeOfCommand[c] = "list"
    BY TypesOfCommands
  <2> QED
    BY <1>0, <2>1, <2>2, AppliesWhen
<1>4. CASE ~applies
  <2>1. UNCHANGED store
    BY <1>4 DEF push, Refuse
  <2> QED
    BY <1>0, <1>3, <1>4, <2>1, NotApplicable
<1>5. CASE applies
  <2>1. Reverse(args) = Yedis!Reversed(args) /\ Reverse(args) \in Seq(Strings) /\ Reverse(args) # <<>>
    <3>1. Reverse(args) = Yedis!Reversed(args) /\ Reverse(args) \in Seq(Strings) /\ Len(Reverse(args)) = Len(args)
      BY <1>1, SameReversal
    <3> QED
      BY <1>1, <3>1
  <2>2. new # <<>>
    BY <1>1, <1>2, <2>1, Longer
  <2>3. store' = setValue(key, [createList EXCEPT !.value = new]) /\ Reply(<<formatInt(Len(new))>>)
    <3>1. createList.value = <<>>
      BY DEF createList
    <3> QED
      BY <1>1, <1>5, <2>1, <3>1 DEF push
  <2>4. Yedis!ValueAt(key, "list") = old
    BY ValuesFound DEF RefInv, TypedInv
  <2> DEFINE o == [createList EXCEPT !.value = new]
  <2>5. o.type = "list" /\ Abstract(o).value = new
    BY DEF createList, Abstract
  <2>6. Yedis!Store(key, "list", new)
    <3> HIDE DEF new, o
    <3>1. store' = setValue(key, o)
      BY <2>3 DEF o
    <3> QED
      BY <2>2, <2>5, <3>1, Stored, EmptyValues
  <2>7. Yedis!Answer(Yedis!Number(Len(new)))
    BY <2>3, AnsweredNumber
  <2>8. new = IF c \in {"LPUSH", "LPUSHX"} THEN Yedis!Reversed(args) \o old ELSE old \o args
    OBVIOUS
  <2>9. Yedis!ListCommand(c, key, args)
    <3> HIDE DEF new, old, args
    <3> QED
      BY <2>4, <2>6, <2>7, <2>8 DEF Yedis!ListCommand
  <2>10. Yedis!Perform(c, key, args)
    BY <2>9 DEF Yedis!Perform
  <2> QED
    BY <1>0, <1>3, <1>5, <2>10, IsApplicable
<1> QED
  BY <1>4, <1>5

(* A list in the keyspace is not empty, so a pop finds an element.           *)
LEMMA PopImplements ==
    ASSUME RefInv, NEW params \in Requests, params[1] \in {"LPOP", "RPOP"},
           NEW pos, pos = "head" <=> params[1] = "LPOP",
           pop(params, pos)
    PROVE  Implements(params)
<1> DEFINE key == params[2]
           c == params[1]
           args == Arguments(params)
           list == store[key].value
           rest == IF c = "LPOP" THEN Tail(list) ELSE SubSeq(list, 1, Len(list) - 1)
           element == IF c = "LPOP" THEN list[1] ELSE list[Len(list)]
           found == getValueByType(key, "list") = "ok"
<1>0. c \in KeyCommands \ {"set", "setnx"}
  BY KeyCommandNames
<1>1. Yedis!Applicable(c, key, args) <=> found
  <2>1. c \notin Yedis!Creators
    BY DEF Yedis!Creators
  <2>2. Yedis!TypeOfCommand[c] = "list"
    BY TypesOfCommands
  <2> QED
    BY <1>0, <2>1, <2>2, AppliesWhen
<1>2. CASE ~found
  <2>1. UNCHANGED store
    BY <1>2 DEF pop, Refuse
  <2> QED
    BY <1>0, <1>1, <1>2, <2>1, NotApplicable
<1>3. CASE found
  <2>1. /\ key \in DOMAIN store /\ store[key].type = "list" /\ store[key] \in Objects
        /\ list \in Seq(Strings) /\ list # <<>>
    BY <1>3, Found, FoundTyped DEF RefInv, TypedInv, Kept
  <2>2. Front(list) = SubSeq(list, 1, Len(list) - 1) /\ Last(list) = list[Len(list)] /\ Head(list) = list[1]
    BY <2>1 DEF Front, Last
  <2>3. /\ store' = IF rest = <<>> THEN deleteKey(key) ELSE Update(key, rest)
        /\ Reply(<<formatBulk(element)>>)
    BY <1>3, <2>1, <2>2 DEF pop
  <2>4. Yedis!ValueAt(key, "list") = list
    BY <1>3, ValuesFound DEF RefInv, TypedInv
  <2> HIDE DEF rest, element, list
  <2>5. Yedis!Store(key, "list", rest)
    <3>1. CASE rest = <<>>
      <4>1. store' = deleteKey(key)
        BY <2>3, <3>1
      <4> QED
        BY <3>1, <4>1, StoredEmpty, EmptyValues
    <3>2. CASE rest # <<>>
      <4> DEFINE o == [type |-> store[key].type, encoding |-> store[key].encoding, value |-> rest]
      <4>1. store' = setValue(key, o)
        BY <2>1, <2>3, <3>2, UpdateReplaces DEF RefInv, TypedInv
      <4>2. o.type = "list" /\ Abstract(o).value = rest
        BY <2>1 DEF Abstract
      <4> HIDE DEF o
      <4> QED
        BY <3>2, <4>1, <4>2, Stored, EmptyValues
    <3> QED
      BY <3>1, <3>2
  <2>6. Yedis!Answer(Yedis!Text(element))
    BY <2>3, AnsweredText
  <2>7. Yedis!ListCommand(c, key, args)
    BY <2>4, <2>5, <2>6 DEF Yedis!ListCommand, rest, element
  <2>8. Yedis!Perform(c, key, args)
    BY <2>7 DEF Yedis!Perform
  <2> QED
    BY <1>0, <1>1, <1>3, <2>8, IsApplicable
<1> QED
  BY <1>2, <1>3

LEMMA LengthImplements ==
    ASSUME RefInv, NEW params \in Requests, params[1] = "LLEN", llen(params)
    PROVE  Implements(params)
<1> DEFINE key == params[2]
           args == Arguments(params)
           list == store[key].value
           found == getValueByType(key, "list") = "ok"
<1>0. params[1] \in KeyCommands \ {"set", "setnx"}
  BY KeyCommandNames
<1>1. Yedis!Applicable("LLEN", key, args) <=> found
  <2>1. "LLEN" \notin Yedis!Creators /\ Yedis!TypeOfCommand["LLEN"] = "list"
    BY TypesOfCommands DEF Yedis!Creators
  <2> QED
    BY <1>0, <2>1, AppliesWhen
<1>2. UNCHANGED store
  BY DEF llen, Refuse
<1>3. CASE ~found
  BY <1>0, <1>1, <1>2, <1>3, NotApplicable
<1>4. CASE found
  <2>1. Reply(<<formatInt(Len(list))>>)
    BY <1>4 DEF llen, Refuse
  <2>2. Yedis!ValueAt(key, "list") = list
    BY <1>4, ValuesFound DEF RefInv, TypedInv
  <2>3. Yedis!Just(Yedis!Number(Len(list)))
    BY <1>2, <2>1, AnsweredNumber, Unchanged DEF Yedis!Just
  <2>4. Yedis!Perform("LLEN", key, args)
    BY <2>2, <2>3 DEF Yedis!Perform, Yedis!ListCommand
  <2> QED
    BY <1>0, <1>1, <1>4, <2>4, IsApplicable
<1> QED
  BY <1>3, <1>4

(* What SubSeq gives.                                                        *)
LEMMA SliceOf ==
    ASSUME NEW q \in Seq(Strings), NEW a \in Nat, NEW b \in Int, a <= b, b < Len(q)
    PROVE  /\ SubSeq(q, a + 1, b + 1) \in Seq(Strings)
           /\ Len(SubSeq(q, a + 1, b + 1)) = b - a + 1
           /\ \A i \in 1 .. (b - a + 1) : SubSeq(q, a + 1, b + 1)[i] = q[a + i]
OBVIOUS

(* The range of getRange is the slice of the promise.                        *)
LEMMA RangeIsSlice ==
    ASSUME NEW q \in Seq(Strings), q # <<>>, NEW from \in Int, NEW to \in Int,
           NEW r, r = getRange(adjustIndex(from, to, Len(q)), Len(q))
    PROVE  /\ r.len \in Nat
           /\ Yedis!Slice(q, from, to) = [i \in 1 .. r.len |-> q[r.begin + i]]
<1> DEFINE n == Len(q)
           s == IF from < 0 THEN n + from ELSE from
           e == IF to < 0 THEN n + to ELSE to
           first == IF s < 0 THEN 0 ELSE s
           last == IF e >= n THEN n - 1 ELSE e
           wanted == {i \in 1 .. n : s <= i - 1 /\ i - 1 <= e}
           least == CHOOSE i \in wanted : \A j \in wanted : i <= j
<1>1. n \in Nat /\ n # 0 /\ s \in Int /\ e \in Int
  OBVIOUS
<1>2. adjustIndex(from, to, n) = [start |-> first, end |-> last]
  <2>1. s = (IF from < 0 THEN from + n ELSE from) /\ e = (IF to < 0 THEN to + n ELSE to)
    BY <1>1
  <2> HIDE DEF n, s, e
  <2> QED
    BY <1>1, <2>1 DEF adjustIndex
<1>3. Yedis!Slice(q, from, to) =
        IF wanted = {} THEN <<>> ELSE SubSeq(q, least, least + Cardinality(wanted) - 1)
  <2>1. Yedis!Slice(q, from, to) =
          IF wanted = {} THEN <<>> ELSE SubSeq(q, least, least + Yedis!Cardinality(wanted) - 1)
    BY Zenon DEF Yedis!Slice
  <2>2. Yedis!Cardinality(wanted) = Cardinality(wanted)
    BY SameCardinality
  <2> HIDE DEF wanted, least
  <2> QED
    BY <2>1, <2>2
<1> HIDE DEF n, s, e
<1>4. wanted = (first + 1) .. (last + 1) /\ first \in Nat /\ last \in Int /\ last < n
  BY <1>1
<1>5. r = getRange([start |-> first, end |-> last], n)
  BY <1>2 DEF n
<1> HIDE DEF first, last, wanted, least
<1>6. CASE first > last
  <2>1. r = [begin |-> n, len |-> 0]
    BY <1>5, <1>6 DEF getRange
  <2>2. wanted = {}
    BY <1>4, <1>6
  <2>3. [i \in 1 .. 0 |-> q[n + i]] = <<>>
    OBVIOUS
  <2> QED
    BY <1>3, <2>1, <2>2, <2>3
<1>7. CASE first <= last
  <2>1. r.begin = first /\ r.len = last - first + 1
    <3>1. index2Iterator(first, n) = first
      BY <1>1, <1>4 DEF index2Iterator
    <3>2. CASE first # 0 \/ last + 1 # n
      BY <1>4, <1>5, <1>7, <3>1, <3>2 DEF getRange
    <3>3. CASE ~(first # 0 \/ last + 1 # n)
      <4>1. r = [begin |-> 0, len |-> n]
        BY <1>4, <1>5, <1>7, <3>3 DEF getRange
      <4> QED
        BY <1>1, <1>4, <3>3, <4>1
    <3> QED
      BY <3>2, <3>3
  <2>2. Cardinality(wanted) = last - first + 1
    BY <1>4, <1>7, FS_Interval
  <2>3. least = first + 1
    <3>1. first + 1 \in wanted /\ \A j \in wanted : first + 1 <= j
      BY <1>4, <1>7
    <3>2. least \in wanted /\ \A j \in wanted : least <= j
      BY <3>1 DEF least
    <3> QED
      BY <1>4, <3>1, <3>2
  <2>4. Yedis!Slice(q, from, to) = SubSeq(q, first + 1, first + 1 + (last - first + 1) - 1)
    <3>1. wanted # {}
      <4>1. first + 1 \in wanted
        BY <1>4, <1>7
      <4> QED
        BY <4>1
    <3> QED
      BY <1>3, <2>2, <2>3, <3>1
  <2>5. SubSeq(q, first + 1, first + 1 + (last - first + 1) - 1) = SubSeq(q, first + 1, last + 1)
    <3>1. first + 1 + (last - first + 1) - 1 = last + 1
      BY <1>4
    <3> QED
      BY <3>1
  <2>6. SubSeq(q, first + 1, last + 1) = [i \in 1 .. (last - first + 1) |-> q[first + i]]
    <3>1. /\ SubSeq(q, first + 1, last + 1) \in Seq(Strings)
          /\ Len(SubSeq(q, first + 1, last + 1)) = last - first + 1
          /\ \A i \in 1 .. (last - first + 1) : SubSeq(q, first + 1, last + 1)[i] = q[first + i]
      BY <1>1, <1>4, <1>7, SliceOf DEF n
    <3>2. ASSUME NEW t \in Seq(Strings)
          PROVE  t = [i \in 1 .. Len(t) |-> t[i]]
      OBVIOUS
    <3> QED
      BY <3>1, <3>2
  <2> QED
    BY <1>4, <1>7, <2>1, <2>4, <2>5, <2>6
<1> QED
  BY <1>4, <1>6, <1>7

LEMMA RangeImplements ==
    ASSUME RefInv, NEW params \in Requests, params[1] = "LRANGE", lrange(params)
    PROVE  Implements(params)
<1> DEFINE key == params[2]
           args == Arguments(params)
           list == store[key].value
           from == AsLong[params[3]]
           to == AsLong[params[4]]
           found == getValueByType(key, "list") = "ok"
           r == getRange(adjustIndex(from, to, Len(list)), Len(list))
<1>0. params[1] \in KeyCommands \ {"set", "setnx"}
  BY KeyCommandNames
<1>1. Yedis!Applicable("LRANGE", key, args) <=> found /\ from # NotLong /\ to # NotLong
  <2>1. "LRANGE" \notin Yedis!Creators /\ Yedis!TypeOfCommand["LRANGE"] = "list"
    BY TypesOfCommands DEF Yedis!Creators
  <2> QED
    BY <1>0, <2>1, AppliesWhen
<1>2. UNCHANGED store
  BY DEF lrange, Refuse
<1>3. CASE ~(found /\ from # NotLong /\ to # NotLong)
  BY <1>0, <1>1, <1>2, <1>3, NotApplicable
<1>4. CASE found /\ from # NotLong /\ to # NotLong
  <2>1. list \in Seq(Strings) /\ list # <<>>
    BY <1>4, Found, FoundTyped, ValueOfType DEF RefInv, TypedInv, Kept
  <2>2. from \in Int /\ to \in Int
    <3>1. params[3] \in Strings /\ params[4] \in Strings
      BY <1>0, RequestShape, Lengths
    <3> QED
      BY <1>4, <3>1, TextAssumption
  <2>3. /\ r.len \in Nat
        /\ Yedis!Slice(list, from, to) = [i \in 1 .. r.len |-> list[r.begin + i]]
    <3> HIDE DEF list, from, to
    <3>1. r = getRange(adjustIndex(from, to, Len(list)), Len(list))
      OBVIOUS
    <3> HIDE DEF r
    <3> QED
      BY <2>1, <2>2, <3>1, RangeIsSlice
  <2>4. Reply(<<preFormatMultiBulk(r.len)>> \o [i \in 1 .. r.len |-> formatBulk(list[r.begin + i])])
    BY <1>4 DEF lrange, Refuse
  <2>5. Yedis!ValueAt(key, "list") = list
    BY <1>4, ValuesFound DEF RefInv, TypedInv
  <2>6. args[1] = params[3] /\ args[2] = params[4]
    BY <1>0, ArgumentsGiven, Lengths
  <2> DEFINE f == [i \in 1 .. r.len |-> list[r.begin + i]]
  <2> HIDE DEF r, list, args
  <2>7. Yedis!Answer(Yedis!Texts(f))
    <3>1. \A i \in 1 .. r.len : list[r.begin + i] = f[i]
      OBVIOUS
    <3>2. [i \in 1 .. r.len |-> formatBulk(list[r.begin + i])] = [i \in 1 .. r.len |-> formatBulk(f[i])]
      BY <3>1
    <3>3. [i \in 1 .. r.len |-> f[i]] = f
      OBVIOUS
    <3> HIDE DEF f
    <3>4. Yedis!Answer(Yedis!Texts([i \in 1 .. r.len |-> f[i]]))
      BY <2>3, <2>4, <3>2, AnsweredTexts
    <3> QED
      BY <3>3, <3>4
  <2>8. Yedis!Just(Yedis!Texts(Yedis!Slice(list, from, to)))
    BY <1>2, <2>3, <2>7, Unchanged DEF Yedis!Just
  <2>9. Yedis!Perform("LRANGE", key, args)
    <3>1. Yedis!Just(Yedis!Texts(Yedis!Slice(Yedis!ValueAt(key, "list"), LiteralOf(args[1]), LiteralOf(args[2]))))
      BY <2>5, <2>6, <2>8 DEF LiteralOf
    <3> QED
      BY <3>1 DEF Yedis!Perform, Yedis!ListCommand
  <2> QED
    BY <1>0, <1>1, <1>4, <2>9, IsApplicable DEF args
<1> QED
  BY <1>3, <1>4

-----------------------------------------------------------------------------
(* Sets.                                                                    *)

(* What adding a finite set to another adds to its size.                     *)
LEMMA SizeAdded ==
    ASSUME NEW S, IsFiniteSet(S), NEW T, IsFiniteSet(T)
    PROVE  Cardinality(S \cup T) - Cardinality(S) = Cardinality(T \ S)
<1>1. IsFiniteSet(T \ S)
  BY FS_Difference
<1>2. Cardinality(S \cup (T \ S)) = Cardinality(S) + Cardinality(T \ S) - Cardinality(S \cap (T \ S))
  BY <1>1, FS_Union
<1>3. S \cup (T \ S) = S \cup T /\ S \cap (T \ S) = {}
  OBVIOUS
<1>4. Cardinality(S \cap (T \ S)) = 0
  BY <1>3, FS_EmptySet
<1>5. Cardinality(S) \in Nat /\ Cardinality(T \ S) \in Nat
  BY <1>1, FS_CardinalityType
<1>6. Cardinality(S \cup T) = Cardinality(S) + Cardinality(T \ S) - 0
  BY <1>2, <1>3, <1>4
<1> QED
  BY <1>5, <1>6

(* The commands of a set apply to a set, and SADD where there is no key.     *)
LEMMA SetApplies ==
    ASSUME NEW params \in Requests, params[1] \in {"SADD", "SCARD", "SMEMBERS", "SPOP"}
    PROVE  /\ params[1] \in KeyCommands \ {"set", "setnx"}
           /\ Yedis!Applicable(params[1], params[2], Arguments(params)) <=>
                \/ getValueByType(params[2], "set") = "ok"
                \/ params[1] = "SADD" /\ getValueByType(params[2], "set") = "notExist"
<1>1. params[1] \in KeyCommands \ {"set", "setnx"}
  BY KeyCommandNames
<1>2. params[1] \in Yedis!Creators <=> params[1] = "SADD"
  BY DEF Yedis!Creators
<1>3. Yedis!TypeOfCommand[params[1]] = "set"
  BY TypesOfCommands
<1> QED
  BY <1>1, <1>2, <1>3, AppliesWhen

LEMMA MembersOf ==
    ASSUME RefInv, NEW params \in Requests, params[1] = "SADD"
    PROVE  /\ Members(params) = Yedis!SetOf(Arguments(params))
           /\ Members(params) # {} /\ IsFiniteSet(Members(params))
<1> DEFINE args == Arguments(params)
           n == Len(params)
<1>1. params[1] \in KeyCommands /\ params[1] \in Adders
  BY KeyCommandNames DEF Adders
<1>2. n \in Nat /\ n >= 3
  BY <1>1, RequestShape DEF RefInv, KeptInv
<1>3. DOMAIN args = 1 .. n - 2 /\ \A i \in 1 .. n - 2 : args[i] = params[i + 2]
  BY <1>1, ArgumentsGiven
<1> HIDE DEF args, n
<1>4. Members(params) = {params[i] : i \in 3 .. n}
  BY DEF Members, n
<1>5. Yedis!SetOf(args) = {params[i + 2] : i \in 1 .. n - 2}
  BY <1>3 DEF Yedis!SetOf
<1>6. {params[i] : i \in 3 .. n} = {params[i + 2] : i \in 1 .. n - 2}
  <2>1. \A i \in 3 .. n : i - 2 \in 1 .. n - 2 /\ (i - 2) + 2 = i
    BY <1>2
  <2>2. \A i \in 1 .. n - 2 : i + 2 \in 3 .. n
    BY <1>2
  <2> QED
    BY <2>1, <2>2
<1>7. Members(params) # {}
  <2>1. 3 \in 3 .. n
    BY <1>2
  <2> QED
    BY <1>4, <2>1
<1>8. IsFiniteSet(Members(params))
  <2> DEFINE f == [i \in 3 .. n |-> params[i]]
             M == Members(params)
  <2>1. IsFiniteSet(3 .. n)
    BY <1>2, FS_Interval
  <2>2. f \in Surjection(3 .. n, M)
    BY <1>4 DEF Surjection
  <2> HIDE DEF f, M
  <2>3. IsFiniteSet(M)
    BY <2>1, <2>2, FS_Surjection
  <2> QED
    BY <2>3 DEF M
<1> QED
  BY <1>4, <1>5, <1>6, <1>7, <1>8 DEF args

LEMMA SaddImplements ==
    ASSUME RefInv, NEW params \in Requests, params[1] = "SADD", sadd(params)
    PROVE  Implements(params)
<1> DEFINE key == params[2]
           args == Arguments(params)
           err == getValueByType(key, "set")
           M == Members(params)
           old == IF err = "ok" THEN store[key].value ELSE {}
           new == old \cup M
           applies == err \in {"ok", "notExist"}
<1>1. Yedis!Applicable("SADD", key, args) <=> applies
  BY SetApplies
<1>2. "SADD" \notin {"set", "setnx"} /\ err \in {"ok", "type", "notExist"}
  BY HasWhenFound
<1>3. CASE ~applies
  <2>1. UNCHANGED store
    BY <1>2, <1>3 DEF sadd, Refuse
  <2> QED
    BY <1>1, <1>3, <2>1, NotApplicable
<1>4. CASE applies
  <2>1. M = Yedis!SetOf(args) /\ M # {} /\ IsFiniteSet(M)
    BY MembersOf
  <2>2. IsFiniteSet(old)
    <3>1. CASE err = "ok"
      BY <3>1, FoundTyped, ValueOfType DEF RefInv, TypedInv
    <3>2. CASE err # "ok"
      BY <3>2, FS_EmptySet
    <3> QED
      BY <3>1, <3>2
  <2>3. /\ store' = setValue(key, [createSet EXCEPT !.value = new])
        /\ Reply(<<formatInt(Cardinality(new) - Cardinality(old))>>)
    <3>1. createSet.value = {}
      BY DEF createSet
    <3> QED
      BY <1>4, <3>1 DEF sadd
  <2>4. Yedis!ValueAt(key, "set") = old
    BY ValuesFound DEF RefInv, TypedInv
  <2> DEFINE o == [createSet EXCEPT !.value = new]
  <2>5. o.type = "set" /\ Abstract(o).value = new
    BY DEF createSet, Abstract
  <2>6. Cardinality(new) - Cardinality(old) = Yedis!Cardinality(M \ old)
    <3> HIDE DEF M, old
    <3> QED
      BY <2>1, <2>2, SizeAdded, SameCardinality
  <2>7. new # {}
    BY <2>1
  <2>8. Yedis!Store(key, "set", new)
    <3> HIDE DEF new, o
    <3>1. store' = setValue(key, o)
      BY <2>3 DEF o
    <3> QED
      BY <2>5, <2>7, <3>1, Stored, EmptyValues
  <2>9. Yedis!Answer(Yedis!Number(Yedis!Cardinality(M \ old)))
    BY <2>3, <2>6, AnsweredNumber
  <2>10. Yedis!Perform("SADD", key, args)
    <3> HIDE DEF M, old, args
    <3>1. Yedis!SetCommand("SADD", key, args)
      BY <2>1, <2>4, <2>8, <2>9 DEF Yedis!SetCommand
    <3> QED
      BY <3>1 DEF Yedis!Perform
  <2> QED
    BY <1>1, <1>4, <2>10, IsApplicable
<1> QED
  BY <1>3, <1>4

LEMMA SetReadsImplement ==
    ASSUME RefInv, NEW params \in Requests,
           \/ params[1] = "SCARD" /\ scard(params)
           \/ params[1] = "SMEMBERS" /\ smember(params)
    PROVE  Implements(params)
<1> DEFINE key == params[2]
           c == params[1]
           args == Arguments(params)
           set == store[key].value
           found == getValueByType(key, "set") = "ok"
           size == Cardinality(set)
<1>1. /\ c \notin {"set", "setnx"}
      /\ Yedis!Applicable(c, key, args) <=> found
  BY SetApplies
<1>2. UNCHANGED store
  BY DEF scard, smember, Refuse
<1>3. UNCHANGED AbstractStore
  BY <1>2, Unchanged
<1>4. CASE ~found
  BY <1>1, <1>2, <1>4, NotApplicable
<1>5. CASE found
  <2>1. Yedis!ValueAt(key, "set") = set
    BY <1>5, ValuesFound DEF RefInv, TypedInv
  <2>2. IsFiniteSet(set)
    BY <1>5, FoundTyped, ValueOfType DEF RefInv, TypedInv
  <2>3. CASE c = "SCARD"
    <3>1. Reply(<<formatInt(Yedis!Cardinality(set))>>)
      BY <1>5, <2>3, SameCardinality DEF scard, Refuse
    <3>2. Yedis!Just(Yedis!Number(Yedis!Cardinality(set)))
      BY <1>3, <3>1, AnsweredNumber DEF Yedis!Just
    <3> HIDE DEF args, set
    <3>3. Yedis!Perform("SCARD", key, args)
      BY <2>1, <3>2 DEF Yedis!Perform, Yedis!SetCommand
    <3> QED
      BY <1>1, <1>5, <2>3, <3>3, IsApplicable DEF args
  <2>4. CASE c = "SMEMBERS"
    <3>1. PICK order \in Bijection(1 .. size, set) :
            Reply(<<preFormatMultiBulk(size)>> \o [i \in 1 .. size |-> formatBulk(order[i])])
      BY <1>5, <2>4 DEF smember, Refuse
    <3>2. size \in Nat
      BY <2>2, FS_CardinalityType
    <3> DEFINE read == [i \in 1 .. size |-> order[i]]
    <3> HIDE DEF size
    <3>3. Yedis!Answer(Yedis!Texts(read))
      BY <3>1, <3>2, AnsweredTexts
    <3> HIDE DEF set
    <3>4. DOMAIN read = 1 .. size /\ Len(read) = size /\ Yedis!SetOf(read) = set
      <4>1. order \in [1 .. size -> set] /\ \A m \in set : \E i \in 1 .. size : order[i] = m
        BY <3>1 DEF Bijection, Surjection, Injection
      <4>2. read \in Seq(set) /\ Len(read) = size
        BY <3>2, <4>1
      <4>3. \A i \in 1 .. size : read[i] = order[i]
        OBVIOUS
      <4> HIDE DEF read
      <4>4. DOMAIN read = 1 .. size
        BY <4>2
      <4> QED
        BY <4>1, <4>2, <4>3, <4>4 DEF Yedis!SetOf
    <3>5. size = Yedis!Cardinality(set)
      BY SameCardinality DEF size
    <3>6. (ClientReads(reply))' = [kind |-> "array", val |-> read]
      BY <3>3 DEF Yedis!Answer, Yedis!Texts
    <3> HIDE DEF read, args
    <3>7. Yedis!SetCommand("SMEMBERS", key, args)
      BY <1>3, <2>1, <3>4, <3>5, <3>6 DEF Yedis!SetCommand
    <3>8. Yedis!Perform("SMEMBERS", key, args)
      BY <3>7 DEF Yedis!Perform
    <3> QED
      BY <1>1, <1>5, <2>4, <3>8, IsApplicable DEF args
  <2> QED
    BY <2>3, <2>4
<1> QED
  BY <1>4, <1>5

(* A set in the keyspace is not empty, so SPOP finds a member.               *)
LEMMA SpopImplements ==
    ASSUME RefInv, NEW params \in Requests, params[1] = "SPOP", spop(params)
    PROVE  Implements(params)
<1> DEFINE key == params[2]
           args == Arguments(params)
           set == store[key].value
           found == getValueByType(key, "set") = "ok"
<1>1. /\ params[1] \notin {"set", "setnx"}
      /\ Yedis!Applicable("SPOP", key, args) <=> found
  BY SetApplies
<1>2. CASE ~found
  <2>1. UNCHANGED store
    BY <1>2 DEF spop, Refuse
  <2> QED
    BY <1>1, <1>2, <2>1, NotApplicable
<1>3. CASE found
  <2>1. /\ key \in DOMAIN store /\ store[key].type = "set" /\ set # {}
    BY <1>3, Found DEF RefInv, Kept
  <2>2. Yedis!ValueAt(key, "set") = set
    BY <1>3, ValuesFound DEF RefInv, TypedInv
  <2>3. PICK m \in set : /\ store' = IF set = {m} THEN deleteKey(key) ELSE Update(key, set \ {m})
                         /\ Reply(<<formatBulk(m)>>)
    BY <1>3, <2>1 DEF spop
  <2> HIDE DEF set
  <2>4. Yedis!Store(key, "set", set \ {m})
    <3>1. CASE set = {m}
      <4>1. store' = deleteKey(key) /\ set \ {m} = {}
        BY <2>3, <3>1
      <4> QED
        BY <4>1, StoredEmpty, EmptyValues
    <3>2. CASE set # {m}
      <4> DEFINE o == [type |-> store[key].type, encoding |-> store[key].encoding, value |-> set \ {m}]
      <4>1. store' = setValue(key, o) /\ set \ {m} # {}
        BY <2>1, <2>3, <3>2, UpdateReplaces DEF RefInv, TypedInv
      <4>2. o.type = "set" /\ Abstract(o).value = set \ {m}
        BY <2>1 DEF Abstract
      <4> DEFINE rest == set \ {m}
      <4> HIDE DEF o, rest
      <4>3. Yedis!Store(key, "set", rest)
        <5>1. store' = setValue(key, o) /\ rest # {} /\ o.type = "set" /\ Abstract(o).value = rest
          BY <4>1, <4>2 DEF rest
        <5> QED
          BY <5>1, Stored, EmptyValues
      <4> QED
        BY <4>3 DEF rest
    <3> QED
      BY <3>1, <3>2
  <2>5. Yedis!Answer(Yedis!Text(m))
    BY <2>3, AnsweredText
  <2>6. Yedis!SetCommand("SPOP", key, args)
    BY <2>2, <2>4, <2>5 DEF Yedis!SetCommand
  <2>7. Yedis!Perform("SPOP", key, args)
    BY <2>6 DEF Yedis!Perform
  <2> QED
    BY <1>1, <1>3, <2>7, IsApplicable
<1> QED
  BY <1>2, <1>3

-----------------------------------------------------------------------------
(* Hashes.                                                                  *)

LEMMA HashesImplement ==
    ASSUME RefInv, NEW params \in Requests,
           \/ params[1] = "HSET" /\ hset(params)
           \/ params[1] = "HGET" /\ hget(params)
    PROVE  Implements(params)
<1> DEFINE key == params[2]
           c == params[1]
           args == Arguments(params)
           err == getValueByType(key, "hash")
           hash == IF err = "ok" THEN store[key].value ELSE <<>>
<1>0. c \in KeyCommands \ {"set", "setnx"} /\ err \in {"ok", "type", "notExist"}
  BY KeyCommandNames, HasWhenFound
<1>1. Yedis!Applicable(c, key, args) <=> err = "ok" \/ (c = "HSET" /\ err = "notExist")
  <2>1. (c \in Yedis!Creators <=> c = "HSET") /\ Yedis!TypeOfCommand[c] = "hash"
    BY TypesOfCommands DEF Yedis!Creators
  <2> QED
    BY <1>0, <2>1, AppliesWhen
<1>2. Yedis!ValueAt(key, "hash") = hash
  BY ValuesFound DEF RefInv, TypedInv
<1>3. args[1] = params[3]
  BY <1>0, ArgumentsGiven, Lengths
<1>4. CASE c = "HSET" /\ err = "type"
  <2>1. UNCHANGED store
    BY <1>4 DEF hset, Refuse
  <2> QED
    BY <1>0, <1>1, <1>4, <2>1, NotApplicable
<1>5. CASE c = "HSET" /\ err # "type"
  <2> DEFINE new == [f \in DOMAIN hash \cup {params[3]} |-> IF f = params[3] THEN params[4] ELSE hash[f]]
             o == [createHash EXCEPT !.value = new]
  <2>1. store' = setValue(key, o) /\ Reply(<<formatInt(1)>>)
    <3>1. createHash.value = <<>>
      BY DEF createHash
    <3> QED
      BY <1>5, <3>1 DEF hset
  <2>2. o.type = "hash" /\ Abstract(o).value = new
    BY DEF createHash, Abstract
  <2>3. new # <<>>
    <3>1. params[3] \in DOMAIN new
      OBVIOUS
    <3>2. DOMAIN <<>> = {}
      OBVIOUS
    <3> HIDE DEF new
    <3> QED
      BY <3>1, <3>2
  <2>4. Yedis!Store(key, "hash", new)
    <3> HIDE DEF new, o
    <3> QED
      BY <2>1, <2>2, <2>3, Stored, EmptyValues
  <2>5. Yedis!Answer(Yedis!Number(1))
    BY <2>1, AnsweredNumber
  <2>6. args[2] = params[4]
    BY <1>0, <1>5, ArgumentsGiven, Lengths
  <2>7. new = [f \in DOMAIN hash \cup {args[1]} |-> IF f = args[1] THEN args[2] ELSE hash[f]]
    BY <1>3, <2>6
  <2>8. Yedis!HashCommand("HSET", key, args)
    <3> HIDE DEF new, hash, args
    <3> QED
      BY <1>2, <2>4, <2>5, <2>7, AllDepartures DEF Yedis!HashCommand
  <2>9. Yedis!Perform("HSET", key, args)
    BY <2>8 DEF Yedis!Perform
  <2> QED
    BY <1>0, <1>1, <1>5, <2>9, IsApplicable
<1>6. CASE c = "HGET"
  <2>1. UNCHANGED store
    BY <1>6 DEF hget, Refuse
  <2>2. CASE err # "ok"
    BY <1>0, <1>1, <1>6, <2>1, <2>2, NotApplicable
  <2>3. CASE err = "ok"
    <3>1. Yedis!Just(IF params[3] \in DOMAIN hash THEN Yedis!Text(hash[params[3]]) ELSE Yedis!Nil)
      <4>1. CASE params[3] \in DOMAIN hash
        <5>1. Reply(<<formatBulk(hash[params[3]])>>)
          BY <1>6, <2>3, <4>1 DEF hget, Refuse
        <5> QED
          BY <2>1, <4>1, <5>1, AnsweredText, Unchanged DEF Yedis!Just
      <4>2. CASE params[3] \notin DOMAIN hash
        <5>1. Reply(<<formatNull>>)
          BY <1>6, <2>3, <4>2 DEF hget, Refuse
        <5> QED
          BY <2>1, <4>2, <5>1, AnsweredNil, Unchanged DEF Yedis!Just
      <4> QED
        BY <4>1, <4>2
    <3>2. Yedis!HashCommand("HGET", key, args)
      <4> HIDE DEF hash, args
      <4> QED
        BY <1>2, <1>3, <3>1 DEF Yedis!HashCommand
    <3>3. Yedis!Perform("HGET", key, args)
      BY <3>2 DEF Yedis!Perform
    <3> QED
      BY <1>0, <1>1, <1>6, <2>3, <3>3, IsApplicable
  <2> QED
    BY <2>2, <2>3
<1> QED
  BY <1>0, <1>4, <1>5, <1>6

-----------------------------------------------------------------------------
(* Sorted sets.                                                             *)

NamedBy(pairs, n) == {pairs[i].member : i \in 1 .. n}

FirstNamed(pairs, i) == \A j \in 1 .. i - 1 : pairs[j].member # pairs[i].member

(* What the first n pairs have made of a sorted set.                         *)
AddedUpTo(z, pairs, n, u) ==
    /\ DOMAIN u.member2Scores = DOMAIN z.member2Scores \cup NamedBy(pairs, n)
    /\ \A m \in DOMAIN z.member2Scores : u.member2Scores[m] = z.member2Scores[m]
    /\ \A i \in 1 .. n :
         pairs[i].member \notin DOMAIN z.member2Scores /\ FirstNamed(pairs, i)
         => u.member2Scores[pairs[i].member] = pairs[i].score

LEMMA PairAdded ==
    ASSUME NEW z, NEW pairs, NEW n \in Nat, n > 0, NEW u, AddedUpTo(z, pairs, n - 1, u)
    PROVE  AddedUpTo(z, pairs, n, addIfAbsent(u, pairs[n]))
<1> DEFINE w == addIfAbsent(u, pairs[n])
           member == pairs[n].member
           oldNamed == NamedBy(pairs, n - 1)
<1>1. NamedBy(pairs, n) = oldNamed \cup {member}
  <2>1. 1 .. n = 1 .. (n - 1) \cup {n}
    OBVIOUS
  <2> QED
    BY <2>1 DEF NamedBy
<1>2. \A i \in 1 .. n : i \in 1 .. n - 1 \/ i = n
  OBVIOUS
<1>3. CASE member \in DOMAIN u.member2Scores
  <2>1. w = u
    BY <1>3 DEF addIfAbsent, findMember
  <2>2. DOMAIN u.member2Scores = DOMAIN z.member2Scores \cup NamedBy(pairs, n)
    BY <1>1, <1>3 DEF AddedUpTo
  <2>3. member \in DOMAIN z.member2Scores \/ ~FirstNamed(pairs, n)
    BY <1>3 DEF AddedUpTo, NamedBy, FirstNamed
  <2>4. \A m \in DOMAIN z.member2Scores : u.member2Scores[m] = z.member2Scores[m]
    BY DEF AddedUpTo
  <2>5. ASSUME NEW i \in 1 .. n, pairs[i].member \notin DOMAIN z.member2Scores, FirstNamed(pairs, i)
        PROVE  u.member2Scores[pairs[i].member] = pairs[i].score
    <3>1. i \in 1 .. n - 1
      BY <1>2, <2>3, <2>5
    <3> QED
      BY <2>5, <3>1 DEF AddedUpTo
  <2> HIDE DEF w
  <2>6. AddedUpTo(z, pairs, n, u)
    BY <2>2, <2>4, <2>5 DEF AddedUpTo
  <2> QED
    BY <2>1, <2>6 DEF w
<1>4. CASE member \notin DOMAIN u.member2Scores
  <2>1. /\ DOMAIN w.member2Scores = DOMAIN u.member2Scores \cup {member}
        /\ w.member2Scores[member] = pairs[n].score
        /\ \A m \in DOMAIN u.member2Scores : w.member2Scores[m] = u.member2Scores[m]
    BY <1>4 DEF addIfAbsent, findMember, addMember
  <2>2. \A i \in 1 .. n - 1 : pairs[i].member \in DOMAIN u.member2Scores
    BY DEF AddedUpTo, NamedBy
  <2> HIDE DEF w
  <2>3. DOMAIN w.member2Scores = DOMAIN z.member2Scores \cup NamedBy(pairs, n)
    BY <1>1, <2>1 DEF AddedUpTo
  <2>4. \A m \in DOMAIN z.member2Scores : w.member2Scores[m] = z.member2Scores[m]
    BY <2>1 DEF AddedUpTo
  <2>5. ASSUME NEW i \in 1 .. n, pairs[i].member \notin DOMAIN z.member2Scores, FirstNamed(pairs, i)
        PROVE  w.member2Scores[pairs[i].member] = pairs[i].score
    <3>1. CASE i = n
      BY <2>1, <3>1
    <3>2. CASE i \in 1 .. n - 1
      BY <2>1, <2>2, <2>5, <3>2 DEF AddedUpTo
    <3> QED
      BY <1>2, <3>1, <3>2
  <2> QED
    BY <2>3, <2>4, <2>5 DEF AddedUpTo, w
<1> QED
  BY <1>3, <1>4

(* The loop of zadd: a member that is there keeps its score, of the scores   *)
(* given for a new one the first counts.                                     *)
THEOREM AddedScores ==
    ASSUME NEW z \in SortedSets, NEW pairs \in Seq(Pairs)
    PROVE  /\ Added(z, pairs) \in SortedSets
           /\ AddedUpTo(z, pairs, Len(pairs), Added(z, pairs))
<1> DEFINE n == Len(pairs)
<1>1. PICK upTo \in [0 .. n -> SortedSets] :
             /\ upTo[0] = z
             /\ \A i \in 1 .. n : upTo[i] = addIfAbsent(upTo[i - 1], pairs[i])
             /\ Added(z, pairs) = upTo[n]
  BY LoopSteps
<1> DEFINE S == {k \in 0 .. n : AddedUpTo(z, pairs, k, upTo[k])}
<1>2. n \in Nat
  OBVIOUS
<1>3. 0 \in S
  <2>1. NamedBy(pairs, 0) = {}
    BY DEF NamedBy
  <2>2. AddedUpTo(z, pairs, 0, z)
    BY <2>1 DEF AddedUpTo
  <2> HIDE DEF n
  <2> QED
    BY <1>1, <1>2, <2>2
<1>4. ASSUME NEW k \in 1 .. n, k - 1 \in S
      PROVE  k \in S
  <2> HIDE DEF n
  <2>1. AddedUpTo(z, pairs, k - 1, upTo[k - 1]) /\ k \in Nat /\ k > 0
    BY <1>2, <1>4
  <2>2. AddedUpTo(z, pairs, k, addIfAbsent(upTo[k - 1], pairs[k]))
    BY <2>1, PairAdded
  <2> QED
    BY <1>1, <1>2, <2>2
<1> HIDE DEF S
<1>5. \A k \in 0 .. n : k \in S
  BY <1>2, <1>3, <1>4, IndicesReached
<1>6. n \in S
  BY <1>2, <1>5
<1> QED
  BY <1>1, <1>2, <1>6 DEF S

LEMMA EmptyScores == createSSet.value.member2Scores = <<>>
BY DEF createSSet

LEMMA ScoresAreMaps ==
    ASSUME NEW z \in SortedSets
    PROVE  z.member2Scores = [m \in DOMAIN z.member2Scores |-> z.member2Scores[m]]
<1>1. z.member2Scores \in ScoreMaps
  BY DEF SortedSets, ZSets
<1> QED
  BY <1>1 DEF ScoreMaps

(* Its arguments, as RedisKeyspace counts them.                              *)
LEMMA PairsGiven ==
    ASSUME NEW params \in Requests, params[1] = "ZADD", MinMembers = 1, Len(params) % 2 = 0,
           NEW pairs, pairs = ScoresAndMembers(params), NEW args, args = Arguments(params)
    PROVE  /\ Len(args) \div 2 = Len(pairs) /\ Len(pairs) \in Nat /\ Len(pairs) >= 1
           /\ \A i \in 1 .. Len(pairs) : /\ args[2 * i] = pairs[i].member
                                         /\ AsDouble[args[2 * i - 1]] = pairs[i].score
<1> DEFINE n == Len(params)
<1>1. params[1] \in KeyCommands
  BY KeyCommandNames
<1>2. n \in Nat /\ n >= 4 /\ n % 2 = 0
  <2>1. n \in Nat /\ n >= 4
    BY <1>1, ArgumentsGiven, Lengths
  <2> QED
    BY <2>1
<1>3. Len(args) = n - 2 /\ \A i \in 1 .. n - 2 : args[i] = params[i + 2]
  BY <1>1, ArgumentsGiven
<1>4. Len(pairs) = (n - 2) \div 2
  BY PairsTyped
<1>5. \A i \in 1 .. (n - 2) \div 2 :
        pairs[i].score = AsDouble[params[2 * i + 1]] /\ pairs[i].member = params[2 * i + 2]
  BY DEF ScoresAndMembers
<1> HIDE DEF n
<1>6. PICK h \in Nat : n = 2 * h
  <2>1. \A m \in Nat : m % 2 = 0 => m = 2 * (m \div 2)
    OBVIOUS
  <2>2. \A m \in Nat : m \div 2 \in Nat
    OBVIOUS
  <2> QED
    BY <1>2, <2>1, <2>2
<1>7. (n - 2) \div 2 = h - 1 /\ h >= 2
  BY <1>2, <1>6
<1>8. ASSUME NEW i \in 1 .. h - 1
      PROVE  args[2 * i] = params[2 * i + 2] /\ args[2 * i - 1] = params[2 * i + 1]
  <2>1. 2 * i \in 1 .. n - 2 /\ 2 * i - 1 \in 1 .. n - 2 /\ (2 * i - 1) + 2 = 2 * i + 1
    BY <1>6, <1>7
  <2> QED
    BY <1>3, <2>1
<1>9. Len(pairs) = h - 1 /\ Len(args) \div 2 = h - 1 /\ h - 1 \in Nat
  BY <1>3, <1>4, <1>6, <1>7 DEF n
<1>10. ASSUME NEW i \in 1 .. h - 1
       PROVE  args[2 * i] = pairs[i].member /\ AsDouble[args[2 * i - 1]] = pairs[i].score
  <2>1. i \in 1 .. (n - 2) \div 2
    BY <1>7
  <2> QED
    BY <1>5, <1>8, <2>1
<1> QED
  BY <1>7, <1>9, <1>10

(* As in SortedSetCommand.                                                   *)
Keep == Yedis!Departs("members keep their scores")
CountsOver(i, j) == IF Keep THEN i <= j ELSE i >= j
Chosen(args, n, m) == CHOOSE i \in 1 .. n : /\ args[2 * i] = m
                                            /\ \A j \in 1 .. n : args[2 * j] = m => CountsOver(i, j)

(* Of the pairs that name a member, the one RedisKeyspace chooses is first.  *)
LEMMA FirstChosen ==
    ASSUME NEW pairs, NEW n \in Nat, NEW m \in NamedBy(pairs, n), NEW args,
           \A i \in 1 .. n : args[2 * i] = pairs[i].member
    PROVE  /\ Chosen(args, n, m) \in 1 .. n
           /\ pairs[Chosen(args, n, m)].member = m /\ FirstNamed(pairs, Chosen(args, n, m))
<1> DEFINE T == {k \in 1 .. n : args[2 * k] = m}
<1>1. T # {} /\ T \subseteq Nat
  <2>1. PICK k \in 1 .. n : pairs[k].member = m
    BY DEF NamedBy
  <2>2. k \in T
    BY <2>1
  <2>3. \A l \in 1 .. n : l \in Nat
    OBVIOUS
  <2> QED
    BY <2>2, <2>3
<1>2. PICK k \in T : \A j \in T : k <= j
  BY <1>1, LeastNumber
<1>3. k \in 1 .. n /\ args[2 * k] = m /\ \A j \in 1 .. n : args[2 * j] = m => k <= j
  BY <1>2
<1> DEFINE i == Chosen(args, n, m)
<1>4. i \in 1 .. n /\ args[2 * i] = m /\ \A j \in 1 .. n : args[2 * j] = m => i <= j
  <2>1. \A a, b : CountsOver(a, b) <=> a <= b
    BY AllDepartures DEF CountsOver, Keep
  <2>2. i \in 1 .. n /\ args[2 * i] = m /\ \A j \in 1 .. n : args[2 * j] = m => CountsOver(i, j)
    BY <1>3, <2>1 DEF Chosen
  <2> HIDE DEF i
  <2> QED
    BY <2>1, <2>2
<1> HIDE DEF i
<1>5. ASSUME NEW j \in 1 .. i - 1
      PROVE  pairs[j].member # m
  BY <1>4
<1> QED
  BY <1>4, <1>5 DEF FirstNamed, i

LEMMA ZaddImplements ==
    ASSUME RefInv, NEW params \in Requests, params[1] = "ZADD", zadd(params)
    PROVE  Implements(params)
<1> DEFINE key == params[2]
           args == Arguments(params)
           err == getValueByType(key, "zset")
           old == IF err = "ok" THEN store[key].value ELSE createSSet.value
           pairs == ScoresAndMembers(params)
           new == Added(old, pairs)
           n == Len(args) \div 2
           named == {args[2 * i] : i \in 1 .. n}
           applies == err # "type" /\ Len(params) % 2 = 0
<1>0. params[1] \in KeyCommands \ {"set", "setnx"} /\ err \in {"ok", "type", "notExist"}
  BY KeyCommandNames, HasWhenFound
<1>1. Yedis!Applicable("ZADD", key, args) <=> applies
  <2>1. "ZADD" \in Yedis!Creators /\ Yedis!TypeOfCommand["ZADD"] = "zset"
    BY TypesOfCommands DEF Yedis!Creators
  <2> QED
    BY <1>0, <2>1, AppliesWhen
<1>2. CASE ~applies
  <2>1. UNCHANGED store
    BY <1>2 DEF zadd, Refuse
  <2> QED
    BY <1>0, <1>1, <1>2, <2>1, NotApplicable
<1>3. CASE applies
  <2>1. old \in SortedSets
    <3>1. CASE err = "ok"
      BY <3>1, FoundTyped, ValueOfType DEF RefInv, TypedInv
    <3>2. CASE err # "ok"
      BY <3>2, EmptySortedSet
    <3> QED
      BY <3>1, <3>2
  <2>2. pairs \in Seq(Pairs)
    BY PairsTyped
  <2>3. new \in SortedSets /\ AddedUpTo(old, pairs, Len(pairs), new)
    BY <2>1, <2>2, AddedScores
  <2>4. Yedis!ValueAt(key, "zset") = old.member2Scores
    BY ValuesFound, EmptyScores DEF RefInv, TypedInv
  <2> DEFINE o == [createSSet EXCEPT !.value = new]
             count == Cardinality(DOMAIN new.member2Scores) - Cardinality(DOMAIN old.member2Scores)
  <2>5. store' = setValue(key, o) /\ Reply(<<formatInt(count)>>)
    BY <1>0, <1>3 DEF zadd
  <2>6. o.type = "zset" /\ Abstract(o).value = new.member2Scores
    BY DEF createSSet, Abstract
  <2>7. /\ Len(pairs) = n /\ n \in Nat /\ n >= 1
        /\ \A i \in 1 .. n : args[2 * i] = pairs[i].member /\ AsDouble[args[2 * i - 1]] = pairs[i].score
    BY <1>3, PairsGiven DEF RefInv, KeptInv
  <2> DEFINE before == Yedis!ValueAt(key, "zset")
             after == new.member2Scores
  <2>8. named = NamedBy(pairs, n)
    <3> HIDE DEF n, args, pairs
    <3>1. \A i \in 1 .. n : args[2 * i] = pairs[i].member
      BY <2>7
    <3>2. {args[2 * i] : i \in 1 .. n} = {pairs[i].member : i \in 1 .. n}
      BY ONLY <3>1
    <3> QED
      BY <3>2 DEF NamedBy
  <2>9. /\ DOMAIN after = DOMAIN before \cup named
        /\ \A m \in DOMAIN before : after[m] = before[m]
        /\ \A i \in 1 .. n : pairs[i].member \notin DOMAIN before /\ FirstNamed(pairs, i)
                             => after[pairs[i].member] = pairs[i].score
    <3>1. AddedUpTo(old, pairs, n, new) /\ before = old.member2Scores
      BY <2>3, <2>4, <2>7
    <3> HIDE DEF before, after, n, named, old, new, pairs, args
    <3> QED
      BY <2>8, <3>1 DEF AddedUpTo, after
  <2>10. IsFiniteSet(DOMAIN after) /\ IsFiniteSet(DOMAIN before) /\ after = [m \in DOMAIN after |-> after[m]]
    BY <2>1, <2>3, <2>4, ScoresAreMaps, SortedSetParts
  <2> HIDE DEF after, before, pairs, new, old, args, o, n, named
  <2> DEFINE scored == IF Keep THEN named \ DOMAIN before ELSE named
             asPromised == [m \in DOMAIN before \cup named |->
                              IF m \in scored THEN ScoreOf(args[2 * Chosen(args, n, m) - 1]) ELSE before[m]]
  <2>11. ASSUME NEW m \in named, m \notin DOMAIN before
         PROVE  after[m] = ScoreOf(args[2 * Chosen(args, n, m) - 1])
    <3> DEFINE i == Chosen(args, n, m)
    <3>1. i \in 1 .. n /\ pairs[i].member = m /\ FirstNamed(pairs, i)
      BY <2>7, <2>8, FirstChosen
    <3> HIDE DEF i
    <3>2. after[m] = AsDouble[args[2 * i - 1]]
      BY <2>7, <2>9, <2>11, <3>1
    <3> QED
      BY <3>2 DEF ScoreOf, i
  <2>12. after = asPromised
    <3>1. scored = named \ DOMAIN before
      BY AllDepartures DEF Keep
    <3> HIDE DEF scored
    <3> QED
      BY <2>9, <2>10, <2>11, <3>1
  <2>13. count = Yedis!Cardinality(named \ DOMAIN before)
    <3>1. IsFiniteSet(named)
      <4>1. named \in SUBSET DOMAIN after
        BY <2>9
      <4> QED
        BY <2>10, <4>1, FS_Subset
    <3>2. Cardinality(DOMAIN before \cup named) - Cardinality(DOMAIN before) = Cardinality(named \ DOMAIN before)
      BY <2>10, <3>1, SizeAdded
    <3> QED
      BY <2>4, <2>9, <3>2, SameCardinality DEF before, after
  <2>14. after # <<>>
    <3>1. 1 \in 1 .. n
      BY <2>7
    <3>2. args[2 * 1] \in named
      BY <3>1 DEF named
    <3>3. DOMAIN after # {}
      BY <2>9, <3>2
    <3> QED
      BY <3>3
  <2>15. Yedis!Store(key, "zset", after)
    BY <2>5, <2>6, <2>14, Stored, EmptyValues DEF after
  <2>16. Yedis!Answer(Yedis!Number(Yedis!Cardinality(named \ DOMAIN before)))
    BY <2>5, <2>13, AnsweredNumber
  <2>17. Yedis!SortedSetCommand(key, args)
    <3>1. Yedis!Store(key, "zset", asPromised)
      BY <2>12, <2>15
    <3> QED
      BY <2>16, <3>1 DEF Yedis!SortedSetCommand, before, named, n, Chosen, CountsOver, Keep
  <2>18. Yedis!Perform("ZADD", key, args)
    BY <2>17 DEF Yedis!Perform
  <2> QED
    BY <1>0, <1>1, <1>3, <2>18, IsApplicable DEF args
<1> QED
  BY <1>2, <1>3

-----------------------------------------------------------------------------
(* Every step.                                                              *)

LEMMA OneWord ==
    ASSUME NEW params \in Requests
    PROVE  /\ params[1] \in KeyCommands => Len(params) # 1
           /\ params[1] \notin KeyCommands => Len(params) = 1
<1>1. params[1] \in KeyCommands => Len(params) # 1
  BY RequestShape
<1>2. ASSUME params[1] \notin KeyCommands
      PROVE  Len(params) = 1
  <2>1. CASE \E c : params = <<c>>
    BY <2>1
  <2>2. CASE \E c \in KeyCommands : params \in RequestsOf(c)
    <3>0. PICK c \in KeyCommands : params \in RequestsOf(c)
      BY <2>2
    <3>1. PICK k \in Keys, args \in ArgLists(c) : params = <<c, k>> \o args
      BY <3>0 DEF RequestsOf
    <3>2. PICK n \in ParamCounts[c] : args \in [1 .. (n - 2) -> Strings]
      BY DEF ArgLists
    <3>3. n \in Nat /\ n >= 2
      BY <3>2, Counts
    <3> DEFINE S == {c, k} \cup Strings
    <3>4. args \in Seq(S) /\ <<c, k>> \in Seq(S) /\ Len(<<c, k>>) = 2 /\ <<c, k>>[1] = c
      BY <3>2, <3>3
    <3> HIDE DEF S
    <3>5. params[1] = c
      BY <3>1, <3>4, Joined
    <3> QED
      BY <1>2, <3>5
  <2> QED
    BY <2>1, <2>2 DEF Requests
<1> QED
  BY <1>1, <1>2

LEMMA CommandImplements ==
    ASSUME RefInv, NEW params \in Requests, execCommand(params)
    PROVE  IF Len(params) = 1 THEN UNCHANGED AbstractStore
           ELSE Yedis!Command(params[1], params[2], SubSeq(params, 3, Len(params)))
<1>1. CASE params[1] \in KeyCommands
  <2> SUFFICES Implements(params)
    BY <1>1, OneWord DEF Implements, Arguments
  <2>1. params[1] \in DOMAIN ParamCounts /\ params[1] # "COMMAND"
    BY <1>1 DEF KeyCommands
  <2> DEFINE strings == \/ params[1] = "set"   /\ setCmd(params)
                        \/ params[1] = "get"   /\ getCmd(params)
                        \/ params[1] = "setnx" /\ setnxCmd(params)
             pushes == \/ params[1] = "LPUSH"  /\ push(params, "head", TRUE)
                       \/ params[1] = "RPUSH"  /\ push(params, "tail", TRUE)
                       \/ params[1] = "LPUSHX" /\ push(params, "head", FALSE)
                       \/ params[1] = "RPUSHX" /\ push(params, "tail", FALSE)
             pops == \/ params[1] = "LPOP" /\ pop(params, "head")
                     \/ params[1] = "RPOP" /\ pop(params, "tail")
             reads == \/ params[1] = "LLEN"   /\ llen(params)
                      \/ params[1] = "LRANGE" /\ lrange(params)
             sets == \/ params[1] = "SADD"     /\ sadd(params)
                     \/ params[1] = "SCARD"    /\ scard(params)
                     \/ params[1] = "SMEMBERS" /\ smember(params)
                     \/ params[1] = "SPOP"     /\ spop(params)
             maps == \/ params[1] = "HSET" /\ hset(params)
                     \/ params[1] = "HGET" /\ hget(params)
                     \/ params[1] = "ZADD" /\ zadd(params)
  <2>2. strings \/ pushes \/ pops \/ reads \/ sets \/ maps
    BY <2>1 DEF execCommand, lpush, rpush, lpushx, rpushx, lpop, rpop
  <2>3. CASE strings
    BY <2>3, StringsImplement
  <2>4. CASE pushes
    BY <2>4, PushImplements
  <2>5. CASE pops
    BY <2>5, PopImplements
  <2>6. CASE reads
    BY <2>6, LengthImplements, RangeImplements
  <2>7. CASE sets
    BY <2>7, SaddImplements, SetReadsImplement, SpopImplements
  <2>8. CASE maps
    BY <2>8, HashesImplement, ZaddImplements
  <2> HIDE DEF strings, pushes, pops, reads, sets, maps
  <2> QED
    BY <2>2, <2>3, <2>4, <2>5, <2>6, <2>7, <2>8
<1>2. CASE params[1] \notin KeyCommands
  <2>1. (params[1] \notin DOMAIN ParamCounts /\ Refuse(<<Error>>)) \/ command(params)
    <3>1. \A c : c \in {"set", "get", "setnx", "LPUSH", "RPUSH", "LPUSHX", "RPUSHX", "LPOP", "RPOP",
                        "LLEN", "LRANGE", "SADD", "SCARD", "SMEMBERS", "SPOP", "HSET", "HGET", "ZADD"}
                 => params[1] # c
      BY <1>2, KeyCommandNames
    <3> QED
      BY <3>1 DEF execCommand
  <2>2. UNCHANGED store
    BY <2>1 DEF command, Refuse
  <2>3. UNCHANGED AbstractStore
    BY <2>2, Unchanged
  <2> QED
    BY <1>2, <2>3, OneWord
<1> QED
  BY <1>1, <1>2

LEMMA StepImplements ==
    ASSUME RefInv, [Next]_vars
    PROVE  [Yedis!Next]_<<AbstractStore, request, ClientReads(reply)>>
<1>1. CASE UNCHANGED vars
  <2>1. UNCHANGED <<AbstractStore, request, ClientReads(reply)>>
    BY <1>1, Unchanged DEF vars, ClientReads
  <2> QED
    BY <2>1
<1>2. CASE Next
  <2>1. PICK params \in Requests : request' = params /\ execCommand(params)
    BY <1>2 DEF Next
  <2>2. IF Len(params) = 1 THEN UNCHANGED AbstractStore
        ELSE Yedis!Command(params[1], params[2], SubSeq(params, 3, Len(params)))
    BY <2>1, CommandImplements
  <2>3. Yedis!Next
    BY <2>1, <2>2 DEF Yedis!Next
  <2> QED
    BY <2>3
<1> QED
  BY <1>1, <1>2

LEMMA InitImplements == Init => Yedis!Init
BY DEF Init, Yedis!Init, AbstractStore, ClientReads

(* For any keys, texts, commands and bounds: but for the four departures     *)
(* that Yedis names, every command does to the keyspace what Redis promises  *)
(* of it, encodings, the deletion of emptied collections and the two maps of *)
(* a sorted set included, and a command that applies is answered with the    *)
(* promised value, if a client that pushes or adds names at least one value. *)
THEOREM CommandsImplementRedisButFor == MinMembers = 1 /\ Spec => ImplementsRedisButFor
<1>1. MinMembers = 1 /\ Spec => []RefInv
  BY KeptInvariance, TypedInvariance, PTL DEF RefInv
<1>2. RefInv /\ [Next]_vars => [Yedis!Next]_<<AbstractStore, request, ClientReads(reply)>>
  BY StepImplements
<1>3. Yedis!vars = <<AbstractStore, request, ClientReads(reply)>>
  BY DEF Yedis!vars
<1> QED
  BY <1>1, <1>2, InitImplements, PTL DEF Spec, ImplementsRedisButFor, Yedis!Spec, Yedis!vars
=============================================================================
