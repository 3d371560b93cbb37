----------------------------- MODULE RulesProofs -----------------------------
(* Proofs about Rules, for any ids, any packages and any files of any        *)
(* length.                                                                   *)
EXTENDS Rules, Smallest, SequenceTheorems

-----------------------------------------------------------------------------
(* The loops of from_toml as sequences of tables: FoldLeft is recursive over *)
(* the sets of positions it has left.                                        *)
Step(way, t, e) == IF way = "merge" THEN Merge(t, e) ELSE Retain(t, e)

Loops(g, way, n, f) ==
    g = [s \in SUBSET (1 .. n) |->
           IF s = {} THEN <<>> ELSE Step(way, g[s \ {Max(s)}], f[Max(s)])]

LEMMA LoopsAre ==
  ASSUME NEW g, NEW way, NEW n \in Nat, NEW f, Loops(g, way, n, f)
  PROVE  /\ g[{}] = <<>>
         /\ \A s \in SUBSET (1 .. n) : s # {} =>
              Max(s) \in s /\ g[s] = Step(way, g[s \ {Max(s)}], f[Max(s)])
<1>1. \A s \in SUBSET (1 .. n) :
        g[s] = IF s = {} THEN <<>> ELSE Step(way, g[s \ {Max(s)}], f[Max(s)])
  BY Zenon DEF Loops
<1>2. \A s \in SUBSET (1 .. n) : s # {} => Max(s) \in s
  BY MaxIs
<1> QED
  BY <1>1, <1>2

LEMMA LoopsExist ==
  ASSUME NEW way, NEW n \in Nat, NEW f
  PROVE  \E g : Loops(g, way, n, f)
<1> DEFINE Bad == {k \in Nat : ~\E g : Loops(g, way, k, f)}
<1>1. SUFFICES ASSUME Bad # {} PROVE FALSE
  OBVIOUS
<1>2. PICK k \in Bad : \A i \in Bad : k <= i
  <2>1. Bad \in SUBSET Nat
    OBVIOUS
  <2> HIDE DEF Bad
  <2> QED
    BY <1>1, <2>1, NatMin
<1>3. k \in Nat
  OBVIOUS
<1>4. CASE k = 0
  <2> DEFINE g == [s \in SUBSET (1 .. 0) |-> <<>>]
  <2>1. \A s \in SUBSET (1 .. 0) : s = {}
    OBVIOUS
  <2>2. g = [s \in SUBSET (1 .. 0) |->
               IF s = {} THEN <<>> ELSE Step(way, g[s \ {Max(s)}], f[Max(s)])]
    BY <2>1
  <2>3. Loops(g, way, 0, f)
    BY <2>2 DEF Loops
  <2> QED
    BY <1>4, <2>3
<1>5. CASE k # 0
  <2>1. k - 1 \in Nat /\ k - 1 \notin Bad
    BY <1>2, <1>3, <1>5
  <2>2. PICK g : Loops(g, way, k - 1, f)
    BY <2>1
  <2> DEFINE Next(s) == IF s = {} THEN <<>> ELSE Step(way, g[s \ {Max(s)}], f[Max(s)])
             h == [s \in SUBSET (1 .. k) |-> Next(s)]
  <2>3. \A s \in SUBSET (1 .. k) : s # {} => s \ {Max(s)} \in SUBSET (1 .. k - 1)
    <3> TAKE s \in SUBSET (1 .. k)
    <3> HAVE s # {}
    <3>1. PICK m \in s : m = Max(s) /\ \A i \in s : i <= m
      BY <1>3, MaxIs
    <3>2. ASSUME NEW i \in s, i # m PROVE i \in 1 .. k - 1
      <4>1. i \in 1 .. k /\ m \in 1 .. k /\ i <= m
        BY <3>1
      <4> QED
        BY <1>3, <3>2, <4>1
    <3> QED
      BY <3>1, <3>2
  <2>4. \A s \in SUBSET (1 .. k - 1) : s \in SUBSET (1 .. k) /\ g[s] = Next(s)
    <3> TAKE s \in SUBSET (1 .. k - 1)
    <3>1. s \in SUBSET (1 .. k)
      BY <1>3
    <3>2. g[{}] = <<>> /\ (s # {} => g[s] = Step(way, g[s \ {Max(s)}], f[Max(s)]))
      BY <2>1, <2>2, LoopsAre
    <3>3. g[s] = Next(s)
      BY <3>2
    <3> QED
      BY <3>1, <3>3
  <2> HIDE DEF Next
  <2>5. \A s \in SUBSET (1 .. k) : s # {} => h[s \ {Max(s)}] = g[s \ {Max(s)}]
    BY <2>3, <2>4
  <2>6. \A s \in SUBSET (1 .. k) :
          Next(s) = IF s = {} THEN <<>> ELSE Step(way, h[s \ {Max(s)}], f[Max(s)])
    <3> HIDE DEF h
    <3> QED
      BY <2>5 DEF Next
  <2>7. h = [s \in SUBSET (1 .. k) |->
               IF s = {} THEN <<>> ELSE Step(way, h[s \ {Max(s)}], f[Max(s)])]
    <3>1. [s \in SUBSET (1 .. k) |-> Next(s)] =
            [s \in SUBSET (1 .. k) |->
               IF s = {} THEN <<>> ELSE Step(way, h[s \ {Max(s)}], f[Max(s)])]
      <4> HIDE DEF h
      <4> QED
        BY <2>6
    <3> QED
      BY <3>1
  <2>8. Loops(h, way, k, f)
    BY <2>7 DEF Loops
  <2> QED
    BY <2>8
<1> QED
  BY <1>4, <1>5

(* T[i] is the table after the first i of the n elements of f.               *)
Tables(T, way, n, f) ==
    T[0] = <<>> /\ \A i \in 1 .. n : T[i] = Step(way, T[i - 1], f[i])

LEMMA LoopTables ==
  ASSUME NEW g, NEW way, NEW n \in Nat, NEW f, Loops(g, way, n, f)
  PROVE  \E T : Tables(T, way, n, f) /\ T[n] = g[1 .. n]
<1> DEFINE T == [i \in 0 .. n |-> g[1 .. i]]
<1>0. g[{}] = <<>>
  BY LoopsAre
<1>a. ASSUME NEW s \in SUBSET (1 .. n), s # {}
      PROVE  g[s] = Step(way, g[s \ {Max(s)}], f[Max(s)])
  BY <1>a, LoopsAre
<1>1. T[0] = <<>>
  <2>1. 1 .. 0 = {} /\ T[0] = g[1 .. 0]
    OBVIOUS
  <2> QED
    BY <1>0, <2>1
<1>2. ASSUME NEW i \in 1 .. n PROVE T[i] = Step(way, T[i - 1], f[i])
  <2>1. 1 .. i \in SUBSET (1 .. n) /\ 1 .. i # {} /\ i \in 1 .. i
    OBVIOUS
  <2>2. Max(1 .. i) = i
    <3>1. Max(1 .. i) \in 1 .. i /\ i <= Max(1 .. i)
      BY <2>1, MaxIs
    <3> QED
      BY <3>1
  <2>3. (1 .. i) \ {i} = 1 .. i - 1
    OBVIOUS
  <2>4. g[1 .. i] = Step(way, g[1 .. i - 1], f[i])
    BY <1>a, <2>1, <2>2, <2>3
  <2>5. T[i] = g[1 .. i] /\ T[i - 1] = g[1 .. i - 1]
    OBVIOUS
  <2> QED
    BY <2>4, <2>5
<1>3. T[n] = g[1 .. n]
  OBVIOUS
<1> QED
  BY <1>1, <1>2, <1>3 DEF Tables

LEMMA MergeTables ==
  ASSUME NEW f, Len(f) \in Nat, DOMAIN f = 1 .. Len(f)
  PROVE  \E T : Tables(T, "merge", Len(f), f) /\ T[Len(f)] = FoldLeft(Merge, <<>>, f)
<1> DEFINE g == CHOOSE h : Loops(h, "merge", Len(f), f)
<1>1. Loops(g, "merge", Len(f), f)
  BY LoopsExist
<1>2. FoldLeft(Merge, <<>>, f) =
        (CHOOSE h : h = [s \in SUBSET DOMAIN f |->
           IF s = {} THEN <<>> ELSE Merge(h[s \ {Max(s)}], f[Max(s)])])[DOMAIN f]
  BY DEF FoldLeft, MapThenFoldSet
<1>3. FoldLeft(Merge, <<>>, f) = g[1 .. Len(f)]
  BY <1>2, Zenon DEF Loops, Step
<1> QED
  BY <1>1, <1>3, LoopTables

LEMMA RetainTables ==
  ASSUME NEW f, Len(f) \in Nat, DOMAIN f = 1 .. Len(f)
  PROVE  \E T : Tables(T, "retain", Len(f), f) /\ T[Len(f)] = FoldLeft(Retain, <<>>, f)
<1> DEFINE g == CHOOSE h : Loops(h, "retain", Len(f), f)
<1>1. Loops(g, "retain", Len(f), f)
  BY LoopsExist
<1>2. FoldLeft(Retain, <<>>, f) =
        (CHOOSE h : h = [s \in SUBSET DOMAIN f |->
           IF s = {} THEN <<>> ELSE Retain(h[s \ {Max(s)}], f[Max(s)])])[DOMAIN f]
  BY DEF FoldLeft, MapThenFoldSet
<1>3. FoldLeft(Retain, <<>>, f) = g[1 .. Len(f)]
  <2>1. "retain" # "merge"
    OBVIOUS
  <2> QED
    BY <1>2, <2>1, Zenon DEF Loops, Step
<1> QED
  BY <1>1, <1>3, LoopTables

-----------------------------------------------------------------------------
(* What a rule may hold.                                                     *)
Fields(k) ==
    CASE k = "throttle"      -> Nat
      [] k = "after_seconds" -> Nat \cup {Unset}
      [] k = "priority"      -> Int
      [] k = "source"        -> Meanings(k) \cup {AnySource}
      [] k = "action"        -> Meanings(k) \cup {"unset"}
      [] k = "expires_at"    -> Meanings(k) \cup {Unset}
      [] OTHER               -> Meanings(k)

RuleSet ==
    {r \in [{"id"} \cup Known -> Ids \cup UNION {Fields(k) : k \in Known}] :
        r["id"] \in Ids /\ \A k \in Known : r[k] \in Fields(k)}

(* An entry of a file that RulesAssumption allows.                           *)
IsEntry(e) ==
    /\ e.id \in Ids \cup {NoId}
    /\ (e.key \in Known /\ e.val # Junk) => e.val \in Meanings(e.key)

(* The entry sets the field of its key.                                      *)
Counts(e) == e.key \in Checked => e.val # Junk

LEMMA BlankIsRule ==
  ASSUME NEW id \in Ids
  PROVE  Blank(id) \in RuleSet /\ Blank(id).id = id
<1>1. DOMAIN Blank(id) = {"id"} \cup Known /\ Blank(id).id = id
  BY DEF Blank, Known, Checked, Clamped
<1>2. \A k \in Known : Blank(id)[k] \in Fields(k)
  BY RulesAssumption DEF Blank, Known, Checked, Clamped, Fields, Meanings, Unset, AnySource
<1>3. Blank(id) = [k \in {"id"} \cup Known |-> Blank(id)[k]]
  BY DEF Blank, Known, Checked, Clamped
<1> QED
  BY <1>1, <1>2, <1>3 DEF RuleSet

LEMMA TakenIsField ==
  ASSUME NEW e, IsEntry(e), e.key \in Known, NEW old \in Fields(e.key)
  PROVE  /\ Taken(e, old) \in Fields(e.key)
         /\ Counts(e) => \A x : Taken(e, old) = Taken(e, x)
         /\ ~Counts(e) => Taken(e, old) = old
<1>1. CASE e.key \in Checked
  BY <1>1 DEF Taken, Fields, Meanings, Checked, Clamped, IsEntry, Counts, Known
<1>2. CASE e.key \in Clamped
  BY <1>2 DEF Taken, Fields, Meanings, Checked, Clamped, IsEntry, Counts, Known
<1>3. CASE e.key = "priority"
  BY <1>3 DEF Taken, Fields, Meanings, Checked, Clamped, IsEntry, Counts, Known
<1>4. CASE e.key = "applies_to"
  BY <1>4 DEF Taken, Fields, Meanings, Checked, Clamped, IsEntry, Counts, Known
<1> QED
  BY <1>1, <1>2, <1>3, <1>4 DEF Known

LEMMA RuleSets ==
  ASSUME NEW r \in RuleSet, NEW k \in Known, NEW v \in Fields(k)
  PROVE  /\ [r EXCEPT ![k] = v] \in RuleSet
         /\ [r EXCEPT ![k] = v].id = r.id
         /\ \A x \in Known : [r EXCEPT ![k] = v][x] = IF x = k THEN v ELSE r[x]
<1>1. "id" \notin Known
  BY DEF Known, Checked, Clamped
<1>2. /\ r \in [{"id"} \cup Known -> Ids \cup UNION {Fields(x) : x \in Known}]
      /\ r["id"] \in Ids /\ \A x \in Known : r[x] \in Fields(x)
  BY DEF RuleSet
<1>3. v \in UNION {Fields(x) : x \in Known}
  OBVIOUS
<1> DEFINE q == [r EXCEPT ![k] = v]
<1>4. /\ q \in [{"id"} \cup Known -> Ids \cup UNION {Fields(x) : x \in Known}]
      /\ q["id"] = r["id"]
      /\ \A x \in Known : q[x] = IF x = k THEN v ELSE r[x]
  BY <1>1, <1>2, <1>3
<1> HIDE DEF q
<1>5. \A x \in Known : q[x] \in Fields(x)
  BY <1>2, <1>4
<1>6. q \in RuleSet
  BY <1>2, <1>4, <1>5 DEF RuleSet
<1> QED
  BY <1>4, <1>6 DEF q

(* The table with a blank rule for a new id.                                 *)
Opened(t, e) == IF Mentioned(t, e.id) THEN t ELSE Append(t, Blank(e.id))

(* The table k with the field of the entry e set: m.                         *)
FieldSet(m, k, e) ==
    /\ k \in Seq(RuleSet) /\ m \in Seq(RuleSet) /\ Len(m) = Len(k)
    /\ \A i \in 1 .. Len(k) :
         /\ m[i].id = k[i].id
         /\ \A x \in Known : m[i][x] =
              IF k[i].id = e.id /\ e.key = x THEN Taken(e, k[i][x]) ELSE k[i][x]

LEMMA MergeIs ==
  ASSUME NEW t \in Seq(RuleSet), NEW e, IsEntry(e), e.id # NoId
  PROVE  FieldSet(Merge(t, e), Opened(t, e), e)
<1> DEFINE k == Opened(t, e)
           Set(i) == IF k[i].id = e.id /\ e.key \in Known
                     THEN [k[i] EXCEPT ![e.key] = Taken(e, k[i][e.key])] ELSE k[i]
<1>1. k \in Seq(RuleSet)
  BY BlankIsRule, AppendProperties DEF Opened, IsEntry
<1>2. Merge(t, e) = [i \in DOMAIN k |-> Set(i)]
  BY DEF Merge, Opened
<1>3. DOMAIN k = 1 .. Len(k) /\ Len(k) \in Nat /\ \A i \in 1 .. Len(k) : k[i] \in RuleSet
  BY <1>1
<1> HIDE DEF k
<1>4. ASSUME NEW i \in 1 .. Len(k)
      PROVE  /\ Set(i) \in RuleSet /\ Set(i).id = k[i].id
             /\ \A x \in Known : Set(i)[x] =
                  IF k[i].id = e.id /\ e.key = x THEN Taken(e, k[i][x]) ELSE k[i][x]
  <2>1. CASE k[i].id = e.id /\ e.key \in Known
    <3>1. k[i] \in RuleSet /\ k[i][e.key] \in Fields(e.key)
      BY <1>3, <2>1 DEF RuleSet
    <3>2. Taken(e, k[i][e.key]) \in Fields(e.key)
      BY <2>1, <3>1, TakenIsField
    <3> DEFINE v == Taken(e, k[i][e.key])
    <3>3. Set(i) = [k[i] EXCEPT ![e.key] = v]
      BY <2>1
    <3> HIDE DEF Set, v
    <3>4. /\ Set(i) \in RuleSet /\ Set(i).id = k[i].id
          /\ \A x \in Known : Set(i)[x] = IF x = e.key THEN v ELSE k[i][x]
      BY <2>1, <3>1, <3>2, <3>3, RuleSets DEF v
    <3> QED
      BY <2>1, <3>4 DEF v
  <2>2. CASE ~(k[i].id = e.id /\ e.key \in Known)
    BY <1>3, <2>2
  <2> QED
    BY <2>1, <2>2
<1> HIDE DEF Set
<1>5. Merge(t, e) \in [1 .. Len(k) -> RuleSet]
  BY <1>2, <1>3, <1>4
<1>6. Merge(t, e) \in Seq(RuleSet) /\ Len(Merge(t, e)) = Len(k)
  BY <1>3, <1>5
<1>7. \A i \in 1 .. Len(k) : Merge(t, e)[i] = Set(i)
  BY <1>2, <1>3
<1> QED
  BY <1>1, <1>4, <1>6, <1>7 DEF k, FieldSet

-----------------------------------------------------------------------------
(* The first n lines of a file.                                              *)
Ment(f, n, id)    == {i \in 1 .. n : f[i].id = id}
Sets(f, n, id, k) == {i \in Ment(f, n, id) : f[i].key = k /\ Counts(f[i])}
Field(f, n, id, k) ==
    IF Sets(f, n, id, k) = {} THEN Blank(id)[k]
    ELSE Taken(f[Max(Sets(f, n, id, k))], Blank(id)[k])

(* The table t is what these lines say, before rules are dropped.            *)
Parsed(t, f, n) ==
    /\ t \in Seq(RuleSet)
    /\ \A i \in 1 .. Len(t) : Ment(f, n, t[i].id) # {}
    /\ \A id \in Ids : Ment(f, n, id) # {} => \E i \in 1 .. Len(t) : t[i].id = id
    /\ \A i, j \in 1 .. Len(t) :
         i < j => Min(Ment(f, n, t[i].id)) < Min(Ment(f, n, t[j].id))
    /\ \A i \in 1 .. Len(t), k \in Known : t[i][k] = Field(f, n, t[i].id, k)

LEMMA MentNext ==
  ASSUME NEW f, NEW n \in Nat, NEW id
  PROVE  /\ Ment(f, n + 1, id) = Ment(f, n, id) \cup {i \in {n + 1} : f[n + 1].id = id}
         /\ Ment(f, n, id) # {} =>
              /\ Min(Ment(f, n, id)) \in 1 .. n
              /\ Min(Ment(f, n + 1, id)) = Min(Ment(f, n, id))
         /\ (Ment(f, n, id) = {} /\ f[n + 1].id = id) => Min(Ment(f, n + 1, id)) = n + 1
<1> DEFINE M == Ment(f, n, id)
           N == Ment(f, n + 1, id)
<1>1. N = M \cup {i \in {n + 1} : f[n + 1].id = id}
  BY DEF Ment
<1>2. M \in SUBSET (1 .. n) /\ N \in SUBSET Nat /\ M \in SUBSET Nat
  BY DEF Ment
<1> HIDE DEF M, N
<1>3. ASSUME M # {} PROVE Min(M) \in 1 .. n /\ Min(N) = Min(M)
  <2>1. Min(M) \in M /\ \A i \in M : Min(M) <= i
    BY <1>2, <1>3, MinIs
  <2>2. Min(N) \in N /\ \A i \in N : Min(N) <= i
    BY <1>1, <1>2, <1>3, MinIs
  <2>3. PICK a \in M : a = Min(M) /\ \A i \in M : a <= i
    BY <2>1
  <2>4. PICK b \in N : b = Min(N) /\ \A i \in N : b <= i
    BY <2>2
  <2>5. a \in 1 .. n /\ a \in N /\ b \in Nat /\ b <= a
    BY <1>1, <1>2, <2>3, <2>4
  <2>6. b # n + 1
    BY <2>5
  <2>7. b \in M
    BY <1>1, <2>6
  <2>8. a = b
    BY <2>3, <2>5, <2>7
  <2> QED
    BY <2>3, <2>4, <2>5, <2>8
<1>4. ASSUME M = {}, f[n + 1].id = id PROVE Min(N) = n + 1
  <2>1. N = {n + 1}
    BY <1>1, <1>4
  <2> QED
    BY <1>2, <2>1, MinIs
<1> QED
  BY <1>1, <1>3, <1>4 DEF M, N

LEMMA FieldNext ==
  ASSUME NEW f, NEW n \in Nat, NEW id, NEW k
  PROVE  Field(f, n + 1, id, k) =
           IF f[n + 1].id = id /\ f[n + 1].key = k /\ Counts(f[n + 1])
           THEN Taken(f[n + 1], Blank(id)[k]) ELSE Field(f, n, id, k)
<1> DEFINE S == Sets(f, n + 1, id, k)
<1>1. CASE f[n + 1].id = id /\ f[n + 1].key = k /\ Counts(f[n + 1])
  <2>1. S \in SUBSET (1 .. n + 1) /\ n + 1 \in S /\ n + 1 \in Nat
    BY <1>1 DEF Sets, Ment
  <2> HIDE DEF S
  <2>2. PICK m \in S : m = Max(S) /\ \A i \in S : i <= m
    BY <2>1, MaxIs
  <2>3. m = n + 1
    <3>1. m \in 1 .. n + 1 /\ n + 1 <= m
      BY <2>1, <2>2
    <3> QED
      BY <3>1
  <2>4. S # {} /\ Max(S) = n + 1
    BY <2>1, <2>2, <2>3
  <2> QED
    BY <1>1, <2>4 DEF Field, S
<1>2. CASE ~(f[n + 1].id = id /\ f[n + 1].key = k /\ Counts(f[n + 1]))
  <2>1. S = Sets(f, n, id, k)
    BY <1>2 DEF Sets, Ment
  <2> QED
    BY <1>2, <2>1 DEF Field
<1> QED
  BY <1>1, <1>2

LEMMA ParsedNext ==
  ASSUME NEW t, NEW f, NEW n \in Nat, Parsed(t, f, n), IsEntry(f[n + 1])
  PROVE  Parsed(Merge(t, f[n + 1]), f, n + 1)
<1> DEFINE e == f[n + 1]
           k == Opened(t, e)
           m == Merge(t, e)
<1>1. t \in Seq(RuleSet) /\ Len(t) \in Nat /\ \A i \in 1 .. Len(t) : t[i] \in RuleSet /\ t[i].id \in Ids
  <2>1. t \in Seq(RuleSet)
    BY DEF Parsed
  <2>2. \A r \in RuleSet : r.id \in Ids
    BY DEF RuleSet
  <2> QED
    BY <2>1, <2>2
<1>2. CASE e.id = NoId
  <2>1. m = t
    BY <1>2 DEF Merge
  <2>2. \A id \in Ids : e.id # id
    BY <1>2, RulesAssumption
  <2>3. ASSUME NEW id \in Ids PROVE Ment(f, n + 1, id) = Ment(f, n, id)
    <3>1. Ment(f, n + 1, id) = Ment(f, n, id) \cup {i \in {n + 1} : f[n + 1].id = id}
      BY MentNext
    <3> QED
      BY <2>2, <3>1
  <2>4. \A id \in Ids, x \in Known : Field(f, n + 1, id, x) = Field(f, n, id, x)
    BY <2>2, FieldNext
  <2> QED
    BY <1>1, <2>1, <2>3, <2>4 DEF Parsed
<1>3. CASE e.id # NoId
  <2>0. e.id \in Ids
    BY <1>3 DEF IsEntry
  <2>1. /\ k \in Seq(RuleSet) /\ m \in Seq(RuleSet) /\ Len(m) = Len(k)
        /\ \A i \in 1 .. Len(k) :
             /\ m[i].id = k[i].id
             /\ \A x \in Known : m[i][x] =
                  IF k[i].id = e.id /\ e.key = x THEN Taken(e, k[i][x]) ELSE k[i][x]
    <3>1. FieldSet(m, k, e)
      BY <1>1, <1>3, MergeIs
    <3> HIDE DEF m, k, e
    <3> QED
      BY <3>1 DEF FieldSet
  <2>2. Len(k) \in Nat /\ \A i \in 1 .. Len(k) : k[i] \in RuleSet
    BY <2>1
  <2> HIDE DEF m
  <2>3. \/ Mentioned(t, e.id) /\ k = t
        \/ /\ ~Mentioned(t, e.id) /\ Len(k) = Len(t) + 1 /\ k[Len(k)] = Blank(e.id)
           /\ \A i \in 1 .. Len(t) : k[i] = t[i]
    <3>1. CASE Mentioned(t, e.id)
      BY <3>1 DEF Opened
    <3>2. CASE ~Mentioned(t, e.id)
      <4>1. Blank(e.id) \in RuleSet
        BY <2>0, BlankIsRule
      <4>2. k = Append(t, Blank(e.id))
        BY <3>2 DEF Opened
      <4> HIDE DEF k
      <4> QED
        BY <1>1, <3>2, <4>1, <4>2, AppendProperties
    <3> QED
      BY <3>1, <3>2
  <2>4. Mentioned(t, e.id) <=> \E i \in 1 .. Len(t) : t[i].id = e.id
    BY <1>1 DEF Mentioned
  <2>5. ~Mentioned(t, e.id) => Ment(f, n, e.id) = {} /\ Blank(e.id).id = e.id
    BY <2>0, <2>4, BlankIsRule DEF Parsed
  <2> HIDE DEF k
  (* What is known of an opened rule.                                        *)
  <2>6. ASSUME NEW i \in 1 .. Len(k)
        PROVE  /\ k[i].id \in Ids
               /\ Ment(f, n + 1, k[i].id) # {}
               /\ \A x \in Known : k[i][x] = Field(f, n, k[i].id, x)
               /\ i \in 1 .. Len(t) => /\ k[i] = t[i] /\ Ment(f, n, k[i].id) # {}
               /\ i \notin 1 .. Len(t) => k[i].id = e.id /\ Ment(f, n, e.id) = {}
    <3>1. CASE i \in 1 .. Len(t)
      <4>1. k[i] = t[i]
        BY <2>3, <3>1
      <4>2. /\ t[i].id \in Ids /\ Ment(f, n, t[i].id) # {}
            /\ \A x \in Known : t[i][x] = Field(f, n, t[i].id, x)
        BY <1>1, <3>1 DEF Parsed
      <4> QED
        BY <3>1, <4>1, <4>2, MentNext
    <3>2. CASE i \notin 1 .. Len(t)
      <4>1. ~Mentioned(t, e.id) /\ k[i] = Blank(e.id)
        <5>1. Len(k) = Len(t) + 1 => i = Len(k)
          BY <1>1, <2>2, <3>2
        <5> QED
          BY <2>3, <3>2, <5>1
      <4>2. \A x : Sets(f, n, e.id, x) = {}
        BY <2>5, <4>1 DEF Sets
      <4>3. \A x : Field(f, n, e.id, x) = Blank(e.id)[x]
        BY <4>2 DEF Field
      <4>4. n + 1 \in Ment(f, n + 1, e.id)
        BY DEF Ment
      <4>5. k[i].id = e.id /\ Ment(f, n, e.id) = {}
        BY <2>5, <4>1
      <4> QED
        BY <2>0, <3>2, <4>1, <4>3, <4>4, <4>5
    <3> QED
      BY <3>1, <3>2
  <2>7. \A i \in 1 .. Len(m) : Ment(f, n + 1, m[i].id) # {}
    BY <2>1, <2>6
  <2>8. ASSUME NEW id \in Ids, Ment(f, n + 1, id) # {}
        PROVE  \E i \in 1 .. Len(m) : m[i].id = id
    <3>1. CASE id = e.id
      <4>1. CASE Mentioned(t, e.id)
        BY <2>1, <2>3, <2>4, <3>1, <4>1
      <4>2. CASE ~Mentioned(t, e.id)
        <5>1. Len(k) \in 1 .. Len(k) /\ k[Len(k)].id = e.id
          BY <1>1, <2>2, <2>3, <2>5, <4>2
        <5> QED
          BY <2>1, <3>1, <5>1
      <4> QED
        BY <4>1, <4>2
    <3>2. CASE id # e.id
      <4>1. Ment(f, n, id) # {}
        <5>1. Ment(f, n + 1, id) = Ment(f, n, id) \cup {i \in {n + 1} : f[n + 1].id = id}
          BY MentNext
        <5> QED
          BY <2>8, <3>2, <5>1
      <4>2. PICK i \in 1 .. Len(t) : t[i].id = id
        BY <4>1 DEF Parsed
      <4>3. i \in 1 .. Len(k) /\ k[i] = t[i]
        BY <1>1, <2>2, <2>3
      <4> QED
        BY <2>1, <4>2, <4>3
    <3> QED
      BY <3>1, <3>2
  <2>9. ASSUME NEW i \in 1 .. Len(m), NEW j \in 1 .. Len(m), i < j
        PROVE  Min(Ment(f, n + 1, m[i].id)) < Min(Ment(f, n + 1, m[j].id))
    <3>1. i \in 1 .. Len(k) /\ j \in 1 .. Len(k) /\ m[i].id = k[i].id /\ m[j].id = k[j].id
      BY <2>1
    <3>2. i \in 1 .. Len(t)
      <4>1. Len(k) = Len(t) \/ Len(k) = Len(t) + 1
        BY <2>3
      <4> QED
        BY <1>1, <2>2, <2>9, <3>1, <4>1
    <3>3. /\ k[i] = t[i] /\ Min(Ment(f, n, k[i].id)) \in 1 .. n
          /\ Min(Ment(f, n + 1, k[i].id)) = Min(Ment(f, n, k[i].id))
      BY <2>6, <3>1, <3>2, MentNext
    <3>4. CASE j \in 1 .. Len(t)
      <4>1. /\ k[j] = t[j]
            /\ Min(Ment(f, n + 1, k[j].id)) = Min(Ment(f, n, k[j].id))
        BY <2>6, <3>1, <3>4, MentNext
      <4>2. Min(Ment(f, n, t[i].id)) < Min(Ment(f, n, t[j].id))
        BY <2>9, <3>2, <3>4 DEF Parsed
      <4> QED
        BY <3>1, <3>3, <4>1, <4>2
    <3>5. CASE j \notin 1 .. Len(t)
      <4>1. k[j].id = e.id /\ Ment(f, n, e.id) = {}
        BY <2>6, <3>1, <3>5
      <4>2. Min(Ment(f, n + 1, e.id)) = n + 1
        BY <4>1, MentNext
      <4>3. Min(Ment(f, n + 1, k[i].id)) < n + 1
        BY <3>3
      <4> QED
        BY <3>1, <4>1, <4>2, <4>3
    <3> QED
      BY <3>4, <3>5
  <2>10. ASSUME NEW i \in 1 .. Len(m), NEW x \in Known
         PROVE  m[i][x] = Field(f, n + 1, m[i].id, x)
    <3>1. /\ i \in 1 .. Len(k) /\ m[i].id = k[i].id
          /\ m[i][x] = IF k[i].id = e.id /\ e.key = x THEN Taken(e, k[i][x]) ELSE k[i][x]
      BY <2>1
    <3>2. k[i][x] = Field(f, n, k[i].id, x) /\ k[i][x] \in Fields(x)
      BY <2>2, <2>6, <3>1 DEF RuleSet
    <3>3. Field(f, n + 1, k[i].id, x) =
            IF e.id = k[i].id /\ e.key = x /\ Counts(e) THEN Taken(e, Blank(k[i].id)[x])
            ELSE Field(f, n, k[i].id, x)
      BY FieldNext
    <3>4. e.key = x => /\ Counts(e) => Taken(e, k[i][x]) = Taken(e, Blank(k[i].id)[x])
                       /\ ~Counts(e) => Taken(e, k[i][x]) = k[i][x]
      BY <3>2, TakenIsField
    <3> HIDE DEF e
    <3> QED
      BY <3>1, <3>2, <3>3, <3>4
  <2> QED
    BY <2>1, <2>7, <2>8, <2>9, <2>10 DEF Parsed, m
<1> QED
  BY <1>2, <1>3

LEMMA ParsedAll ==
  ASSUME NEW f \in Files \cup Edits
  PROVE  Parsed(FoldLeft(Merge, <<>>, f), f, Len(f))
<1>1. /\ Len(f) \in Nat /\ DOMAIN f = 1 .. Len(f)
      /\ \A i \in 1 .. Len(f) : IsEntry(f[i])
  BY RulesAssumption DEF IsEntry
<1>2. PICK T : Tables(T, "merge", Len(f), f) /\ T[Len(f)] = FoldLeft(Merge, <<>>, f)
  BY <1>1, MergeTables
<1> DEFINE n == Len(f)
<1> HIDE DEF n
<1>3. n \in Nat /\ \A i \in 1 .. n : IsEntry(f[i])
  BY <1>1 DEF n
<1>4. T[0] = <<>> /\ \A i \in 1 .. n : T[i] = Merge(T[i - 1], f[i])
  BY <1>2 DEF Tables, Step, n
<1> DEFINE Bad == {i \in 0 .. n : ~Parsed(T[i], f, i)}
<1>5. ASSUME Bad # {} PROVE FALSE
  <2>1. PICK i \in Bad : \A j \in Bad : i <= j
    <3>1. Bad \in SUBSET Nat
      OBVIOUS
    <3> HIDE DEF Bad
    <3> QED
      BY <1>5, <3>1, NatMin
  <2>2. i # 0
    <3>1. <<>> \in Seq(RuleSet) /\ Len(<<>>) = 0
      OBVIOUS
    <3>2. \A id : Ment(f, 0, id) = {}
      BY DEF Ment
    <3>3. Parsed(<<>>, f, 0)
      BY <3>1, <3>2 DEF Parsed
    <3> QED
      BY <1>4, <3>3
  <2>3. i \in 1 .. n /\ i - 1 \in Nat /\ i - 1 \in 0 .. n /\ i - 1 < i /\ (i - 1) + 1 = i
    BY <1>3, <2>2
  <2>4. i - 1 \notin Bad
    BY <2>1, <2>3
  <2>5. Parsed(T[i - 1], f, i - 1)
    BY <2>3, <2>4
  <2>6. Parsed(Merge(T[i - 1], f[i]), f, i)
    <3>1. IsEntry(f[(i - 1) + 1])
      BY <1>3, <2>3
    <3>2. Parsed(Merge(T[i - 1], f[(i - 1) + 1]), f, (i - 1) + 1)
      BY <2>3, <2>5, <3>1, ParsedNext
    <3> QED
      BY <2>3, <3>2
  <2> QED
    BY <1>4, <2>3, <2>6
<1> QED
  BY <1>2, <1>3, <1>5 DEF n

-----------------------------------------------------------------------------
(* Dropping the rules without an action.  u is what is retained of the first *)
(* n rules of t.                                                             *)
Retained(u, t, n) ==
    /\ u \in Seq(RuleSet)
    /\ \A i \in 1 .. Len(u) : \E a \in 1 .. n : u[i] = t[a] /\ t[a].action # "unset"
    /\ \A a \in 1 .. n : t[a].action # "unset" => \E i \in 1 .. Len(u) : u[i] = t[a]
    /\ \A i, j \in 1 .. Len(u) :
         i < j => \E a, b \in 1 .. n : a < b /\ u[i] = t[a] /\ u[j] = t[b]

LEMMA RetainedNext ==
  ASSUME NEW u, NEW t, NEW n \in Nat, Retained(u, t, n), t[n + 1] \in RuleSet
  PROVE  Retained(Retain(u, t[n + 1]), t, n + 1)
<1> DEFINE r == t[n + 1]
           v == Retain(u, r)
<1>1. /\ u \in Seq(RuleSet) /\ Len(u) \in Nat /\ r \in RuleSet
      /\ \A a \in 1 .. n : a \in 1 .. n + 1
      /\ n + 1 \in 1 .. n + 1
      /\ \A a \in 1 .. n + 1 : a \in 1 .. n \/ a = n + 1
  BY DEF Retained
<1>2. CASE r.action = "unset"
  <2>1. v = u
    BY <1>2 DEF Retain
  <2> QED
    BY <1>1, <1>2, <2>1 DEF Retained
<1>3. CASE r.action # "unset"
  <2>1. v = Append(u, r)
    BY <1>3 DEF Retain
  <2>2. /\ v \in Seq(RuleSet) /\ Len(v) = Len(u) + 1 /\ v[Len(u) + 1] = r
        /\ \A i \in 1 .. Len(u) : v[i] = u[i]
    BY <1>1, <2>1, AppendProperties
  <2>3. /\ \A i \in 1 .. Len(u) : i \in 1 .. Len(v)
        /\ Len(u) + 1 \in 1 .. Len(v)
        /\ \A i \in 1 .. Len(v) : i \in 1 .. Len(u) \/ i = Len(u) + 1
    BY <1>1, <2>2
  <2>4. \A i \in 1 .. Len(u) : \E a \in 1 .. n : u[i] = t[a] /\ t[a].action # "unset"
    BY DEF Retained
  <2>5. \A a \in 1 .. n : t[a].action # "unset" => \E i \in 1 .. Len(u) : u[i] = t[a]
    BY DEF Retained
  <2>6. \A i, j \in 1 .. Len(u) :
          i < j => \E a, b \in 1 .. n : a < b /\ u[i] = t[a] /\ u[j] = t[b]
    BY DEF Retained
  <2> HIDE DEF v
  <2>7. \A i \in 1 .. Len(v) : \E a \in 1 .. n + 1 : v[i] = t[a] /\ t[a].action # "unset"
    <3> TAKE i \in 1 .. Len(v)
    <3>1. CASE i \in 1 .. Len(u)
      <4>1. PICK a \in 1 .. n : u[i] = t[a] /\ t[a].action # "unset"
        BY <2>4, <3>1
      <4> QED
        BY <1>1, <2>2, <3>1, <4>1
    <3>2. CASE i = Len(u) + 1
      BY <1>1, <1>3, <2>2, <3>2
    <3> QED
      BY <2>3, <3>1, <3>2
  <2>8. \A a \in 1 .. n + 1 : t[a].action # "unset" => \E i \in 1 .. Len(v) : v[i] = t[a]
    <3> TAKE a \in 1 .. n + 1
    <3> HAVE t[a].action # "unset"
    <3>1. CASE a \in 1 .. n
      <4>1. PICK i \in 1 .. Len(u) : u[i] = t[a]
        BY <2>5, <3>1
      <4> QED
        BY <2>2, <2>3, <4>1
    <3>2. CASE a = n + 1
      BY <2>2, <2>3, <3>2
    <3> QED
      BY <1>1, <3>1, <3>2
  <2>9. ASSUME NEW i \in 1 .. Len(v), NEW j \in 1 .. Len(v), i < j
        PROVE  \E a, b \in 1 .. n + 1 : a < b /\ v[i] = t[a] /\ v[j] = t[b]
    <3>1. i \in 1 .. Len(u)
      BY <1>1, <2>2, <2>9
    <3>2. CASE j \in 1 .. Len(u)
      <4>1. PICK a \in 1 .. n, b \in 1 .. n : a < b /\ u[i] = t[a] /\ u[j] = t[b]
        BY <2>6, <2>9, <3>1, <3>2
      <4> QED
        BY <1>1, <2>2, <3>1, <3>2, <4>1
    <3>3. CASE j = Len(u) + 1
      <4>1. PICK a \in 1 .. n : u[i] = t[a]
        BY <2>4, <3>1
      <4>2. a < n + 1 /\ v[i] = t[a] /\ v[j] = t[n + 1]
        BY <2>2, <3>1, <3>3, <4>1
      <4> QED
        BY <1>1, <4>2
    <3> QED
      BY <2>3, <3>2, <3>3
  <2>10. Retained(v, t, n + 1)
    BY <2>2, <2>7, <2>8, <2>9 DEF Retained
  <2> QED
    BY <2>10 DEF v
<1> QED
  BY <1>2, <1>3

LEMMA RetainedAll ==
  ASSUME NEW t \in Seq(RuleSet)
  PROVE  Retained(FoldLeft(Retain, <<>>, t), t, Len(t))
<1>1. Len(t) \in Nat /\ DOMAIN t = 1 .. Len(t) /\ \A i \in 1 .. Len(t) : t[i] \in RuleSet
  OBVIOUS
<1>2. PICK T : Tables(T, "retain", Len(t), t) /\ T[Len(t)] = FoldLeft(Retain, <<>>, t)
  BY <1>1, RetainTables
<1> DEFINE n == Len(t)
<1>3. n \in Nat /\ \A i \in 1 .. n : t[i] \in RuleSet
  BY <1>1
<1> HIDE DEF n
<1>4. T[0] = <<>> /\ \A i \in 1 .. n : T[i] = Retain(T[i - 1], t[i])
  BY <1>2 DEF Tables, Step, n
<1> DEFINE Bad == {i \in 0 .. n : ~Retained(T[i], t, i)}
<1>5. ASSUME Bad # {} PROVE FALSE
  <2>1. PICK i \in Bad : \A j \in Bad : i <= j
    <3>1. Bad \in SUBSET Nat
      OBVIOUS
    <3> HIDE DEF Bad
    <3> QED
      BY <1>5, <3>1, NatMin
  <2>2. i # 0
    <3>1. <<>> \in Seq(RuleSet) /\ Len(<<>>) = 0
      OBVIOUS
    <3>2. Retained(<<>>, t, 0)
      BY <3>1 DEF Retained
    <3> QED
      BY <1>4, <3>2
  <2>3. i \in 1 .. n /\ i - 1 \in Nat /\ i - 1 \in 0 .. n /\ i - 1 < i /\ (i - 1) + 1 = i
    BY <1>3, <2>2
  <2>4. i - 1 \notin Bad
    BY <2>1, <2>3
  <2>5. Retained(T[i - 1], t, i - 1)
    BY <2>3, <2>4
  <2>6. Retained(Retain(T[i - 1], t[i]), t, i)
    <3>1. t[(i - 1) + 1] \in RuleSet
      BY <1>3, <2>3
    <3>2. Retained(Retain(T[i - 1], t[(i - 1) + 1]), t, (i - 1) + 1)
      BY <2>3, <2>5, <3>1, RetainedNext
    <3> QED
      BY <2>3, <3>2
  <2> QED
    BY <1>4, <2>3, <2>6
<1> QED
  BY <1>2, <1>3, <1>5 DEF n

-----------------------------------------------------------------------------
(* The table is always what from_toml makes of the last file it read.        *)
FromText == text \in Files \cup Edits /\ rules = FromToml(text)

LEMMA TextKept ==
  ASSUME FromText
  PROVE  rules \in Seq(RuleSet) /\ ParsedAsWritten
<1> DEFINE n == Len(text)
           t == FoldLeft(Merge, <<>>, text)
<1>1. /\ n \in Nat /\ DOMAIN text = 1 .. n /\ \A i \in 1 .. n : IsEntry(text[i])
  BY RulesAssumption DEF FromText, IsEntry
<1>2. Parsed(t, text, n)
  BY ParsedAll DEF FromText
<1>3. Retained(rules, t, Len(t))
  <2>1. t \in Seq(RuleSet)
    BY <1>2 DEF Parsed
  <2>2. rules = FoldLeft(Retain, <<>>, t)
    BY DEF FromText, FromToml
  <2> HIDE DEF t
  <2> QED
    BY <2>1, <2>2, RetainedAll
<1> HIDE DEF t, n
<1>4. /\ rules \in Seq(RuleSet) /\ DOMAIN rules = 1 .. Len(rules) /\ Len(rules) \in Nat
      /\ \A i \in 1 .. Len(rules) : rules[i] \in RuleSet
  <2>1. rules \in Seq(RuleSet)
    BY <1>3 DEF Retained
  <2> QED
    BY <2>1
<1>5. t \in Seq(RuleSet) /\ Len(t) \in Nat /\ \A a \in 1 .. Len(t) : t[a] \in RuleSet
  <2>1. t \in Seq(RuleSet)
    BY <1>2 DEF Parsed
  <2> QED
    BY <2>1
<1>6. \A r \in RuleSet : r.id \in Ids
  BY DEF RuleSet
<1>7. \A id, k : Mentions(id) = Ment(text, n, id) /\ Settings(id, k) = Sets(text, n, id, k)
  BY <1>1 DEF Mentions, Settings, Ment, Sets, Counts
<1>8. ASSUME NEW a \in 1 .. Len(t)
      PROVE  t[a].action # "unset" <=> Settings(t[a].id, "action") # {}
  <2> DEFINE S == Sets(text, n, t[a].id, "action")
  <2>1. "action" \in Known /\ "action" \in Checked
    BY DEF Known, Checked
  <2>2. t[a].action = Field(text, n, t[a].id, "action")
    BY <1>2, <1>8, <2>1 DEF Parsed
  <2>3. S = {} => t[a].action = "unset"
    BY <2>2 DEF Field, Blank
  <2>4. ASSUME S # {} PROVE t[a].action # "unset"
    <3>1. S \in SUBSET (1 .. n)
      BY DEF Sets, Ment
    <3> HIDE DEF S
    <3>2. Max(S) \in S
      BY <1>1, <2>4, <3>1, MaxIs
    <3> DEFINE e == text[Max(S)]
    <3>3. e.key = "action" /\ Counts(e) /\ IsEntry(e)
      BY <1>1, <3>1, <3>2 DEF S, Sets
    <3>4. t[a].action = Taken(e, Blank(t[a].id)["action"])
      BY <2>2, <2>4 DEF Field, S
    <3> HIDE DEF e
    <3>5. e.val # Junk /\ e.val \in Meanings("action")
      BY <2>1, <3>3 DEF Counts, IsEntry
    <3>6. \A x : Taken(e, x) = e.val
      BY <2>1, <3>3, <3>5 DEF Taken, Checked, Clamped
    <3>7. e.val # "unset"
      BY <3>5 DEF Meanings, Clamped
    <3> QED
      BY <3>4, <3>6, <3>7
  <2> QED
    BY <1>7, <2>3, <2>4
<1>9. ASSUME NEW i \in 1 .. Len(rules)
      PROVE  \E a \in 1 .. Len(t) : rules[i] = t[a] /\ t[a].action # "unset"
  BY <1>3, <1>9 DEF Retained
<1>10. {rules[i].id : i \in DOMAIN rules} = {id \in Ids : Settings(id, "action") # {}}
  <2>1. ASSUME NEW i \in DOMAIN rules
        PROVE  rules[i].id \in Ids /\ Settings(rules[i].id, "action") # {}
    BY <1>4, <1>6, <1>8, <1>9, <2>1
  <2>2. ASSUME NEW id \in Ids, Settings(id, "action") # {}
        PROVE  \E i \in DOMAIN rules : rules[i].id = id
    <3>1. Ment(text, n, id) # {}
      BY <1>7, <2>2 DEF Sets
    <3>2. PICK a \in 1 .. Len(t) : t[a].id = id
      BY <1>2, <3>1 DEF Parsed
    <3>3. t[a].action # "unset"
      BY <1>8, <2>2, <3>2
    <3>4. PICK i \in 1 .. Len(rules) : rules[i] = t[a]
      BY <1>3, <3>3 DEF Retained
    <3> QED
      BY <1>4, <3>2, <3>4
  <2> QED
    BY <2>1, <2>2
<1>11. ASSUME NEW i \in DOMAIN rules, NEW j \in DOMAIN rules, i < j
       PROVE  Min(Mentions(rules[i].id)) < Min(Mentions(rules[j].id))
  <2>1. PICK a \in 1 .. Len(t), b \in 1 .. Len(t) :
          a < b /\ rules[i] = t[a] /\ rules[j] = t[b]
    BY <1>3, <1>4, <1>11 DEF Retained
  <2>2. Min(Ment(text, n, t[a].id)) < Min(Ment(text, n, t[b].id))
    BY <1>2, <2>1 DEF Parsed
  <2> QED
    BY <1>7, <2>1, <2>2
<1>12. ASSUME NEW i \in DOMAIN rules, NEW k \in Known
       PROVE  rules[i][k] =
                IF Settings(rules[i].id, k) = {} THEN Blank(rules[i].id)[k]
                ELSE Taken(text[Max(Settings(rules[i].id, k))], Blank(rules[i].id)[k])
  <2>1. PICK a \in 1 .. Len(t) : rules[i] = t[a]
    BY <1>4, <1>9
  <2>2. t[a][k] = Field(text, n, t[a].id, k)
    BY <1>2 DEF Parsed
  <2> QED
    BY <1>7, <2>1, <2>2 DEF Field
<1>13. \A r \in RuleSet : r.throttle >= 0 /\ r.after_seconds >= Unset
  <2> TAKE r \in RuleSet
  <2>1. "throttle" \in Known /\ "after_seconds" \in Known
    BY DEF Known, Checked, Clamped
  <2>2. r["throttle"] \in Fields("throttle") /\ r["after_seconds"] \in Fields("after_seconds")
    BY <2>1 DEF RuleSet
  <2>3. r.throttle \in Nat /\ r.after_seconds \in Nat \cup {Unset}
    BY <2>2 DEF Fields
  <2> QED
    BY <2>3 DEF Unset
<1> QED
  BY <1>4, <1>10, <1>11, <1>12, <1>13 DEF ParsedAsWritten

-----------------------------------------------------------------------------
(* Choosing the rule that answers.                                           *)

LEMMA Priorities ==
  ASSUME rules \in Seq(RuleSet)
  PROVE  /\ DOMAIN rules = 1 .. Len(rules) /\ Len(rules) \in Nat
         /\ \A i \in DOMAIN rules : rules[i].priority \in Int
<1>1. \A r \in RuleSet : r.priority \in Int
  <2> TAKE r \in RuleSet
  <2>1. "priority" \in Known
    BY DEF Known
  <2>2. r["priority"] \in Fields("priority")
    BY <2>1 DEF RuleSet
  <2> QED
    BY <2>2 DEF Fields
<1>2. \A i \in DOMAIN rules : rules[i] \in RuleSet
  OBVIOUS
<1> QED
  BY <1>1, <1>2

(* The rule that comes first, by its position.                               *)
LEMMA FirstExists ==
  ASSUME NEW S \in SUBSET DOMAIN rules, S # {}, rules \in Seq(RuleSet)
  PROVE  \E i \in S : \A k \in S \ {i} : Before(i, k)
<1>1. /\ DOMAIN rules = 1 .. Len(rules) /\ Len(rules) \in Nat /\ S \in SUBSET Nat
      /\ \A i \in S : rules[i].priority \in Int
  BY Priorities
<1> DEFINE Ahead(i) == {k \in S : Before(k, i)}
           T == {Ahead(i) : i \in S}
<1>2. \A A \in T : IsFiniteSet(A)
  <2>1. IsFiniteSet(1 .. Len(rules))
    BY <1>1, FS_Interval
  <2>2. \A A \in T : A \in SUBSET (1 .. Len(rules))
    BY <1>1
  <2> QED
    BY <2>1, <2>2, FS_Subset
<1>3. PICK A \in T : \A B \in T : B \subseteq A => B = A
  <2>1. T # {}
    OBVIOUS
  <2> HIDE DEF T
  <2> QED
    BY <1>2, <2>1, FiniteMin
<1>4. PICK i \in S : A = Ahead(i)
  OBVIOUS
<1>5. ASSUME NEW k \in S, Before(k, i) PROVE FALSE
  <2>1. Ahead(k) \subseteq A /\ k \in A /\ k \notin Ahead(k)
    BY <1>1, <1>4, <1>5 DEF Before
  <2>2. Ahead(k) \in T
    OBVIOUS
  <2> HIDE DEF T, Ahead
  <2> QED
    BY <1>3, <2>1, <2>2
<1>6. ASSUME NEW k \in S \ {i} PROVE Before(i, k)
  <2>1. ~Before(k, i)
    BY <1>5
  <2> QED
    BY <1>1, <2>1 DEF Before
<1> QED
  BY <1>6

Sorts(t, S) ==
    /\ t \in [1 .. Cardinality(S) -> S]
    /\ \A a, b \in DOMAIN t : a < b => Before(t[a], t[b])

LEMMA SortExists ==
  ASSUME NEW S0 \in SUBSET DOMAIN rules, rules \in Seq(RuleSet)
  PROVE  \E t : Sorts(t, S0)
<1>0. \A S \in SUBSET DOMAIN rules : IsFiniteSet(S)
  <2>1. DOMAIN rules = 1 .. Len(rules) /\ Len(rules) \in Nat
    OBVIOUS
  <2>2. IsFiniteSet(1 .. Len(rules))
    BY <2>1, FS_Interval
  <2> QED
    BY <2>1, <2>2, FS_Subset
<1> DEFINE Bad == {S \in SUBSET DOMAIN rules : ~\E t : Sorts(t, S)}
<1>1. SUFFICES ASSUME Bad # {} PROVE FALSE
  OBVIOUS
<1>2. PICK S \in Bad : \A R \in Bad : R \subseteq S => R = S
  <2>1. \A R \in Bad : IsFiniteSet(R)
    BY <1>0
  <2> HIDE DEF Bad
  <2> QED
    BY <1>1, <2>1, FiniteMin
<1>3. S # {}
  <2>1. Cardinality({}) = 0
    BY FS_EmptySet
  <2>2. Sorts([a \in 1 .. 0 |-> 0], {})
    BY <2>1 DEF Sorts
  <2> QED
    BY <2>2
<1>4. PICK i \in S : \A k \in S \ {i} : Before(i, k)
  BY <1>3, FirstExists
<1> DEFINE R == S \ {i}
<1>5. /\ IsFiniteSet(S) /\ Cardinality(S) \in Nat /\ Cardinality(R) \in Nat
      /\ Cardinality(S) = Cardinality(R) + 1
  <2>1. IsFiniteSet(S)
    BY <1>0
  <2>2. IsFiniteSet(R) /\ Cardinality(R) = Cardinality(S) - 1
    BY <1>4, <2>1, FS_RemoveElement
  <2>3. Cardinality(S) \in Nat /\ Cardinality(R) \in Nat
    BY <2>1, <2>2, FS_CardinalityType
  <2> QED
    BY <2>1, <2>2, <2>3
<1>6. PICK t : Sorts(t, R)
  <2>1. R \in SUBSET DOMAIN rules /\ R \subseteq S /\ R # S
    OBVIOUS
  <2> QED
    BY <1>2, <2>1
<1> DEFINE n == Cardinality(R)
           q == [a \in 1 .. n + 1 |-> IF a = 1 THEN i ELSE t[a - 1]]
<1>7. t \in [1 .. n -> R] /\ \A a, b \in 1 .. n : a < b => Before(t[a], t[b])
  BY <1>6 DEF Sorts
<1>8. n \in Nat /\ Cardinality(S) = n + 1
  BY <1>5
<1> HIDE DEF n
<1>9. \A a \in 1 .. n + 1 : a = 1 \/ (a - 1 \in 1 .. n /\ t[a - 1] \in R)
  BY <1>7, <1>8
<1>10. q \in [1 .. n + 1 -> S]
  BY <1>9
<1>11. ASSUME NEW a \in 1 .. n + 1, NEW b \in 1 .. n + 1, a < b PROVE Before(q[a], q[b])
  <2>1. b # 1 /\ b - 1 \in 1 .. n /\ q[b] = t[b - 1] /\ t[b - 1] \in R
    BY <1>8, <1>9, <1>11
  <2>2. CASE a = 1
    <3>1. q[a] = i
      BY <2>2
    <3> HIDE DEF q
    <3> QED
      BY <1>4, <2>1, <3>1
  <2>3. CASE a # 1
    <3>1. a - 1 \in 1 .. n /\ q[a] = t[a - 1] /\ a - 1 < b - 1
      BY <1>8, <1>9, <1>11, <2>3
    <3> HIDE DEF q
    <3>2. Before(t[a - 1], t[b - 1])
      BY <1>7, <2>1, <3>1
    <3> QED
      BY <2>1, <3>1, <3>2
  <2> QED
    BY <2>2, <2>3
<1>12. Sorts(q, S)
  <2>1. DOMAIN q = 1 .. n + 1
    OBVIOUS
  <2> HIDE DEF q
  <2> QED
    BY <1>8, <1>10, <1>11, <2>1 DEF Sorts
<1> QED
  BY <1>2, <1>12

(* A sorted sequence of all of S begins with the first of S.                 *)
LEMMA SortBegins ==
  ASSUME NEW S \in SUBSET DOMAIN rules, S # {}, rules \in Seq(RuleSet),
         NEW t, Sorts(t, S)
  PROVE  t[1] \in S /\ \A k \in S \ {t[1]} : Before(t[1], k)
<1> DEFINE n == Cardinality(S)
<1>1. DOMAIN rules = 1 .. Len(rules) /\ Len(rules) \in Nat
  OBVIOUS
<1>2. IsFiniteSet(S) /\ n \in Nat /\ n # 0
  <2>1. IsFiniteSet(1 .. Len(rules))
    BY <1>1, FS_Interval
  <2>2. IsFiniteSet(S)
    BY <1>1, <2>1, FS_Subset
  <2> QED
    BY <2>2, FS_CardinalityType, FS_EmptySet
<1>3. IsFiniteSet(1 .. n) /\ Cardinality(1 .. n) = n
  BY <1>2, FS_Interval
<1>4. t \in [1 .. n -> S] /\ \A a, b \in 1 .. n : a < b => Before(t[a], t[b])
  BY DEF Sorts
<1>5. 1 \in 1 .. n
  BY <1>2
<1>6. \A a, b \in 1 .. n : a < b => t[a] # t[b]
  <2>1. \A i \in S : rules[i].priority \in Int /\ i \in Nat
    BY <1>1, Priorities
  <2>2. \A i \in S : ~Before(i, i)
    BY <2>1 DEF Before
  <2> QED
    BY <1>4, <2>2
<1> HIDE DEF n
<1>7. t \in Injection(1 .. n, S)
  <2>1. \A a, b \in 1 .. n : t[a] = t[b] => a = b
    BY <1>2, <1>6
  <2> QED
    BY <1>4, <2>1 DEF Injection, IsInjective
<1>8. t \in Surjection(1 .. n, S)
  BY <1>2, <1>3, <1>7, FS_Injection DEF n
<1>9. \A k \in S : \E b \in 1 .. n : t[b] = k
  BY <1>8 DEF Surjection
<1>10. ASSUME NEW k \in S \ {t[1]} PROVE Before(t[1], k)
  <2>1. PICK b \in 1 .. n : t[b] = k
    BY <1>9
  <2>2. 1 < b
    BY <1>2, <1>10, <2>1
  <2> QED
    BY <1>4, <1>5, <2>1, <2>2
<1> QED
  BY <1>4, <1>5, <1>10

LEMMA BestOfTable ==
  ASSUME rules \in Seq(RuleSet)
  PROVE  BestAnswers
<1> SUFFICES ASSUME NEW p \in RPkg, NEW q \in Questions, NEW known \in BOOLEAN
             PROVE  LET i    == FindIndex(p, q[1], q[2], known)
                        fits == {k \in DOMAIN rules : Matches(rules[k], p, q[1], q[2], known)}
                    IN  IF i = 0 THEN fits = {}
                        ELSE /\ i \in fits
                             /\ \A k \in fits \ {i} :
                                   \/ rules[k].priority < rules[i].priority
                                   \/ rules[k].priority = rules[i].priority /\ i < k
  BY DEF BestAnswers
<1> DEFINE fits == {k \in DOMAIN rules : Matches(rules[k], p, q[1], q[2], known)}
           t == CHOOSE t \in [1 .. Cardinality(fits) -> fits] :
                    \A a, b \in DOMAIN t : a < b => Before(t[a], t[b])
           i == FindIndex(p, q[1], q[2], known)
<1>1. i = IF fits = {} THEN 0 ELSE t[1]
  BY DEF FindIndex
<1>2. fits \in SUBSET DOMAIN rules
  OBVIOUS
<1>3. \E s \in [1 .. Cardinality(fits) -> fits] :
        \A a, b \in DOMAIN s : a < b => Before(s[a], s[b])
  <2> HIDE DEF fits
  <2> QED
    BY <1>2, SortExists DEF Sorts
<1>4. Sorts(t, fits)
  <2> HIDE DEF fits
  <2> QED
    BY <1>3 DEF Sorts
<1>5. DOMAIN rules = 1 .. Len(rules) /\ Len(rules) \in Nat
  OBVIOUS
<1> HIDE DEF fits, t, i
<1>6. CASE fits = {}
  BY <1>1, <1>6 DEF fits, i
<1>7. CASE fits # {}
  <2>1. i = t[1] /\ i \in fits /\ \A k \in fits \ {i} : Before(i, k)
    BY <1>1, <1>2, <1>4, <1>7, SortBegins
  <2>2. i # 0
    BY <1>2, <1>5, <2>1
  <2>3. \A k \in fits \ {i} : \/ rules[k].priority < rules[i].priority
                              \/ rules[k].priority = rules[i].priority /\ i < k
    <3> TAKE k \in fits \ {i}
    <3>1. Before(i, k)
      BY <2>1
    <3>2. i \in DOMAIN rules /\ k \in DOMAIN rules
      BY <1>2, <2>1
    <3>3. rules[i].priority \in Int /\ rules[k].priority \in Int
      BY <3>2, Priorities
    <3> QED
      BY <3>1, <3>3 DEF Before
  <2> QED
    BY <2>1, <2>2, <2>3 DEF fits, i
<1> QED
  BY <1>6, <1>7

-----------------------------------------------------------------------------
LEMMA FromTextAlways == RulesSpec => []FromText
<1>1. RulesInit => FromText
  BY DEF RulesInit, FromText
<1>2. FromText /\ [RulesNext]_rvars => FromText'
  <2> SUFFICES ASSUME FromText, [RulesNext]_rvars PROVE FromText'
    OBVIOUS
  <2>1. CASE \E f \in Edits : RReload(f)
    BY <2>1 DEF RReload, FromText
  <2>2. CASE UNCHANGED <<text, rules>>
    BY <2>2 DEF FromText, FromToml
  <2> QED
    BY <2>1, <2>2 DEF RulesNext, rvars, Hit, RElapse, NextDay
<1> QED
  BY <1>1, <1>2, PTL DEF RulesSpec

(* The table says what the last file it read says, whatever that file holds  *)
(* and however long it is: from_toml, by induction over its lines.           *)
THEOREM ParsedAsWrittenAlways == RulesSpec => []ParsedAsWritten
<1>1. FromText => ParsedAsWritten
  BY TextKept
<1> QED
  BY <1>1, FromTextAlways, PTL

(* The rule that answers gives way to no other that matches, and when none   *)
(* answers none matches, for any number of rules (find_index).               *)
THEOREM BestAnswersAlways == RulesSpec => []BestAnswers
<1>1. FromText => BestAnswers
  BY TextKept, BestOfTable
<1> QED
  BY <1>1, FromTextAlways, PTL
=============================================================================
