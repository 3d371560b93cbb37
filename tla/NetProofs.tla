------------------------------ MODULE NetProofs ------------------------------
(* Proofs about NetSampler, for any finite set of uids, any threshold,       *)
(* window, cache life and poll period, and any devices.                      *)
EXTENDS NetSampler, Smallest

Samplers ==
    [source : Dumps \cup Rows \cup {"none"}, cached : SUBSET (Uid \cup {Root}),
     fresh : 0 .. TTL, age : [Uid -> Never .. Window],
     seen : [Uid -> 0 .. Threshold], hidden : [Uid -> 0 .. Threshold]]

Ages == [Uid -> 0 .. TTL + 1]

(* The sampler m has something of u that the last reading did not count.     *)
Pending(m, u) == m.seen[u] > 0 \/ m.hidden[u] > 0

(* What the cache in use does not show is not older than the cache.  q is    *)
(* how long each uid has been quiet.                                         *)
Timely(m, q) == \A u \in Uid : m.hidden[u] > 0 /\ m.fresh < TTL => q[u] <= m.fresh

-----------------------------------------------------------------------------
(* One reading                                                               *)

LEMMA CappedCounts ==
  ASSUME NEW k \in Nat
  PROVE  Capped(k) \in 0 .. Threshold /\ (Capped(k) > 0 <=> k > 0)
  BY NetAssumption DEF Capped

(* Renewing the cache counts the hidden part as seen and loses nothing.      *)
LEMMA RefreshedHolds ==
  ASSUME row \subseteq Uid \cup {Root}, NEW m \in Samplers, NEW q \in Ages, Timely(m, q), NEW s
  PROVE  /\ Refreshed(s, m) \in Samplers
         /\ Refreshed(s, m).source = m.source /\ Refreshed(s, m).age = m.age
         /\ Timely(Refreshed(s, m), q)
         /\ \A u \in Uid : Pending(Refreshed(s, m), u) <=> Pending(m, u)
         /\ \A u : InDump(s, m, u) => Refreshed(s, m).fresh < TTL
<1> DEFINE r == Refreshed(s, m)
<1>1. CASE m.fresh < TTL \/ ~Dumped(s)
  <2>1. r = m
    BY <1>1 DEF Refreshed
  <2> QED
    BY <1>1, <2>1 DEF InDump
<1>2. CASE ~(m.fresh < TTL \/ ~Dumped(s))
  <2>1. r = [m EXCEPT !.cached = row, !.fresh = 0,
                      !.seen = [u \in Uid |-> Capped(m.seen[u] + m.hidden[u])],
                      !.hidden = [u \in Uid |-> 0]]
    BY <1>2 DEF Refreshed, Samplers
  <2>2. \A u \in Uid : /\ m.seen[u] \in Nat /\ m.hidden[u] \in Nat
                       /\ m.seen[u] + m.hidden[u] \in Nat
    BY NetAssumption DEF Samplers
  <2>3. \A u \in Uid : Capped(m.seen[u] + m.hidden[u]) \in 0 .. Threshold
    BY <2>2, CappedCounts
  <2> DEFINE f == [u \in Uid |-> Capped(m.seen[u] + m.hidden[u])]
             z == [u \in Uid |-> 0]
  <2>a. /\ f \in [Uid -> 0 .. Threshold] /\ z \in [Uid -> 0 .. Threshold] /\ 0 \in 0 .. TTL
        /\ \A u \in Uid : f[u] = Capped(m.seen[u] + m.hidden[u]) /\ z[u] = 0
    BY <2>3, NetAssumption
  <2>b. r = [m EXCEPT !.cached = row, !.fresh = 0, !.seen = f, !.hidden = z]
    BY <2>1
  <2> HIDE DEF f, z, r
  <2>4. /\ r \in Samplers /\ r.source = m.source /\ r.age = m.age /\ r.fresh = 0
        /\ r.hidden = z /\ r.seen = f
    BY <2>a, <2>b DEF Samplers
  <2>5. \A u \in Uid : r.hidden[u] = 0 /\ r.seen[u] = Capped(m.seen[u] + m.hidden[u])
    BY <2>4, <2>a
  <2>6. \A u \in Uid : Pending(r, u) <=> Pending(m, u)
    BY <2>2, <2>5, CappedCounts DEF Pending
  <2> QED
    BY <1>2, <2>4, <2>5, <2>6, NetAssumption DEF Timely, r
<1> QED
  BY <1>1, <1>2

(* A reading that succeeds through the cache finds one younger than TTL.     *)
LEMMA ReadHolds ==
  ASSUME row \subseteq Uid \cup {Root}, NEW m \in Samplers, m.source # "none",
         NEW q \in Ages, Timely(m, q), NEW u
  PROVE  /\ Read(m, u).net \in Samplers /\ Read(m, u).ok \in BOOLEAN
         /\ Read(m, u).net.source = m.source /\ Read(m, u).net.age = m.age
         /\ Timely(Read(m, u).net, q)
         /\ \A v \in Uid : Pending(Read(m, u).net, v) <=> Pending(m, v)
         /\ (Read(m, u).ok /\ m.source \in Dumps) => Read(m, u).net.fresh < TTL
<1>1. CASE m.source \in Dumps
  <2>1. Read(m, u) = [net |-> Refreshed(m.source, m), ok |-> InDump(m.source, m, u)]
    BY <1>1 DEF Read, Dumps, Rows
  <2>2. InDump(m.source, m, u) \in BOOLEAN
    BY DEF InDump
  <2> QED
    BY <2>1, <2>2, RefreshedHolds
<1>2. CASE m.source \in Rows
  <2>1. Read(m, u) = [net |-> m, ok |-> InRows(m.source, u)]
    BY <1>2 DEF Read, Dumps, Rows
  <2>2. InRows(m.source, u) \in BOOLEAN /\ m.source \notin Dumps
    BY <1>2 DEF InRows, Dumps, Rows
  <2> QED
    BY <2>1, <2>2
<1> QED
  BY <1>1, <1>2 DEF Samplers

(* The new sample counts all a source without a cache shows, and all the     *)
(* cache shows.                                                              *)
LEMMA SampledHolds ==
  ASSUME NEW m \in Samplers, NEW q \in Ages, Timely(m, q), NEW u \in Uid,
         m.source \in Dumps => m.fresh < TTL, m.source # "none"
  PROVE  /\ Sampled(m, u) \in Samplers /\ Sampled(m, u).source = m.source
         /\ Sampled(m, u).age[u] = 0
         /\ Timely(Sampled(m, u), q)
         /\ \A v \in Uid : Pending(Sampled(m, u), v) => Pending(m, v)
         /\ Pending(Sampled(m, u), u) => q[u] <= TTL
<1> DEFINE n == Sampled(m, u)
<1> DEFINE g == [m.age EXCEPT ![u] = 0]
           f == [m.seen EXCEPT ![u] = 0]
           h == [m.hidden EXCEPT ![u] = IF m.source \in Rows THEN 0 ELSE @]
<1>1. n = [m EXCEPT !.age = g, !.seen = f, !.hidden = h]
  BY DEF Sampled, Samplers
<1>2. g \in [Uid -> Never .. Window] /\ g[u] = 0
  BY NetAssumption DEF Samplers, Never
<1>3. /\ f \in [Uid -> 0 .. Threshold]
      /\ \A v \in Uid : f[v] = IF v = u THEN 0 ELSE m.seen[v]
  BY NetAssumption DEF Samplers
<1>4. /\ h \in [Uid -> 0 .. Threshold]
      /\ \A v \in Uid : h[v] = IF v = u /\ m.source \in Rows THEN 0 ELSE m.hidden[v]
  BY NetAssumption DEF Samplers
<1> HIDE DEF n, f, g, h
<1>5. /\ n \in Samplers /\ n.source = m.source /\ n.fresh = m.fresh /\ n.age[u] = 0
      /\ \A v \in Uid : /\ n.seen[v] = IF v = u THEN 0 ELSE m.seen[v]
                        /\ n.hidden[v] = IF v = u /\ m.source \in Rows THEN 0 ELSE m.hidden[v]
  BY <1>1, <1>2, <1>3, <1>4 DEF Samplers
<1>6. \A v \in Uid : m.seen[v] \in Nat /\ m.hidden[v] \in Nat /\ q[v] \in Nat
  BY NetAssumption DEF Samplers, Ages
<1>7. m.source \in Dumps \/ m.source \in Rows
  BY DEF Samplers
<1>8. m.fresh \in 0 .. TTL
  BY DEF Samplers
<1>9. \A v \in Uid : Pending(n, v) => Pending(m, v)
  BY <1>5, <1>6 DEF Pending
<1>10. Timely(n, q)
  BY <1>5, <1>6 DEF Timely
<1>11. Pending(n, u) => q[u] <= TTL
  BY <1>5, <1>6, <1>7, <1>8, NetAssumption DEF Pending, Timely
<1> QED
  BY <1>5, <1>9, <1>10, <1>11 DEF n

-----------------------------------------------------------------------------
(* One question                                                              *)

(* What a question may do to the sampler m, if a is its answer about u.      *)
Answers(a, m, q, u) ==
    /\ a.net \in Samplers /\ a.net.source # "none" /\ Timely(a.net, q)
    /\ a.ok \in BOOLEAN /\ a.yes \in BOOLEAN
    /\ \A v \in Uid : Pending(a.net, v) => Pending(m, v)
    /\ a.ok /\ Pending(a.net, u) => q[u] <= TTL
    /\ a.yes => a.ok /\ Pending(m, u)

LEMMA AskedHolds ==
  ASSUME row \subseteq Uid \cup {Root}, NEW m \in Samplers, m.source # "none",
         NEW q \in Ages, Timely(m, q), NEW u \in Uid, NEW least \in Nat \ {0}
  PROVE  Answers(Asked(m, u, least), m, q, u)
<1> DEFINE r == Read(m, u)
           a == Asked(m, u, least)
<1>1. /\ r.net \in Samplers /\ r.ok \in BOOLEAN
      /\ r.net.source = m.source /\ r.net.age = m.age /\ Timely(r.net, q)
      /\ \A v \in Uid : Pending(r.net, v) <=> Pending(m, v)
      /\ (r.ok /\ m.source \in Dumps) => r.net.fresh < TTL
  BY ReadHolds
<1>2. /\ a.net = IF r.ok THEN Sampled(r.net, u) ELSE r.net
      /\ a.ok = r.ok /\ a.yes = (r.ok /\ m.age[u] = Window /\ Delta(r.net, u) >= least)
  BY DEF Asked
<1> HIDE DEF r, a
<1>3. r.ok => /\ Sampled(r.net, u) \in Samplers /\ Sampled(r.net, u).source # "none"
              /\ Timely(Sampled(r.net, u), q)
              /\ \A v \in Uid : Pending(Sampled(r.net, u), v) => Pending(r.net, v)
              /\ Pending(Sampled(r.net, u), u) => q[u] <= TTL
  BY <1>1, SampledHolds
<1>4. Delta(r.net, u) >= least => Pending(r.net, u)
  <2>1. /\ r.net.seen[u] \in Nat /\ r.net.hidden[u] \in Nat
        /\ r.net.seen[u] + (IF r.net.source \in Rows THEN r.net.hidden[u] ELSE 0) \in Nat
    BY <1>1, NetAssumption DEF Samplers
  <2>2. Delta(r.net, u) > 0 =>
          r.net.seen[u] + (IF r.net.source \in Rows THEN r.net.hidden[u] ELSE 0) > 0
    BY <2>1, CappedCounts DEF Delta
  <2>3. Delta(r.net, u) \in Nat
    BY <2>1, CappedCounts DEF Delta
  <2> QED
    BY <2>1, <2>2, <2>3 DEF Pending
<1>5. a.yes \in BOOLEAN /\ (a.yes => a.ok /\ Pending(m, u))
  BY <1>1, <1>2, <1>4
<1>6. CASE r.ok
  BY <1>1, <1>2, <1>3, <1>5, <1>6 DEF Answers, a
<1>7. CASE ~r.ok
  BY <1>1, <1>2, <1>5, <1>7 DEF Answers, a
<1> QED
  BY <1>1, <1>6, <1>7

(* The two questions of decide_leave together are one.                       *)
LEMMA ExemptedHolds ==
  ASSUME row \subseteq Uid \cup {Root}, NEW m \in Samplers, m.source # "none",
         NEW q \in Ages, Timely(m, q), NEW u \in Uid
  PROVE  Answers(Exempted(m, u), m, q, u)
<1> DEFINE high == Asked(m, u, Threshold)
           k    == IF u \in keep_hn THEN high.net ELSE m
           any  == Asked(k, u, 1)
<1>1. Answers(high, m, q, u)
  BY AskedHolds, NetAssumption
<1>2. /\ k \in Samplers /\ k.source # "none" /\ Timely(k, q)
      /\ \A v \in Uid : Pending(k, v) => Pending(m, v)
      /\ u \in keep_hn /\ high.ok /\ Pending(k, u) => q[u] <= TTL
  BY <1>1 DEF Answers
<1>3. Answers(any, k, q, u)
  BY <1>2, AskedHolds
<1>4. Exempted(m, u) =
        IF u \in keep_hn /\ high.yes THEN high
        ELSE IF u \in keep_net THEN [any EXCEPT !.ok = @ \/ (u \in keep_hn /\ high.ok)]
        ELSE [net |-> k, ok |-> u \in keep_hn /\ high.ok, yes |-> FALSE]
  BY DEF Exempted
<1>5. any = [net |-> any.net, ok |-> any.ok, yes |-> any.yes]
  BY DEF Asked
<1> HIDE DEF high, k, any
<1>6. CASE u \in keep_hn /\ high.yes
  BY <1>1, <1>4, <1>6
<1>7. CASE ~(u \in keep_hn /\ high.yes) /\ u \in keep_net
  <2> DEFINE e == Exempted(m, u)
  <2>1. e = [any EXCEPT !.ok = any.ok \/ (u \in keep_hn /\ high.ok)]
    BY <1>4, <1>5, <1>7
  <2>2. /\ e.net = any.net /\ e.yes = any.yes
        /\ e.ok = (any.ok \/ (u \in keep_hn /\ high.ok))
    BY <1>5, <2>1
  <2> HIDE DEF e
  <2>3. Answers(e, m, q, u)
    BY <1>1, <1>2, <1>3, <2>2 DEF Answers
  <2> QED
    BY <2>3 DEF e
<1>8. CASE ~(u \in keep_hn /\ high.yes) /\ u \notin keep_net
  <2> DEFINE e == Exempted(m, u)
  <2>1. e.net = k /\ e.ok = (u \in keep_hn /\ high.ok) /\ e.yes = FALSE
    BY <1>4, <1>8
  <2> HIDE DEF e
  <2>2. Answers(e, m, q, u)
    BY <1>1, <1>2, <2>1 DEF Answers
  <2> QED
    BY <2>2 DEF e
<1> QED
  BY <1>6, <1>7, <1>8
-----------------------------------------------------------------------------
(* The sweep of Poll: FoldSet of AskNext, one uid at a time.                 *)
First(s) == CHOOSE x \in s : TRUE

Sweeps(f, S, b) ==
    f = [s \in SUBSET S |-> IF s = {} THEN b ELSE AskNext(First(s), f[s \ {First(s)}])]

LEMMA SweepsAre ==
  ASSUME NEW S, NEW b, NEW f, Sweeps(f, S, b)
  PROVE  /\ f[{}] = b
         /\ \A s \in SUBSET S : s # {} =>
              First(s) \in s /\ f[s] = AskNext(First(s), f[s \ {First(s)}])
<1>1. \A s \in SUBSET S :
        f[s] = IF s = {} THEN b ELSE AskNext(First(s), f[s \ {First(s)}])
  BY Zenon DEF Sweeps
<1>2. \A s \in SUBSET S : s # {} => First(s) \in s
  BY DEF First
<1> QED
  BY <1>1, <1>2

LEMMA SweepsAgree ==
  ASSUME NEW A, NEW B, NEW b, NEW f, NEW g, IsFiniteSet(A),
         Sweeps(f, A, b), Sweeps(g, B, b), NEW s0 \in SUBSET A, s0 \in SUBSET B
  PROVE  f[s0] = g[s0]
<1> DEFINE Bad == {s \in SUBSET A : s \subseteq B /\ f[s] # g[s]}
<1>1. SUFFICES ASSUME Bad # {} PROVE FALSE
  OBVIOUS
<1>2. \A s \in Bad : IsFiniteSet(s)
  BY FS_Subset
<1>3. PICK s \in Bad : \A t \in Bad : t \subseteq s => t = s
  <2> HIDE DEF Bad
  <2> QED
    BY <1>1, <1>2, FiniteMin
<1>4. s # {}
  BY SweepsAre
<1> DEFINE t == s \ {First(s)}
<1>5. /\ First(s) \in s /\ f[s] = AskNext(First(s), f[t])
      /\ g[s] = AskNext(First(s), g[t])
  BY <1>4, SweepsAre
<1>6. t \in SUBSET A /\ t \subseteq B /\ t \subseteq s /\ t # s
  BY <1>5
<1>7. f[t] = g[t]
  BY <1>3, <1>6
<1> QED
  BY <1>5, <1>7

LEMMA SweepsExist ==
  ASSUME NEW S, NEW b, IsFiniteSet(S)
  PROVE  \E f : Sweeps(f, S, b)
<1> DEFINE Bad == {s \in SUBSET S : ~\E f : Sweeps(f, s, b)}
<1>1. SUFFICES ASSUME Bad # {} PROVE FALSE
  OBVIOUS
<1>2. \A s \in Bad : IsFiniteSet(s)
  BY FS_Subset
<1>3. PICK A \in Bad : \A t \in Bad : t \subseteq A => t = A
  <2> HIDE DEF Bad
  <2> QED
    BY <1>1, <1>2, FiniteMin
<1> DEFINE F(t) == CHOOSE f : Sweeps(f, t, b)
           Less(t) == t \ {First(t)}
           h == [s \in SUBSET A |-> IF s = {} THEN b ELSE AskNext(First(s), F(Less(s))[Less(s)])]
<1>4. \A t \in SUBSET A : t # A => Sweeps(F(t), t, b) /\ IsFiniteSet(t)
  <2> TAKE t \in SUBSET A
  <2> HAVE t # A
  <2>1. t \in SUBSET S /\ t \notin Bad
    BY <1>3
  <2> QED
    BY <2>1, FS_Subset
<1>5. ASSUME NEW t \in SUBSET A, t # A PROVE h[t] = F(t)[t]
  <2>1. Sweeps(F(t), t, b) /\ IsFiniteSet(t)
    BY <1>4, <1>5
  <2>2. h[t] = IF t = {} THEN b ELSE AskNext(First(t), F(Less(t))[Less(t)])
    OBVIOUS
  <2>3. CASE t = {}
    BY <2>1, <2>2, <2>3, SweepsAre
  <2>4. CASE t # {}
    <3>1. First(t) \in t /\ F(t)[t] = AskNext(First(t), F(t)[Less(t)])
      BY <2>1, <2>4, SweepsAre
    <3>2. Less(t) \in SUBSET t /\ Less(t) \in SUBSET A /\ Less(t) # A
      BY <3>1
    <3>3. Sweeps(F(Less(t)), Less(t), b)
      BY <1>4, <3>2
    <3> HIDE DEF F, Less, h
    <3>4. F(t)[Less(t)] = F(Less(t))[Less(t)]
      BY <2>1, <3>2, <3>3, SweepsAgree
    <3> QED
      BY <2>2, <2>4, <3>1, <3>4
  <2> QED
    BY <2>3, <2>4
<1>6. \A s \in SUBSET A : s # {} => h[Less(s)] = F(Less(s))[Less(s)]
  <2> TAKE s \in SUBSET A
  <2> HAVE s # {}
  <2>1. First(s) \in s
    BY DEF First
  <2>2. Less(s) \in SUBSET A /\ Less(s) # A
    BY <2>1
  <2> HIDE DEF h, F, Less
  <2> QED
    BY <1>5, <2>2
<1>7. h = [s \in SUBSET A |-> IF s = {} THEN b ELSE AskNext(First(s), h[Less(s)])]
  <2>1. \A s \in SUBSET A :
          (IF s = {} THEN b ELSE AskNext(First(s), F(Less(s))[Less(s)]))
            = (IF s = {} THEN b ELSE AskNext(First(s), h[Less(s)]))
    <3> HIDE DEF h, F, Less
    <3> QED
      BY <1>6
  <2>2. [s \in SUBSET A |-> IF s = {} THEN b ELSE AskNext(First(s), F(Less(s))[Less(s)])]
          = [s \in SUBSET A |-> IF s = {} THEN b ELSE AskNext(First(s), h[Less(s)])]
    <3> HIDE DEF h, F, Less
    <3> QED
      BY <2>1
  <2> QED
    BY <2>2
<1>8. Sweeps(h, A, b)
  BY <1>7 DEF Sweeps
<1> QED
  BY <1>3, <1>8
LEMMA SweepIs ==
  ASSUME NEW S, NEW b, IsFiniteSet(S)
  PROVE  \E f : Sweeps(f, S, b) /\ f[S] = FoldSet(AskNext, b, S)
<1> DEFINE f == CHOOSE g : Sweeps(g, S, b)
<1>1. Sweeps(f, S, b)
  BY SweepsExist
<1>2. FoldSet(AskNext, b, S) =
        (CHOOSE g : g = [s \in SUBSET S |->
           IF s = {} THEN b ELSE AskNext(CHOOSE x \in s : TRUE, g[s \ {CHOOSE x \in s : TRUE}])])[S]
  BY DEF FoldSet, MapThenFoldSet
<1>3. FoldSet(AskNext, b, S) = f[S]
  BY <1>2, Zenon DEF Sweeps, First
<1> QED
  BY <1>1, <1>3

(* What a sweep that asked about uids of S may have done to the sampler m.   *)
Swept(s, S, m, q) ==
    /\ s.net \in Samplers /\ s.net.source # "none" /\ Timely(s.net, q)
    /\ s.woken \subseteq s.read /\ s.read \subseteq S
    /\ \A v \in Uid \ s.read : Pending(s.net, v) => Pending(m, v)
    /\ \A v \in s.read : Pending(s.net, v) => q[v] <= TTL
    /\ \A v \in s.woken : Pending(m, v)

LEMMA AskNextHolds ==
  ASSUME row \subseteq Uid \cup {Root}, NEW s, NEW S \in SUBSET Uid, NEW m, NEW q \in Ages,
         NEW u \in S, Swept(s, S \ {u}, m, q)
  PROVE  Swept(AskNext(u, s), S, m, q)
<1> DEFINE a == Asked(s.net, u, 1)
           n == AskNext(u, s)
<1>1. Answers(a, s.net, q, u)
  BY AskedHolds DEF Swept
<1>2. /\ n.net = a.net /\ n.read = s.read \cup {v \in {u} : a.ok}
      /\ n.woken = s.woken \cup {v \in {u} : a.yes}
  BY DEF AskNext
<1> HIDE DEF a, n
<1>3. u \in Uid /\ u \notin s.read
  BY DEF Swept
<1>4. n.read \subseteq S /\ n.woken \subseteq n.read
  BY <1>1, <1>2 DEF Swept, Answers
<1>5. \A v \in Uid \ n.read : Pending(n.net, v) => Pending(m, v)
  BY <1>1, <1>2 DEF Swept, Answers
<1>6. \A v \in n.read : Pending(n.net, v) => q[v] <= TTL
  <2> TAKE v \in n.read
  <2>1. CASE v = u
    BY <1>1, <1>2, <1>3, <2>1 DEF Answers
  <2>2. CASE v # u
    BY <1>1, <1>2, <2>2 DEF Answers, Swept
  <2> QED
    BY <2>1, <2>2
<1>7. \A v \in n.woken : Pending(m, v)
  BY <1>1, <1>2, <1>3 DEF Swept, Answers
<1>8. Swept(n, S, m, q)
  BY <1>1, <1>2, <1>4, <1>5, <1>6, <1>7 DEF Swept, Answers
<1> QED
  BY <1>8 DEF n

LEMMA SweepHolds ==
  ASSUME row \subseteq Uid \cup {Root}, NEW S \in SUBSET Uid, NEW q \in Ages,
         NEW m \in Samplers, m.source # "none", Timely(m, q)
  PROVE  Swept(FoldSet(AskNext, [net |-> m, read |-> {}, woken |-> {}], S), S, m, q)
<1> DEFINE b == [net |-> m, read |-> {}, woken |-> {}]
<1>1. IsFiniteSet(S)
  BY NetAssumption, FS_Subset
<1>2. PICK f : Sweeps(f, S, b) /\ f[S] = FoldSet(AskNext, b, S)
  BY <1>1, SweepIs
<1>3. Swept(b, {}, m, q)
  BY DEF Swept
<1> HIDE DEF b
<1> DEFINE Bad == {s \in SUBSET S : ~Swept(f[s], s, m, q)}
<1>4. ASSUME Bad # {} PROVE FALSE
  <2>1. \A s \in Bad : IsFiniteSet(s)
    BY <1>1, FS_Subset
  <2>2. PICK s \in Bad : \A t \in Bad : t \subseteq s => t = s
    <3> HIDE DEF Bad
    <3> QED
      BY <1>4, <2>1, FiniteMin
  <2>3. s # {}
    <3>1. f[{}] = b
      BY <1>2, SweepsAre
    <3>2. ~Swept(f[s], s, m, q)
      BY <2>2
    <3> QED
      BY <1>3, <3>1, <3>2
  <2> DEFINE t == s \ {First(s)}
  <2>4. First(s) \in s /\ f[s] = AskNext(First(s), f[t])
    BY <1>2, <2>3, SweepsAre
  <2>5. Swept(f[t], t, m, q)
    BY <2>2, <2>4
  <2>6. Swept(AskNext(First(s), f[t]), s, m, q)
    BY <2>4, <2>5, AskNextHolds
  <2> QED
    BY <2>4, <2>6
<1> QED
  BY <1>2, <1>4 DEF b

-----------------------------------------------------------------------------
(* The invariant: the source is known, what the cache does not show is no    *)
(* older than the cache, and what no reading has counted is recorded in      *)
(* stirred.                                                                  *)
NetInv ==
    /\ NTypeOK /\ net.source # "none" /\ Timely(net, quiet)
    /\ \A u \in Uid : Pending(net, u) => stirred[u]

(* No package is woken or spared for nothing.                                *)
NoneWoken ==
    \A u \in Uid : (place[u] # "back" /\ place'[u] = "back") => stirred[u]

LEMMA NetShapes ==
  NTypeOK <=> /\ net \in Samplers /\ quiet \in Ages
              /\ works \in Devices /\ row \subseteq Uid \cup {Root}
              /\ stirred \in [Uid -> BOOLEAN]
              /\ place \in [Uid -> {"front", "back", "grace", "frozen"}]
              /\ keep_hn \subseteq Uid /\ keep_net \subseteq Uid
              /\ phase \in 0 .. PollEvery - 1
  BY DEF NTypeOK, Samplers, Ages

LEMMA NetShapesNext ==
  NTypeOK' <=> /\ net' \in Samplers /\ quiet' \in Ages
               /\ works' \in Devices /\ row' \subseteq Uid \cup {Root}
               /\ stirred' \in [Uid -> BOOLEAN]
               /\ place' \in [Uid -> {"front", "back", "grace", "frozen"}]
               /\ keep_hn' \subseteq Uid /\ keep_net' \subseteq Uid
               /\ phase' \in 0 .. PollEvery - 1
  BY DEF NTypeOK, Samplers, Ages

LEMMA NetInitHolds == NInit => NetInv
<1> SUFFICES ASSUME NInit PROVE NetInv
  OBVIOUS
<1> DEFINE m == [source |-> "none", cached |-> {}, fresh |-> TTL,
                 age |-> [u \in Uid |-> Never], seen |-> [u \in Uid |-> 0],
                 hidden |-> [u \in Uid |-> 0]]
           p == Refreshed("pinfile", m)
           b == Refreshed("bpf", p)
<1>1. quiet \in Ages /\ row \subseteq Uid \cup {Root}
  BY NetAssumption DEF NInit, Ages
<1>2. m \in Samplers /\ Timely(m, quiet) /\ \A u \in Uid : ~Pending(m, u)
  BY NetAssumption DEF Samplers, Timely, Pending, Never
<1>3. m.source = "none"
  OBVIOUS
<1> HIDE DEF m
<1>4. p \in Samplers /\ Timely(p, quiet) /\ \A u \in Uid : ~Pending(p, u)
  BY <1>1, <1>2, RefreshedHolds
<1> HIDE DEF p
<1>5. b \in Samplers /\ Timely(b, quiet) /\ \A u \in Uid : ~Pending(b, u)
  BY <1>1, <1>4, RefreshedHolds
<1> HIDE DEF b
<1>6. \E k \in {p, b}, s \in {"pinfile", "bpf", "uid_stat", "xt_qtaguid"} :
        Probed(m, Root).net = [k EXCEPT !.source = s]
  BY DEF Probed, p, b
<1>7. net = Probed(m, Root).net
  <2>1. net = Read(m, Root).net
    BY Zenon DEF NInit, m
  <2>2. Read(m, Root) = Probed(m, Root)
    BY <1>3 DEF Read, Dumps, Rows
  <2> QED
    BY <2>1, <2>2
<1>8. PICK k \in {p, b}, s \in {"pinfile", "bpf", "uid_stat", "xt_qtaguid"} :
        net = [k EXCEPT !.source = s]
  BY <1>6, <1>7
<1>9. k \in Samplers /\ Timely(k, quiet) /\ \A u \in Uid : ~Pending(k, u)
  BY <1>4, <1>5
<1>10. /\ net \in Samplers /\ net.source = s /\ net.fresh = k.fresh
       /\ net.seen = k.seen /\ net.hidden = k.hidden
  BY <1>8, <1>9 DEF Samplers, Dumps, Rows
<1>11. net.source # "none" /\ Timely(net, quiet) /\ \A u \in Uid : ~Pending(net, u)
  BY <1>9, <1>10 DEF Timely, Pending
<1>12. NTypeOK
  BY <1>1, <1>10, NetShapes, NetAssumption DEF NInit
<1> QED
  BY <1>11, <1>12 DEF NetInv

LEMMA TrafficHolds ==
  ASSUME NetInv, NEW u \in Uid, Traffic(u)
  PROVE  NetInv' /\ NoneWoken
<1>1. PICK k \in {1, Threshold} : net' = [net EXCEPT !.hidden[u] = Capped(@ + k)]
  BY DEF Traffic
<1> DEFINE h == [net.hidden EXCEPT ![u] = Capped(net.hidden[u] + k)]
<1>2. net \in Samplers /\ k \in Nat /\ net.hidden[u] \in Nat /\ net.hidden[u] + k \in Nat
  BY NetShapes, NetAssumption DEF NetInv, Samplers
<1>3. Capped(net.hidden[u] + k) \in 0 .. Threshold
  BY <1>2, CappedCounts
<1>4. h \in [Uid -> 0 .. Threshold] /\ \A v \in Uid : v # u => h[v] = net.hidden[v]
  BY <1>2, <1>3 DEF Samplers
<1>5. net' = [net EXCEPT !.hidden = h]
  BY <1>1, <1>2 DEF Samplers
<1> HIDE DEF h
<1>6. /\ net' \in Samplers /\ net'.source = net.source /\ net'.fresh = net.fresh
      /\ net'.seen = net.seen /\ net'.hidden = h
  BY <1>2, <1>4, <1>5 DEF Samplers
<1>7. /\ quiet \in Ages /\ quiet' = [quiet EXCEPT ![u] = 0]
      /\ stirred \in [Uid -> BOOLEAN] /\ stirred' = [stirred EXCEPT ![u] = TRUE]
      /\ row' = row \cup {u}
      /\ UNCHANGED <<works, place, keep_hn, keep_net, phase>>
  BY NetShapes DEF NetInv, Traffic
<1>8. quiet' \in Ages /\ stirred' \in [Uid -> BOOLEAN] /\ quiet'[u] = 0 /\ stirred'[u]
  BY <1>7, NetAssumption DEF Ages
<1>9. NTypeOK'
  BY <1>6, <1>7, <1>8, NetShapes, NetShapesNext DEF NetInv
<1>10. net'.fresh \in 0 .. TTL
  BY <1>6 DEF Samplers
<1>11. Timely(net', quiet')
  BY <1>4, <1>6, <1>7, <1>8, <1>10 DEF NetInv, Timely
<1>12. \A v \in Uid : Pending(net', v) => stirred'[v]
  BY <1>4, <1>6, <1>7, <1>8 DEF NetInv, Pending
<1>13. NoneWoken
  BY <1>7 DEF NoneWoken
<1> QED
  BY <1>6, <1>9, <1>11, <1>12, <1>13 DEF NetInv, Timely, Pending

(* Both handlers that ask about one uid.                                     *)
LEMMA AnswerHolds ==
  ASSUME NetInv, NEW u \in Uid, NEW e, Answers(e, net, quiet, u), net' = e.net,
         UNCHANGED <<works, row, quiet, keep_hn, keep_net, phase>>,
         Recorded({v \in {u} : e.ok}),
         NEW next \in {"grace", "frozen"},
         place' = [place EXCEPT ![u] = IF e.yes THEN "back" ELSE next]
  PROVE  NetInv' /\ NoneWoken
<1>1. /\ quiet \in Ages /\ quiet' = quiet /\ stirred \in [Uid -> BOOLEAN]
      /\ place \in [Uid -> {"front", "back", "grace", "frozen"}]
  BY NetShapes DEF NetInv
<1>2. stirred' = [v \in Uid |-> IF v = u /\ e.ok THEN quiet[v] <= TTL ELSE stirred[v]]
  BY <1>1 DEF Recorded
<1>3. \A v \in Uid : (quiet[v] <= TTL) \in BOOLEAN
  OBVIOUS
<1>4. stirred' \in [Uid -> BOOLEAN]
  BY <1>1, <1>2, <1>3
<1>5. place' \in [Uid -> {"front", "back", "grace", "frozen"}]
  BY <1>1
<1>6. NTypeOK'
  BY <1>1, <1>4, <1>5, NetShapes, NetShapesNext DEF NetInv, Answers
<1>7. \A v \in Uid : Pending(net', v) => stirred'[v]
  <2> TAKE v \in Uid
  <2>1. CASE v = u /\ e.ok
    BY <1>2, <2>1 DEF Answers
  <2>2. CASE ~(v = u /\ e.ok)
    BY <1>2, <2>2 DEF Answers, NetInv
  <2> QED
    BY <2>1, <2>2
<1>8. NoneWoken
  BY <1>1 DEF NoneWoken, Answers, NetInv
<1> QED
  BY <1>1, <1>6, <1>7, <1>8 DEF NetInv, Timely, Pending, Answers

LEMMA TickHolds ==
  ASSUME NetInv, NetTick
  PROVE  NetInv' /\ NoneWoken
<1> DEFINE Later(k, top) == IF k = Never \/ k = top THEN k ELSE k + 1
           ages == [u \in Uid |-> Later(net.age[u], Window)]
           m == [net EXCEPT !.fresh = Later(net.fresh, TTL), !.age = ages]
           q == [u \in Uid |-> Later(quiet[u], TTL + 1)]
<1>0. net \in Samplers /\ quiet \in Ages
  BY NetShapes DEF NetInv
<1>1. /\ phase' = (phase + 1) % PollEvery /\ quiet' = q
      /\ UNCHANGED <<works, row, keep_hn, keep_net>>
      /\ IF phase' = 0 THEN Poll(m) ELSE net' = m /\ UNCHANGED <<place, stirred>>
  BY <1>0 DEF NetTick, Samplers
<1>2. q \in Ages /\ \A u \in Uid : q[u] = IF quiet[u] = TTL + 1 THEN quiet[u] ELSE quiet[u] + 1
  BY <1>0, NetAssumption DEF Ages, Never
<1>3. ages \in [Uid -> Never .. Window]
  BY <1>0, NetAssumption DEF Samplers, Never
<1>4. /\ Later(net.fresh, TTL) \in 0 .. TTL
      /\ Later(net.fresh, TTL) < TTL => net.fresh < TTL /\ Later(net.fresh, TTL) = net.fresh + 1
  BY <1>0, NetAssumption DEF Samplers, Never
<1> HIDE DEF Later, ages, q
<1>5. /\ m \in Samplers /\ m.source = net.source /\ m.seen = net.seen
      /\ m.hidden = net.hidden /\ m.fresh = Later(net.fresh, TTL)
  BY <1>0, <1>3, <1>4 DEF Samplers
<1> HIDE DEF m
<1>6. \A u \in Uid : quiet[u] \in 0 .. TTL + 1 /\ net.fresh \in 0 .. TTL
  BY <1>0 DEF Ages, Samplers
<1>7. m.source # "none" /\ Timely(m, q) /\ \A u \in Uid : Pending(m, u) <=> Pending(net, u)
  BY <1>2, <1>4, <1>5, <1>6, NetAssumption DEF NetInv, Timely, Pending
<1>8. phase' \in 0 .. PollEvery - 1
  BY <1>1, NetShapes, NetAssumption DEF NetInv
<1>9. CASE phase' # 0
  <2>1. net' = m /\ place' = place /\ stirred' = stirred
    BY <1>1, <1>9
  <2>2. NTypeOK'
    BY <1>1, <1>2, <1>5, <1>8, <2>1, NetShapes, NetShapesNext DEF NetInv
  <2>3. NetInv'
    BY <1>1, <1>7, <2>1, <2>2 DEF NetInv, Timely, Pending
  <2> QED
    BY <2>1, <2>3 DEF NoneWoken
<1>10. CASE phase' = 0
  <2> DEFINE S == {u \in keep_net : place[u] = "frozen"}
             w == FoldSet(AskNext, [net |-> m, read |-> {}, woken |-> {}], S)
  <2>1. /\ net' = w.net /\ Recorded(w.read)
        /\ place' = [u \in Uid |-> IF u \in w.woken THEN "back" ELSE place[u]]
    BY <1>1, <1>10 DEF Poll
  <2>2. row \subseteq Uid \cup {Root} /\ S \in SUBSET Uid
    BY NetShapes DEF NetInv
  <2>3. Swept(w, S, m, q)
    BY <1>2, <1>5, <1>7, <2>2, SweepHolds
  <2> HIDE DEF w, S
  <2>4. /\ stirred \in [Uid -> BOOLEAN]
        /\ place \in [Uid -> {"front", "back", "grace", "frozen"}]
    BY NetShapes DEF NetInv
  <2>5. stirred' = [u \in Uid |-> IF u \in w.read THEN q[u] <= TTL ELSE stirred[u]]
    BY <1>1, <2>1 DEF Recorded
  <2>6. stirred' \in [Uid -> BOOLEAN]
    <3>1. \A u \in Uid : (q[u] <= TTL) \in BOOLEAN
      OBVIOUS
    <3> QED
      BY <2>4, <2>5, <3>1
  <2>7. place' \in [Uid -> {"front", "back", "grace", "frozen"}]
    BY <2>1, <2>4
  <2>8. NTypeOK'
    BY <1>1, <1>2, <1>8, <2>1, <2>3, <2>6, <2>7, NetShapes, NetShapesNext DEF NetInv, Swept
  <2>9. \A u \in Uid : Pending(net', u) => stirred'[u]
    <3> TAKE u \in Uid
    <3>1. CASE u \in w.read
      BY <2>1, <2>3, <2>5, <3>1 DEF Swept
    <3>2. CASE u \notin w.read
      BY <1>7, <2>1, <2>3, <2>5, <3>2 DEF Swept, NetInv
    <3> QED
      BY <3>1, <3>2
  <2>10. NoneWoken
    BY <1>7, <2>1, <2>3 DEF NoneWoken, Swept, NetInv
  <2> QED
    BY <1>1, <2>1, <2>3, <2>8, <2>9, <2>10 DEF NetInv, Timely, Pending, Swept
<1> QED
  BY <1>9, <1>10

LEMMA NetStepHolds ==
  ASSUME NetInv, NNext
  PROVE  NetInv' /\ NoneWoken
<1>1. CASE NetTick
  BY <1>1, TickHolds
<1>2. ASSUME NEW u \in Uid, Traffic(u) PROVE NetInv' /\ NoneWoken
  BY <1>2, TrafficHolds
<1>3. ASSUME NEW u \in Uid, Enter(u) PROVE NetInv' /\ NoneWoken
  BY <1>3, NetShapes, NetShapesNext DEF Enter, NetInv, NoneWoken, Timely, Pending
<1>4. ASSUME NEW u \in Uid, Leave(u) PROVE NetInv' /\ NoneWoken
  <2>1. Answers(Exempted(net, u), net, quiet, u)
    BY ExemptedHolds, NetShapes DEF NetInv
  <2> QED
    BY <1>4, <2>1, AnswerHolds DEF Leave
<1>5. ASSUME NEW u \in Uid, Expire(u) PROVE NetInv' /\ NoneWoken
  <2>1. Answers(Exempted(net, u), net, quiet, u)
    BY ExemptedHolds, NetShapes DEF NetInv
  <2> QED
    BY <1>5, <2>1, AnswerHolds DEF Expire
<1>6. ASSUME NEW u \in Uid, Switch(u) PROVE NetInv' /\ NoneWoken
  BY <1>6, NetShapes, NetShapesNext DEF Switch, NetInv, NoneWoken, Timely, Pending
<1> QED
  BY <1>1, <1>2, <1>3, <1>4, <1>5, <1>6 DEF NNext

LEMMA NetInvAlways == NSpec => []NetInv
<1>1. NetInv /\ [NNext]_nvars => NetInv'
  <2>1. NetInv /\ UNCHANGED nvars => NetInv'
    BY NetShapes, NetShapesNext DEF nvars, NetInv, Timely, Pending
  <2> QED
    BY <2>1, NetStepHolds
<1> QED
  BY <1>1, NetInitHolds, PTL DEF NSpec

(* The sampler's state keeps its shape.                                      *)
THEOREM NetTypeCorrect == NSpec => []NTypeOK
  BY NetInvAlways, PTL DEF NetInv

(* A package is spared or woken for its traffic only when it had some since  *)
(* its last sample, or within the life of the cache before it, however many  *)
(* packages one poll asks about.                                             *)
THEOREM NoPhantomTrafficAlways == NSpec => NoPhantomTraffic
<1>1. NetInv /\ [NNext]_nvars => [NoneWoken]_nvars
  BY NetStepHolds
<1> QED
  BY <1>1, NetInvAlways, PTL DEF NSpec, NoPhantomTraffic, NoneWoken
=============================================================================
