----------------------------- MODULE SocketProofs -----------------------------
(* Proofs about the control socket: who serves it (Startup, for any number   *)
(* of instances, launches and kills), the locks its threads share with the   *)
(* main loop (Locks, for any number of threads and any commands whose        *)
(* scripts nest in the order of Rank), and what a subscription is told       *)
(* (Link, for any connections, kinds, sets and buffer size).                 *)
EXTENDS Startup, Locks, Link, SequenceTheorems, TLAPS

(* Startup                                                                   *)

(* Whoever accepts owns the abstract socket, and nobody else does; a        *)
(* process that is gone has no socket thread.                               *)
Owners ==
    /\ serve \in [Daemon -> {"off", "probing", "unlinking", "binding", "abstract",
                             "accepting", "ended"}]
    /\ proc \in [Daemon -> {"off", "waiting", "writing", "looping", "closing", "joining"}]
    /\ abs \in Daemon \cup {Nobody}
    /\ \A d \in Daemon : serve[d] = "accepting" <=> abs = d
    /\ \A d \in Daemon : proc[d] = "off" => serve[d] = "off"

LEMMA OwnersInit == SInit => Owners
  BY StartupAssumption DEF SInit, Owners

LEMMA OwnersStep == Owners /\ [SNext]_svars => Owners'
<1> SUFFICES ASSUME Owners, [SNext]_svars PROVE Owners'
  OBVIOUS
<1>1. CASE UNCHANGED svars
  BY <1>1 DEF svars, Owners
<1>2. CASE SNext
  <2> SUFFICES ASSUME NEW d \in Daemon, Runs(d) \/ Launch(d) \/ Stop(d) \/ Kill(d)
               PROVE  Owners'
    BY <1>2 DEF SNext
  <2> USE StartupAssumption DEF Owners, Goes
  <2>1. CASE Probe(d)
    BY <2>1 DEF Probe, Fails
  <2>2. CASE Unlink(d)
    BY <2>2 DEF Unlink
  <2>3. CASE Bind(d)
    BY <2>3 DEF Bind, Fails
  <2>4. CASE BindAbstract(d)
    BY <2>4 DEF BindAbstract, Fails
  <2>5. CASE EndServe(d)
    BY <2>5 DEF EndServe
  <2>6. CASE WaitEnds(d)
    BY <2>6 DEF WaitEnds
  <2>7. CASE WriteReady(d)
    BY <2>7 DEF WriteReady
  <2>8. CASE LoopEnds(d)
    BY <2>8 DEF LoopEnds
  <2>9. CASE RemoveReady(d)
    BY <2>9 DEF RemoveReady
  <2>10. CASE Exit(d)
    BY <2>10 DEF Exit
  <2>11. CASE Launch(d)
    BY <2>11 DEF Launch
  <2>12. CASE Stop(d)
    BY <2>12 DEF Stop
  <2>13. CASE Kill(d)
    BY <2>13 DEF Kill
  <2> QED
    BY <2>1, <2>2, <2>3, <2>4, <2>5, <2>6, <2>7, <2>8, <2>9, <2>10, <2>11, <2>12, <2>13
       DEF Runs
<1> QED
  BY <1>1, <1>2

LEMMA OwnersAlways == SSpec => []Owners
  BY OwnersInit, OwnersStep, PTL DEF SSpec

(* At most one instance accepts connections, however many start at once.    *)
THEOREM OneServesAlways == SSpec => []OneServes
<1>1. Owners => OneServes
  BY DEF Owners, OneServes
<1> QED
  BY <1>1, OwnersAlways, PTL

(* No instance takes the abstract socket from the one that serves: it loses *)
(* it by closing or by being killed.                                        *)
THEOREM NobodyTakesOverAlways == SSpec => NobodyTakesOver
<1> DEFINE Kept == \A d \in Daemon : serve[d] = "accepting" /\ abs' # d =>
                      proc[d] \in {"closing", "joining"} \/ proc'[d] = "off"
<1>1. Owners /\ [SNext]_svars => [Kept]_svars
  <2> SUFFICES ASSUME Owners, SNext, NEW e \in Daemon, serve[e] = "accepting", abs' # e
               PROVE  proc[e] \in {"closing", "joining"} \/ proc'[e] = "off"
    OBVIOUS
  <2>1. PICK d \in Daemon : Runs(d) \/ Launch(d) \/ Stop(d) \/ Kill(d)
    BY DEF SNext
  <2>2. abs = e /\ abs' # abs
    BY DEF Owners
  <2>3. CASE BindAbstract(d)
    BY <2>2, <2>3, StartupAssumption DEF BindAbstract, Fails, Owners
  <2>4. CASE EndServe(d)
    BY <2>2, <2>4 DEF EndServe, Owners
  <2>5. CASE Kill(d)
    BY <2>2, <2>5 DEF Kill, Owners
  <2> QED
    BY <2>1, <2>2, <2>3, <2>4, <2>5
       DEF Runs, Probe, Unlink, Bind, WaitEnds, WriteReady, LoopEnds, RemoveReady, Exit,
           Launch, Stop
<1> QED
  BY <1>1, OwnersAlways, PTL DEF SSpec, NobodyTakesOver

-----------------------------------------------------------------------------
(* Locks                                                                     *)

LEMMA TakeHolds ==
  ASSUME NEW s, NEW k \in Nat \ {0}, NEW l \in Lock, s[k] = take(l)
  PROVE  HeldAt(s, k + 1) = HeldAt(s, k) \cup {l}
<1>1. \A h : take(h) # drop(h) /\ (h # l => s[k] # take(h)) /\ s[k] # drop(h)
  BY DEF take, drop
<1>2. l \in HeldAt(s, k + 1)
  BY DEF HeldAt
<1>3. ASSUME NEW h \in HeldAt(s, k) PROVE h \in HeldAt(s, k + 1)
  <2>1. PICK i \in 1 .. k - 1 : s[i] = take(h) /\ \A j \in i + 1 .. k - 1 : s[j] # drop(h)
    BY DEF HeldAt
  <2>2. \A j \in i + 1 .. k : s[j] # drop(h)
    BY <2>1, <1>1
  <2> QED
    BY <2>1, <2>2 DEF HeldAt
<1>4. ASSUME NEW h \in HeldAt(s, k + 1), h # l PROVE h \in HeldAt(s, k)
  <2>1. PICK i \in 1 .. k : s[i] = take(h) /\ \A j \in i + 1 .. k : s[j] # drop(h)
    BY DEF HeldAt
  <2>2. i \in 1 .. k - 1
    BY <2>1, <1>1, <1>4
  <2> QED
    BY <2>1, <2>2 DEF HeldAt
<1> QED
  BY <1>2, <1>3, <1>4

LEMMA DropReleases ==
  ASSUME NEW s, NEW k \in Nat \ {0}, NEW l \in Lock, s[k] = drop(l)
  PROVE  HeldAt(s, k + 1) = HeldAt(s, k) \ {l}
<1>1. \A h : s[k] # take(h) /\ (h # l => s[k] # drop(h))
  BY DEF take, drop
<1>2. l \notin HeldAt(s, k + 1)
  <2> SUFFICES ASSUME NEW i \in 1 .. k, s[i] = take(l), \A j \in i + 1 .. k : s[j] # drop(l)
               PROVE  FALSE
    BY DEF HeldAt
  <2>1. i # k
    BY <1>1
  <2> QED
    BY <2>1
<1>3. ASSUME NEW h \in HeldAt(s, k), h # l PROVE h \in HeldAt(s, k + 1)
  <2>1. PICK i \in 1 .. k - 1 : s[i] = take(h) /\ \A j \in i + 1 .. k - 1 : s[j] # drop(h)
    BY DEF HeldAt
  <2>2. \A j \in i + 1 .. k : s[j] # drop(h)
    BY <2>1, <1>1, <1>3
  <2> QED
    BY <2>1, <2>2 DEF HeldAt
<1>4. ASSUME NEW h \in HeldAt(s, k + 1) PROVE h \in HeldAt(s, k)
  <2>1. PICK i \in 1 .. k : s[i] = take(h) /\ \A j \in i + 1 .. k : s[j] # drop(h)
    BY DEF HeldAt
  <2>2. i \in 1 .. k - 1
    BY <2>1, <1>1
  <2> QED
    BY <2>1, <2>2 DEF HeldAt
<1> QED
  BY <1>2, <1>3, <1>4

-----------------------------------------------------------------------------

Program == Commands \cup {"tick"}
Position(t) == 1 .. Len(Script[prog[t]]) + 1

(* A thread owns exactly the locks its script holds where it stands.        *)
Owned ==
    /\ prog \in [Thread -> Program \cup {Idle}]
    /\ pc \in [Thread -> Nat \ {0}]
    /\ owner \in [Lock -> Thread \cup {Free}]
    /\ \A t \in Thread : IF prog[t] = Idle THEN pc[t] = 1 ELSE pc[t] \in Position(t)
    /\ \A t \in Thread, l \in Lock :
          owner[l] = t <=> prog[t] # Idle /\ l \in HeldAt(Script[prog[t]], pc[t])

LEMMA OwnedInit == LInit => Owned
  BY LockAssumption DEF LInit, Owned

(* What a thread that stands on an operation can do.                        *)
LEMMA Standing ==
  ASSUME Ordered, Owned, NEW t \in Thread, Running(t)
  PROVE  /\ prog[t] \in Program /\ Script[prog[t]][pc[t]] = Next_op(t)
         /\ pc[t] \in 1 .. Len(Script[prog[t]]) /\ pc[t] + 1 \in Position(t)
         /\ Nests(Script[prog[t]])
         /\ Next_op(t)[2] \in Lock
         /\ Next_op(t)[1] = "+" => Next_op(t) = take(Next_op(t)[2])
         /\ Next_op(t)[1] = "-" => Next_op(t) = drop(Next_op(t)[2])
<1>1. prog[t] \in Program /\ pc[t] \in Position(t) /\ pc[t] <= Len(Script[prog[t]])
  BY DEF Owned, Running
<1>2. Nests(Script[prog[t]])
  BY <1>1 DEF Ordered, Program
<1>3. Len(Script[prog[t]]) \in Int /\ pc[t] \in 1 .. Len(Script[prog[t]])
  BY <1>1 DEF Position, Owned
<1>4. PICK l \in Lock : Next_op(t) = take(l) \/ Next_op(t) = drop(l)
  BY <1>2, <1>3 DEF Nests, Next_op
<1> QED
  BY <1>1, <1>2, <1>3, <1>4 DEF Next_op, Position, take, drop

LEMMA OwnedStep ==
  ASSUME Ordered, Owned, [LNext]_lvars PROVE Owned'
<1>1. CASE UNCHANGED lvars
  BY <1>1 DEF lvars, Owned, Position
<1>2. ASSUME NEW t \in Thread, Acquire(t) PROVE Owned'
  <2> DEFINE s == Script[prog[t]]
             l == Next_op(t)[2]
  <2>1. prog[t] # Idle /\ owner[l] = Free /\ owner' = [owner EXCEPT ![l] = t]
        /\ pc' = [pc EXCEPT ![t] = @ + 1] /\ prog' = prog /\ Running(t)
    BY <1>2 DEF Acquire, Running
  <2>2. l \in Lock /\ s[pc[t]] = take(l) /\ pc[t] \in Nat \ {0} /\ pc[t] + 1 \in Position(t)
    BY <1>2, <2>1, Standing DEF Acquire, Owned
  <2>3. HeldAt(s, pc[t] + 1) = HeldAt(s, pc[t]) \cup {l}
    BY <2>2, TakeHolds
  <2>4. \A u \in Thread : u # Free
    BY LockAssumption
  <2> HIDE DEF s, l
  <2>5. \A u \in Thread, h \in Lock :
          owner'[h] = u <=> prog'[u] # Idle /\ h \in HeldAt(Script[prog'[u]], pc'[u])
    <3> SUFFICES ASSUME NEW u \in Thread, NEW h \in Lock
                 PROVE  owner'[h] = u <=> prog'[u] # Idle /\ h \in HeldAt(Script[prog'[u]], pc'[u])
      OBVIOUS
    <3>1. CASE u = t
      <4>1. HeldAt(Script[prog'[u]], pc'[u]) = HeldAt(s, pc[t]) \cup {l}
        BY <3>1, <2>1, <2>3 DEF s, Owned
      <4>2. owner[h] = t <=> h \in HeldAt(s, pc[t])
        BY <2>1 DEF s, Owned
      <4> QED
        BY <3>1, <4>1, <4>2, <2>1, <2>2 DEF Owned
    <3>2. CASE u # t
      <4>1. pc'[u] = pc[u]
        BY <3>2, <2>1 DEF Owned
      <4>2. owner'[h] = u <=> owner[h] = u
        BY <3>2, <2>1, <2>2, <2>4 DEF Owned
      <4> QED
        BY <4>1, <4>2, <2>1 DEF Owned
    <3> QED
      BY <3>1, <3>2
  <2>6. \A u \in Thread : IF prog'[u] = Idle THEN pc'[u] = 1 ELSE pc'[u] \in Position(u)'
    BY <2>1, <2>2 DEF Owned, Position
  <2> QED
    BY <2>1, <2>2, <2>5, <2>6 DEF Owned
<1>3. ASSUME NEW t \in Thread, Release(t) PROVE Owned'
  <2> DEFINE s == Script[prog[t]]
             l == Next_op(t)[2]
  <2>1. prog[t] # Idle /\ owner' = [owner EXCEPT ![l] = Free]
        /\ pc' = [pc EXCEPT ![t] = @ + 1] /\ prog' = prog /\ Running(t)
    BY <1>3 DEF Release, Running
  <2>2. l \in Lock /\ s[pc[t]] = drop(l) /\ pc[t] \in Nat \ {0} /\ pc[t] + 1 \in Position(t)
        /\ pc[t] \in 1 .. Len(s) /\ Nests(s)
    BY <1>3, <2>1, Standing DEF Release, Owned
  <2>3. HeldAt(s, pc[t] + 1) = HeldAt(s, pc[t]) \ {l}
    BY <2>2, DropReleases
  <2>4. l \in HeldAt(s, pc[t])
    <3>1. PICK h \in Lock : s[pc[t]] = take(h) \/ (s[pc[t]] = drop(h) /\ h \in HeldAt(s, pc[t]))
      BY <2>2 DEF Nests
    <3> QED
      BY <2>2, <3>1 DEF take, drop
  <2>5. \A u \in Thread : u # Free
    BY LockAssumption
  <2>6. owner[l] = t
    BY <2>1, <2>2, <2>4 DEF Owned
  <2> HIDE DEF s, l
  <2>7. \A u \in Thread, h \in Lock :
          owner'[h] = u <=> prog'[u] # Idle /\ h \in HeldAt(Script[prog'[u]], pc'[u])
    <3> SUFFICES ASSUME NEW u \in Thread, NEW h \in Lock
                 PROVE  owner'[h] = u <=> prog'[u] # Idle /\ h \in HeldAt(Script[prog'[u]], pc'[u])
      OBVIOUS
    <3>1. CASE u = t
      <4>1. HeldAt(Script[prog'[u]], pc'[u]) = HeldAt(s, pc[t]) \ {l}
        BY <3>1, <2>1, <2>3 DEF s, Owned
      <4>2. owner[h] = t <=> h \in HeldAt(s, pc[t])
        BY <2>1 DEF s, Owned
      <4> QED
        BY <3>1, <4>1, <4>2, <2>1, <2>2, <2>5 DEF Owned
    <3>2. CASE u # t
      <4>1. pc'[u] = pc[u]
        BY <3>2, <2>1 DEF Owned
      <4>2. owner'[h] = u <=> owner[h] = u
        BY <3>2, <2>1, <2>2, <2>5, <2>6 DEF Owned
      <4> QED
        BY <4>1, <4>2, <2>1 DEF Owned
    <3> QED
      BY <3>1, <3>2
  <2>8. \A u \in Thread : IF prog'[u] = Idle THEN pc'[u] = 1 ELSE pc'[u] \in Position(u)'
    BY <2>1, <2>2 DEF Owned, Position
  <2> QED
    BY <2>1, <2>2, <2>7, <2>8 DEF Owned
<1>4. ASSUME NEW t \in Thread, Return(t) PROVE Owned'
  <2> DEFINE s == Script[prog[t]]
  <2>1. prog[t] # Idle /\ prog' = [prog EXCEPT ![t] = Idle] /\ pc' = [pc EXCEPT ![t] = 1]
        /\ owner' = owner /\ ~(pc[t] <= Len(s)) /\ prog[t] \in Program /\ pc[t] \in Position(t)
    BY <1>4 DEF Return, Running, Owned
  <2>2. pc[t] = Len(s) + 1
    BY <2>1 DEF Position, Owned
  <2>3. HeldAt(s, pc[t]) = {}
    BY <2>1, <2>2 DEF Ordered, Nests, Program
  <2>4. \A h \in Lock : owner[h] # t
    BY <2>3 DEF Owned
  <2> QED
    BY <2>1, <2>4 DEF Owned, Position
<1>5. ASSUME NEW t \in Thread, NEW c \in Program, Begin(t, c) PROVE Owned'
  <2>1. prog[t] = Idle /\ prog' = [prog EXCEPT ![t] = c] /\ owner' = owner /\ pc' = pc /\ pc[t] = 1
    BY <1>5 DEF Begin, Owned
  <2>2. c # Idle /\ HeldAt(Script[c], 1) = {}
    BY LockAssumption DEF Program, HeldAt, Script
  <2>3. Len(Script[c]) + 1 \in Int /\ 1 \in 1 .. Len(Script[c]) + 1
    BY DEF Program
  <2> QED
    BY <2>1, <2>2, <2>3 DEF Owned, Position
<1> QED
  BY <1>1, <1>2, <1>3, <1>4, <1>5 DEF LNext, Thread, Program

LEMMA OwnedAlways ==
  ASSUME Ordered PROVE LSpec => []Owned
<1>1. LInit => Owned
  BY OwnedInit
<1>2. Owned /\ [LNext]_lvars => Owned'
  BY OwnedStep
<1> QED
  BY <1>1, <1>2, PTL DEF LSpec

(* What a thread takes ranks above everything it holds.                     *)
LEMMA WantsAbove ==
  ASSUME Ordered, Owned, NEW t \in Thread, NEW l \in Lock, Wants(t, l),
         NEW k \in Lock, owner[k] = t
  PROVE  Rank[k] < Rank[l]
<1>1. Running(t) /\ Next_op(t) = take(l)
  BY DEF Wants
<1>2. prog[t] \in Program /\ Script[prog[t]][pc[t]] = take(l)
      /\ pc[t] \in 1 .. Len(Script[prog[t]]) /\ Nests(Script[prog[t]])
  BY <1>1, Standing
<1>3. k \in HeldAt(Script[prog[t]], pc[t])
  BY <1>1 DEF Owned, Running
<1>4. PICK m \in Lock :
        \/ take(l) = take(m) /\ \A h \in HeldAt(Script[prog[t]], pc[t]) : Rank[h] < Rank[m]
        \/ take(l) = drop(m) /\ m \in HeldAt(Script[prog[t]], pc[t])
  BY <1>2 DEF Nests
<1> QED
  BY <1>3, <1>4 DEF take, drop

(* A thread gives back only what it holds.                                  *)
LEMMA DropsOwn ==
  ASSUME Ordered, Owned, NEW t \in Thread, NEW l \in Lock, Running(t), Next_op(t) = drop(l)
  PROVE  owner[l] = t
<1>1. prog[t] \in Program /\ Script[prog[t]][pc[t]] = drop(l)
      /\ pc[t] \in 1 .. Len(Script[prog[t]]) /\ Nests(Script[prog[t]])
  BY Standing
<1>2. PICK m \in Lock :
        \/ drop(l) = take(m)
        \/ drop(l) = drop(m) /\ m \in HeldAt(Script[prog[t]], pc[t])
  BY <1>1 DEF Nests
<1>3. l \in HeldAt(Script[prog[t]], pc[t])
  BY <1>2 DEF take, drop
<1> QED
  BY <1>3 DEF Owned, Running

(* Every thread takes its locks in the order and gives back what it took,   *)
(* for any number of threads, as long as every command's script nests.      *)
THEOREM HoldsInOrderAlways ==
  ASSUME Ordered PROVE LSpec => []HoldsInOrder
<1>1. Owned => HoldsInOrder
  BY WantsAbove, DropsOwn DEF HoldsInOrder, Owned
<1> QED
  BY <1>1, OwnedAlways, PTL

-----------------------------------------------------------------------------

(* A thread of a circle wants no lock of the highest rank wanted in it, so  *)
(* the highest rank wanted is lower, and in the end there is none left.     *)
LEMMA CircleSinks ==
  ASSUME HoldsInOrder, NEW S \in SUBSET Thread, Stuck(S), NEW n \in Int,
         \A t \in S, l \in Lock : Wants(t, l) => Rank[l] <= n
  PROVE  \A t \in S, l \in Lock : Wants(t, l) => Rank[l] <= n - 1
<1> SUFFICES ASSUME NEW t \in S, NEW l \in Lock, Wants(t, l), ~(Rank[l] <= n - 1)
             PROVE  FALSE
  OBVIOUS
<1>1. PICK u \in S : WaitsFor(t, u)
  BY DEF Stuck
<1>2. owner[l] = u
  BY <1>1 DEF WaitsFor, Wants, take
<1>3. PICK k \in Lock : Wants(u, k)
  BY DEF Stuck, Waits
<1>4. Rank[l] < Rank[k] /\ Rank[k] <= n
  BY <1>2, <1>3 DEF HoldsInOrder
<1>5. Rank[l] \in Int /\ Rank[k] \in Int
  BY DEF Rank, Lock
<1> QED
  BY <1>4, <1>5

LEMMA NoCircle ==
  ASSUME HoldsInOrder, NEW S \in SUBSET Thread, Stuck(S) PROVE FALSE
<1> DEFINE Below(n) == \A t \in S, l \in Lock : Wants(t, l) => Rank[l] <= n
<1>1. Below(11)
  BY DEF Rank, Lock
<1>2. \A n \in Int : Below(n) => Below(n - 1)
  BY CircleSinks
<1> HIDE DEF Below
<1>3. Below(6)
  BY <1>1, <1>2
<1>4. Below(0)
  BY <1>3, <1>2
<1>5. \A l \in Lock : ~(Rank[l] <= 0)
  BY DEF Rank, Lock
<1>6. PICK t \in S, l \in Lock : Wants(t, l)
  BY DEF Stuck, Waits
<1> QED
  BY <1>4, <1>5, <1>6 DEF Below

(* No circle of threads that wait for each other's locks, for any number of *)
(* threads and any commands that nest in the order.                         *)
THEOREM NoCircularWaitAlways ==
  ASSUME Ordered PROVE LSpec => []NoCircularWait
<1>1. HoldsInOrder => NoCircularWait
  BY NoCircle DEF NoCircularWait
<1> QED
  BY <1>1, HoldsInOrderAlways, PTL

-----------------------------------------------------------------------------
(* Link                                                                      *)

(* The type invariant, and how far an answer is put together where its       *)
(* thread stands.                                                            *)
Typed ==
    /\ KTypeOK
    /\ at = 0 => todo = {}
    /\ dex = "away" <=> link = NoConn
    /\ \A c \in Conn :
          /\ srv[c] = "hello" => Len(snap[c]) < Len(Kinds)
          /\ srv[c] = "answer" => Len(snap[c]) = Len(Kinds)
          /\ srv[c] \notin {"hello", "answer"} => snap[c] = <<>>

LEMMA KindsFacts ==
  Len(Kinds) \in Nat \ {0} /\ DOMAIN Kinds = 1 .. Len(Kinds) /\ Nothing \in Copies
  BY LinkAssumption DEF Nothing, Copies

LEMMA PutLine ==
  ASSUME NEW S, NEW s \in Streams(S), NEW c \in Conn, Len(s[c]) < Room, NEW l \in S
  PROVE  [s EXCEPT ![c] = Append(@, l)] \in Streams(S)
<1>1. s[c] \in Seq(S) /\ Len(s[c]) \in Nat
  BY DEF Streams
<1>2. Append(s[c], l) \in Seq(S) /\ Len(Append(s[c], l)) = Len(s[c]) + 1
  BY <1>1, AppendProperties
<1> QED
  BY <1>1, <1>2, LinkAssumption DEF Streams

LEMMA TakeLine ==
  ASSUME NEW S, NEW s \in Streams(S), NEW c \in Conn, s[c] # <<>>
  PROVE  [s EXCEPT ![c] = Tail(@)] \in Streams(S) /\ Head(s[c]) \in S
<1>1. s[c] \in Seq(S) /\ Len(s[c]) \in Nat
  BY DEF Streams
<1>2. Head(s[c]) \in S /\ Tail(s[c]) \in Seq(S) /\ Len(Tail(s[c])) = Len(s[c]) - 1
  BY <1>1, HeadTailProperties
<1> QED
  BY <1>1, <1>2, LinkAssumption DEF Streams

LEMMA NoLine ==
  ASSUME NEW S, NEW s \in Streams(S), NEW c \in Conn
  PROVE  [s EXCEPT ![c] = <<>>] \in Streams(S)
<1>1. <<>> \in Seq(S) /\ Len(<<>>) = 0
  OBVIOUS
<1> QED
  BY <1>1, LinkAssumption DEF Streams

LEMMA Nowhere == \A S : [c \in Conn |-> <<>>] \in Streams(S)
<1>1. \A S : <<>> \in Seq(S) /\ Len(<<>>) = 0
  OBVIOUS
<1> QED
  BY <1>1, LinkAssumption DEF Streams

LEMMA TypedInit == KInit => Typed
<1> SUFFICES ASSUME KInit PROVE Typed
  OBVIOUS
<1>1. up \in Streams(Words) /\ down \in Streams(Lines)
  BY Nowhere DEF KInit
<1>2. snap \in [Conn -> Seq(Sets)] /\ \A c \in Conn : snap[c] = <<>> /\ srv[c] = "none"
  BY DEF KInit
<1>3. {set, last, sig, copy} \subseteq Copies /\ at \in 0 .. Len(Kinds)
  BY KindsFacts DEF KInit
<1> QED
  BY <1>1, <1>2, <1>3 DEF KInit, Typed, KTypeOK

LEMMA TypedMain ==
  ASSUME Typed, \/ \E i \in DOMAIN Kinds, v \in Sets : EngineMoves(i, v)
                \/ MainSteps \/ DaemonRestart
  PROVE  Typed'
<1> USE LinkAssumption, KindsFacts, PutLine, TakeLine, NoLine, Nowhere
    DEF Typed, KTypeOK, conns, wire, events
<1>1. CASE \E i \in DOMAIN Kinds, v \in Sets : EngineMoves(i, v)
  BY <1>1 DEF EngineMoves, Copies
<1>2. CASE MainTick
  BY <1>2 DEF MainTick
<1>3. CASE Announce
  BY <1>3 DEF Announce, Announced, Copies
<1>4. CASE NextKind
  BY <1>4 DEF NextKind, Announced
<1>5. ASSUME NEW c \in Conn, Tell(c) PROVE Typed'
  <2>1. <<"sync", at, sig[at]>> \in Lines
    BY <1>5 DEF Tell, Lines, Copies
  <2>2. down' \in Streams(Lines)
    <3>1. CASE c \notin open
      BY <1>5, <3>1 DEF Tell
    <3>2. CASE c \in open
      <4> DEFINE l == <<"sync", at, sig[at]>>
      <4>1. Len(down[c]) < Room /\ down' = [down EXCEPT ![c] = Append(@, l)] /\ l \in Lines
        BY <1>5, <2>1, <3>2 DEF Tell
      <4> HIDE DEF l
      <4> QED
        BY <4>1
    <3> QED
      BY <3>1, <3>2
  <2>3. todo' \subseteq clients' /\ clients' \subseteq Conn
    BY <1>5 DEF Tell
  <2>4. UNCHANGED <<set, last, sig, at, srv, snap, up, open, link, dex, copy, events>>
        /\ at # 0
    BY <1>5 DEF Tell
  <2> QED
    BY <2>2, <2>3, <2>4
<1>6. CASE DaemonRestart
  BY <1>6 DEF DaemonRestart, theirs
<1> QED
  BY <1>1, <1>2, <1>3, <1>4, <1>5, <1>6 DEF MainSteps

LEMMA TypedConn ==
  ASSUME Typed, NEW c \in Conn, ConnSteps(c) PROVE Typed'
<1> USE LinkAssumption, KindsFacts, PutLine, TakeLine, NoLine, Nowhere
    DEF Typed, KTypeOK, main, wire, theirs, events, Turns
<1>1. CASE FirstLine(c)
  <2>1. <<"refused">> \in Lines
    BY DEF Lines
  <2>2. CASE Head(up[c]) = "hello"
    <3>1. up[c] # <<>> /\ up' = [up EXCEPT ![c] = Tail(@)] /\ down' = down
          /\ srv' = [srv EXCEPT ![c] = "hello"] /\ srv[c] = "first"
      BY <1>1, <2>2 DEF FirstLine
    <3>2. Len(<<>>) < Len(Kinds)
      OBVIOUS
    <3>3. up' \in Streams(Words)
      BY <3>1
    <3> QED
      BY <1>1, <3>1, <3>2, <3>3 DEF FirstLine
  <2>3. CASE Head(up[c]) # "hello"
    <3>1. up' = [up EXCEPT ![c] = <<>>] /\ srv' = [srv EXCEPT ![c] = "none"]
          /\ srv[c] = "first" /\ Answers(c, <<"refused">>)
      BY <1>1, <2>3 DEF FirstLine
    <3>2. up' \in Streams(Words)
      BY <3>1
    <3>3. down' \in Streams(Lines)
      BY <2>1, <3>1 DEF Answers
    <3> QED
      BY <1>1, <3>1, <3>2, <3>3 DEF FirstLine
  <2> QED
    BY <2>2, <2>3
<1>2. CASE Snapshot(c)
  <2> DEFINE n == Len(snap[c])
             longer == Append(snap[c], set[n + 1])
  <2>1. /\ srv[c] = "hello" /\ snap' = [snap EXCEPT ![c] = longer]
        /\ srv' = IF Len(longer) = Len(Kinds) THEN [srv EXCEPT ![c] = "answer"] ELSE srv
        /\ UNCHANGED <<main, clients, wire, theirs>>
    BY <1>2 DEF Snapshot, Order
  <2>2. snap[c] \in Seq(Sets) /\ n \in Nat /\ n + 1 \in DOMAIN Kinds /\ n < Len(Kinds)
    <3>1. snap[c] \in Seq(Sets) /\ n < Len(Kinds)
      BY <2>1
    <3>2. n \in Nat
      BY <3>1, LenProperties
    <3> QED
      BY <3>1, <3>2, KindsFacts
  <2>3. set[n + 1] \in Sets
    BY <2>2 DEF Copies
  <2>4. longer \in Seq(Sets) /\ Len(longer) = n + 1
    BY <2>2, <2>3, AppendProperties
  <2> HIDE DEF longer, n
  <2>5. snap' \in [Conn -> Seq(Sets)] /\ snap'[c] = longer
        /\ \A d \in Conn \ {c} : snap'[d] = snap[d] /\ srv'[d] = srv[d]
    BY <2>1, <2>4
  <2>6. Len(longer) = Len(Kinds) \/ Len(longer) < Len(Kinds)
    <3>1. \A x, y \in Nat : x < y => x + 1 = y \/ x + 1 < y
      OBVIOUS
    <3>2. n \in Nat /\ Len(Kinds) \in Nat /\ n < Len(Kinds)
      BY <2>2, KindsFacts
    <3> QED
      BY <2>4, <3>1, <3>2, Zenon
  <2>7. srv'[c] = IF Len(longer) = Len(Kinds) THEN "answer" ELSE "hello"
    BY <2>1
  <2>8. \A d \in Conn :
          /\ srv'[d] = "hello" => Len(snap'[d]) < Len(Kinds)
          /\ srv'[d] = "answer" => Len(snap'[d]) = Len(Kinds)
          /\ srv'[d] \notin {"hello", "answer"} => snap'[d] = <<>>
    BY <2>5, <2>6, <2>7
  <2> QED
    BY <2>1, <2>5, <2>8
<1>3. CASE AnswerHello(c)
  <2>1. srv[c] = "answer" /\ snap[c] \in Seq(Sets) /\ Len(snap[c]) = Len(Kinds)
    BY <1>3 DEF AnswerHello
  <2>2. snap[c] \in Copies
    BY <2>1, LenProperties DEF Copies
  <2>3. <<"hello", snap[c]>> \in Lines
    BY <2>2 DEF Lines
  <2>4. down' \in Streams(Lines)
    BY <1>3, <2>3 DEF AnswerHello, Answers
  <2>5. up' \in Streams(Words)
    BY <1>3 DEF AnswerHello
  <2>6. snap' = [snap EXCEPT ![c] = <<>>] /\ snap' \in [Conn -> Seq(Sets)]
    BY <1>3 DEF AnswerHello
  <2>7. srv' = [srv EXCEPT ![c] = IF c \in open THEN "register" ELSE "none"]
    BY <1>3 DEF AnswerHello, Order
  <2> QED
    BY <1>3, <2>4, <2>5, <2>6, <2>7 DEF AnswerHello
<1>4. CASE Register(c)
  BY <1>4 DEF Register, Order
<1>5. CASE ReadCommand(c)
  BY <1>5 DEF ReadCommand
<1>6. CASE Reply(c)
  BY <1>6 DEF Reply, Answers, Lines
<1>7. CASE EndOfFile(c)
  BY <1>7 DEF EndOfFile
<1>8. CASE Unregister(c)
  BY <1>8 DEF Unregister
<1> QED
  BY <1>1, <1>2, <1>3, <1>4, <1>5, <1>6, <1>7, <1>8 DEF ConnSteps

LEMMA TypedDex ==
  ASSUME Typed, DexSteps \/ Offer \/ SendEvent \/ DexRestart PROVE Typed'
<1> USE LinkAssumption, KindsFacts, PutLine, TakeLine, NoLine, Nowhere
    DEF Typed, KTypeOK, main, conns, wire, daemon, events, Ears, Lost, Incoming, Line
<1>1. CASE SendHello
  BY <1>1 DEF SendHello, Write, Words
<1>2. CASE SendBridge
  BY <1>2 DEF SendBridge, Write, Words
<1>3. CASE SendProbe
  BY <1>3 DEF SendProbe, Write, Words
<1>4. CASE SendSubscribe
  BY <1>4 DEF SendSubscribe, Write, Words
<1>5. CASE OnHello
  <2>1. link \in Conn /\ Line \in Lines /\ down' \in Streams(Lines)
    BY <1>5 DEF OnHello, Takes
  <2>2. Line[1] = "hello" => Line[2] \in Copies
    BY <2>1 DEF Lines
  <2>3. copy' \in Copies
    BY <1>5, <2>2 DEF OnHello
  <2> QED
    BY <1>5, <2>1, <2>3 DEF OnHello, Takes
<1>6. CASE Ack
  BY <1>6 DEF Ack, Takes
<1>7. CASE NoAck
  BY <1>7 DEF NoAck
<1>8. CASE OnEvent
  <2>1. link \in Conn /\ Line \in Lines /\ down' \in Streams(Lines)
    BY <1>8 DEF OnEvent, Takes
  <2>2. Line[1] = "sync" => Line[2] \in DOMAIN Kinds /\ Line[3] \in Sets
    BY <2>1 DEF Lines
  <2>3. copy' \in Copies
    BY <1>8, <2>2 DEF OnEvent, Copies
  <2> QED
    BY <1>8, <2>1, <2>3 DEF OnEvent, Takes
<1>9. CASE Hangup
  BY <1>9 DEF Hangup, Closes
<1>10. ASSUME NEW c \in Conn, Connect(c) PROVE Typed'
  BY <1>10 DEF Connect, Turns
<1>11. CASE Offer
  BY <1>11 DEF Offer
<1>12. CASE SendEvent
  BY <1>12 DEF SendEvent, Words
<1>13. CASE DexRestart
  <2>1. link' = NoConn /\ dex' = "away" /\ open' \subseteq open /\ down' \in Streams(Lines)
    <3>1. CASE link = NoConn
      BY <1>13, <3>1 DEF DexRestart
    <3>2. CASE link \in Conn
      <4>1. dex' = "away" /\ link' = NoConn /\ open' = open \ {link}
            /\ down' = [down EXCEPT ![link] = <<>>]
        BY <1>13, <3>2 DEF DexRestart, Closes
      <4>2. down' \in Streams(Lines)
        BY <3>2, <4>1
      <4> QED
        BY <4>1, <4>2
    <3> QED
      BY <3>1, <3>2
  <2> QED
    BY <1>13, <2>1 DEF DexRestart
<1> QED
  BY <1>1, <1>2, <1>3, <1>4, <1>5, <1>6, <1>7, <1>8, <1>9, <1>10, <1>11, <1>12, <1>13
     DEF DexSteps

LEMMA TypedAlways == KSpec => []Typed
<1>1. Typed /\ [KNext]_kvars => Typed'
  <2> SUFFICES ASSUME Typed, [KNext]_kvars PROVE Typed'
    OBVIOUS
  <2>1. CASE UNCHANGED kvars
    BY <2>1 DEF kvars, main, conns, wire, events, Typed, KTypeOK
  <2> QED
    BY <2>1, TypedMain, TypedConn, TypedDex DEF KNext
<1> QED
  BY <1>1, TypedInit, PTL DEF KSpec

(* The type invariant of the subscription.                                   *)
THEOREM LinkTypeCorrect == KSpec => []KTypeOK
  BY TypedAlways, PTL DEF Typed

-----------------------------------------------------------------------------

(* While the dex waits for its first line, its connection is not registered  *)
(* and nothing is on its way, or what is on its way starts with an answer.   *)
Quiet(c) ==
    /\ c \notin clients /\ down[c] = <<>>
    /\ srv[c] \in {"first", "hello", "answer", "none"}
Answered(c) == down[c] # <<>> /\ Head(down[c])[1] # "sync"

First ==
    /\ open = IF link = NoConn THEN {} ELSE {link}
    /\ \A c \in Conn : c \notin open => down[c] = <<>>
    /\ dex \in {"hello", "await"} => Quiet(link) \/ Answered(link)

LEMMA HeadStays ==
  ASSUME NEW s \in Seq(Lines), NEW l \in Lines
  PROVE  IF s = <<>> THEN Append(s, l) # <<>> /\ Head(Append(s, l)) = l
         ELSE Append(s, l) # <<>> /\ Head(Append(s, l)) = Head(s)
  BY AppendProperties, HeadTailProperties

LEMMA FirstInit == KInit => First
  BY DEF KInit, First

(* Only these steps write to the dex.                                        *)
LEMMA FirstStep ==
  ASSUME Typed, First, [KNext]_kvars PROVE First'
<1> DEFINE Keeps == UNCHANGED <<link, dex, open, down, clients, srv>>
<1>0. Keeps => First'
  BY DEF First, Quiet, Answered
<1> HIDE DEF Keeps
<1>k. \A c \in Conn : down[c] \in Seq(Lines)
  BY DEF Typed, KTypeOK, Streams
<1>l. link # NoConn => link \in Conn
  BY DEF Typed, KTypeOK
<1>m. dex \in {"hello", "await"} => link \in Conn
  BY <1>l DEF Typed
<1>1. ASSUME NEW c \in Conn, Tell(c) PROVE First'
  <2>1. c \in clients
    BY <1>1 DEF Tell, Typed, KTypeOK
  <2>2. CASE c \notin open
    <3>1. UNCHANGED <<link, dex, open, down, srv>> /\ clients' = clients \ {c}
      BY <1>1, <2>2 DEF Tell
    <3> QED
      BY <3>1 DEF First, Quiet, Answered
  <2>3. CASE c \in open
    <3> DEFINE l == <<"sync", at, sig[at]>>
    <3>1. UNCHANGED <<link, dex, open, clients, srv>> /\ down' = [down EXCEPT ![c] = Append(@, l)]
      BY <1>1, <2>3 DEF Tell
    <3>2. l \in Lines
      BY <1>1 DEF Tell, Typed, KTypeOK, Lines, Copies
    <3> HIDE DEF l
    <3>3. c = link /\ down \in [Conn -> Seq(Lines)]
      BY <2>3 DEF First, Typed, KTypeOK, Streams
    <3>4. Answered(c) => Answered(c)'
      BY <1>k, <3>1, <3>2, <3>3, HeadStays DEF Answered
    <3>5. \A d \in Conn : d # c => down'[d] = down[d]
      BY <3>1, <3>3
    <3> QED
      BY <2>1, <2>3, <3>1, <3>3, <3>4, <3>5 DEF First, Quiet
  <2> QED
    BY <2>2, <2>3
<1>2. ASSUME NEW c \in Conn, NEW l \in Lines, l[1] # "sync", Answers(c, l),
             UNCHANGED <<link, dex, open, clients>>,
             \A d \in Conn : d # c => srv'[d] = srv[d], c \in open \/ srv'[c] = "none" \/ c # link
      PROVE  First'
  <2>1. CASE c \notin open
    <3>1. down' = down /\ c # link
      BY <1>2, <2>1, LinkAssumption DEF Answers, First
    <3> QED
      BY <1>2, <1>m, <3>1 DEF First, Quiet, Answered
  <2>2. CASE c \in open
    <3>1. c = link /\ down \in [Conn -> Seq(Lines)] /\ down' = [down EXCEPT ![c] = Append(@, l)]
      BY <1>2, <2>2 DEF First, Typed, KTypeOK, Streams, Answers
    <3>2. down[c] # <<>> => Answered(c)' \/ Head(down[c])[1] = "sync"
      BY <1>k, <3>1, <1>2, HeadStays DEF Answered
    <3>3. down[c] = <<>> => Answered(c)'
      BY <1>k, <3>1, <1>2, HeadStays DEF Answered
    <3>4. \A d \in Conn : d # c => down'[d] = down[d]
      BY <3>1
    <3> QED
      BY <1>2, <2>2, <3>1, <3>2, <3>3, <3>4 DEF First, Quiet, Answered
  <2> QED
    BY <2>1, <2>2
<1>3. ASSUME NEW c \in Conn, FirstLine(c) PROVE First'
  <2>1. CASE Head(up[c]) = "hello"
    BY <1>3, <2>1, <1>m DEF FirstLine, Turns, theirs, First, Quiet, Answered, Typed, KTypeOK
  <2>2. CASE Head(up[c]) # "hello"
    <3>1. <<"refused">> \in Lines /\ <<"refused">>[1] # "sync"
      BY DEF Lines
    <3>2. Answers(c, <<"refused">>) /\ UNCHANGED <<link, dex, open, clients>>
          /\ srv' = [srv EXCEPT ![c] = "none"] /\ DOMAIN srv = Conn
      BY <1>3, <2>2 DEF FirstLine, Turns, theirs, Typed, KTypeOK
    <3> QED
      BY <1>2, <3>1, <3>2
  <2> QED
    BY <2>1, <2>2
<1>4. ASSUME NEW c \in Conn, Snapshot(c) PROVE First'
  BY <1>4, <1>m DEF Snapshot, Turns, Order, theirs, wire, First, Quiet, Answered, Typed, KTypeOK
<1>5. ASSUME NEW c \in Conn, AnswerHello(c) PROVE First'
  <2>1. snap[c] \in Copies
    BY <1>5, LenProperties, KindsFacts DEF AnswerHello, Typed, KTypeOK, Copies
  <2>2. <<"hello", snap[c]>> \in Lines /\ <<"hello", snap[c]>>[1] # "sync"
    BY <2>1 DEF Lines
  <2>3. Answers(c, <<"hello", snap[c]>>) /\ UNCHANGED <<link, dex, open, clients>>
        /\ srv' = [srv EXCEPT ![c] = IF c \in open THEN "register" ELSE "none"]
        /\ DOMAIN srv = Conn
    BY <1>5 DEF AnswerHello, Turns, Order, theirs, main, Typed, KTypeOK
  <2> QED
    BY <1>2, <2>2, <2>3
<1>6. ASSUME NEW c \in Conn, Register(c) PROVE First'
  BY <1>6, <1>m DEF Register, Turns, Order, theirs, wire, First, Quiet, Answered, Typed, KTypeOK
<1>7. ASSUME NEW c \in Conn, ReadCommand(c) PROVE First'
  BY <1>7, <1>m DEF ReadCommand, Turns, theirs, First, Quiet, Answered, Typed, KTypeOK
<1>8. ASSUME NEW c \in Conn, Reply(c) PROVE First'
  <2>1. <<"ok">> \in Lines /\ <<"ok">>[1] # "sync"
    BY DEF Lines
  <2>2. Answers(c, <<"ok">>) /\ UNCHANGED <<link, dex, open, clients>>
        /\ srv' = [srv EXCEPT ![c] = IF c \in open THEN "loop" ELSE "ending"]
        /\ DOMAIN srv = Conn
    BY <1>8 DEF Reply, Turns, theirs, Typed, KTypeOK
  <2>3. c \in open \/ c # link
    BY LinkAssumption DEF First
  <2> QED
    BY <1>2, <2>1, <2>2, <2>3
<1>9. ASSUME NEW c \in Conn, EndOfFile(c) PROVE First'
  BY <1>9, <1>m DEF EndOfFile, Turns, theirs, wire, First, Quiet, Answered, Typed, KTypeOK
<1>10. ASSUME NEW c \in Conn, Unregister(c) PROVE First'
  BY <1>10, <1>m DEF Unregister, Turns, theirs, First, Quiet, Answered, Typed, KTypeOK
<1>11. CASE DaemonRestart
  BY <1>11, <1>m DEF DaemonRestart, theirs, First, Quiet, Answered, Typed, KTypeOK
<1>12. ASSUME NEW c \in Conn, Connect(c) PROVE First'
  <2>1. link = NoConn
    BY <1>12 DEF Connect, Typed
  <2> QED
    BY <1>12, <2>1, LinkAssumption
       DEF Connect, Turns, First, Quiet, Answered, Typed, KTypeOK
<1>13. CASE SendHello
  BY <1>13 DEF SendHello, Write, daemon, conns, Ears, First, Quiet, Answered
<1>14. CASE SendBridge \/ SendProbe \/ SendSubscribe
  BY <1>14 DEF SendBridge, SendProbe, SendSubscribe, Write, Ears, First
<1>15. CASE OnHello \/ Ack \/ OnEvent
  <2>1. link \in Conn /\ down' = [down EXCEPT ![link] = Tail(@)] /\ UNCHANGED <<open, link>>
        /\ dex' \notin {"hello", "await"}
    BY <1>15, <1>l DEF OnHello, Ack, OnEvent, Takes, Incoming
  <2> QED
    BY <2>1, LinkAssumption DEF First, Typed, KTypeOK, Streams
<1>16. CASE NoAck
  BY <1>16 DEF NoAck, wire, First
<1>17. CASE Closes
  <2>1. CASE link = NoConn
    BY <1>17, <2>1, LinkAssumption DEF Closes, First, Typed, KTypeOK, Streams
  <2>2. CASE link \in Conn
    BY <1>17, <2>2, LinkAssumption DEF Closes, First, Typed, KTypeOK, Streams
  <2> QED
    BY <2>1, <2>2, <1>l
<1>18. CASE DexRestart
  <2>1. CASE Closes
    BY <2>1, <1>17
  <2>2. CASE UNCHANGED <<dex, link, open, down>>
    <3>1. UNCHANGED <<clients, srv>>
      BY <1>18 DEF DexRestart, daemon, conns
    <3> QED
      BY <1>0, <2>2, <3>1 DEF Keeps
  <2> QED
    BY <1>18, <2>1, <2>2 DEF DexRestart
<1>19. CASE Hangup
  BY <1>19, <1>17 DEF Hangup
<1>20. CASE \/ \E i \in DOMAIN Kinds, v \in Sets : EngineMoves(i, v)
            \/ MainTick \/ Announce \/ NextKind \/ Offer \/ SendEvent \/ UNCHANGED kvars
  <2>1. Keeps
    BY <1>20 DEF Keeps, EngineMoves, MainTick, Announce, NextKind, Offer, SendEvent, kvars,
                 conns, wire, daemon
  <2> QED
    BY <1>0, <2>1
<1> QED
  BY <1>1, <1>3, <1>4, <1>5, <1>6, <1>7, <1>8, <1>9, <1>10, <1>11, <1>12, <1>13, <1>14,
     <1>15, <1>16, <1>18, <1>19, <1>20
     DEF KNext, MainSteps, DexSteps, ConnSteps

(* The first line the dex reads on a connection is an answer, never a        *)
(* broadcast, for any number of connections and any room in the sockets.     *)
THEOREM AnswerComesFirstAlways == KSpec => []AnswerComesFirst
<1>1. Typed /\ First => AnswerComesFirst
  BY DEF Typed, KTypeOK, First, Quiet, Answered, AnswerComesFirst, Incoming, Line
<1>2. First /\ Typed /\ [KNext]_kvars => First'
  BY FirstStep
<1>3. KSpec => []First
  BY <1>2, FirstInit, TypedAlways, PTL DEF KSpec
<1> QED
  BY <1>1, <1>3, TypedAlways, PTL
=============================================================================
