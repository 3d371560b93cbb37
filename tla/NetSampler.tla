----------------------------- MODULE NetSampler -----------------------------
(***************************************************************************)
(* The traffic sampler of daemon/src/network.rs and the three places of    *)
(* engine.rs that ask it: a package that leaves the foreground, a package  *)
(* whose grace period ends, and the poll of the frozen ones.               *)
(*                                                                         *)
(* The byte counters of the kernel only grow, so the model keeps           *)
(* differences: net.seen[u] is what the counter of u gained between the    *)
(* sample in self.last and the snapshot in bpf_cache, net.hidden[u] what it*)
(* gained since that snapshot.  Both stop at Threshold.                    *)
(***************************************************************************)
EXTENDS Integers, FiniteSets, FiniteSetsExt

CONSTANTS Uid,        \* one package per uid
          Root,       \* uid 0, read once at startup
          Threshold,  \* DEFAULT_THRESHOLD, in portions of traffic
          Window,     \* DEFAULT_WINDOW, in ticks
          TTL,        \* BPF_CACHE_TTL, in ticks
          Devices,    \* which statistics a device lets root read
          PollEvery   \* ticks between two polls of the frozen packages

ASSUME NetAssumption ==
    /\ Root \notin Uid /\ IsFiniteSet(Uid)
    /\ Devices \subseteq SUBSET {"pinfile", "bpf", "uid_stat", "xt_qtaguid"}
    /\ Threshold \in Nat \ {0}
    /\ {TTL, PollEvery, Window} \subseteq Nat
    /\ 0 < TTL /\ TTL < PollEvery /\ PollEvery < Window

VARIABLES net,        \* the sampler
          works,    \* the statistics this device lets root read
          row,      \* uids the kernel has counted traffic of
          quiet,    \* history: ticks since a uid had traffic, TTL + 1 for long
          stirred,  \* history: traffic since the last sample, or TTL before it
          place,    \* where a package is
          keep_hn, keep_net,  \* packages with keep_high_network, keep_network
          phase     \* tick_count modulo PollEvery

nvars == <<net, works, row, quiet, stirred, place, keep_hn, keep_net, phase>>

Never   == -1
Dumps   == {"pinfile", "bpf"}               \* read whole, through the cache
Rows    == {"uid_stat", "xt_qtaguid"}       \* read per uid
Capped_never(k) == k
Capped(k) == IF k > Threshold THEN Threshold ELSE k

NTypeOK ==
    /\ net \in [source : Dumps \cup Rows \cup {"none"}, cached : SUBSET (Uid \cup {Root}),
              fresh : 0 .. TTL, age : [Uid -> Never .. Window],
              seen : [Uid -> 0 .. Threshold], hidden : [Uid -> 0 .. Threshold]]
    /\ works \in Devices /\ row \subseteq Uid \cup {Root}
    /\ quiet \in [Uid -> 0 .. TTL + 1] /\ stirred \in [Uid -> BOOLEAN]
    /\ place \in [Uid -> {"front", "back", "grace", "frozen"}]
    /\ keep_hn \subseteq Uid /\ keep_net \subseteq Uid
    /\ phase \in 0 .. PollEvery - 1

-----------------------------------------------------------------------------
(* Reading a counter                                                       *)

(* pinfile_snapshot_uid_bytes, bpf_snapshot_uid_bytes: an empty table      *)
(* counts as a failure.                                                    *)
Dumped(s) == s \in works /\ row # {}

(* The cache is used for TTL; after that a failed dump leaves it alone.    *)
Refreshed(s, m) ==
    IF m.fresh < TTL \/ ~Dumped(s) THEN m
    ELSE [m EXCEPT !.cached = row, !.fresh = 0,
                   !.seen = [u \in DOMAIN m.seen |-> Capped(@[u] + m.hidden[u])],
                   !.hidden = [u \in DOMAIN m.hidden |-> 0]]

(* pinfile_uid_bytes, bpf_uid_bytes                                        *)
InDump(s, m, u) == (m.fresh < TTL \/ Dumped(s)) /\ u \in Refreshed(s, m).cached

(* uid_stat_bytes, xt_qtaguid_bytes                                        *)
InRows(s, u) == s \in works /\ u \in row

(* uid_bytes before a source is known: the first that answers is kept for  *)
(* good; when none does, uid_stat is, so that the search is not repeated.  *)
Probed(m, u) ==
    LET p == Refreshed("pinfile", m)
        b == Refreshed("bpf", p)
        Found(s, k) == [net |-> [k EXCEPT !.source = s], ok |-> TRUE]
    IN  CASE InDump("pinfile", m, u)  -> Found("pinfile", p)
          [] InRows("uid_stat", u) /\ ~InDump("pinfile", m, u) -> Found("uid_stat", p)
          [] InRows("xt_qtaguid", u) /\ ~InRows("uid_stat", u)
               /\ ~InDump("pinfile", m, u) -> Found("xt_qtaguid", p)
          [] OTHER -> IF InDump("bpf", p, u) THEN Found("bpf", b)
                      ELSE [net |-> [b EXCEPT !.source = "uid_stat"], ok |-> FALSE]

(* uid_bytes                                                               *)
Read(m, u) ==
    CASE m.source = "none"  -> Probed(m, u)
      [] m.source \in Dumps -> [net |-> Refreshed(m.source, m), ok |-> InDump(m.source, m, u)]
      [] m.source \in Rows  -> [net |-> m, ok |-> InRows(m.source, u)]

(* What a reading finds above the sample.  A source without a cache sees   *)
(* the hidden part too.                                                    *)
Delta(m, u) == Capped(m.seen[u] + (IF m.source \in Rows THEN m.hidden[u] ELSE 0))

(* Sampled, were the clock of the baseline moved and not its bytes.        *)
Sampled_time(m, u) == [m EXCEPT !.age[u] = 0]

(* self.last.insert(uid, (bytes, now))                                     *)
Sampled(m, u) ==
    [m EXCEPT !.age[u] = 0, !.seen[u] = 0,
              !.hidden[u] = IF m.source \in Rows THEN 0 ELSE @]

(* is_active with least = Threshold, is_active_any with least = 1: an      *)
(* unreadable counter answers no and keeps the old sample.                 *)
Asked(m, u, least) ==
    LET r == Read(m, u)
    IN  [net |-> IF r.ok THEN Sampled(r.net, u) ELSE r.net,
         ok |-> r.ok,
         yes |-> r.ok /\ m.age[u] = Window /\ Delta(r.net, u) >= least]

(* keep_hn && net_active, then keep_net && net_active_any: the first       *)
(* answer decides, and the second question finds the sample of the first.  *)
Exempted(m, u) ==
    LET high == Asked(m, u, Threshold)
        k    == IF u \in keep_hn THEN high.net ELSE m
        any  == Asked(k, u, 1)
    IN  IF u \in keep_hn /\ high.yes THEN high
        ELSE IF u \in keep_net THEN [any EXCEPT !.ok = @ \/ (u \in keep_hn /\ high.ok)]
        ELSE [net |-> k, ok |-> u \in keep_hn /\ high.ok, yes |-> FALSE]

-----------------------------------------------------------------------------
(* The engine asks                                                         *)

(* Init is NetSampler::new followed by probe_source on uid 0.              *)
NInit ==
    /\ works \in Devices /\ row \in SUBSET (Uid \cup {Root})
    /\ net = Read([source |-> "none", cached |-> {}, fresh |-> TTL,
                 age |-> [u \in Uid |-> Never], seen |-> [u \in Uid |-> 0],
                 hidden |-> [u \in Uid |-> 0]], Root).net
    /\ quiet = [u \in Uid |-> TTL + 1] /\ stirred = [u \in Uid |-> FALSE]
    /\ place = [u \in Uid |-> "back"]
    /\ keep_hn \in SUBSET Uid /\ keep_net \in SUBSET Uid
    /\ phase = 0

(* The kernel counts traffic of u, be it frozen or not.                    *)
Traffic(u) ==
    /\ \E k \in {1, Threshold} : net' = [net EXCEPT !.hidden[u] = Capped(@ + k)]
    /\ row' = row \cup {u}
    /\ quiet' = [quiet EXCEPT ![u] = 0] /\ stirred' = [stirred EXCEPT ![u] = TRUE]
    /\ UNCHANGED <<works, place, keep_hn, keep_net, phase>>

(* A uid whose counter was read starts a new history.                      *)
Recorded(read) ==
    stirred' = [u \in Uid |-> IF u \in read THEN quiet'[u] <= TTL ELSE stirred[u]]

Enter(u) ==
    /\ place[u] # "front" /\ \A v \in Uid : place[v] # "front"
    /\ place' = [place EXCEPT ![u] = "front"]
    /\ UNCHANGED <<net, works, row, quiet, stirred, keep_hn, keep_net, phase>>

(* decide_leave: the traffic exemptions, then grace.                       *)
Leave(u) ==
    LET e == Exempted(net, u)
    IN  /\ place[u] = "front"
        /\ place' = [place EXCEPT ![u] = IF e.yes THEN "back" ELSE "grace"]
        /\ UNCHANGED <<works, row, quiet, keep_hn, keep_net, phase>>
        /\ net' = e.net /\ Recorded({v \in {u} : e.ok})

(* tick, the end of a grace period: the same two questions again.          *)
Expire(u) ==
    LET e == Exempted(net, u)
    IN  /\ place[u] = "grace"
        /\ place' = [place EXCEPT ![u] = IF e.yes THEN "back" ELSE "frozen"]
        /\ UNCHANGED <<works, row, quiet, keep_hn, keep_net, phase>>
        /\ net' = e.net /\ Recorded({v \in {u} : e.ok})

(* reload_policy: the switch of u in conf/policy.toml.                     *)
Switch(u) ==
    /\ keep_net' = IF u \in keep_net THEN keep_net \ {u} ELSE keep_net \cup {u}
    /\ UNCHANGED <<net, works, row, quiet, stirred, place, keep_hn, phase>>

(* Every PollEvery ticks the frozen packages with keep_network are asked   *)
(* about, one after the other; s is the sweep so far.                      *)
AskNext(u, s) ==
    LET a == Asked(s.net, u, 1)
    IN  [net   |-> a.net,
         read  |-> s.read \cup {v \in {u} : a.ok},
         woken |-> s.woken \cup {v \in {u} : a.yes}]

Poll(m) ==
    LET sweep == FoldSet(AskNext, [net |-> m, read |-> {}, woken |-> {}],
                         {u \in keep_net : place[u] = "frozen"})
    IN  /\ net' = sweep.net /\ Recorded(sweep.read)
        /\ place' = [u \in Uid |-> IF u \in sweep.woken THEN "back" ELSE place[u]]

NetTick ==
    LET Later(k, top) == IF k = Never \/ k = top THEN k ELSE k + 1
        m == [net EXCEPT !.fresh = Later(@, TTL),
                       !.age = [u \in DOMAIN @ |-> Later(@[u], Window)]]
    IN  /\ phase' = (phase + 1) % PollEvery
        /\ quiet' = [u \in Uid |-> Later(quiet[u], TTL + 1)]
        /\ UNCHANGED <<works, row, keep_hn, keep_net>>
        /\ IF phase' = 0 THEN Poll(m) ELSE net' = m /\ UNCHANGED <<place, stirred>>

-----------------------------------------------------------------------------

NNext == NetTick \/ \E u \in Uid :
            Traffic(u) \/ Enter(u) \/ Leave(u) \/ Expire(u) \/ Switch(u)

(* The main loop ticks whatever the applications do.                       *)
NSpec == NInit /\ [][NNext]_nvars /\ WF_nvars(NetTick)

(* network.rs:84-85 and engine.rs:1150 say that a frozen package with      *)
(* keep_network is woken when it has traffic: none that is never silent    *)
(* for long, and whose counter can be read, stays frozen for good.         *)
TrafficWakes ==
    \A u \in Uid :
        ~ <>[](/\ place[u] = "frozen" /\ u \in keep_net /\ quiet[u] <= TTL
               /\ net.source \in works)

(* A package is spared or woken for its traffic only when it had some      *)
(* since its last sample, or within the life of the cache before it: bytes *)
(* an earlier answer already counted never count again.                    *)
NoPhantomTraffic ==
    [][\A u \in Uid : (place[u] # "back" /\ place'[u] = "back") => stirred[u]]_nvars
=============================================================================
