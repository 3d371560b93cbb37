-------------------------------- MODULE Locks --------------------------------
(***************************************************************************)
(* The mutexes of DaemonState (daemon/src/state.rs) and the order in which *)
(* the main loop, the inotify thread and the connection threads take them  *)
(* (main.rs, config.rs, sock.rs).  What is done under a lock is left out:  *)
(* a command is the sequence of its lock and unlock operations.            *)
(***************************************************************************)
EXTENDS Integers, Sequences

CONSTANTS Workers,     \* connection threads and the inotify thread
          MainLoop,    \* the main thread
          Commands,    \* the commands that arrive
          Free, Idle

Lock == {"probe", "expected_probe_hash", "dex", "expected_dex_hash", "hook_bridge",
         "expected_hook_hash", "last_focus_pkg", "capability", "engine",
         "dex_capability", "dex_clients"}

take(l) == <<"+", l>>
drop(l) == <<"-", l>>
brief(l) == <<take(l), drop(l)>>     \* a guard that lives for a statement or a block

(* What each command does to the locks.                                    *)
tick == brief("engine") \o brief("dex_clients") \o brief("dex_clients")
dex_hello_response ==
    brief("expected_dex_hash") \o brief("dex") \o brief("engine") \o brief("engine")
hello_dex == brief("dex") \o brief("expected_dex_hash") \o brief("engine")
             \o dex_hello_response \o brief("dex_clients")
probe_response == brief("expected_probe_hash") \o brief("probe")
hello_probe == brief("probe") \o brief("expected_probe_hash") \o brief("engine") \o probe_response
status_json ==
    brief("probe")
    \o <<take("dex"), take("expected_dex_hash"), drop("expected_dex_hash"), drop("dex")>>
    \o <<take("hook_bridge"), take("expected_hook_hash"),
         drop("expected_hook_hash"), drop("hook_bridge")>>
    \o brief("last_focus_pkg") \o brief("engine")
capability_status ==
    <<take("capability"), take("engine"), take("dex_capability"),
      drop("dex_capability"), drop("engine"), drop("capability")>>
capability_reprobe ==
    <<take("engine"), take("capability"), drop("capability"), drop("engine")>>
handle_capability_probe_held ==
    <<take("dex_capability"), take("engine"), drop("engine"), drop("dex_capability")>>
handle_capability_probe == brief("dex_capability") \o brief("engine")
report_bridge == brief("hook_bridge") \o brief("expected_hook_hash") \o brief("engine")
                 \o brief("expected_hook_hash") \o brief("hook_bridge")
event_focus == brief("last_focus_pkg") \o brief("engine")
event_wakeup == brief("engine") \o brief("engine")
handle_policy == brief("engine")
request_reload == brief("expected_probe_hash") \o brief("expected_dex_hash")
                  \o brief("expected_hook_hash") \o brief("engine")
push_dex == brief("expected_dex_hash") \o brief("dex_clients")
handle_subscribe == brief("dex_clients") \o brief("dex_clients") \o brief("dex_clients")

(* policy, rules, profile, analyze, events and the other events lock the   *)
(* engine once, like handle_policy; fetch-dex, subscribe query and the end *)
(* of a connection one lock, which can close no circle.                    *)
Script ==
    [tick |-> tick, hello_dex |-> hello_dex, hello_probe |-> hello_probe,
     status |-> status_json, capability_status |-> capability_status,
     capability_reprobe |-> capability_reprobe,
     capability_probe |-> handle_capability_probe, report_bridge |-> report_bridge,
     focus |-> event_focus, wakeup |-> event_wakeup, policy |-> handle_policy,
     reload |-> request_reload, push_dex |-> push_dex, subscribe |-> handle_subscribe]

Thread == Workers \cup {MainLoop}

ASSUME LockAssumption ==
    /\ Commands \subseteq DOMAIN Script /\ "tick" \notin Commands
    /\ MainLoop \notin Workers /\ Free \notin Thread /\ Idle \notin DOMAIN Script

VARIABLES owner,  \* who holds each lock
          prog,   \* the command a thread runs
          pc      \* its next operation

lvars == <<owner, prog, pc>>

LInit ==
    /\ owner = [l \in Lock |-> Free]
    /\ prog = [t \in Thread |-> Idle] /\ pc = [t \in Thread |-> 1]

-----------------------------------------------------------------------------

Next_op(t) == Script[prog[t]][pc[t]]
Running(t) == prog[t] # Idle /\ pc[t] <= Len(Script[prog[t]])

Begin(t, c) ==
    /\ prog[t] = Idle
    /\ prog' = [prog EXCEPT ![t] = c]
    /\ UNCHANGED <<owner, pc>>

Acquire(t) ==
    /\ Running(t) /\ Next_op(t)[1] = "+" /\ owner[Next_op(t)[2]] = Free
    /\ owner' = [owner EXCEPT ![Next_op(t)[2]] = t]
    /\ pc' = [pc EXCEPT ![t] = @ + 1]
    /\ UNCHANGED prog

Release(t) ==
    /\ Running(t) /\ Next_op(t)[1] = "-"
    /\ owner' = [owner EXCEPT ![Next_op(t)[2]] = Free]
    /\ pc' = [pc EXCEPT ![t] = @ + 1]
    /\ UNCHANGED prog

Return(t) ==
    /\ prog[t] # Idle /\ ~Running(t)
    /\ prog' = [prog EXCEPT ![t] = Idle] /\ pc' = [pc EXCEPT ![t] = 1]
    /\ UNCHANGED owner

LNext ==
    \/ \E t \in Thread : Acquire(t) \/ Release(t) \/ Return(t)
    \/ \E t \in Workers, c \in Commands : Begin(t, c)
    \/ Begin(MainLoop, "tick")

LSpec == LInit /\ [][LNext]_lvars

-----------------------------------------------------------------------------

Wants(t, l) == Running(t) /\ Next_op(t) = take(l)
Waits(t) == \E l \in Lock : Wants(t, l) /\ owner[l] # Free
WaitsFor(t, u) == \E l \in Lock : Wants(t, l) /\ owner[l] = u

(* Threads that wait for each other, all of them and for nobody else.      *)
Stuck(S) == S # {} /\ \A t \in S : Waits(t) /\ \E u \in S : WaitsFor(t, u)

(* No threads wait for each other in a circle, whatever commands come in   *)
(* together: the guards nest in one order everywhere in sock.rs, state.rs  *)
(* and main.rs.                                                            *)
NoCircularWait == \A S \in SUBSET Thread : ~Stuck(S)

(* The order.                                                              *)
Rank == [probe |-> 1, expected_probe_hash |-> 2, dex |-> 3, expected_dex_hash |-> 4,
         hook_bridge |-> 5, expected_hook_hash |-> 6, last_focus_pkg |-> 7,
         capability |-> 8, engine |-> 9, dex_capability |-> 10, dex_clients |-> 11]

(* The locks held before operation k of a script, and a script that nests  *)
(* in the order: it takes upwards, gives back what it holds and ends       *)
(* empty-handed.                                                           *)
HeldAt(s, k) ==
    {l \in Lock : \E i \in 1 .. k - 1 :
        s[i] = take(l) /\ \A j \in i + 1 .. k - 1 : s[j] # drop(l)}
Nests(s) ==
    /\ \A k \in 1 .. Len(s) : \E l \in Lock :
          \/ s[k] = take(l) /\ \A h \in HeldAt(s, k) : Rank[h] < Rank[l]
          \/ s[k] = drop(l) /\ l \in HeldAt(s, k)
    /\ HeldAt(s, Len(s) + 1) = {}
Ordered == \A c \in Commands \cup {"tick"} : Nests(Script[c])

(* Every command takes its locks in one order, on every path through its   *)
(* handler and the functions it calls with a guard held, gives back only   *)
(* what it holds, and holds nothing when it has been answered (sock.rs,    *)
(* handle_conn and handle_capability_probe; state.rs, status_json).  So    *)
(* chains of waiting threads only go up and end with one that can run.     *)
HoldsInOrder ==
    \A t \in Thread :
        /\ \A k, l \in Lock : owner[k] = t /\ Wants(t, l) => Rank[k] < Rank[l]
        /\ \A l \in Lock : Running(t) /\ Next_op(t) = drop(l) => owner[l] = t
        /\ prog[t] = Idle => \A k \in Lock : owner[k] # t

(* events.rs:11 says that the engine lock is momentary and never blocks    *)
(* its callers: no thread in such a circle holds it.                       *)
EngineIsReleased ==
    \A S \in SUBSET Thread : Stuck(S) => owner["engine"] \notin S
=============================================================================
