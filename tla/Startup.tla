------------------------------- MODULE Startup -------------------------------
(***************************************************************************)
(* Several instances of sundownd that start, serve and stop: the main      *)
(* thread (daemon/src/main.rs, from the spawn of the socket thread to the  *)
(* end) and the socket thread (sock.rs, serve).  They share the socket     *)
(* file, the abstract socket and the ready marker.  service.sh, its watch- *)
(* dog and the restart command may start one at any time.                  *)
(***************************************************************************)
EXTENDS Integers, FiniteSets

CONSTANTS Daemon,     \* processes that may run
          Nobody,     \* no process: no socket, no marker
          Dead,       \* left behind by a process that is gone
          MaxStarts,  \* bound: launches
          MaxStops    \* bound: signals, stop commands and kills

ASSUME StartupAssumption ==
    Nobody \notin Daemon /\ Dead \notin Daemon /\ Nobody # Dead

VARIABLES proc,    \* the main thread
          serve,   \* the socket thread
          shut,    \* SHUTDOWN
          path,    \* who bound SOCKET_PATH
          abs,     \* who listens on PROBE_ABSTRACT_SOCK
          ready,   \* whose READY_MARKER it is
          starts, stops  \* for the bounds

svars == <<proc, serve, shut, path, abs, ready, starts, stops>>

(* A boot may find the files of an earlier session.                        *)
SInit ==
    /\ proc = [d \in Daemon |-> "off"] /\ serve = [d \in Daemon |-> "off"]
    /\ shut = [d \in Daemon |-> FALSE]
    /\ path \in {Nobody, Dead} /\ ready \in {Nobody, Dead} /\ abs = Nobody
    /\ starts = 0 /\ stops = 0

-----------------------------------------------------------------------------
(* The socket thread                                                       *)

Goes(d, s) == serve' = [serve EXCEPT ![d] = s]

Fails_silently(d) == Goes(d, "ended") /\ UNCHANGED shut
(* An error of serve ends the thread and asks the process to stop.         *)
Fails(d) == Goes(d, "ended") /\ shut' = [shut EXCEPT ![d] = TRUE]

(* abstract_connect: somebody listens, so this instance gives way.         *)
Probe(d) ==
    /\ serve[d] = "probing"
    /\ IF abs # Nobody THEN Fails(d) ELSE Goes(d, "unlinking") /\ UNCHANGED shut
    /\ UNCHANGED <<proc, path, abs, ready, starts, stops>>

(* remove_file(SOCKET_PATH), dead or not.                                  *)
Unlink_skipped(d) ==
    /\ serve[d] = "unlinking" /\ Goes(d, "binding")
    /\ UNCHANGED <<proc, shut, path, abs, ready, starts, stops>>
Unlink(d) ==
    /\ serve[d] = "unlinking" /\ Goes(d, "binding")
    /\ path' = Nobody
    /\ UNCHANGED <<proc, shut, abs, ready, starts, stops>>

(* UnixListener::bind: the path must not exist.                            *)
Bind(d) ==
    /\ serve[d] = "binding"
    /\ IF path # Nobody THEN Fails(d) /\ UNCHANGED path
       ELSE Goes(d, "abstract") /\ path' = d /\ UNCHANGED shut
    /\ UNCHANGED <<proc, abs, ready, starts, stops>>

(* bind_abstract: the loser of the race removes the path, whoever bound it.*)
BindAbstract_steals(d) ==
    /\ serve[d] = "abstract"
    /\ Goes(d, "accepting") /\ abs' = d /\ UNCHANGED <<path, shut>>
    /\ UNCHANGED <<proc, ready, starts, stops>>
BindAbstract(d) ==
    /\ serve[d] = "abstract"
    /\ IF abs # Nobody THEN Fails(d) /\ path' = Nobody /\ UNCHANGED abs
       ELSE Goes(d, "accepting") /\ abs' = d /\ UNCHANGED <<path, shut>>
    /\ UNCHANGED <<proc, ready, starts, stops>>

(* The accept loop sees the flag of main and drops the listeners; nobody   *)
(* removes the path.                                                       *)
EndServe(d) ==
    /\ serve[d] = "accepting" /\ proc[d] \in {"closing", "joining"}
    /\ Goes(d, "ended")
    /\ abs' = Nobody
    /\ path' = IF path = d THEN Dead ELSE path
    /\ UNCHANGED <<proc, shut, ready, starts, stops>>

-----------------------------------------------------------------------------
(* The main thread                                                         *)

(* The wait for SOCKET_PATH ends when the path exists, whoever bound it,   *)
(* or after two seconds, which may be now.                                 *)
WaitEnds(d) ==
    /\ proc[d] = "waiting"
    /\ proc' = [proc EXCEPT ![d] = IF shut[d] THEN "looping" ELSE "writing"]
    /\ UNCHANGED <<serve, shut, path, abs, ready, starts, stops>>

WriteReady(d) ==
    /\ proc[d] = "writing"
    /\ proc' = [proc EXCEPT ![d] = "looping"] /\ ready' = d
    /\ UNCHANGED <<serve, shut, path, abs, starts, stops>>

(* The main loop leaves at the next look at SHUTDOWN.                      *)
LoopEnds(d) ==
    /\ proc[d] = "looping" /\ shut[d]
    /\ proc' = [proc EXCEPT ![d] = "closing"]
    /\ UNCHANGED <<serve, shut, path, abs, ready, starts, stops>>

(* remove_ready_marker                                                     *)
RemoveReady(d) ==
    /\ proc[d] = "closing"
    /\ proc' = [proc EXCEPT ![d] = "joining"] /\ ready' = Nobody
    /\ UNCHANGED <<serve, shut, path, abs, starts, stops>>

(* join of the socket thread, exit.                                        *)
Exit(d) ==
    /\ proc[d] = "joining" /\ serve[d] = "ended"
    /\ proc' = [proc EXCEPT ![d] = "off"] /\ Goes(d, "off")
    /\ UNCHANGED <<shut, path, abs, ready, starts, stops>>

-----------------------------------------------------------------------------
(* The world outside                                                       *)

Launch(d) ==
    /\ proc[d] = "off" /\ starts < MaxStarts /\ starts' = starts + 1
    /\ proc' = [proc EXCEPT ![d] = "waiting"] /\ Goes(d, "probing")
    /\ shut' = [shut EXCEPT ![d] = FALSE]
    /\ UNCHANGED <<path, abs, ready, stops>>

(* SIGTERM, SIGINT, the stop command.                                      *)
Stop(d) ==
    /\ proc[d] # "off" /\ stops < MaxStops /\ stops' = stops + 1
    /\ shut' = [shut EXCEPT ![d] = TRUE]
    /\ UNCHANGED <<proc, serve, path, abs, ready, starts>>

(* SIGKILL or a panic: the kernel closes the sockets, the files stay.      *)
Kill(d) ==
    /\ proc[d] # "off" /\ stops < MaxStops /\ stops' = stops + 1
    /\ proc' = [proc EXCEPT ![d] = "off"] /\ Goes(d, "off")
    /\ abs' = IF abs = d THEN Nobody ELSE abs
    /\ path' = IF path = d THEN Dead ELSE path
    /\ ready' = IF ready = d THEN Dead ELSE ready
    /\ UNCHANGED <<shut, starts>>

Runs(d) == \/ Probe(d) \/ Unlink(d) \/ Bind(d) \/ BindAbstract(d) \/ EndServe(d)
           \/ WaitEnds(d) \/ WriteReady(d) \/ LoopEnds(d) \/ RemoveReady(d) \/ Exit(d)

SNext == \E d \in Daemon : Runs(d) \/ Launch(d) \/ Stop(d) \/ Kill(d)

(* Every thread of a living process runs on.                               *)
Threads(d) == WF_svars(Probe(d) \/ Unlink(d) \/ Bind(d) \/ BindAbstract(d) \/ EndServe(d))
           /\ WF_svars(WaitEnds(d) \/ WriteReady(d) \/ LoopEnds(d) \/ RemoveReady(d) \/ Exit(d))

SSpec == SInit /\ [][SNext]_svars /\ \A d \in Daemon : Threads(d)

-----------------------------------------------------------------------------

(* At most one instance accepts connections, and it is the one whose       *)
(* abstract socket the next instance will find (sock.rs, serve).           *)
OneServes ==
    \A d, e \in Daemon : serve[d] = "accepting" /\ serve[e] = "accepting" => d = e /\ abs = d

(* An instance that starts never takes the abstract socket from the one    *)
(* that serves: it changes hands only when its owner closes or is killed.  *)
NobodyTakesOver ==
    [][\A d \in Daemon : serve[d] = "accepting" /\ abs' # d =>
          proc[d] \in {"closing", "joining"} \/ proc'[d] = "off"]_svars

(* Once an instance has been started and as long as none is told to stop,  *)
(* one comes to accept, whatever files an earlier session left and however *)
(* many start at once: giving way never leaves nobody.                     *)
SomeoneServes ==
    [](stops = 0) => ((\E d \in Daemon : proc[d] # "off") ~>
                      (\E d \in Daemon : serve[d] = "accepting"))

(* An instance that gave way, failed or was told to stop exits.            *)
LoserLeaves == \A d \in Daemon : (shut[d] \/ serve[d] = "ended") ~> proc[d] = "off"
=============================================================================
