--------------------------------- MODULE Link ---------------------------------
(***************************************************************************)
(* The subscription of the dex in system_server to the daemon: the main    *)
(* loop that announces the frozen and the candidate set (main.rs,          *)
(* state.rs), the thread of each connection (sock.rs), and the event       *)
(* thread and the sender thread of the dex (Runtime.java, DaemonLink.java, *)
(* EventQueue.java).  A set of uids is a value of Sets; a stream is the    *)
(* sequence of its unread lines.                                           *)
(***************************************************************************)
EXTENDS Integers, Sequences

CONSTANTS Conn,    \* connections at a time
          NoConn,
          Kinds,   \* the sets, in the order the main loop announces them
          Sets,    \* values of a set
          Empty,   \* the empty one
          Room     \* lines a socket buffer holds

ASSUME LinkAssumption ==
    /\ NoConn \notin Conn /\ Kinds \in Seq(STRING) /\ Kinds # <<>> /\ Empty \in Sets
    /\ Room \in Nat \ {0}

VARIABLES set,      \* the sets of the engine, one per kind
          last,     \* last_frozen_sig, last_candidate_sig
          sig,      \* what this pass of the main loop saw
          at,       \* the kind it looks at, 0 before the tick
          todo,     \* connections the broadcast in progress has not reached
          clients,  \* dex_clients
          srv,      \* the thread of each connection
          snap,     \* the answer to hello it has put together so far
          up, down, \* the streams to the daemon and to the dex
          open,     \* connections the dex has not closed
          link,     \* Runtime.link
          dex,      \* the event thread of the dex
          copy,     \* DefenseHooks' copies of the sets
          hooked,   \* hooksInstalled
          pending   \* the sender thread holds a line

main == <<set, last, sig, at, todo>>
conns == <<clients, srv, snap>>
wire == <<up, down, open>>
events == <<hooked, pending>>
kvars == <<main, conns, wire, link, dex, copy, events>>

Nothing == [i \in DOMAIN Kinds |-> Empty]

Copies  == [DOMAIN Kinds -> Sets]
Lines   == {<<"ok">>, <<"refused">>} \cup ({"hello"} \X Copies)
           \cup ({"sync"} \X (DOMAIN Kinds) \X Sets)    \* what the daemon writes
Words   == {"hello", "command"}                      \* what the dex writes
Streams(S) == {s \in [Conn -> Seq(S)] : \A c \in Conn : Len(s[c]) <= Room}

KTypeOK ==
    /\ {set, last, sig, copy} \subseteq Copies
    /\ at \in 0 .. Len(Kinds) /\ todo \subseteq clients /\ clients \subseteq Conn
    /\ srv \in [Conn -> {"none", "first", "hello", "answer", "register", "loop",
                         "reply", "ending"}]
    /\ snap \in [Conn -> Seq(Sets)]
    /\ up \in Streams(Words) /\ down \in Streams(Lines)
    /\ open \subseteq Conn /\ link \in Conn \cup {NoConn}
    /\ dex \in {"away", "hello", "await", "bridge", "probe", "probe_ack", "subscribe",
                "subscribe_ack", "reading"}
    /\ hooked \in BOOLEAN /\ pending \in BOOLEAN

KInit ==
    /\ set = Nothing /\ last = Nothing /\ sig = Nothing /\ at = 0 /\ todo = {}
    /\ clients = {} /\ srv = [c \in Conn |-> "none"] /\ snap = [c \in Conn |-> <<>>]
    /\ up = [c \in Conn |-> <<>>] /\ down = [c \in Conn |-> <<>>] /\ open = {}
    /\ link = NoConn /\ dex = "away" /\ copy = Nothing
    /\ hooked = FALSE /\ pending = FALSE

-----------------------------------------------------------------------------
(* The main loop                                                           *)

(* Whatever the engine does, in the tick or in an event.                   *)
EngineMoves(i, v) ==
    /\ set' = [set EXCEPT ![i] = v]
    /\ UNCHANGED <<last, sig, at, todo, conns, wire, link, dex, copy, events>>

(* One look at the engine takes both sets.                                 *)
MainTick ==
    /\ at = 0 /\ at' = 1 /\ sig' = set
    /\ UNCHANGED <<set, last, todo, conns, wire, link, dex, copy, events>>

Announced == at > 0 /\ todo = {}

(* A new signature is on record before anybody is told.                    *)
Announce ==
    /\ Announced /\ sig[at] # last[at]
    /\ last' = [last EXCEPT ![at] = sig[at]] /\ todo' = clients
    /\ UNCHANGED <<set, sig, at, conns, wire, link, dex, copy, events>>

NextKind ==
    /\ Announced /\ sig[at] = last[at] /\ at' = (at + 1) % (Len(Kinds) + 1)
    /\ sig' = IF at' = 0 THEN Nothing ELSE sig
    /\ UNCHANGED <<set, last, todo, conns, wire, link, dex, copy, events>>

(* broadcast_line, under dex_clients: a client that is gone is dropped, a  *)
(* client that does not read holds everybody up.                           *)
Tell_first(c) ==
    /\ c \in todo /\ todo' = {} /\ UNCHANGED <<set, last, sig, at, srv, snap, up, open>>
    /\ IF c \notin open THEN clients' = clients \ {c} /\ UNCHANGED down
       ELSE /\ Len(down[c]) < Room /\ UNCHANGED clients
            /\ down' = [down EXCEPT ![c] = Append(@, <<"sync", at, sig[at]>>)]
    /\ UNCHANGED <<link, dex, copy, events>>
Tell_overfull(c) ==
    /\ c \in todo /\ todo' = todo \ {c} /\ UNCHANGED <<set, last, sig, at, srv, snap, up, open>>
    /\ IF c \notin open THEN clients' = clients \ {c} /\ UNCHANGED down
       ELSE down' = [down EXCEPT ![c] = Append(@, <<"sync", at, sig[at]>>)] /\ UNCHANGED clients
    /\ UNCHANGED <<link, dex, copy, events>>
Tell(c) ==
    /\ c \in todo /\ todo' = todo \ {c} /\ UNCHANGED <<set, last, sig, at, srv, snap, up, open>>
    /\ IF c \notin open THEN clients' = clients \ {c} /\ UNCHANGED down
       ELSE /\ Len(down[c]) < Room /\ UNCHANGED clients
            /\ down' = [down EXCEPT ![c] = Append(@, <<"sync", at, sig[at]>>)]
    /\ UNCHANGED <<link, dex, copy, events>>

-----------------------------------------------------------------------------
(* The thread of a connection                                              *)

theirs == <<link, dex, copy, events>>    \* the side of the dex

Turns(c, s) == srv' = [srv EXCEPT ![c] = s]
Answers(c, l) ==
    /\ c \in open => Len(down[c]) < Room
    /\ down' = IF c \in open THEN [down EXCEPT ![c] = Append(@, l)] ELSE down

(* handle_conn: what is not a hello ends the connection with a refusal.    *)
FirstLine(c) ==
    /\ srv[c] = "first" /\ up[c] # <<>>
    /\ IF Head(up[c]) = "hello"
       THEN Turns(c, "hello") /\ up' = [up EXCEPT ![c] = Tail(@)] /\ UNCHANGED down
       ELSE Turns(c, "none") /\ up' = [up EXCEPT ![c] = <<>>] /\ Answers(c, <<"refused">>)
    /\ UNCHANGED <<main, clients, snap, open, theirs>>

(* The answer is written before the connection is registered, so that no   *)
(* broadcast can come first.                                               *)
Order_register == [hello |-> "register", register |-> "answer", answer |-> "loop"]
Order == [hello |-> "answer", answer |-> "register", register |-> "loop"]

(* dex_hello_response takes the engine once per set.                       *)
Snapshot(c) ==
    /\ srv[c] = "hello"
    /\ snap' = [snap EXCEPT ![c] = Append(@, set[Len(@) + 1])]
    /\ IF Len(snap'[c]) = Len(Kinds) THEN Turns(c, Order["hello"]) ELSE UNCHANGED srv
    /\ UNCHANGED <<main, clients, wire, theirs>>

AnswerHello(c) ==
    /\ srv[c] = "answer" /\ Answers(c, <<"hello", snap[c]>>)
    /\ Turns(c, IF c \in open THEN Order["answer"] ELSE "none")
    /\ up' = IF c \in open THEN up ELSE [up EXCEPT ![c] = <<>>]
    /\ snap' = [snap EXCEPT ![c] = <<>>]
    /\ UNCHANGED <<main, clients, open, theirs>>

(* register_dex_client waits for dex_clients.                              *)
Register(c) ==
    /\ srv[c] = "register" /\ todo = {}
    /\ Turns(c, Order["register"]) /\ clients' = clients \cup {c}
    /\ UNCHANGED <<main, snap, wire, theirs>>

(* dex_subscription_loop: one line in, one line out.                       *)
ReadCommand(c) ==
    /\ srv[c] = "loop" /\ up[c] # <<>>
    /\ up' = [up EXCEPT ![c] = Tail(@)] /\ Turns(c, "reply")
    /\ UNCHANGED <<main, clients, snap, down, open, theirs>>

Reply_returns(c) ==
    /\ srv[c] = "reply" /\ Answers(c, <<"ok">>)
    /\ Turns(c, IF c \in open THEN "loop" ELSE "none")
    /\ UNCHANGED <<main, clients, snap, up, open, theirs>>
Reply(c) ==
    /\ srv[c] = "reply" /\ Answers(c, <<"ok">>)
    /\ Turns(c, IF c \in open THEN "loop" ELSE "ending")
    /\ UNCHANGED <<main, clients, snap, up, open, theirs>>

(* End of file: before the hello there is nothing to undo.                 *)
EndOfFile(c) ==
    /\ srv[c] \in {"first", "loop"} /\ up[c] = <<>> /\ c \notin open
    /\ Turns(c, IF srv[c] = "first" THEN "none" ELSE "ending")
    /\ UNCHANGED <<main, clients, snap, wire, theirs>>

Unregister(c) ==
    /\ srv[c] = "ending" /\ todo = {}
    /\ Turns(c, "none") /\ clients' = clients \ {c} /\ up' = [up EXCEPT ![c] = <<>>]
    /\ UNCHANGED <<main, snap, down, open, theirs>>

(* The daemon dies and is started again; the lines it has not read are     *)
(* gone, the frozen set has been saved.                                    *)
DaemonRestart ==
    /\ last' = Nothing /\ at' = 0 /\ todo' = {} /\ sig' = Nothing /\ clients' = {}
    /\ srv' = [c \in Conn |-> "none"] /\ snap' = [c \in Conn |-> <<>>]
    /\ up' = [c \in Conn |-> <<>>]
    /\ UNCHANGED <<set, down, open, theirs>>

-----------------------------------------------------------------------------
(* The event thread of the dex                                             *)

daemon == <<main, conns>>
Lost == srv[link] = "none"             \* the daemon has closed this end
Ears == <<open, link, copy, events>>   \* what writing a line leaves alone

Connect(c) ==
    /\ dex = "away" /\ c \notin open /\ srv[c] = "none" /\ c \notin clients
    /\ dex' = "hello" /\ link' = c /\ open' = open \cup {c}
    /\ Turns(c, "first")
    /\ UNCHANGED <<main, clients, snap, up, down, copy, events>>

Write(l) ==
    /\ Lost \/ Len(up[link]) < Room
    /\ up' = IF Lost THEN up ELSE [up EXCEPT ![link] = Append(@, l)]
    /\ UNCHANGED <<daemon, down, Ears>>

SendHello  == dex = "hello" /\ ~Lost /\ Write("hello") /\ dex' = "await"
SendBridge == dex = "bridge" /\ ~Lost /\ Write("command") /\ dex' = "probe"

(* A failed write of one of these two is caught, and so is a missing ack.  *)
SendProbe ==
    /\ dex = "probe" /\ Write("command")
    /\ dex' = IF Lost THEN "subscribe" ELSE "probe_ack"
SendSubscribe ==
    /\ dex = "subscribe" /\ Write("command")
    /\ dex' = IF Lost THEN "reading" ELSE "subscribe_ack"

Incoming == link # NoConn /\ down[link] # <<>>
Line == Head(down[link])
Takes == down' = [down EXCEPT ![link] = Tail(@)] /\ UNCHANGED <<daemon, up, open, link>>

(* helloDex, onHello: a refusal brings no sets but is taken for an answer; *)
(* a line that is no JSON is an error and is left to Hangup.               *)
OnHello ==
    /\ dex = "await" /\ Incoming /\ Line[1] # "sync" /\ Takes
    /\ copy' = IF Line[1] = "hello" THEN Line[2] ELSE copy
    /\ hooked' = TRUE /\ dex' = "bridge"
    /\ UNCHANGED pending

(* readLine after capability-probe and subscribe: any line is the ack.     *)
Ack ==
    /\ dex \in {"probe_ack", "subscribe_ack"} /\ Incoming /\ Takes
    /\ dex' = IF dex = "probe_ack" THEN "subscribe" ELSE "reading"
    /\ UNCHANGED <<copy, events>>
NoAck ==
    /\ dex \in {"probe_ack", "subscribe_ack"} /\ Lost /\ ~Incoming
    /\ dex' = IF dex = "probe_ack" THEN "subscribe" ELSE "reading"
    /\ UNCHANGED <<daemon, wire, link, copy, events>>

OnEvent ==
    /\ dex = "reading" /\ Incoming /\ Takes
    /\ copy' = IF Line[1] = "sync" THEN [copy EXCEPT ![Line[2]] = Line[3]] ELSE copy
    /\ UNCHANGED <<dex, events>>

Closes ==
    /\ dex' = "away" /\ link' = NoConn /\ open' = open \ {link}
    /\ down' = [down EXCEPT ![link] = <<>>]

(* End of file or an error: back to the start of eventLoop.                *)
Hangup ==
    /\ link # NoConn
    /\ \/ Lost /\ (dex \in {"hello", "bridge"} \/ (dex \in {"await", "reading"} /\ ~Incoming))
       \/ dex = "await" /\ Incoming /\ Line[1] = "sync"
    /\ Closes
    /\ UNCHANGED <<daemon, up, copy, events>>

(* system_server dies and comes back.                                      *)
DexRestart ==
    /\ IF link = NoConn THEN UNCHANGED <<dex, link, open, down>> ELSE Closes
    /\ copy' = Nothing /\ hooked' = FALSE /\ pending' = FALSE
    /\ UNCHANGED <<daemon, up>>

-----------------------------------------------------------------------------
(* Hooks and the sender thread                                             *)

(* A hook offers a line and the sender thread polls it; what EventQueue    *)
(* holds behind it, or drops when it is full, is left out.                 *)
Offer ==
    /\ hooked /\ ~pending /\ pending' = TRUE
    /\ UNCHANGED <<daemon, wire, link, dex, copy, hooked>>

(* The line is kept while there is no link and after a failed write.       *)
SendEvent ==
    /\ pending /\ link # NoConn /\ ~Lost /\ Len(up[link]) < Room
    /\ up' = [up EXCEPT ![link] = Append(@, "command")] /\ pending' = FALSE
    /\ UNCHANGED <<daemon, down, open, link, dex, copy, hooked>>

-----------------------------------------------------------------------------

MainSteps == MainTick \/ Announce \/ NextKind \/ \E c \in Conn : Tell(c)
ConnSteps(c) ==
    \/ FirstLine(c) \/ Snapshot(c) \/ AnswerHello(c)
    \/ Register(c) \/ ReadCommand(c) \/ Reply(c) \/ EndOfFile(c) \/ Unregister(c)
DexSteps ==
    \/ SendHello \/ SendBridge \/ SendProbe \/ SendSubscribe
    \/ OnHello \/ Ack \/ NoAck \/ OnEvent \/ Hangup \/ \E c \in Conn : Connect(c)

KNext ==
    \/ \E i \in DOMAIN Kinds, v \in Sets : EngineMoves(i, v)
    \/ MainSteps \/ DexSteps \/ \E c \in Conn : ConnSteps(c)
    \/ Offer \/ SendEvent \/ DaemonRestart \/ DexRestart

(* Every thread that can run does.  A thread of the daemon that waits for  *)
(* dex_clients or for room in a socket gets it at last, if it is free      *)
(* again and again: the kernel wakes the threads that wait.                *)
KFairness ==
    /\ WF_kvars(DexSteps) /\ SF_kvars(MainSteps)
    /\ \A c \in Conn : SF_kvars(ConnSteps(c))

KSpec == KInit /\ [][KNext]_kvars /\ KFairness

-----------------------------------------------------------------------------

(* The hello answer is the first thing the dex reads: no broadcast of the  *)
(* main loop overtakes it, whenever the sets change while the answer is    *)
(* put together (sock.rs, handle_conn; helloDex parses that line as JSON). *)
AnswerComesFirst ==
    dex = "await" /\ Incoming => Line[1] # "sync"

(* A set that the main loop has not announced yet reaches a dex that is in *)
(* its reading loop: its copy takes that value, unless the set changes     *)
(* again or the connection ends (main.rs:345, broadcast_line).             *)
SubscriberFollows ==
    \A i \in DOMAIN Kinds, v \in Sets :
        (set[i] = v /\ last[i] # v /\ dex = "reading" /\ link \in clients)
        ~> (copy[i] = v \/ set[i] # v \/ dex # "reading")

(* A closed connection does not stay in dex_clients, as long as no client  *)
(* holds the main loop up for ever (unregister_dex_client, retain_mut).    *)
ClosedIsForgotten ==
    ([]<>(todo = {})) =>
        \A c \in Conn : (c \in clients /\ c \notin open) ~> (c \notin clients)

(* Runtime.java:244 calls the answer the first value of the copies and     *)
(* frozen-sync their update: a copy does not stay wrong for good while the *)
(* dex reads on.                                                           *)
CopyConverges ==
    \A i \in DOMAIN Kinds : ~ <>[](dex = "reading" /\ copy[i] # set[i])
=============================================================================
