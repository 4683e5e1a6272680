---------------------------- MODULE ControlPlane ----------------------------
(***************************************************************************)
(* The control endpoint of the node daemon: daemons that bind it, clients  *)
(* that send one request per connection, the handlers that authenticate    *)
(* and dispatch it, the rotation of the daemon's token, the profile        *)
(* instances and the shutdown of the daemon.                               *)
(*                                                                         *)
(* `endpoint` is the kind of the endpoint and the daemons a new connection *)
(* can reach.  `disk` is the token of the saved configuration.  daemon[d]  *)
(* is a daemon process: where its main task is, whether its control server *)
(* listens and demands a token, the token it expects (`token`), the one of *)
(* its in-memory configuration (`config`), the shutdown flag, the profile  *)
(* instance it knows (`instance`) and the tasks of instances that run.     *)
(* call[c] is a client and the handler of its request.  The contents of    *)
(* reports and of status replies are left out.                             *)
(***************************************************************************)
EXTENDS Integers, FiniteSets

\* A scenario bounds a behaviour: the requests that clients send, and how many daemons are
\* started and how many requests are sent in it.
CONSTANTS MaxDaemons, Clients, Scenarios, MaxToken, MaxInstances

\* Processes of the daemon, in the order in which they are started.
Daemons == 1 .. MaxDaemons

Commands == UNION {s.menu : s \in Scenarios}

VARIABLES endpoint, disk, daemon, call, hist

controlVars == <<endpoint, disk, daemon, call, hist>>

NoToken == 0

Off == [main |-> "off", server |-> "off", auth |-> FALSE, token |-> NoToken,
        config |-> NoToken, shutdown |-> FALSE, instance |-> 0, tasks |-> {},
        started |-> 0]

Quiet == [client |-> "idle", handler |-> "none", cmd |-> "status", token |-> NoToken,
          to |-> 0, reply |-> "none", got |-> "none"]

TypeOK ==
    /\ endpoint \in [kind : {"tcp", "unix"}, reach : SUBSET Daemons]
    /\ disk \in 0 .. MaxToken
    /\ daemon \in [Daemons -> [main : {"off", "starting", "checked", "waiting", "exiting", "gone"},
                               server : {"off", "listening", "failed", "stopped"},
                               auth : BOOLEAN, token : 0 .. MaxToken,
                               config : 0 .. MaxToken, shutdown : BOOLEAN,
                               instance : 0 .. MaxInstances,
                               tasks : SUBSET (1 .. MaxInstances),
                               started : 0 .. MaxInstances]]
    /\ call \in [Clients -> [client : {"idle", "waiting", "done"},
                             handler : {"none", "queued", "rotated", "stopping", "replying",
                                        "finished", "lost"},
                             cmd : Commands, token : 0 .. MaxToken,
                             to : Daemons \cup {0},
                             reply : {"none", "ok", "failed", "unauthorized"},
                             got : {"none", "ok", "failed", "unauthorized", "empty",
                                    "unavailable"}]]
    /\ hist \in [overlap : BOOLEAN, shared : BOOLEAN, unsaved : BOOLEAN,
                 missed : SUBSET Daemons, behind : SUBSET Daemons,
                 issued : 0 .. MaxToken, unit : 0 .. 1, asked : Nat, bound : Scenarios]

Init ==
    /\ endpoint \in [kind : {"tcp", "unix"}, reach : {{}}]
    /\ daemon = [d \in Daemons |-> Off]
    /\ call = [c \in Clients |-> Quiet]
    /\ hist \in [overlap : {FALSE}, shared : {FALSE}, unsaved : {FALSE}, missed : {{}},
                 behind : {{}}, issued : {1}, unit : {NoToken, 1}, asked : {0}, bound : Scenarios]
    \* The kind of the endpoint and the unit matter to a second daemon only.
    /\ hist.unit # NoToken \/ endpoint.kind = "unix" => hist.bound.daemons > 1
    /\ disk \in IF hist.unit = NoToken THEN {NoToken, 1} ELSE {hist.unit}

Alive(d) == daemon[d].main \notin {"off", "gone"}

-----------------------------------------------------------------------------
(* The daemon process.                                                     *)

\* A process starts: the token is that of its arguments - the definition of an installed
\* service holds the one of the day of the install - or else that of the configuration,
\* which takes the one of the arguments if it has none.
NewManager(d) ==
    /\ daemon[d].main = "off"
    /\ d <= hist.bound.daemons
    /\ \A e \in 1 .. d - 1 : daemon[e].main # "off"
    /\ daemon' = [daemon EXCEPT ![d] = [Off EXCEPT !.main = "starting",
                     !.config = IF disk # NoToken THEN disk ELSE hist.unit,
                     !.token = IF hist.unit # NoToken THEN hist.unit ELSE disk]]
    /\ hist' = [hist EXCEPT !.shared = @ \/ \E e \in Daemons : Alive(e),
                            !.behind = IF hist.unit \in {NoToken, disk} THEN @ ELSE @ \cup {d}]
    /\ UNCHANGED <<endpoint, disk, call>>

\* The spawned control server binds.  A TCP bind fails while another daemon holds the
\* address, and nobody looks at the failed task.  On a unix socket the file of whoever
\* listened before is removed.  Whether tokens are demanded is fixed here.
Bind(d) ==
    /\ Alive(d)
    /\ daemon[d].server = "off"
    /\ IF endpoint.kind = "tcp" /\ endpoint.reach # {}
       THEN /\ daemon' = [daemon EXCEPT ![d].server = "failed"]
            /\ UNCHANGED endpoint
       ELSE /\ daemon' = [daemon EXCEPT ![d].server = "listening",
                                        ![d].auth = daemon[d].token # NoToken]
            /\ endpoint' = [endpoint EXCEPT !.reach = {d}]
    /\ UNCHANGED <<disk, call, hist>>

\* Routes are restored and the start is recorded, then shutdown_notified reads the flag.
CheckShutdown(d) ==
    /\ daemon[d].main = "starting"
    /\ daemon' = [daemon EXCEPT ![d].main = IF daemon[d].shutdown THEN "exiting" ELSE "checked"]
    /\ UNCHANGED <<endpoint, disk, call, hist>>

\* ... and registers with the notifier, in a second step.
AwaitShutdown(d) ==
    /\ daemon[d].main = "checked"
    /\ daemon' = [daemon EXCEPT ![d].main = "waiting"]
    /\ UNCHANGED <<endpoint, disk, call, hist>>

\* The process ends: on its way out, when recording the start failed, or killed.
\* Handlers that have not answered go with it, and so does the listener.
EndProcess(d) ==
    /\ Alive(d)
    /\ daemon' = [daemon EXCEPT ![d] = [Off EXCEPT !.main = "gone"]]
    /\ endpoint' = [endpoint EXCEPT !.reach = @ \ {d}]
    /\ call' = [c \in Clients |->
                  IF call[c].to = d /\ call[c].handler \in {"queued", "rotated", "stopping",
                                                            "replying"}
                  THEN [call[c] EXCEPT !.handler = "lost"] ELSE call[c]]
    /\ UNCHANGED <<disk, hist>>

Exit(d) == daemon[d].main = "exiting" /\ EndProcess(d)

Killed(d) == daemon[d].main # "exiting" /\ EndProcess(d)

\* The control server leaves its loop once it sees the flag.
StopServing(d) ==
    /\ Alive(d)
    /\ daemon[d].server = "listening"
    /\ daemon[d].shutdown
    /\ daemon' = [daemon EXCEPT ![d].server = "stopped"]
    /\ endpoint' = [endpoint EXCEPT !.reach = @ \ {d}]
    /\ UNCHANGED <<disk, call, hist>>

\* A profile instance ends by itself, or its abort takes effect.
InstanceEnds(d) ==
    \E i \in daemon[d].tasks :
        /\ daemon' = [daemon EXCEPT ![d].tasks = @ \ {i}]
        /\ UNCHANGED <<endpoint, disk, call, hist>>

\* `config token`, with --rotate or without a token yet, writes the saved configuration; the
\* daemons that run do not hear of it.
config_token ==
    LET t == hist.issued + 1 IN
    /\ "config" \in hist.bound.menu /\ hist.asked < hist.bound.calls /\ t <= MaxToken
    /\ disk' = t
    /\ hist' = [hist EXCEPT !.issued = t, !.asked = @ + 1,
                            !.behind = @ \cup {d \in Daemons : Alive(d)}]
    /\ UNCHANGED <<endpoint, daemon, call>>

-----------------------------------------------------------------------------
(* The client: control_socket::request.                                    *)

\* Nothing of its last command is left.
Free(c) == call[c].client # "waiting" /\ call[c].handler \in {"none", "finished", "lost"}

\* A client loads the configuration for its token, connects and sends its request.  Clients
\* that are free are alike, so that it is enough to let one of them ask.
Request(c) ==
    /\ Free(c) /\ c = CHOOSE o \in Clients : Free(o)
    /\ hist.asked < hist.bound.calls
    /\ hist' = [hist EXCEPT !.asked = @ + 1]
    /\ \E cmd \in hist.bound.menu \ {"config"} :
        \/ /\ endpoint.reach = {}
           /\ call' = [call EXCEPT ![c] = [Quiet EXCEPT !.client = "done", !.cmd = cmd,
                                                        !.got = "unavailable"]]
        \/ \E d \in endpoint.reach :
              call' = [call EXCEPT ![c] = [Quiet EXCEPT !.client = "waiting", !.cmd = cmd,
                                                        !.token = disk, !.to = d,
                                                        !.handler = "queued"]]
    /\ UNCHANGED <<endpoint, disk, daemon>>

\* The read ends: with the reply, or with nothing when the connection closed before it.
ReadReply(c) ==
    /\ call[c].client = "waiting"
    /\ call[c].handler \in {"finished", "lost"}
    /\ call' = [call EXCEPT ![c] = [Quiet EXCEPT !.client = "done",
                  !.got = IF call[c].handler = "lost" THEN "empty" ELSE call[c].reply]]
    /\ UNCHANGED <<endpoint, disk, daemon, hist>>

\* CONTROL_IO_TIMEOUT: reported as an unavailable daemon, the handler goes on.
ReadTimeout(c) ==
    /\ call[c].client = "waiting"
    /\ call' = [call EXCEPT ![c].client = "done", ![c].got = "unavailable"]
    /\ UNCHANGED <<endpoint, disk, daemon, hist>>

-----------------------------------------------------------------------------
(* The handler: authenticate_request, dispatch_request, the reply.         *)

authenticate_request(d, token) ==
    ~daemon[d].auth \/ daemon[d].token = NoToken \/ token = daemon[d].token

Queued(c, cmd) ==
    /\ call[c].handler = "queued"
    /\ call[c].cmd = cmd
    /\ authenticate_request(call[c].to, call[c].token)

Reply(c, reply) ==
    call' = [call EXCEPT ![c].handler = "replying", ![c].reply = reply]

Unauthorized(c) ==
    /\ call[c].handler = "queued"
    /\ ~authenticate_request(call[c].to, call[c].token)
    /\ Reply(c, "unauthorized")
    /\ UNCHANGED <<endpoint, disk, daemon, hist>>

\* The instance that a daemon knows, once those that have ended are forgotten.
Retained(d) == IF daemon[d].instance \in daemon[d].tasks THEN daemon[d].instance ELSE 0

\* status, links and descriptor forget the instances that have ended; nodes, jobs and the
\* other requests only read.
Status(c) ==
    LET d == call[c].to IN
    /\ Queued(c, "status")
    /\ daemon' \in {daemon, [daemon EXCEPT ![d].instance = Retained(d)]}
    /\ Reply(c, "ok")
    /\ UNCHANGED <<endpoint, disk, hist>>

\* What the peer requests and the route intents do to the configuration: one without a
\* token gets one, and it is saved.  The expected token stays as it is.
apply_daemon_peer_defaults(c) ==
    LET d == call[c].to  new == daemon[d].config = NoToken
        t == IF new THEN hist.issued + 1 ELSE daemon[d].config IN
    /\ Queued(c, "peer")
    /\ t <= MaxToken
    /\ daemon' = [daemon EXCEPT ![d].config = t]
    /\ \/ /\ disk' = t /\ Reply(c, "ok")
          /\ hist' = IF new THEN [hist EXCEPT !.issued = t] ELSE hist
       \/ /\ UNCHANGED disk /\ Reply(c, "failed")
          /\ hist' = IF new THEN [hist EXCEPT !.issued = t, !.unsaved = TRUE] ELSE hist
    /\ UNCHANGED endpoint

\* rotate_token under the lock of the configuration: a new token, saved.
RotateSave(c) ==
    LET d == call[c].to  t == hist.issued + 1 IN
    /\ Queued(c, "rotate")
    /\ hist.issued < MaxToken
    /\ \/ /\ disk' = t
          /\ call' = [call EXCEPT ![c].handler = "rotated", ![c].token = t]
          /\ hist' = [hist EXCEPT !.issued = t, !.behind = @ \ {d},
                        !.overlap = @ \/ \E o \in Clients : call[o].handler = "rotated"]
       \/ /\ Reply(c, "failed")
          /\ hist' = [hist EXCEPT !.issued = t, !.unsaved = TRUE]
          /\ UNCHANGED disk
    /\ daemon' = [daemon EXCEPT ![d].config = t]
    /\ UNCHANGED endpoint

\* A slip: the expected token is left as it was.
RotateSetNothing(c) ==
    /\ call[c].handler = "rotated"
    /\ Reply(c, "ok")
    /\ UNCHANGED <<endpoint, disk, daemon, hist>>

\* ... and, the lock released, the expected token.
RotateSet(c) ==
    /\ call[c].handler = "rotated"
    /\ daemon' = [daemon EXCEPT ![call[c].to].token = call[c].token]
    /\ Reply(c, "ok")
    /\ UNCHANGED <<endpoint, disk, hist>>

\* The main task is woken if it waits.  One that has read the flag and not yet registered
\* misses the notification.
Notify(d) == IF daemon[d].main = "waiting" THEN "exiting" ELSE daemon[d].main

\* shutdown: the flag is set and the waiters are woken ...
ShutdownFlag(c) ==
    LET d == call[c].to IN
    /\ Queued(c, "stop")
    /\ daemon' = [daemon EXCEPT ![d].shutdown = TRUE, ![d].main = Notify(d)]
    /\ call' = [call EXCEPT ![c].handler = "stopping"]
    /\ UNCHANGED <<endpoint, disk, hist>>

\* A slip: the second notification is left out.
ShutdownDrainQuiet(c) ==
    LET d == call[c].to IN
    /\ call[c].handler = "stopping"
    /\ daemon' = [daemon EXCEPT ![d].instance = 0]
    /\ Reply(c, "ok")
    /\ UNCHANGED <<endpoint, disk, hist>>

\* ... the instances and the routes are aborted, and the waiters are woken again.
ShutdownDrain(c) ==
    LET d == call[c].to IN
    /\ call[c].handler = "stopping"
    /\ daemon' = [daemon EXCEPT ![d].instance = 0, ![d].main = Notify(d)]
    /\ hist' = [hist EXCEPT !.missed = IF daemon[d].main = "checked" THEN @ \cup {d} ELSE @]
    /\ Reply(c, "ok")
    /\ UNCHANGED <<endpoint, disk>>

\* connect_profile: instances that have ended are forgotten, one that runs is kept, and a
\* profile that is unknown or cannot be read is an error.
ConnectProfile(c) ==
    LET d == call[c].to  i == daemon[d].started + 1 IN
    /\ Queued(c, "connect")
    /\ \/ Retained(d) # 0 /\ Reply(c, "ok") /\ UNCHANGED daemon
       \/ /\ Retained(d) = 0 /\ Reply(c, "failed")
          /\ daemon' = [daemon EXCEPT ![d].instance = 0]
       \/ /\ Retained(d) = 0 /\ i <= MaxInstances /\ Reply(c, "ok")
          /\ daemon' = [daemon EXCEPT ![d].instance = i, ![d].tasks = @ \cup {i},
                                      ![d].started = i]
    /\ UNCHANGED <<endpoint, disk, hist>>

\* disconnect_profile: the handle is dropped and aborted, an unknown one is an error.
DisconnectProfile(c) ==
    LET d == call[c].to IN
    /\ Queued(c, "disconnect")
    /\ daemon' = [daemon EXCEPT ![d].instance = 0]
    /\ IF daemon[d].instance = 0 THEN Reply(c, "failed") ELSE Reply(c, "ok")
    /\ UNCHANGED <<endpoint, disk, hist>>

\* The reply is written; a client that has given up is not there to read it.
WriteReply(c) ==
    /\ call[c].handler = "replying"
    /\ call' = [call EXCEPT ![c].handler = "finished"]
    /\ UNCHANGED <<endpoint, disk, daemon, hist>>

-----------------------------------------------------------------------------
Main(d) == CheckShutdown(d) \/ AwaitShutdown(d) \/ Exit(d)

Handler(c) ==
    \/ Unauthorized(c) \/ Status(c) \/ apply_daemon_peer_defaults(c)
    \/ RotateSave(c) \/ RotateSet(c) \/ ShutdownFlag(c)
    \/ ShutdownDrain(c) \/ ConnectProfile(c) \/ DisconnectProfile(c) \/ WriteReply(c)

ControlNext ==
    \/ \E d \in Daemons : NewManager(d) \/ Bind(d) \/ Main(d) \/ Killed(d) \/ StopServing(d)
                          \/ InstanceEnds(d)
    \/ \E c \in Clients : Request(c) \/ ReadReply(c) \/ ReadTimeout(c) \/ Handler(c)
    \/ config_token

\* The runtime schedules the main task and the handlers; nothing makes a daemon start, a
\* client ask, or a kill happen.
Spec ==
    /\ Init /\ [][ControlNext]_controlVars
    /\ \A d \in Daemons : WF_controlVars(Main(d))
    /\ \A c \in Clients : WF_controlVars(Handler(c))

-----------------------------------------------------------------------------
(* Properties.                                                             *)

Rotating(d) == \E c \in Clients : call[c].to = d /\ call[c].handler = "rotated"

\* A listening daemon that never shared its endpoint lets a client in that reloads the
\* configuration, whenever no rotation is under way: neither a request that gives the
\* configuration its first token nor a rotation locks its clients out.  Excepted are
\* rotations that overlapped, a token that failed to save, and a daemon that is behind: the
\* command line has replaced the saved token since it was started, or the definition of an
\* installed service starts it with an older one, and it was not asked to rotate since.
SavedTokenWorks ==
    \A d \in Daemons :
        (/\ daemon[d].server = "listening"
         /\ ~hist.shared /\ ~Rotating(d) /\ ~hist.overlap /\ ~hist.unsaved /\ d \notin hist.behind)
        => authenticate_request(d, disk)

\* No step of a handler starts an instance while the known one still runs.
OneInstance ==
    \A d \in Daemons :
         (daemon[d].instance \in daemon[d].tasks /\ Alive(d) /\ daemon'[d].main # "gone")
         => daemon'[d].instance \in {0, daemon[d].instance}

\* A daemon whose shutdown was requested is to end, unless both notifications fell between
\* its reading of the flag and its registration.
ShuttingDown(d) == daemon[d].shutdown /\ d \notin hist.missed
ShutDown(d)     == daemon[d].main = "gone" \/ d \in hist.missed
=============================================================================
