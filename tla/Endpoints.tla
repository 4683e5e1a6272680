----------------------------- MODULE Endpoints ------------------------------
(***************************************************************************)
(* Who asks another process and waits for it.  One behaviour is one of     *)
(* these components at work, chosen by kind: the dial of a peer            *)
(* (PeerDial), the control connections and the life of the daemon behind   *)
(* them (ControlPlane), and the editor's window (VsCodeExtension), which   *)
(* sees the daemon through the answers of the command line.                *)
(***************************************************************************)
EXTENDS Naturals

CONSTANTS MaxDaemons, Clients, Scenarios, MaxToken, MaxInstances, Hosts, Starts, Stops, Windows,
          Threshold, MaxOps

VARIABLES
  kind,
  dialIntent, dialNode, dialDial, dialTask,
  controlEndpoint, controlDisk, controlDaemon, controlCall, controlHist,
  extWin, extExt, extStart, extStop, extProbe, extDaemon, extHist

Dial == INSTANCE PeerDial WITH intent <- dialIntent, node <- dialNode, dial <- dialDial,
          task <- dialTask

Control == INSTANCE ControlPlane WITH endpoint <- controlEndpoint, disk <- controlDisk,
          daemon <- controlDaemon, call <- controlCall, hist <- controlHist

Ext == INSTANCE VsCodeExtension WITH win <- extWin, ext <- extExt, start <- extStart,
          stop <- extStop, probe <- extProbe, daemon <- extDaemon, hist <- extHist

dialVars == <<dialIntent, dialNode, dialDial, dialTask>>
controlVars == <<controlEndpoint, controlDisk, controlDaemon, controlCall, controlHist>>
extVars == <<extWin, extExt, extStart, extStop, extProbe, extDaemon, extHist>>
others == <<dialVars, controlVars, extVars>>
allVars == <<kind, others>>

(* What a component that is not at work is. *)
Unused == "unused"
UnusedBut(k) ==
  /\ k # "dial" => dialIntent = Unused /\ dialNode = Unused /\ dialDial = Unused /\
                   dialTask = Unused
  /\ k # "control" => controlEndpoint = Unused /\ controlDisk = Unused /\ controlDaemon = Unused /\
                      controlCall = Unused /\ controlHist = Unused
  /\ k # "ext" => extWin = Unused /\ extExt = Unused /\ extStart = Unused /\ extStop = Unused /\
                  extProbe = Unused /\ extDaemon = Unused /\ extHist = Unused

EndpointsInit ==
  \/ kind = "dial" /\ Dial!Init /\ UnusedBut(kind)
  \/ kind = "control" /\ Control!Init /\ UnusedBut(kind)
  \/ kind = "ext" /\ Ext!Init /\ UnusedBut(kind)

EndpointsNext ==
  \/ kind = "dial" /\ Dial!Next /\ UNCHANGED <<kind, controlVars, extVars>>
  \/ kind = "control" /\ Control!ControlNext /\ UNCHANGED <<kind, dialVars, extVars>>
  \/ kind = "ext" /\ Ext!ExtNext /\ UNCHANGED <<kind, dialVars, controlVars>>

(* The fairness of each component, while it is at work. *)
EndpointsFairness ==
  /\ WF_dialVars(kind = "dial" /\ Dial!Client)
  /\ \A p \in Dial!Protocols \ {"ssh-exec"} : WF_dialVars(kind = "dial" /\ Dial!Server(p))
  /\ \A d \in Control!Daemons : WF_controlVars(kind = "control" /\ Control!Main(d))
  /\ \A c \in Clients : WF_controlVars(kind = "control" /\ Control!Handler(c))
  /\ \A t \in Starts : WF_extVars(kind = "ext" /\ Ext!StartStep(t))

EndpointsSpec == EndpointsInit /\ [][EndpointsNext]_allVars /\ EndpointsFairness

-----------------------------------------------------------------------------
(* PeerDial: a transport that the client holds for open is served by a     *)
(* task of the node that accepted the same protocol and token, and the     *)
(* automatic mode fails without a timeout only when the node would have    *)
(* served none of the candidates.                                          *)
DialFindsItsServer ==
  kind = "dial" => Dial!TypeOK /\ Dial!OpenedIsServed /\ Dial!AutoFindsAWay


(* ControlPlane: no handler starts an instance while the known one runs,   *)
(* and a daemon that never shared its endpoint lets in who has the saved   *)
(* token, unless rotations overlapped, a token failed to save, or the      *)
(* command line or the service definition has set another one.             *)
OneDaemonOneToken ==
  [][kind = "control" =>
       Control!TypeOK' /\ Control!SavedTokenWorks' /\ Control!OneInstance]_allVars

(* ControlPlane: a daemon that was told to shut down ends, unless both     *)
(* notifications fell between its reading of the flag and its              *)
(* registration.                                                           *)
ShutdownStops ==
  \A d \in Control!Daemons :
    kind = "control" /\ Control!ShuttingDown(d) ~> (kind = "control" => Control!ShutDown(d))

(* VsCodeExtension: in a window whose authority names the host, no second  *)
(* start gets past the flag of the first; and a Stop takes down the        *)
(* session last brought up, unless a command failed or was refused, or a   *)
(* start ran while something was being stopped.                            *)
StopTakesDown == kind = "ext" => Ext!TypeOK /\ Ext!OneStart /\ Ext!StopTakesDown

(* VsCodeExtension: a start stays under way for good only while it waits   *)
(* for the user.                                                           *)
OnlyTheUserHoldsIt ==
  \A t \in Starts : kind = "ext" /\ Ext!UnderWay(t) ~> (kind = "ext" => Ext!Resting(t))

-----------------------------------------------------------------------------
(* The instance for TLC.                                                   *)

(* ControlPlane: what the clients of a behaviour ask for, how many daemons *)
(* are started and how many calls are made.                                *)
Scenario(menu, daemons, calls) == [menu |-> menu, daemons |-> daemons, calls |-> calls]
ControlScenarios ==
  { Scenario({"status", "rotate"}, 1, 3), Scenario({"rotate", "peer", "config"}, 1, 3),
    Scenario({"rotate", "stop"}, 2, 1),
    Scenario({"stop"}, 1, 2), Scenario({"connect", "disconnect"}, 1, 3) }

(* VsCodeExtension: windows that know their host and that ask for it, that *)
(* restart by themselves and that do not, with each way to find the CLI.   *)
Window ==
  [enabled |-> TRUE, autoStart |-> TRUE, kind |-> "ssh", known |-> TRUE, host |-> "h1",
   restarts |-> FALSE, executable |-> "default", bundled |-> TRUE, works |-> {"path"},
   mode |-> "auto", proxies |-> {"env"}]
ExtWindows ==
  { Window,
    [Window EXCEPT !.restarts = TRUE],
    [Window EXCEPT !.restarts = TRUE, !.known = FALSE],
    [Window EXCEPT !.known = FALSE, !.host = "none", !.mode = "manual"],
    [Window EXCEPT !.executable = "configured"],
    [Window EXCEPT !.kind = "wsl", !.executable = "other"] }
=============================================================================
