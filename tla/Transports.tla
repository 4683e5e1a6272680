----------------------------- MODULE Transports -----------------------------
(***************************************************************************)
(* A forward route runs one of three transports, by its remote_transport   *)
(* (controller::run, and the link state that the route registry gives its  *)
(* supervisor): the SPX bridges of SpxPool, the SSH sessions of SshPool or *)
(* the QUIC connections of QuicPool.  FrontEnd is one client connection of *)
(* such a route, whatever its transport.                                   *)
(***************************************************************************)
EXTENDS SpxPool, SshPool, QuicPool, FrontEnd, TLC

VARIABLE kind

allVars  == <<kind, vars, sshVars, quicVars, frontVars>>

(* What a transport that the route does not use is; SPX rests in its first *)
(* state.                                                                  *)
Unused == "unused"
NoSpx == Init /\ size = 1 /\ reconnect
NoSsh ==
  /\ sshSize = Unused /\ sessions = Unused /\ channels = Unused
  /\ lock = Unused /\ sshClient = Unused /\ sshOpens = Unused
NoQuic ==
  /\ quicSize = Unused /\ quicPass = Unused /\ current = Unused /\ worker = Unused
  /\ quicActive = Unused /\ flow = Unused /\ flows = Unused
NoFront ==
  /\ backend = Unused /\ request = Unused /\ pc = Unused /\ told = Unused /\ resp = Unused
  /\ at = Unused /\ state = Unused /\ out = Unused /\ end = Unused /\ udp = Unused

RouteInit ==
  \/ kind = "spx" /\ Init /\ NoSsh /\ NoQuic /\ NoFront
  \/ kind = "ssh" /\ SshInit /\ NoSpx /\ NoQuic /\ NoFront
  \/ kind = "quic" /\ QuicInit /\ NoSpx /\ NoSsh /\ NoFront
  \/ kind = "client" /\ FrontInit /\ NoSpx /\ NoSsh /\ NoQuic

RouteNext ==
  \/ kind = "spx" /\ Next /\ UNCHANGED <<kind, sshVars, quicVars, frontVars>>
  \/ kind = "ssh" /\ SshNext /\ UNCHANGED <<kind, vars, quicVars, frontVars>>
  \/ kind = "quic" /\ QuicNext /\ UNCHANGED <<kind, vars, sshVars, frontVars>>
  \/ kind = "client" /\ FrontNext /\ UNCHANGED <<kind, vars, sshVars, quicVars>>

RouteSpec == RouteInit /\ [][RouteNext]_allVars

(* The clients of one transport are alike.                                 *)
Sym == Permutations(Clients) \cup Permutations(SshClients) \cup Permutations(QuicClients)

-----------------------------------------------------------------------------
(* What a route reports of its connections is true, whatever its workers   *)
(* are in the middle of.  SpxPool: a bridge that is offered is watched, a  *)
(* living one is offered in the first pass, and a healthy link has a       *)
(* bridge for the next client.  QuicPool: a control stream without pongs   *)
(* is given up by the fifth tick, a degraded worker has a cause, and the   *)
(* slot shows the pass that serves.                                        *)
StatusIsTrue ==
  /\ OfferIsWatched /\ LiveIsOffered /\ HealthyServes
  /\ kind = "quic" => SilenceIsNoticed /\ DegradedHasCause /\ SlotShowsServing

(* The loads by which connections are chosen are those of the clients,     *)
(* whatever fails or is dropped between two counts: exact in SshPool and   *)
(* QuicPool, within the failed replies in SpxPool.  Concurrent opens never *)
(* take the pool of SSH sessions past its size.                            *)
LoadsAreTrue ==
  /\ TypeOK /\ CountIsBounded
  /\ kind = "ssh" => SshTypeOK /\ ChannelsExact /\ PoolCapped
  /\ kind = "quic" => QuicTypeOK /\ FlowsExact

(* SshPool leaves a recently failed session alone while an idle one        *)
(* without failures is there; QuicPool gives a flow to a degraded worker   *)
(* only when all are degraded.                                             *)
PrefersHealthy ==
  [][/\ kind = "ssh" => AvoidsRecentFailure
     /\ kind = "quic" => QuicPrefersHealthy]_allVars

(* FrontEnd: a client is answered once, and who was refused gets no        *)
(* tunnel.  However its bytes were cut into chunks, a response with a      *)
(* length is handed on with exactly that much body, or with all there was, *)
(* and one without a length in full unless the idle timeout or the client  *)
(* cut it.                                                                 *)
ClientIsServed ==
  kind = "client" => /\ FrontTypeOK /\ AnsweredOnce
                     /\ LengthIsExact /\ OpenBodyIsComplete
=============================================================================
