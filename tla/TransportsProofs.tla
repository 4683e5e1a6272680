-------------------------- MODULE TransportsProofs --------------------------
(***************************************************************************)
(* What Transports promises, for every value of the constants.  A          *)
(* behaviour of RouteSpec is that of one transport, or of one client, so   *)
(* the inductive invariants of PoolProofs and TunnelsProofs                *)
(* hold of their kind of behaviour.                                        *)
(***************************************************************************)
EXTENDS Transports, PoolProofs, TunnelsProofs

-----------------------------------------------------------------------------
(* The transports as Transports composes them.                             *)

\* A behaviour stays with its transport.
LEMMA KindStays == [RouteNext]_allVars => kind' = kind
  BY DEF RouteNext, allVars

\* SPX rests in one of its first states while another transport runs, so every behaviour of a
\* route is one of SpxPool.
LEMMA SpxBegins == RouteInit => Init
  BY DEF RouteInit, NoSpx

LEMMA SpxTurn == [RouteNext]_allVars => [Next]_vars
  BY DEF RouteNext, allVars

LEMMA SpxAlways == RouteSpec => Spec /\ []SpxInv
  <1>1. SpxInv /\ [RouteNext]_allVars => SpxInv'
    BY SpxTurn, SpxSteps
  <1>2. RouteInit => SpxInv
    BY SpxBegins, SpxInitially
  <1> QED BY <1>1, <1>2, SpxBegins, SpxTurn, PTL DEF RouteSpec, Spec

\* A step of a route over SSH is a step of SshPool, or changes nothing of it.
LEMMA SshTurn == [RouteNext]_allVars /\ kind = "ssh" => [SshNext]_sshVars
  BY DEF RouteNext, allVars

LEMMA SshAlways == RouteSpec => [](kind = "ssh" => SshInv)
  <1>1. RouteInit => (kind = "ssh" => SshInv)
    BY SshInitially DEF RouteInit
  <1>2. (kind = "ssh" => SshInv) /\ [RouteNext]_allVars => (kind = "ssh" => SshInv)'
    BY KindStays, SshTurn, SshSteps
  <1> QED BY <1>1, <1>2, PTL DEF RouteSpec

\* The same of a route over QUIC,
LEMMA QuicTurn == [RouteNext]_allVars /\ kind = "quic" => [QuicNext]_quicVars
  BY DEF RouteNext, allVars

LEMMA QuicAlways == RouteSpec => [](kind = "quic" => QuicInv)
  <1>1. RouteInit => (kind = "quic" => QuicInv)
    BY QuicInitially DEF RouteInit
  <1>2. (kind = "quic" => QuicInv) /\ [RouteNext]_allVars => (kind = "quic" => QuicInv)'
    BY KindStays, QuicTurn, QuicSteps
  <1> QED BY <1>1, <1>2, PTL DEF RouteSpec

\* and of a client's connection.
LEMMA FrontTurn == [RouteNext]_allVars /\ kind = "client" => [FrontNext]_frontVars
  BY DEF RouteNext, allVars

LEMMA FrontAlways == RouteSpec => [](kind = "client" => FrontInv)
  <1>1. RouteInit => (kind = "client" => FrontInv)
    BY FrontInitially DEF RouteInit
  <1>2. (kind = "client" => FrontInv) /\ [RouteNext]_allVars => (kind = "client" => FrontInv)'
    BY KindStays, FrontTurn, FrontSteps
  <1> QED BY <1>1, <1>2, PTL DEF RouteSpec

-----------------------------------------------------------------------------
\* For every set of clients, pool size and bound: with the workers of one pass, a client of a
\* route that waits although a bridge is available missed it between its look and its
\* registration (SharedState::bridge).
THEOREM RouteHasOneGap == RouteSpec => []OnlyTheGapStrands
  BY SpxAlways, OnlyOneGap, PTL

\* After request_shutdown has stored its flag and told both notifications, no client of a route
\* waits for a bridge, nor will one.
THEOREM RouteShutdownReleases == RouteSpec => []ShutdownFreesClients
  BY SpxAlways, ShutdownReleases, PTL

\* For every size of a pool and every order of connects, publications, ticks and failures: what a
\* route reports of its connections is true.  SPX: an offered bridge is watched, a living one is
\* offered in the first pass, a healthy link has a bridge for the next client.  QUIC: a control
\* stream without pongs is given up by the fifth tick, a degraded worker has a cause, the slot
\* shows the pass that serves (manage_worker, control_loop, run_serve).
THEOREM ReportsAreTrue == RouteSpec => []StatusIsTrue
  <1>1. SpxInv /\ LiveIsOffered /\ (kind = "quic" => QuicInv) => StatusIsTrue
    BY SpxEnough, QuicEnough DEF StatusIsTrue
  <1> QED BY <1>1, SpxAlways, WatchedIsOffered, QuicAlways, PTL

\* For every set of clients and every pool: the load by which a connection is chosen is that of
\* the clients it carries, exactly for SSH sessions and QUIC workers and within the failed
\* replies for SPX bridges, whatever fails between two counts; and concurrent opens never take
\* the SSH pool past its size (acquire_session_channel, QuicFlowLease, tunnel).
THEOREM CountsAreTrue == RouteSpec => []LoadsAreTrue
  <1>1. SpxInv /\ (kind = "ssh" => SshInv) /\ (kind = "quic" => QuicInv) => LoadsAreTrue
    BY SpxEnough, SshEnough, QuicEnough DEF LoadsAreTrue
  <1> QED BY <1>1, SpxAlways, SshAlways, QuicAlways, PTL

\* For every way to cut a response into chunks and every length: a client is answered once, who
\* was refused gets no tunnel, and a response is handed on with exactly its body, or with all
\* there was (handle_client, relay_http_response).
THEOREM ClientsAreServed == RouteSpec => []ClientIsServed
  <1>1. (kind = "client" => FrontInv) => ClientIsServed
    BY FrontEnough DEF ClientIsServed
  <1> QED BY <1>1, FrontAlways, PTL

\* While the flows of a worker cannot cost as much as its being degraded: a flow goes to a
\* degraded worker only when all are.  An SSH session that failed recently is left alone while an
\* idle one without failures is there, whatever the load (quic_worker_score,
\* calculate_session_score).
THEOREM HealthyArePreferred == ASSUME FewFlows PROVE RouteSpec => PrefersHealthy
  <1>1. (kind = "ssh" => SshInv) /\ (kind = "quic" => QuicInv) /\ [RouteNext]_allVars
        => [/\ kind = "ssh" => AvoidsRecentFailure
            /\ kind = "quic" => QuicPrefersHealthy]_allVars
    BY SshTurn, QuicTurn, SshAvoids, QuicPrefers
  <1> QED BY <1>1, SshAlways, QuicAlways, PTL DEF PrefersHealthy, RouteSpec
=============================================================================
