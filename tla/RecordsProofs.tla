--------------------------- MODULE RecordsProofs ----------------------------
(***************************************************************************)
(* What Records promises, for every value of the constants.  A behaviour   *)
(* of RecordsSpec is one component at work, so the inductive invariants of *)
(* RecordPartsProofs hold of their kind of behaviour.                      *)
(***************************************************************************)
EXTENDS Records, RecordPartsProofs

-----------------------------------------------------------------------------
(* The components as Records composes them.                                *)

\* A behaviour stays with the component it is of.
LEMMA KindStays == [RecordsNext]_allVars => kind' = kind
  BY DEF RecordsNext, allVars

\* A step of a behaviour of Reverse is a step of Reverse, or changes nothing of it.
LEMMA ReverseTurn == [RecordsNext]_allVars /\ kind = "reverse" => [Reverse!ReverseNext]_(Reverse!reverseVars)
  BY DEF RecordsNext, allVars, others, reverseVars, Reverse!reverseVars

LEMMA ReverseAlways == RecordsSpec => [](kind = "reverse" => ReverseInv)
  <1>1. RecordsInit => (kind = "reverse" => ReverseInv)
    BY ReverseInitially DEF RecordsInit
  <1>2. (kind = "reverse" => ReverseInv) /\ [RecordsNext]_allVars => (kind = "reverse" => ReverseInv)'
    BY KindStays, ReverseTurn, ReverseSteps
  <1> QED BY <1>1, <1>2, PTL DEF RecordsSpec

\* A step of a behaviour of Ssh is a step of Ssh, or changes nothing of it.
LEMMA SshTurn == [RecordsNext]_allVars /\ kind = "ssh" => [Ssh!Next]_(Ssh!vars)
  BY DEF RecordsNext, allVars, others, sshVars, Ssh!vars

LEMMA SshAlways == RecordsSpec => [](kind = "ssh" => SshInv)
  <1>1. RecordsInit => (kind = "ssh" => SshInv)
    BY SshInitially DEF RecordsInit
  <1>2. (kind = "ssh" => SshInv) /\ [RecordsNext]_allVars => (kind = "ssh" => SshInv)'
    BY KindStays, SshTurn, SshSteps
  <1> QED BY <1>1, <1>2, PTL DEF RecordsSpec

\* A step of a behaviour of Upload is a step of Upload, or changes nothing of it.
LEMMA UploadTurn == [RecordsNext]_allVars /\ kind = "upload" => [Upload!Next]_(Upload!vars)
  BY DEF RecordsNext, allVars, others, uploadVars, Upload!vars

LEMMA UploadAlways == RecordsSpec => [](kind = "upload" => UploadInv)
  <1>1. RecordsInit => (kind = "upload" => UploadInv)
    BY UploadInitially DEF RecordsInit
  <1>2. (kind = "upload" => UploadInv) /\ [RecordsNext]_allVars => (kind = "upload" => UploadInv)'
    BY KindStays, UploadTurn, UploadSteps
  <1> QED BY <1>1, <1>2, PTL DEF RecordsSpec

\* A step of a behaviour of Jobs is a step of Jobs, or changes nothing of it.
LEMMA JobsTurn == [RecordsNext]_allVars /\ kind = "jobs" => [Jobs!JobNext]_(jobsVars)
  BY DEF RecordsNext, allVars, others, jobsVars

LEMMA JobsAlways == RecordsSpec => [](kind = "jobs" => JobsInv)
  <1>1. RecordsInit => (kind = "jobs" => JobsInv)
    BY JobsInitially DEF RecordsInit
  <1>2. (kind = "jobs" => JobsInv) /\ [RecordsNext]_allVars => (kind = "jobs" => JobsInv)'
    BY KindStays, JobsTurn, JobsSteps
  <1> QED BY <1>1, <1>2, PTL DEF RecordsSpec

\* A step of a behaviour of Service is a step of Service, or changes nothing of it.
LEMMA ServiceTurn == [RecordsNext]_allVars /\ kind = "service" => [Service!ServiceNext]_(Service!serviceVars)
  BY DEF RecordsNext, allVars, others, serviceVars, Service!serviceVars

LEMMA ServiceAlways == RecordsSpec => [](kind = "service" => ServiceInv)
  <1>1. RecordsInit => (kind = "service" => ServiceInv)
    BY ServiceInitially DEF RecordsInit
  <1>2. (kind = "service" => ServiceInv) /\ [RecordsNext]_allVars => (kind = "service" => ServiceInv)'
    BY KindStays, ServiceTurn, ServiceSteps
  <1> QED BY <1>1, <1>2, PTL DEF RecordsSpec

\* For every number of attempts and every delay: one helper at most holds the listener on the
\* host, also when an attempt that ran out of time has left one that binds later; the one that
\* serves is that of the current connection, and the delay before an attempt
\* is the first one doubled for each failure in a row, up to the maximum (run_reverse and the
\* helper it starts).
THEOREM ListenerHasOneHolder == RecordsSpec => []OneListener
  <1>1. (kind = "reverse" => ReverseInv) => OneListener
    BY ReverseEnough DEF OneListener
  <1> QED BY <1>1, ReverseAlways, PTL

\* For every length of the chain and every configuration: a session is open only to a host whose
\* key is known, was learned with permission for that host, or is not to be checked, by the
\* command, by its own section or the target's, or for want of a known_hosts of its own
\* (resolve_target, resolve_jumps, check_server_key).
THEOREM OpenHostsAreChecked == RecordsSpec => []KeysAreChecked
  <1>1. (kind = "ssh" => SshInv) => KeysAreChecked
    BY SshEnough DEF KeysAreChecked
  <1> QED BY <1>1, SshAlways, PTL

\* For every number of uploads, every size and every interleaving: on a unix host an upload whose
\* connection holds reports success only when the whole helper is in place (upload_helper,
\* exec_upload and the script it runs).
THEOREM UploadsAreWhole == RecordsSpec => UploadedIsWhole
  <1>1. (kind = "upload" => UploadInv) /\ (kind = "upload" => UploadInv)' /\ [RecordsNext]_allVars
        => [kind = "upload" => Upload!TypeOK' /\ Upload!UploadedIsWhole]_allVars
    <2>1. UploadInv' => Upload!TypeOK'
      BY UploadEnough, PTL
    <2> QED BY <2>1, KindStays, UploadTurn, UploadReports
  <1> QED BY <1>1, UploadAlways, PTL DEF UploadedIsWhole, RecordsSpec

\* For every number of jobs and every limit: a job that was acknowledged and has not ended is in
\* the registry of a running daemon, whatever restarts and failed saves came between, and a job
\* is removed only to keep MaxTerminal terminal ones, the oldest first (JobRegistry::upsert,
\* load, prune_store).
THEOREM AcknowledgedSurvive == RecordsSpec => JobsAreKept
  <1>1. (kind = "jobs" => JobsInv) /\ (kind = "jobs" => JobsInv)' /\ [RecordsNext]_allVars
        => [kind = "jobs" => Jobs!TypeOK' /\ Jobs!AckedSurvives' /\ Jobs!PrunesOldestTerminal]_allVars
    <2>1. JobsInv' => Jobs!TypeOK' /\ Jobs!AckedSurvives'
      BY JobsEnough, PTL
    <2> QED BY <2>1, KindStays, JobsTurn, JobsPrune
  <1> QED BY <1>1, JobsAlways, PTL DEF JobsAreKept, RecordsSpec

\* For every number of commands, saves and faults, on every platform: an install or repair that
\* fails leaves the configuration it found, unless the daemon saved its own meanwhile or the
\* write-back failed; one whose daemon does not come to health leaves its own, with the
\* definition that goes with it; and after one that succeeded a process of the service runs the
\* definition just written unless it was running when systemd reloaded its units
\* (install_or_repair_service, restore_config_snapshot, wait_for_daemon_health).
THEOREM InstallsAreTrue == RecordsSpec => []InstallIsTrue
  <1>1. (kind = "service" => ServiceInv) => InstallIsTrue
    BY ServiceEnough DEF InstallIsTrue
  <1> QED BY <1>1, ServiceAlways, PTL
=============================================================================
