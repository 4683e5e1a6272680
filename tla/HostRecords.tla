---------------------------- MODULE HostRecords -----------------------------
(***************************************************************************)
(* The components of Records that change a host: its service definition    *)
(* and configuration (ServiceManager), the helper binary put there         *)
(* (HelperUpload), and the keys by which a chain of hosts is known         *)
(* (SshClient), with the state that each has there.                        *)
(***************************************************************************)
EXTENDS Integers

CONSTANTS MaxCommands, MaxSaves, Faults, Uploaders, HelperSize, MaxUploads, MaxHops, Sections

ASSUME ServiceConstants == MaxCommands \in Nat /\ MaxSaves \in Nat /\ Faults \in Nat
ASSUME UploadConstants == HelperSize \in Nat /\ MaxUploads \in Nat
ASSUME SshConstants == MaxHops \in Nat \ {0}

VARIABLES
  serviceHost, serviceMgr, serviceCli,
  uploadRemote, uploadPath, uploadUp, uploadBegun,
  sshWant, sshConn

Service == INSTANCE ServiceManager WITH host <- serviceHost, mgr <- serviceMgr, cli <- serviceCli

Upload == INSTANCE HelperUpload WITH remote <- uploadRemote, path <- uploadPath, up <- uploadUp,
          begun <- uploadBegun, Size <- HelperSize

Ssh == INSTANCE SshClient WITH want <- sshWant, conn <- sshConn

serviceVars == <<serviceHost, serviceMgr, serviceCli>>
uploadVars == <<uploadRemote, uploadPath, uploadUp, uploadBegun>>
sshVars == <<sshWant, sshConn>>
=============================================================================
