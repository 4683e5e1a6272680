---------------------------- MODULE HelperUpload ----------------------------
(***************************************************************************)
(* The upload of the helper to a remote host (deploy/helper.rs) by an exec *)
(* of the Rust SSH client (exec_upload of client.rs): a script copies its  *)
(* stdin to a file.  Several commands and jobs may upload to one host,     *)
(* each over a connection of its own that may be lost.                     *)
(***************************************************************************)
EXTENDS Integers

CONSTANTS Uploaders,
          Size,        \* of the helper, in chunks
          MaxUploads   \* uploads that are begun

VARIABLES
  remote,   \* the system of the remote host
  path,     \* its helper file
  up,       \* the uploads
  begun

vars == <<remote, path, up, begun>>

Absent == -2
Old    == -1
Whole  == Size        \* a natural number is a file of this version with so many chunks
Quiet  == [pc |-> "idle", sent |-> 0, got |-> 0, shell |-> "none", lost |-> FALSE, clean |-> TRUE, result |-> "none"]

TypeOK ==
  /\ remote \in {"unix", "windows"} /\ path \in Absent..Size /\ begun \in 0..MaxUploads
  /\ up \in [Uploaders -> [pc : {"idle", "ensure", "probe", "send", "wait", "done"}, sent : 0..Size, got : 0..Size,
                           shell : {"none", "cat", "exited", "failed", "killed"}, lost : BOOLEAN, clean : BOOLEAN, result : {"none", "given", "ok", "err"}]]

Init ==
  /\ remote \in {"unix", "windows"} /\ path \in {Absent, Old}
  /\ up = [u \in Uploaders |-> Quiet] /\ begun = 0

-----------------------------------------------------------------------------
(* upload_helper.                                                          *)
Set(u, r) == up' = [up EXCEPT ![u] = r]
End(u, r) == Set(u, [up[u] EXCEPT !.pc = "done", !.result = r])

(* A file that another upload has open does not run. *)
probe_helper(u) == remote = "unix" \/ \A v \in Uploaders : up[v].shell # "cat"

Begin(u) ==
  /\ up[u].pc \in {"idle", "done"} /\ up[u].shell # "cat" /\ begun < MaxUploads /\ begun' = begun + 1
  /\ Set(u, [Quiet EXCEPT !.pc = "ensure"]) /\ UNCHANGED <<remote, path>>

(* ensure_helper: no deployment at all, or, with a path that is given, a   *)
(* helper of any version that runs there, or else an upload.               *)
Ensure(u) ==
  /\ up[u].pc = "ensure" /\ UNCHANGED <<remote, path, begun>>
  /\ \/ End(u, "given")
     \/ path \in {Old, Whole} /\ probe_helper(u) /\ End(u, "given")
     \/ Set(u, [up[u] EXCEPT !.pc = "probe"])

(* remote_helper_matches, by the remote's admin command or its shell; a    *)
(* probe that fails leads to an upload.  The script of a Windows remote    *)
(* opens the file itself, and alone.                                       *)
Probe(u) ==
  /\ up[u].pc = "probe" /\ UNCHANGED <<remote, begun>>
  /\ \/ path = Whole /\ End(u, "ok") /\ UNCHANGED path
     \/ Set(u, [up[u] EXCEPT !.pc = "send", !.shell = "cat"])
        /\ IF remote = "windows" THEN (\A v \in Uploaders : up[v].shell # "cat") /\ path' = 0 ELSE UNCHANGED path
     \/ remote = "windows" /\ (\E v \in Uploaders : up[v].shell = "cat") /\ End(u, "err") /\ UNCHANGED path

(* exec_upload: data, eof, and the messages of the channel until its end.  *)
(* A channel that ends without an exit status counts as a success.         *)
Send(u) ==
  /\ up[u].pc = "send" /\ ~up[u].lost /\ UNCHANGED <<remote, path, begun>>
  /\ IF up[u].sent < Size THEN Set(u, [up[u] EXCEPT !.sent = @ + 1]) ELSE Set(u, [up[u] EXCEPT !.pc = "wait"])

Return(u) ==
  /\ up[u].pc \in {"send", "wait"} /\ UNCHANGED <<remote, path, begun>>
  /\ \/ up[u].pc = "send" /\ up[u].lost /\ End(u, "err")
     \/ up[u].pc = "wait" /\ up[u].lost /\ End(u, "ok")
     \/ up[u].pc = "wait" /\ up[u].shell \in {"exited", "killed"} /\ End(u, "ok")
     \/ up[u].pc = "wait" /\ up[u].shell = "failed" /\ ~up[u].lost /\ End(u, "err")

\* A slip: cat writes the helper file itself.
CopyInPlace(u) ==
  /\ up[u].shell = "cat" /\ up[u].got < up[u].sent /\ UNCHANGED <<remote, begun>>
  /\ Set(u, [up[u] EXCEPT !.got = @ + 1]) /\ path' = up[u].got + 1

(* The script: cat to a file of its own and a rename, or on a Windows      *)
(* remote the file itself.  It cannot tell an eof from a lost connection.  *)
Copy(u) ==
  /\ up[u].shell = "cat" /\ up[u].got < up[u].sent /\ UNCHANGED <<remote, begun>>
  /\ Set(u, [up[u] EXCEPT !.got = @ + 1]) /\ path' = IF remote = "windows" THEN up[u].got + 1 ELSE path

(* `clean` is history: no script whose connection was lost has ended since *)
(* the upload began.                                                       *)
Finish(u) ==
  /\ up[u].shell = "cat" /\ up[u].got = up[u].sent /\ (up[u].lost \/ up[u].pc \in {"wait", "done"})
  /\ up' = [v \in Uploaders |-> [up[v] EXCEPT !.clean = @ /\ ~up[u].lost, !.shell = IF v = u THEN "exited" ELSE @]]
  /\ path' = up[u].got /\ UNCHANGED <<remote, begun>>

(* The script fails, or a signal ends it, which sends no exit status. *)
Killed(u) ==
  /\ up[u].shell = "cat" /\ \E how \in {"failed", "killed"} : Set(u, [up[u] EXCEPT !.shell = how]) /\ UNCHANGED <<remote, path, begun>>

Lose(u) ==
  /\ up[u].pc \in {"send", "wait"} /\ ~up[u].lost
  /\ Set(u, [up[u] EXCEPT !.lost = TRUE]) /\ UNCHANGED <<remote, path, begun>>

Next == \E u \in Uploaders : Begin(u) \/ Ensure(u) \/ Probe(u) \/ Send(u) \/ Return(u) \/ Copy(u) \/ Finish(u) \/ Killed(u) \/ Lose(u)
Spec == Init /\ [][Next]_vars

-----------------------------------------------------------------------------
(* On a unix host an upload over a connection that holds reports success   *)
(* only when the whole helper is there, whatever broken uploads left       *)
(* before and whatever other uploads do, unless a broken one ends          *)
(* meanwhile.  A lost connection and a script that a signal ends are       *)
(* exceptions: a channel that ends without an exit status is a success.    *)
UploadedIsWhole ==
  \A u \in Uploaders : remote = "unix" /\ up[u].result = "none" /\ up'[u].result = "ok" /\ ~up[u].lost /\ up[u].clean
                         /\ up[u].shell # "killed" => path = Whole
=============================================================================
