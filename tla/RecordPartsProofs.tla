------------------------- MODULE RecordPartsProofs --------------------------
(***************************************************************************)
(* What the components of HostRecords and of Stores promise, for every     *)
(* value of the constants.  A section proves that one component's          *)
(* inductive invariant holds initially, is kept by every step, and implies *)
(* the component's properties.                                             *)
(***************************************************************************)
EXTENDS HostRecords, Stores, TLAPS

-----------------------------------------------------------------------------
(* SshClient: keys are checked along a chain of hosts.                     *)

\* What lets a session to h be opened: see KeysAreChecked.
KeyAllows(h) ==
    \/ sshWant.key[h] = "known"
    \/ sshWant.flags.insecure \/ Ssh!Asked(h, {"no"}) \/ Ssh!NoKnownHosts(h)
    \/ sshWant.key[h] = "unknown" /\ h \in sshConn.learned /\ (sshWant.flags.accept_new \/ Ssh!Asked(h, {"accept-new"}))

\* KeysAreChecked is not inductive: a hop that is authenticating has passed the check of its
\* key, whatever became of the hops before it.
SshInv ==
    /\ Ssh!TypeOK
    /\ \A h \in sshConn.open : KeyAllows(h)
    /\ sshConn.step \in {"agent", "files", "none"} => KeyAllows(sshConn.at)

\* The flags of a hop come from the command, from the section of the hop and from that of the
\* target; whether it has a known_hosts comes from the command and from the hop's own section.
LEMMA ResolvedFlags ==
    ASSUME Ssh!TypeOK, NEW h \in Ssh!Hops
    PROVE  /\ Ssh!resolve(h).insecure => sshWant.flags.insecure \/ Ssh!Asked(h, {"no"})
           /\ Ssh!resolve(h).null => sshWant.flags.insecure \/ Ssh!Asked(h, {"no"}) \/ Ssh!NoKnownHosts(h)
           /\ Ssh!resolve(h).accept_new =>
                 \/ sshWant.flags.accept_new \/ sshWant.flags.insecure
                 \/ Ssh!Asked(h, {"no"}) \/ Ssh!Asked(h, {"accept-new"})
  <1> DEFINE f == Ssh!CommandFlags
             own == sshWant.config[sshWant.hops]
             opt == sshWant.option
             g == Ssh!apply_config(f, own)
             t == Ssh!TargetFlags
             j == Ssh!JumpFlags
             r == Ssh!apply_config(j, sshWant.config[h])
  <1>1. /\ f.accept_new <=> sshWant.flags.accept_new \/ sshWant.flags.insecure
        /\ f.insecure <=> sshWant.flags.insecure
        /\ f.null <=> sshWant.flags.null \/ sshWant.flags.insecure
    BY Zenon DEF Ssh!TypeOK, Ssh!Flags, Ssh!CommandFlags
  <1>2. /\ g.accept_new <=> f.accept_new \/ own.strict \in {"accept-new", "no"}
        /\ g.insecure <=> f.insecure \/ own.strict = "no"
        /\ g.null <=> own.file = "null" \/ (own.file = "none" /\ (f.null \/ own.strict = "no"))
    BY Zenon DEF Ssh!apply_config
  <1>3. /\ t.accept_new <=> g.accept_new \/ opt.strict \in {"accept-new", "no"}
        /\ t.insecure <=> g.insecure \/ opt.strict = "no"
        /\ t.null <=> opt.file = "null" \/ (opt.file = "none" /\ (g.null \/ opt.strict = "no"))
        /\ t = [accept_new |-> t.accept_new, insecure |-> t.insecure, null |-> t.null]
    BY Zenon DEF Ssh!TargetFlags, Ssh!apply_o_option, Ssh!apply_config
  <1>4. (j.accept_new <=> t.accept_new) /\ (j.insecure <=> t.insecure) /\ (j.null <=> f.null)
    BY <1>3, Zenon DEF Ssh!JumpFlags
  <1>5. /\ r.accept_new <=> j.accept_new \/ sshWant.config[h].strict \in {"accept-new", "no"}
        /\ r.insecure <=> j.insecure \/ sshWant.config[h].strict = "no"
        /\ r.null <=> \/ sshWant.config[h].file = "null"
                      \/ sshWant.config[h].file = "none" /\ (j.null \/ sshWant.config[h].strict = "no")
    BY Zenon DEF Ssh!apply_config
  <1>6. Ssh!resolve(h) = IF h = sshWant.hops THEN t ELSE r
    BY Zenon DEF Ssh!resolve
  <1> HIDE DEF f, g, t, j, r
  <1>7. CASE h = sshWant.hops
    <2>1. Ssh!resolve(h) = t
      BY <1>6, <1>7, Zenon
    <2> QED BY <2>1, <1>1, <1>2, <1>3, <1>7, Zenon DEF Ssh!Asked, Ssh!NoKnownHosts
  <1>8. CASE h # sshWant.hops
    <2>1. Ssh!resolve(h) = r
      BY <1>6, <1>8, Zenon
    <2>2. r.insecure => sshWant.flags.insecure \/ Ssh!Asked(h, {"no"})
      BY <1>1, <1>2, <1>3, <1>4, <1>5, Zenon DEF Ssh!Asked
    <2>3. r.null => sshWant.flags.insecure \/ Ssh!Asked(h, {"no"}) \/ Ssh!NoKnownHosts(h)
      BY <1>1, <1>4, <1>5, <1>8, Zenon DEF Ssh!Asked, Ssh!NoKnownHosts
    <2> QED BY <2>1, <2>2, <2>3, <1>1, <1>2, <1>3, <1>4, <1>5, Zenon DEF Ssh!Asked
  <1> QED BY <1>7, <1>8, Zenon

LEMMA SshInitially == Ssh!Init => SshInv
  BY SshConstants DEF Ssh!Init, SshInv, Ssh!TypeOK, Ssh!Hops, Ssh!Steps, KeyAllows

LEMMA SshSteps == SshInv /\ [Ssh!Next]_(Ssh!vars) => SshInv'
  <1> SUFFICES ASSUME SshInv, [Ssh!Next]_(Ssh!vars) PROVE SshInv'
    BY Zenon
  <1> DEFINE Conns == [at : Ssh!Hops, step : Ssh!Steps, open : SUBSET Ssh!Hops, learned : SUBSET Ssh!Hops]
  <1>0. sshConn \in Conns /\ sshConn.at \in Ssh!Hops
    BY Zenon DEF SshInv, Ssh!TypeOK
  <1>a. ASSUME UNCHANGED sshWant, sshConn' \in Conns, sshConn.learned \subseteq sshConn'.learned,
               \A h \in sshConn'.open : h \in sshConn.open \/ KeyAllows(h)',
               sshConn'.step \in {"agent", "files", "none"} =>
                  \/ sshConn'.at = sshConn.at /\ sshConn.step \in {"agent", "files", "none"}
                  \/ sshConn'.at = sshConn.at /\ \A h \in {sshConn.at} : KeyAllows(h)'
        PROVE  SshInv'
    <2>1. \A h \in Ssh!Hops : KeyAllows(h) => KeyAllows(h)'
      BY <1>a, Zenon DEF KeyAllows, Ssh!Asked, Ssh!NoKnownHosts
    <2>2. Ssh!TypeOK'
      BY <1>a, Zenon DEF SshInv, Ssh!TypeOK
    <2>3. \A h \in sshConn'.open : KeyAllows(h)'
      BY <1>a, <2>1, <1>0, Zenon DEF SshInv
    <2> QED BY <1>a, <1>0, <2>1, <2>2, <2>3, Zenon DEF SshInv
  <1>b. ASSUME NEW s \in Ssh!Steps \ {"agent", "files", "none"}, Ssh!To(s), UNCHANGED sshWant PROVE SshInv'
    <2>1. sshConn' \in Conns /\ sshConn'.open = sshConn.open /\ sshConn'.learned = sshConn.learned /\ sshConn'.step = s
      BY <1>b, <1>0, Zenon DEF Ssh!To
    <2> QED BY <2>1, <1>a, <1>b, Zenon
  <1>c. ASSUME Ssh!Fails, UNCHANGED sshWant PROVE SshInv'
    <2>1. sshConn' \in Conns /\ sshConn'.open = {} /\ sshConn'.learned = sshConn.learned /\ sshConn'.step = "failed"
      BY <1>c, <1>0, Zenon DEF Ssh!Fails, Ssh!Steps
    <2> QED BY <2>1, <1>a, <1>c, Zenon
  <1>d. ASSUME Ssh!Authenticated, UNCHANGED sshWant, sshConn.step \in {"agent", "files", "none"} PROVE SshInv'
    <2>1. sshConn.at < sshWant.hops => sshConn.at + 1 \in Ssh!Hops
      BY <1>0, SshConstants DEF SshInv, Ssh!TypeOK, Ssh!Hops
    <2>2. sshConn' \in Conns /\ sshConn'.open = sshConn.open \cup {sshConn.at} /\ sshConn'.learned = sshConn.learned
          /\ sshConn'.step \in {"dial", "ready"}
      BY <1>d, <1>0, <2>1, Zenon DEF Ssh!Authenticated, Ssh!Steps
    <2>3. \A h \in {sshConn.at} : KeyAllows(h)'
      BY <1>d, <2>2, Zenon DEF SshInv, KeyAllows, Ssh!Asked, Ssh!NoKnownHosts
    <2> QED BY <2>2, <2>3, <1>a, <1>d, Zenon
  <1>1. CASE Ssh!Dial
    <2>1. Ssh!To("key") \/ Ssh!Fails
      BY <1>1, Zenon DEF Ssh!Dial
    <2> QED BY <1>1, <2>1, <1>b, <1>c, Zenon DEF Ssh!Dial, Ssh!Steps
  <1>2. CASE Ssh!CheckServerKey
    <2> DEFINE f == Ssh!resolve(sshConn.at)
               k == sshWant.key[sshConn.at]
    <2>0. /\ f.insecure => sshWant.flags.insecure \/ Ssh!Asked(sshConn.at, {"no"})
          /\ f.null => sshWant.flags.insecure \/ Ssh!Asked(sshConn.at, {"no"}) \/ Ssh!NoKnownHosts(sshConn.at)
          /\ f.accept_new => \/ sshWant.flags.accept_new \/ sshWant.flags.insecure
                             \/ Ssh!Asked(sshConn.at, {"no"}) \/ Ssh!Asked(sshConn.at, {"accept-new"})
      BY <1>0, ResolvedFlags, Zenon DEF SshInv
    <2> HIDE DEF f
    <2>1. UNCHANGED sshWant
      BY <1>2, Zenon DEF Ssh!CheckServerKey
    <2>2. CASE (f.insecure \/ f.null \/ k = "known") /\ Ssh!To("agent")
      <3>1. sshConn' \in Conns /\ sshConn'.open = sshConn.open /\ sshConn'.learned = sshConn.learned
            /\ sshConn'.step = "agent" /\ sshConn'.at = sshConn.at
        BY <2>2, <1>0, Zenon DEF Ssh!To, Ssh!Steps
      <3>2. \A h \in {sshConn.at} : KeyAllows(h)'
        BY <2>0, <2>1, <2>2, Zenon DEF KeyAllows, Ssh!Asked, Ssh!NoKnownHosts
      <3> QED BY <2>1, <3>1, <3>2, <1>a, Zenon
    <2>3. CASE /\ k = "unknown" /\ f.accept_new
               /\ sshConn' = [sshConn EXCEPT !.learned = @ \cup {sshConn.at}, !.step = "agent"]
      <3>1. sshConn' \in Conns /\ sshConn'.open = sshConn.open /\ sshConn'.learned = sshConn.learned \cup {sshConn.at}
            /\ sshConn'.step = "agent" /\ sshConn'.at = sshConn.at
        BY <2>3, <1>0, Zenon DEF Ssh!Steps
      <3>2. \A h \in {sshConn.at} : KeyAllows(h)'
        BY <2>0, <2>1, <2>3, <3>1, Zenon DEF KeyAllows, Ssh!Asked, Ssh!NoKnownHosts
      <3> QED BY <2>1, <3>1, <3>2, <1>a, Zenon
    <2> QED BY <1>2, <2>1, <2>2, <2>3, <1>c, Zenon DEF Ssh!CheckServerKey, f
  <1>3. CASE Ssh!TryAgent \/ Ssh!TryFiles \/ Ssh!TryNone
    <2>1. UNCHANGED sshWant /\ sshConn.step \in {"agent", "files", "none"}
          /\ (Ssh!Authenticated \/ Ssh!To("files") \/ Ssh!To("none") \/ Ssh!Fails)
      BY <1>3, Zenon DEF Ssh!TryAgent, Ssh!TryFiles, Ssh!TryNone
    <2>2. ASSUME NEW s \in {"files", "none"}, Ssh!To(s) PROVE SshInv'
      <3>1. sshConn' \in Conns /\ sshConn'.open = sshConn.open /\ sshConn'.learned = sshConn.learned /\ sshConn'.at = sshConn.at
        BY <2>2, <1>0, Zenon DEF Ssh!To, Ssh!Steps
      <3> QED BY <2>1, <3>1, <1>a, Zenon
    <2> QED BY <2>1, <2>2, <1>c, <1>d, Zenon
  <1>4. ASSUME NEW h \in Ssh!Hops, Ssh!SessionEnds(h) PROVE SshInv'
    <2>1. sshConn' \in Conns /\ sshConn'.open \subseteq sshConn.open /\ sshConn'.learned = sshConn.learned
          /\ sshConn'.at = sshConn.at /\ sshConn'.step \in {"failed", sshConn.step}
      BY <1>4, <1>0, Zenon DEF Ssh!SessionEnds, Ssh!Steps
    <2> QED BY <1>4, <2>1, <1>a, Zenon DEF Ssh!SessionEnds
  <1>5. CASE UNCHANGED Ssh!vars
    BY <1>5, Zenon DEF Ssh!vars, SshInv, Ssh!TypeOK, KeyAllows, Ssh!Asked, Ssh!NoKnownHosts
  <1> QED BY <1>1, <1>2, <1>3, <1>4, <1>5, Zenon DEF Ssh!Next

LEMMA SshEnough == SshInv => Ssh!TypeOK /\ Ssh!KeysAreChecked
  BY Zenon DEF SshInv, Ssh!KeysAreChecked, KeyAllows

-----------------------------------------------------------------------------
(* HelperUpload: what is reported as uploaded is whole.                    *)

Uploading ==
    [pc : {"idle", "ensure", "probe", "send", "wait", "done"}, sent : 0..HelperSize, got : 0..HelperSize,
     shell : {"none", "cat", "exited", "failed", "killed"}, lost : BOOLEAN, clean : BOOLEAN,
     result : {"none", "given", "ok", "err"}]

\* An upload r to a host of system sys whose helper file is p.  UploadedIsWhole is a property of
\* steps: what it needs of the state before is that the script of an upload that waits over a
\* connection that holds has left the whole file and that no broken script has ended since.
\* That in turn needs a script to end over such a connection only when everything was sent.
UploadSound(sys, p, r) ==
    /\ r.got <= r.sent
    /\ r.pc \in {"idle", "ensure", "probe"} => r.shell = "none"
    /\ r.pc = "wait" => r.sent = HelperSize
    /\ r.shell = "cat" /\ ~r.lost => r.pc \in {"send", "wait"}
    /\ r.pc = "send" /\ r.shell = "exited" => r.lost
    /\ sys = "unix" /\ r.pc = "wait" /\ r.shell = "exited" /\ ~r.lost /\ r.clean => p = HelperSize

UploadInv ==
    /\ uploadRemote \in {"unix", "windows"} /\ uploadPath \in Upload!Absent..HelperSize /\ uploadBegun \in 0..MaxUploads
    /\ uploadUp \in [Uploaders -> Uploading]
    /\ \A u \in Uploaders : UploadSound(uploadRemote, uploadPath, uploadUp[u])

LEMMA UploadInitially == Upload!Init => UploadInv
  <1> SUFFICES ASSUME Upload!Init PROVE UploadInv
    BY Zenon
  <1>1. Upload!Quiet \in Uploading /\ UploadSound(uploadRemote, uploadPath, Upload!Quiet)
    BY UploadConstants DEF Upload!Quiet, Uploading, UploadSound
  <1> HIDE DEF Upload!Quiet
  <1> QED BY <1>1, UploadConstants DEF Upload!Init, UploadInv, Upload!Absent, Upload!Old

\* A step of one upload that leaves the file, or any step on a Windows host, keeps the others sound.
LEMMA OneUploadMoves ==
    ASSUME UploadInv, UNCHANGED uploadRemote, uploadBegun' \in 0..MaxUploads, uploadPath' \in Upload!Absent..HelperSize,
           uploadRemote = "windows" \/ uploadPath' = uploadPath,
           NEW u \in Uploaders, NEW r \in Uploading, Upload!Set(u, r), UploadSound(uploadRemote, uploadPath', r)
    PROVE  UploadInv'
  <1>1. uploadUp' \in [Uploaders -> Uploading]
    BY Zenon DEF UploadInv, Upload!Set
  <1>2. ASSUME NEW v \in Uploaders PROVE UploadSound(uploadRemote', uploadPath', uploadUp'[v])
    <2>1. CASE v = u
      BY <2>1, Zenon DEF UploadInv, Upload!Set
    <2>2. CASE v # u
      <3>1. uploadUp'[v] = uploadUp[v]
        BY <2>2, Zenon DEF UploadInv, Upload!Set
      <3> QED BY <3>1, Zenon DEF UploadInv, UploadSound
    <2> QED BY <2>1, <2>2, Zenon
  <1> QED BY <1>1, <1>2, Zenon DEF UploadInv

LEMMA UploadSteps == UploadInv /\ [Upload!Next]_(Upload!vars) => UploadInv'
  <1> SUFFICES ASSUME UploadInv, [Upload!Next]_(Upload!vars) PROVE UploadInv'
    BY Zenon
  <1> USE UploadConstants
  <1>1. ASSUME NEW u \in Uploaders,
               Upload!Begin(u) \/ Upload!Ensure(u) \/ Upload!Probe(u) \/ Upload!Send(u) \/ Upload!Return(u) \/ Upload!Copy(u) \/ Upload!Killed(u) \/ Upload!Lose(u)
        PROVE  UploadInv'
    <2> DEFINE r == uploadUp[u]
    <2>0. r \in Uploading /\ UploadSound(uploadRemote, uploadPath, r)
      BY Zenon DEF UploadInv
    <2>1. CASE Upload!Begin(u)
      <3> DEFINE q == [Upload!Quiet EXCEPT !.pc = "ensure"]
      <3>1. q \in Uploading /\ UploadSound(uploadRemote, uploadPath', q)
        <4>1. Upload!Quiet \in Uploading /\ Upload!Quiet.sent = 0 /\ Upload!Quiet.got = 0 /\ Upload!Quiet.shell = "none"
          BY DEF Upload!Quiet, Uploading
        <4>2. /\ q \in Uploading /\ q.pc = "ensure" /\ q.sent = Upload!Quiet.sent /\ q.got = Upload!Quiet.got
              /\ q.shell = Upload!Quiet.shell
          BY <4>1, Zenon DEF Uploading
        <4> HIDE DEF q
        <4> QED BY <4>1, <4>2 DEF UploadSound
      <3>2. Upload!Set(u, q) /\ UNCHANGED <<uploadRemote, uploadPath>>
        BY <2>1, Zenon DEF Upload!Begin
      <3>3. uploadBegun' \in 0..MaxUploads
        BY <2>1 DEF Upload!Begin, UploadInv
      <3> HIDE DEF q
      <3> QED BY <3>1, <3>2, <3>3, OneUploadMoves, Zenon DEF UploadInv
    <2>2. ASSUME NEW x \in {"given", "ok", "err"}, Upload!End(u, x), UNCHANGED <<uploadRemote, uploadPath, uploadBegun>>,
                 r.shell = "cat" => r.lost
          PROVE  UploadInv'
      <3> DEFINE q == [r EXCEPT !.pc = "done", !.result = x]
      <3>1. Upload!Set(u, q)
        BY <2>2, Zenon DEF Upload!End
      <3>2. /\ q \in Uploading /\ q.pc = "done" /\ q.got = r.got /\ q.sent = r.sent
            /\ q.shell = r.shell /\ q.lost = r.lost
        BY <2>0, Zenon DEF Uploading
      <3> HIDE DEF q
      <3>3. UploadSound(uploadRemote, uploadPath', q)
        BY <3>2, <2>0, <2>2, Zenon DEF UploadSound
      <3> QED BY <3>1, <3>2, <3>3, <2>2, OneUploadMoves, Zenon DEF UploadInv
    <2>3. CASE Upload!Ensure(u)
      <3>1. CASE Upload!End(u, "given")
        BY <3>1, <2>3, <2>0, <2>2, Zenon DEF Upload!Ensure, UploadSound
      <3>2. CASE Upload!Set(u, [uploadUp[u] EXCEPT !.pc = "probe"])
        <4> DEFINE q == [r EXCEPT !.pc = "probe"]
        <4>1. /\ r.pc = "ensure" /\ q \in Uploading /\ q.pc = "probe" /\ q.got = r.got
              /\ q.sent = r.sent /\ q.shell = r.shell /\ q.lost = r.lost
          BY <2>0, <2>3, Zenon DEF Uploading, Upload!Ensure
        <4>2. Upload!Set(u, q) /\ UNCHANGED <<uploadRemote, uploadPath, uploadBegun>>
          BY <3>2, <2>3, Zenon DEF Upload!Ensure
        <4> HIDE DEF q
        <4>3. UploadSound(uploadRemote, uploadPath', q)
          BY <4>1, <2>0, Zenon DEF UploadSound
        <4> QED BY <4>1, <4>2, <4>3, OneUploadMoves, Zenon DEF UploadInv
      <3> QED BY <2>3, <3>1, <3>2, Zenon DEF Upload!Ensure
    <2>4. CASE Upload!Probe(u)
      <3>1. ASSUME NEW x \in {"ok", "err"}, Upload!End(u, x), UNCHANGED uploadPath PROVE UploadInv'
        BY <3>1, <2>4, <2>0, <2>2, Zenon DEF Upload!Probe, UploadSound
      <3>2. CASE /\ Upload!Set(u, [uploadUp[u] EXCEPT !.pc = "send", !.shell = "cat"])
                 /\ IF uploadRemote = "windows" THEN uploadPath' = 0 ELSE UNCHANGED uploadPath
        <4> DEFINE q == [r EXCEPT !.pc = "send", !.shell = "cat"]
        <4>1. /\ q \in Uploading /\ q.pc = "send" /\ q.got = r.got
              /\ q.sent = r.sent /\ q.shell = "cat"
          BY <2>0, Zenon DEF Uploading
        <4>2. Upload!Set(u, q) /\ UNCHANGED <<uploadRemote, uploadBegun>>
          BY <3>2, <2>4, Zenon DEF Upload!Probe
        <4> HIDE DEF q
        <4>3. UploadSound(uploadRemote, uploadPath', q)
          BY <4>1, <2>0, Zenon DEF UploadSound
        <4>4. uploadPath' \in Upload!Absent..HelperSize /\ (uploadRemote = "windows" \/ uploadPath' = uploadPath)
          BY <3>2 DEF UploadInv, Upload!Absent
        <4> QED BY <4>1, <4>2, <4>3, <4>4, OneUploadMoves, Zenon DEF UploadInv
      <3> QED BY <2>4, <3>1, <3>2, Zenon DEF Upload!Probe
    <2>5. CASE Upload!Send(u)
      <3>0. r.pc = "send" /\ ~r.lost /\ UNCHANGED <<uploadRemote, uploadPath, uploadBegun>>
        BY <2>5, Zenon DEF Upload!Send
      <3>1. CASE r.sent < HelperSize /\ Upload!Set(u, [uploadUp[u] EXCEPT !.sent = @ + 1])
        <4> DEFINE q == [r EXCEPT !.sent = @ + 1]
        <4>1. /\ q \in Uploading /\ q.pc = r.pc /\ q.got = r.got
              /\ q.sent = r.sent + 1 /\ q.shell = r.shell /\ q.lost = r.lost
          BY <2>0, <3>1 DEF Uploading
        <4>2. Upload!Set(u, q)
          BY <3>1, Zenon
        <4>3. r.got \in Int /\ r.sent \in Int
          BY <2>0 DEF Uploading
        <4> HIDE DEF q
        <4>4. UploadSound(uploadRemote, uploadPath', q)
          BY <4>1, <4>3, <2>0, <3>0 DEF UploadSound
        <4> QED BY <4>1, <4>2, <4>4, <3>0, OneUploadMoves, Zenon DEF UploadInv
      <3>2. CASE r.sent >= HelperSize /\ Upload!Set(u, [uploadUp[u] EXCEPT !.pc = "wait"])
        <4> DEFINE q == [r EXCEPT !.pc = "wait"]
        <4>1. /\ q \in Uploading /\ q.pc = "wait" /\ q.got = r.got
              /\ q.sent = r.sent /\ q.shell = r.shell /\ q.lost = r.lost
          BY <2>0, Zenon DEF Uploading
        <4>2. Upload!Set(u, q) /\ r.sent = HelperSize
          BY <2>0, <3>2 DEF Uploading
        <4> HIDE DEF q
        <4>3. UploadSound(uploadRemote, uploadPath', q)
          BY <4>1, <4>2, <2>0, <3>0, Zenon DEF UploadSound
        <4> QED BY <4>1, <4>2, <4>3, <3>0, OneUploadMoves, Zenon DEF UploadInv
      <3>3. r.sent \in Int
        BY <2>0 DEF Uploading
      <3> QED BY <2>5, <3>1, <3>2, <3>3 DEF Upload!Send
    <2>6. CASE Upload!Return(u)
      <3>1. PICK x \in {"ok", "err"} : Upload!End(u, x)
        BY <2>6, Zenon DEF Upload!Return
      <3>2. UNCHANGED <<uploadRemote, uploadPath, uploadBegun>> /\ (r.shell = "cat" => r.lost)
        BY <2>6, Zenon DEF Upload!Return
      <3> QED BY <3>1, <3>2, <2>2, Zenon
    <2>7. CASE Upload!Copy(u)
      <3> DEFINE q == [r EXCEPT !.got = @ + 1]
      <3>0. r.got \in 0..HelperSize /\ r.sent \in 0..HelperSize /\ r.got < r.sent /\ r.shell = "cat"
        BY <2>0, <2>7, Zenon DEF Uploading, Upload!Copy
      <3>1. /\ q \in Uploading /\ q.pc = r.pc /\ q.got = r.got + 1
            /\ q.sent = r.sent /\ q.shell = "cat" /\ q.lost = r.lost
        BY <2>0, <3>0 DEF Uploading
      <3>2. Upload!Set(u, q) /\ UNCHANGED <<uploadRemote, uploadBegun>>
        BY <2>7, Zenon DEF Upload!Copy
      <3> HIDE DEF q
      <3>3. UploadSound(uploadRemote, uploadPath', q)
        BY <3>0, <3>1, <2>0 DEF UploadSound
      <3>4. uploadPath' \in Upload!Absent..HelperSize /\ (uploadRemote = "windows" \/ uploadPath' = uploadPath)
        BY <2>7, <3>0 DEF Upload!Copy, UploadInv, Upload!Absent
      <3> QED BY <3>1, <3>2, <3>3, <3>4, OneUploadMoves, Zenon DEF UploadInv
    <2>8. CASE Upload!Killed(u)
      <3>1. PICK how \in {"failed", "killed"} : Upload!Set(u, [uploadUp[u] EXCEPT !.shell = how])
        BY <2>8, Zenon DEF Upload!Killed
      <3> DEFINE q == [r EXCEPT !.shell = how]
      <3>2. /\ q \in Uploading /\ q.pc = r.pc /\ q.got = r.got /\ q.sent = r.sent
            /\ q.shell = how /\ q.lost = r.lost
        BY <2>0, Zenon DEF Uploading
      <3>3. Upload!Set(u, q) /\ UNCHANGED <<uploadRemote, uploadPath, uploadBegun>> /\ r.shell = "cat"
        BY <2>8, <3>1, Zenon DEF Upload!Killed
      <3> HIDE DEF q
      <3>4. UploadSound(uploadRemote, uploadPath', q)
        BY <3>2, <3>3, <2>0, Zenon DEF UploadSound
      <3> QED BY <3>2, <3>3, <3>4, OneUploadMoves, Zenon DEF UploadInv
    <2>9. CASE Upload!Lose(u)
      <3> DEFINE q == [r EXCEPT !.lost = TRUE]
      <3>1. /\ q \in Uploading /\ q.pc = r.pc /\ q.got = r.got /\ q.sent = r.sent
            /\ q.shell = r.shell /\ q.lost = TRUE
        BY <2>0, Zenon DEF Uploading
      <3>2. Upload!Set(u, q) /\ UNCHANGED <<uploadRemote, uploadPath, uploadBegun>>
        BY <2>9, Zenon DEF Upload!Lose
      <3> HIDE DEF q
      <3>3. UploadSound(uploadRemote, uploadPath', q)
        BY <3>1, <2>0, Zenon DEF UploadSound
      <3> QED BY <3>1, <3>2, <3>3, OneUploadMoves, Zenon DEF UploadInv
    <2> QED BY <1>1, <2>1, <2>3, <2>4, <2>5, <2>6, <2>7, <2>8, <2>9, Zenon
  <1>2. ASSUME NEW u \in Uploaders, Upload!Finish(u) PROVE UploadInv'
    <2>0. uploadUp[u] \in Uploading /\ UploadSound(uploadRemote, uploadPath, uploadUp[u])
      BY Zenon DEF UploadInv
    <2>1. /\ uploadUp[u].shell = "cat" /\ uploadUp[u].got = uploadUp[u].sent /\ (uploadUp[u].lost \/ uploadUp[u].pc \in {"wait", "done"})
          /\ uploadPath' = uploadUp[u].got /\ UNCHANGED <<uploadRemote, uploadBegun>>
      BY <1>2, Zenon DEF Upload!Finish
    <2>2. uploadPath' \in Upload!Absent..HelperSize /\ (~uploadUp[u].lost => uploadPath' = HelperSize)
      <3>1. uploadUp[u].got \in 0..HelperSize /\ uploadUp[u].sent \in 0..HelperSize
        BY <2>0, Zenon DEF Uploading
      <3>2. ~uploadUp[u].lost => uploadUp[u].pc = "wait" /\ uploadUp[u].sent = HelperSize
        BY <2>0, <2>1, Zenon DEF UploadSound
      <3> QED BY <2>1, <3>1, <3>2 DEF Upload!Absent
    <2>a. uploadUp' = [v \in Uploaders |-> [uploadUp[v] EXCEPT !.clean = @ /\ ~uploadUp[u].lost,
                                                   !.shell = IF v = u THEN "exited" ELSE @]]
      BY <1>2, Zenon DEF Upload!Finish
    <2>3. ASSUME NEW v \in Uploaders PROVE uploadUp'[v] \in Uploading /\ UploadSound(uploadRemote, uploadPath', uploadUp'[v])
      <3> DEFINE r == uploadUp[v]
                 c == r.clean /\ ~uploadUp[u].lost
                 q == [r EXCEPT !.clean = c, !.shell = IF v = u THEN "exited" ELSE @]
      <3>1. r \in Uploading /\ UploadSound(uploadRemote, uploadPath, r)
        BY Zenon DEF UploadInv
      <3>2. c \in BOOLEAN /\ (c => ~uploadUp[u].lost)
        BY Zenon
      <3>3. uploadUp'[v] = q
        BY <2>a, Zenon
      <3> HIDE DEF c
      <3>4. /\ q \in Uploading /\ q.pc = r.pc /\ q.got = r.got /\ q.sent = r.sent /\ q.lost = r.lost
            /\ q.clean = c /\ q.shell = (IF v = u THEN "exited" ELSE r.shell)
        BY <3>1, <3>2, Zenon DEF Uploading
      <3> HIDE DEF q
      <3>5. UploadSound(uploadRemote, uploadPath', q)
        <4>1. CASE v = u
          BY <4>1, <2>1, <2>2, <3>1, <3>2, <3>4, Zenon DEF UploadSound
        <4>2. CASE v # u
          BY <4>2, <2>1, <2>2, <3>1, <3>2, <3>4, Zenon DEF UploadSound
        <4> QED BY <4>1, <4>2, Zenon
      <3> QED BY <3>3, <3>4, <3>5, Zenon
    <2>4. uploadUp' \in [Uploaders -> Uploading]
      <3>1. uploadUp' = [v \in Uploaders |-> uploadUp'[v]]
        BY <2>a, Zenon
      <3>2. \A v \in Uploaders : uploadUp'[v] \in Uploading
        BY <2>3, Zenon
      <3> QED BY <3>1, <3>2, Zenon
    <2> QED BY <2>1, <2>2, <2>3, <2>4, Zenon DEF UploadInv
  <1>3. CASE UNCHANGED Upload!vars
    BY <1>3, Zenon DEF Upload!vars, UploadInv
  <1> QED BY <1>1, <1>2, <1>3, Zenon DEF Upload!Next

LEMMA UploadEnough == UploadInv => Upload!TypeOK
  BY Zenon DEF UploadInv, Upload!TypeOK, Uploading

\* An upload that reports success over a connection that holds found the whole file, or its
\* script has left it.
LEMMA UploadReports == UploadInv /\ [Upload!Next]_(Upload!vars) => Upload!UploadedIsWhole
  <1> SUFFICES ASSUME UploadInv, [Upload!Next]_(Upload!vars), NEW u \in Uploaders, uploadRemote = "unix",
                      uploadUp[u].result = "none", uploadUp'[u].result = "ok", ~uploadUp[u].lost, uploadUp[u].clean,
                      uploadUp[u].shell # "killed"
               PROVE  uploadPath = Upload!Whole
    BY Zenon DEF Upload!UploadedIsWhole
  <1> DEFINE r == uploadUp[u]
  <1>0. r \in Uploading /\ UploadSound(uploadRemote, uploadPath, r)
    BY Zenon DEF UploadInv
  <1>1. PICK v \in Uploaders : Upload!Begin(v) \/ Upload!Ensure(v) \/ Upload!Probe(v) \/ Upload!Send(v) \/ Upload!Return(v) \/ Upload!Copy(v)
                               \/ Upload!Finish(v) \/ Upload!Killed(v) \/ Upload!Lose(v)
    BY <1>0, Zenon DEF Upload!Next, Upload!vars
  <1>2. ASSUME NEW q, Upload!Set(v, q), v # u \/ q.result # "ok" PROVE FALSE
    BY <1>2, Zenon DEF Upload!Set, UploadInv
  <1>3. ASSUME NEW x, Upload!End(v, x) PROVE v = u /\ x = "ok"
    <2>1. Upload!Set(v, [uploadUp[v] EXCEPT !.pc = "done", !.result = x])
      BY <1>3, Zenon DEF Upload!End
    <2>2. [uploadUp[v] EXCEPT !.pc = "done", !.result = x].result = x
      BY DEF UploadInv, Uploading
    <2> QED BY <2>1, <2>2, <1>2, Zenon
  <1>4. ~(Upload!Send(v) \/ Upload!Copy(v) \/ Upload!Killed(v) \/ Upload!Lose(v))
    <2>1. v = u => [uploadUp[v] EXCEPT !.sent = @ + 1].result # "ok" /\ [uploadUp[v] EXCEPT !.pc = "wait"].result # "ok"
                   /\ [uploadUp[v] EXCEPT !.got = @ + 1].result # "ok" /\ [uploadUp[v] EXCEPT !.lost = TRUE].result # "ok"
                   /\ \A how \in {"failed", "killed"} : [uploadUp[v] EXCEPT !.shell = how].result # "ok"
      BY <1>0, Zenon DEF Uploading
    <2> QED BY <2>1, <1>2, Zenon DEF Upload!Send, Upload!Copy, Upload!Killed, Upload!Lose
  <1>5. ~Upload!Begin(v) /\ ~Upload!Finish(v)
    <2>1. [Upload!Quiet EXCEPT !.pc = "ensure"].result # "ok"
      BY Zenon DEF Upload!Quiet
    <2>2. ~Upload!Begin(v)
      BY <2>1, <1>2, Zenon DEF Upload!Begin
    <2>3. ASSUME Upload!Finish(v) PROVE FALSE
      <3>1. uploadUp'[u] = [uploadUp[u] EXCEPT !.clean = @ /\ ~uploadUp[v].lost, !.shell = IF u = v THEN "exited" ELSE @]
        BY <2>3, Zenon DEF Upload!Finish
      <3>2. uploadUp'[u].result = uploadUp[u].result
        BY <3>1, <1>0, Zenon DEF Uploading
      <3> QED BY <3>2, Zenon
    <2> QED BY <2>2, <2>3, Zenon
  <1>6. CASE Upload!Ensure(v)
    <2>1. v = u => [uploadUp[v] EXCEPT !.pc = "probe"].result # "ok"
      BY <1>0, Zenon DEF Uploading
    <2>2. ~Upload!End(v, "given")
      BY <1>3
    <2> QED BY <2>1, <2>2, <1>2, <1>6, Zenon DEF Upload!Ensure
  <1>7. CASE Upload!Probe(v)
    <2>1. v = u => [uploadUp[v] EXCEPT !.pc = "send", !.shell = "cat"].result # "ok"
      BY <1>0, Zenon DEF Uploading
    <2>2. ~Upload!End(v, "err")
      BY <1>3
    <2> QED BY <2>1, <2>2, <1>2, <1>7, Zenon DEF Upload!Probe, Upload!Whole
  <1>8. CASE Upload!Return(v)
    <2>1. ~Upload!End(v, "err")
      BY <1>3
    <2>2. v = u
      BY <2>1, <1>3, <1>8, Zenon DEF Upload!Return
    <2> QED BY <2>1, <2>2, <1>0, <1>8, Zenon DEF Upload!Return, UploadSound, Upload!Whole
  <1> QED BY <1>1, <1>4, <1>5, <1>6, <1>7, <1>8, Zenon

-----------------------------------------------------------------------------
(* ServiceManager: installs that fail and installs that succeed.           *)

Hosts == [platform : Service!Platforms, config : Service!Contents, saves : 0 .. MaxSaves, faults : 0 .. Faults]
Units == [file : 0 .. MaxCommands, loaded : 0 .. MaxCommands, want : BOOLEAN,
          proc : 0 .. MaxCommands, home : BOOLEAN]
Commands ==
    [pc : {"idle", "ask", "resolved", "save", "stage", "copy", "write", "load", "start",
           "health", "undo", "remove", "control", "done"},
     op : Service!Ops, scope : Service!Scopes, admin : BOOLEAN, elevate : BOOLEAN, copy : BOOLEAN,
     action : {"none", "reuse", "start_or_repair", "install"},
     gen : 0 .. MaxCommands, snap : Service!Contents,
     base : Service!Contents, kept : BOOLEAN, worker : BOOLEAN, overtaken : BOOLEAN,
     left : {"none", "health", "restore"}, result : {"none", "ok", "failed"}]

\* Of the configuration: as long as the daemon does not save its own, it is the one the command found until the command writes, the snapshot is that
\* one as well, and afterwards it is the one last saved.
ConfigInv ==
    /\ serviceCli.pc # "done" => serviceCli.left = "none"
    /\ ~serviceCli.overtaken =>
         /\ serviceCli.pc \in {"ask", "resolved", "save", "remove", "control"} => serviceHost.config = serviceCli.base
         /\ serviceCli.pc \in {"save", "stage", "copy", "write", "load", "start", "undo"} => serviceCli.snap = serviceCli.base
         /\ serviceCli.pc \in {"stage", "copy", "write", "load", "start", "health"} => serviceHost.config = serviceHost.saves
         /\ serviceCli.pc = "done" /\ serviceCli.result = "failed" /\ serviceCli.left = "none" => serviceHost.config = serviceCli.base
         /\ serviceCli.pc = "done" /\ serviceCli.left = "health" => serviceHost.config = serviceHost.saves

\* Of the definitions: none is of a later command, none is loaded that the command has yet to
\* write, and the one it has written is there to be loaded, and is loaded when it is started.
GenerationInv ==
    /\ \A s \in Service!Scopes : serviceMgr[s].file <= serviceCli.gen /\ serviceMgr[s].loaded <= serviceCli.gen
    /\ serviceCli.pc \in {"ask", "resolved", "save", "stage", "copy", "write"}
          => \A s \in Service!Scopes : serviceMgr[s].loaded < serviceCli.gen
    /\ serviceCli.pc = "load" => IF serviceHost.platform = "windows" THEN serviceMgr[serviceCli.scope].loaded = serviceCli.gen
                                                             ELSE serviceMgr[serviceCli.scope].file = serviceCli.gen
    /\ serviceCli.pc \in {"start", "health"} \/ (serviceCli.pc = "done" /\ serviceCli.left = "health")
          => serviceMgr[serviceCli.scope].loaded = serviceCli.gen

\* Of the process: once the new definition is loaded, one that runs was started from it, unless it
\* was kept; Windows has stopped the old one before.
Fresh == serviceMgr[serviceCli.scope].loaded = serviceCli.gen /\ ~serviceCli.kept => serviceMgr[serviceCli.scope].proc \in {0, serviceCli.gen}

ProcessInv ==
    /\ serviceHost.platform = "windows" /\ serviceCli.pc \in {"copy", "write", "load"}
          => serviceMgr[serviceCli.scope].proc = 0 /\ ~serviceMgr[serviceCli.scope].want
    /\ serviceCli.pc \in {"start", "health"} => Fresh
    /\ serviceCli.pc = "done" /\ serviceCli.result = "ok" /\ serviceCli.op \in {"install", "ensure"} => Fresh

ServiceInv ==
    /\ serviceHost \in Hosts /\ serviceMgr \in [Service!Scopes -> Units] /\ serviceCli \in Commands
    /\ serviceCli.pc = "remove" => serviceCli.op = "uninstall"
    /\ serviceCli.pc = "control" => serviceCli.op \in {"start", "stop"}
    /\ ConfigInv /\ GenerationInv /\ ProcessInv

LEMMA ServiceEnough == ServiceInv => Service!TypeOK /\ Service!FailureKeepsConfig /\ Service!InstalledIsRun
  <1> SUFFICES ASSUME ServiceInv PROVE Service!TypeOK /\ Service!FailureKeepsConfig /\ Service!InstalledIsRun
    BY Zenon
  <1>1. Service!TypeOK
    BY Zenon DEF ServiceInv, Service!TypeOK, Hosts, Units, Commands
  <1>2. Service!FailureKeepsConfig
    <2>1. serviceCli.left \in {"none", "health", "restore"}
      BY Zenon DEF ServiceInv, Commands
    <2> QED BY <2>1, Zenon DEF ServiceInv, ConfigInv, GenerationInv, Service!FailureKeepsConfig
  <1>3. Service!InstalledIsRun
    BY Zenon DEF ServiceInv, ProcessInv, Fresh, Service!InstalledIsRun
  <1> QED BY <1>1, <1>2, <1>3, Zenon

LEMMA NoCommand ==
    /\ Service!Idle \in Commands /\ Service!Idle.pc = "idle" /\ Service!Idle.gen = 0 /\ ~Service!Idle.overtaken /\ ~Service!Idle.kept /\ ~Service!Idle.worker
    /\ Service!Idle.left = "none"
    /\ Service!NoService \in Units /\ Service!NoService.file = 0 /\ Service!NoService.loaded = 0
  BY ServiceConstants DEF Service!Idle, Commands, Service!Contents, Service!Ops, Service!Scopes, Service!NoService, Units

LEMMA ServiceInitially == Service!Init => ServiceInv
  <1> SUFFICES ASSUME Service!Init PROVE ServiceInv
    BY Zenon
  <1>1. serviceHost \in Hosts /\ serviceMgr \in [Service!Scopes -> Units] /\ serviceCli \in Commands
    BY NoCommand, ServiceConstants DEF Service!Init, Hosts, Service!Contents
  <1>2. serviceCli.pc = "idle" /\ serviceCli.left = "none" /\ \A s \in Service!Scopes : serviceMgr[s].file = 0 /\ serviceMgr[s].loaded = 0 /\ serviceCli.gen = 0
    BY NoCommand, Zenon DEF Service!Init
  <1> QED BY <1>1, <1>2 DEF ServiceInv, ConfigInv, GenerationInv, ProcessInv

\* Steps that change the command only.
LEMMA CommandSteps ==
    ASSUME ServiceInv, UNCHANGED <<serviceHost, serviceMgr>>,
           Service!Dispatch \/ Service!Elevate \/ Service!Health \/ Service!ControlFails \/ Service!Again
    PROVE  ServiceInv'
  <1>0. serviceCli \in Commands /\ serviceCli.overtaken \in BOOLEAN /\ serviceCli.kept \in BOOLEAN
    BY Zenon DEF ServiceInv, Commands
  <1>a. ASSUME NEW r \in {"ok", "failed"}, Service!Finish(r), serviceCli.pc # "done",
               r = "failed" => serviceCli.pc \in {"ask", "remove", "control"},
               r = "ok" /\ serviceCli.op \in {"install", "ensure"} => serviceCli.pc \in {"resolved", "health"}
        PROVE  ServiceInv'
    <2>1. /\ serviceCli' \in Commands /\ serviceCli'.pc = "done" /\ serviceCli'.result = r /\ serviceCli'.gen = serviceCli.gen
          /\ serviceCli'.op = serviceCli.op /\ serviceCli'.base = serviceCli.base /\ serviceCli'.overtaken = serviceCli.overtaken
          /\ serviceCli'.scope = serviceCli.scope /\ serviceCli'.kept = serviceCli.kept /\ serviceCli'.left = "none"
      BY <1>0, <1>a, Zenon DEF Service!Finish, Commands, ServiceInv, ConfigInv
    <2>2. ConfigInv'
      BY <1>a, <2>1, Zenon DEF ServiceInv, ConfigInv
    <2>3. GenerationInv'
      BY <2>1, Zenon DEF ServiceInv, GenerationInv
    <2>4. ProcessInv'
      <3>1. serviceCli'.result = "ok" /\ serviceCli'.op \in {"install", "ensure"} => Fresh
        <4>1. serviceCli.pc = "resolved" => serviceMgr[serviceCli.scope].loaded # serviceCli.gen
          BY <1>0 DEF ServiceInv, GenerationInv, Commands, Units
        <4> QED BY <4>1, <1>a, <2>1, Zenon DEF ServiceInv, ProcessInv, Fresh
      <3> QED BY <2>1, <3>1, Zenon DEF ProcessInv, Fresh
    <2> QED BY <2>1, <2>2, <2>3, <2>4, Zenon DEF ServiceInv
  <1>1. CASE Service!Dispatch
    <2>0. serviceCli.pc = "resolved"
      BY <1>1, Zenon DEF Service!Dispatch
    <2>1. CASE Service!Finish("ok")
      BY <2>0, <2>1, <1>a, Zenon
    <2>2. CASE serviceCli' = [serviceCli EXCEPT !.pc = "ask"]
      <3>1. /\ serviceCli' \in Commands /\ serviceCli'.pc = "ask" /\ serviceCli'.gen = serviceCli.gen
            /\ serviceCli'.base = serviceCli.base /\ serviceCli'.overtaken = serviceCli.overtaken /\ serviceCli'.left = serviceCli.left
        BY <1>0, <2>2, Zenon DEF Commands
      <3> QED BY <2>0, <3>1, Zenon DEF ServiceInv, ConfigInv, GenerationInv, ProcessInv
    <2>3. CASE serviceCli' = [serviceCli EXCEPT !.pc = "save", !.snap = serviceHost.config]
      <3>1. /\ serviceCli' \in Commands /\ serviceCli'.pc = "save" /\ serviceCli'.gen = serviceCli.gen /\ serviceCli'.snap = serviceHost.config
            /\ serviceCli'.base = serviceCli.base /\ serviceCli'.overtaken = serviceCli.overtaken /\ serviceCli'.left = serviceCli.left
        <4>1. serviceHost.config \in Service!Contents
          BY <2>0, Zenon DEF ServiceInv, ConfigInv, Hosts
        <4> QED BY <1>0, <2>3, <4>1, Zenon DEF Commands
      <3> QED BY <2>0, <3>1, Zenon DEF ServiceInv, ConfigInv, GenerationInv, ProcessInv
    <2>4. ASSUME NEW p \in {"remove", "control"}, serviceCli' = [serviceCli EXCEPT !.pc = p],
                 p = "remove" => serviceCli.op = "uninstall", p = "control" => serviceCli.op \in {"start", "stop"}
          PROVE  ServiceInv'
      <3>1. /\ serviceCli' \in Commands /\ serviceCli'.pc = p /\ serviceCli'.gen = serviceCli.gen /\ serviceCli'.op = serviceCli.op
            /\ serviceCli'.base = serviceCli.base /\ serviceCli'.overtaken = serviceCli.overtaken /\ serviceCli'.left = serviceCli.left
        BY <1>0, <2>4 DEF Commands
      <3> QED BY <2>0, <2>4, <3>1, Zenon DEF ServiceInv, ConfigInv, GenerationInv, ProcessInv
    <2> QED BY <1>1, <2>1, <2>2, <2>3, <2>4, Zenon DEF Service!Dispatch
  <1>2. CASE Service!Elevate
    <2>0. serviceCli.pc = "ask"
      BY <1>2, Zenon DEF Service!Elevate
    <2>1. CASE Service!elevated_install_failed
      BY <2>0, <2>1, <1>a, Zenon DEF Service!elevated_install_failed
    <2>2. CASE Service!install_worker
      <3>0. Service!next_action("system") \in {"none", "reuse", "start_or_repair", "install"}
        BY Zenon DEF Service!next_action
      <3>1. /\ serviceCli' \in Commands /\ serviceCli'.pc = "resolved" /\ serviceCli'.gen = serviceCli.gen
            /\ serviceCli'.base = serviceHost.config /\ serviceCli'.overtaken = serviceCli.overtaken /\ serviceCli'.left = serviceCli.left
        <4> DEFINE a == Service!next_action("system")
        <4>1. serviceCli' = [serviceCli EXCEPT !.pc = "resolved", !.op = "install", !.admin = TRUE, !.worker = TRUE, !.elevate = FALSE,
                       !.action = a, !.base = serviceHost.config]
          BY <2>2, Zenon DEF Service!install_worker
        <4> HIDE DEF a
        <4>2. a \in {"none", "reuse", "start_or_repair", "install"}
          BY <3>0, Zenon DEF a
        <4>3. serviceHost.config \in Service!Contents
          BY <2>0, Zenon DEF ServiceInv, ConfigInv, Hosts
        <4> QED BY <1>0, <4>1, <4>2, <4>3, Zenon DEF Commands, Service!Ops
      <3> QED BY <2>0, <3>1, Zenon DEF ServiceInv, ConfigInv, GenerationInv, ProcessInv
    <2> QED BY <1>2, <2>1, <2>2, Zenon DEF Service!Elevate
  <1>3. CASE Service!Health
    <2>0. serviceCli.pc = "health"
      BY <1>3, Zenon DEF Service!Health
    <2>1. CASE Service!Finish("ok")
      BY <2>0, <2>1, <1>a, Zenon
    <2>2. CASE serviceCli' = [serviceCli EXCEPT !.pc = "done", !.result = "failed", !.left = "health"]
      <3>1. /\ serviceCli' \in Commands /\ serviceCli'.pc = "done" /\ serviceCli'.result = "failed" /\ serviceCli'.left = "health"
            /\ serviceCli'.gen = serviceCli.gen /\ serviceCli'.scope = serviceCli.scope /\ serviceCli'.overtaken = serviceCli.overtaken
        BY <1>0, <2>2, Zenon DEF Commands
      <3> QED BY <2>0, <3>1, Zenon DEF ServiceInv, ConfigInv, GenerationInv, ProcessInv
    <2> QED BY <1>3, <2>1, <2>2, Zenon DEF Service!Health
  <1>4. CASE Service!ControlFails
    BY <1>4, <1>a, Zenon DEF Service!ControlFails
  <1>5. CASE Service!Again
    <2>1. serviceCli' = [Service!Idle EXCEPT !.gen = serviceCli.gen] /\ serviceCli.gen \in 0 .. MaxCommands
      BY <1>0, <1>5, Zenon DEF Service!Again, Commands
    <2>2. serviceCli' \in Commands /\ serviceCli'.pc = "idle" /\ serviceCli'.gen = serviceCli.gen /\ serviceCli'.left = "none"
      BY <2>1, NoCommand, Zenon DEF Commands
    <2> QED BY <2>2, Zenon DEF ServiceInv, ConfigInv, GenerationInv, ProcessInv
  <1> QED BY <1>1, <1>2, <1>3, <1>4, <1>5, Zenon

\* A command is entered.
LEMMA EnterStep ==
    ASSUME ServiceInv, NEW op \in Service!Ops, NEW requested \in Service!Scopes \cup {"auto"}, NEW admin \in BOOLEAN,
           NEW elevate \in BOOLEAN, NEW copy \in BOOLEAN, Service!Enter(op, requested, admin, elevate, copy)
    PROVE  ServiceInv'
  <1> DEFINE s == Service!select_scope(requested, admin)
             a == Service!next_action(s)
  <1>1. s \in Service!Scopes /\ a \in {"none", "reuse", "start_or_repair", "install"}
    BY Zenon DEF Service!select_scope, Service!next_action, Service!Scopes
  <1>2. /\ serviceCli' = [Service!Idle EXCEPT !.pc = "resolved", !.op = op, !.scope = s, !.admin = admin,
                           !.elevate = elevate, !.copy = copy, !.action = a, !.gen = serviceCli.gen + 1,
                           !.base = serviceHost.config]
        /\ UNCHANGED <<serviceHost, serviceMgr>> /\ serviceCli.gen < MaxCommands
    BY Zenon DEF Service!Enter
  <1> HIDE DEF s, a
  <1>3. serviceCli.gen + 1 \in 0 .. MaxCommands /\ serviceHost.config \in Service!Contents /\ serviceCli.gen \in Nat
    BY <1>2, ServiceConstants DEF ServiceInv, Commands, Hosts
  <1>4. serviceCli' \in Commands /\ serviceCli'.pc = "resolved" /\ serviceCli'.gen = serviceCli.gen + 1 /\ serviceCli'.base = serviceHost.config
        /\ serviceCli'.left = "none"
    BY <1>1, <1>2, <1>3, NoCommand, ZenonT(30) DEF Commands
  <1>5. GenerationInv'
    <2>1. \A t \in Service!Scopes : serviceMgr[t].file \in Int /\ serviceMgr[t].loaded \in Int
      BY DEF ServiceInv, Units
    <2> QED BY <1>2, <1>3, <1>4, <2>1 DEF ServiceInv, GenerationInv
  <1> QED BY <1>2, <1>4, <1>5, Zenon DEF ServiceInv, ConfigInv, ProcessInv

\* Definitions that a step may leave: none of a later command.
Tame(m) == m \in [Service!Scopes -> Units] /\ \A s \in Service!Scopes : m[s].file <= serviceCli.gen /\ m[s].loaded <= serviceCli.gen

LEMMA TameSteps ==
    ASSUME ServiceInv, NEW m, Tame(m), NEW s \in Service!Scopes
    PROVE  /\ Tame([m EXCEPT ![s].file = 0])
           /\ Tame([m EXCEPT ![s].want = FALSE])
           /\ Tame([m EXCEPT ![s].want = TRUE])
           /\ Tame([m EXCEPT ![s].proc = 0])
           /\ Tame([m EXCEPT ![s].loaded = 0, ![s].want = FALSE])
           /\ Tame([m EXCEPT ![s].proc = 0, ![s].want = FALSE])
           /\ Tame([m EXCEPT ![s].file = 0, ![s].loaded = 0, ![s].want = FALSE, ![s].proc = 0])
           /\ Tame([m EXCEPT ![s].proc = m[s].loaded])
           /\ Tame([m EXCEPT ![s].loaded = m[s].file])
           /\ Tame(Service!Started(m, s))
  <1>0. /\ serviceCli.gen \in 0 .. MaxCommands /\ serviceCli.copy \in BOOLEAN /\ 0 \in 0 .. MaxCommands
        /\ 0 <= serviceCli.gen /\ m[s] \in Units /\ m[s].file <= serviceCli.gen /\ m[s].loaded <= serviceCli.gen
    BY ServiceConstants DEF ServiceInv, Commands, Tame
  <1>1. ASSUME NEW u \in Units, u.file <= serviceCli.gen, u.loaded <= serviceCli.gen PROVE Tame([m EXCEPT ![s] = u])
    BY <1>1, Zenon DEF Tame
  <1>2. /\ Tame([m EXCEPT ![s].file = 0]) /\ Tame([m EXCEPT ![s].want = FALSE])
        /\ Tame([m EXCEPT ![s].want = TRUE]) /\ Tame([m EXCEPT ![s].proc = 0])
    <2>1. [m[s] EXCEPT !.file = 0] \in Units /\ [m[s] EXCEPT !.file = 0].file = 0
          /\ [m[s] EXCEPT !.file = 0].loaded = m[s].loaded
      BY <1>0, Zenon DEF Units
    <2>2. \A b \in BOOLEAN : /\ [m[s] EXCEPT !.want = b] \in Units /\ [m[s] EXCEPT !.want = b].file = m[s].file
                             /\ [m[s] EXCEPT !.want = b].loaded = m[s].loaded
      BY <1>0, Zenon DEF Units
    <2>3. [m[s] EXCEPT !.proc = 0] \in Units /\ [m[s] EXCEPT !.proc = 0].file = m[s].file
          /\ [m[s] EXCEPT !.proc = 0].loaded = m[s].loaded
      BY <1>0, Zenon DEF Units
    <2> QED BY <1>0, <1>1, <2>1, <2>2, <2>3, Zenon
  <1>3. Tame([m EXCEPT ![s].loaded = 0, ![s].want = FALSE])
    <2> DEFINE u == [m[s] EXCEPT !.loaded = 0, !.want = FALSE]
    <2>1. u \in Units /\ u.file \in {0, m[s].file} /\ u.loaded \in {0, m[s].loaded}
      BY <1>0, Zenon DEF Units
    <2>2. [m EXCEPT ![s].loaded = 0, ![s].want = FALSE] = [m EXCEPT ![s] = u]
      BY Zenon DEF Tame
    <2> HIDE DEF u
    <2> QED BY <1>0, <1>1, <2>1, <2>2, Zenon
  <1>4. Tame([m EXCEPT ![s].proc = 0, ![s].want = FALSE])
    <2> DEFINE u == [m[s] EXCEPT !.proc = 0, !.want = FALSE]
    <2>1. u \in Units /\ u.file \in {0, m[s].file} /\ u.loaded \in {0, m[s].loaded}
      BY <1>0, Zenon DEF Units
    <2>2. [m EXCEPT ![s].proc = 0, ![s].want = FALSE] = [m EXCEPT ![s] = u]
      BY Zenon DEF Tame
    <2> HIDE DEF u
    <2> QED BY <1>0, <1>1, <2>1, <2>2, Zenon
  <1>5. Tame([m EXCEPT ![s].file = 0, ![s].loaded = 0, ![s].want = FALSE, ![s].proc = 0])
    <2> DEFINE u == [m[s] EXCEPT !.file = 0, !.loaded = 0, !.want = FALSE, !.proc = 0]
    <2>1. u \in Units /\ u.file \in {0, m[s].file} /\ u.loaded \in {0, m[s].loaded}
      BY <1>0, Zenon DEF Units
    <2>2. [m EXCEPT ![s].file = 0, ![s].loaded = 0, ![s].want = FALSE, ![s].proc = 0] = [m EXCEPT ![s] = u]
      BY Zenon DEF Tame
    <2> HIDE DEF u
    <2> QED BY <1>0, <1>1, <2>1, <2>2, Zenon
  <1>6. Tame([m EXCEPT ![s].proc = m[s].loaded]) /\ Tame([m EXCEPT ![s].loaded = m[s].file])
    BY <1>0, <1>1, Zenon DEF Tame, Units
  <1>7. Tame(Service!Started(m, s))
    <2> DEFINE h == IF serviceCli.gen = m[s].loaded THEN serviceCli.copy ELSE m[s].home
               u == [m[s] EXCEPT !.want = TRUE, !.proc = m[s].loaded, !.home = h]
    <2>1. h \in BOOLEAN
      BY <1>0, Zenon DEF Units
    <2>2. Service!Started(m, s) = [m EXCEPT ![s] = u]
      BY Zenon DEF Service!Started, Tame
    <2> HIDE DEF h
    <2>3. u \in Units /\ u.file <= serviceCli.gen /\ u.loaded <= serviceCli.gen
      BY <1>0, <2>1, Zenon DEF Tame, Units
    <2> HIDE DEF u
    <2> QED BY <1>1, <2>2, <2>3, Zenon
  <1> QED BY <1>2, <1>3, <1>4, <1>5, <1>6, <1>7, Zenon

\* Removal, start and stop: whatever they leave, the command is no install.
LEMMA ControlSteps ==
    ASSUME ServiceInv, Service!Uninstall \/ Service!Control
    PROVE  ServiceInv'
  <1> DEFINE s == serviceCli.scope
  <1>0. serviceCli \in Commands /\ s \in Service!Scopes /\ Tame(serviceMgr)
    BY Zenon DEF ServiceInv, Commands, GenerationInv, Tame
  <1>1. UNCHANGED serviceHost /\ Service!Finish("ok") /\ serviceCli.op \notin {"install", "ensure"}
    BY Zenon DEF Service!Uninstall, Service!Control, ServiceInv
  <1>2. /\ serviceCli' \in Commands /\ serviceCli'.pc = "done" /\ serviceCli'.result = "ok" /\ serviceCli'.gen = serviceCli.gen
        /\ serviceCli'.op = serviceCli.op /\ serviceCli'.left = "none"
    <2>1. serviceCli.left = "none"
      BY Zenon DEF ServiceInv, ConfigInv, Service!Uninstall, Service!Control
    <2> QED BY <1>0, <1>1, <2>1, Zenon DEF Service!Finish, Commands
  <1>3. Tame(serviceMgr')
    <2>1. CASE Service!Uninstall
      <3>0. \A m : Tame(m) => Tame([m EXCEPT ![s].file = 0])
        BY <1>0, TameSteps, Zenon
      <3>1. Tame(Service!Gone(s)) /\ \A m \in Service!DisableUnitFiles(s) : Tame(m)
        <4>1. Tame([serviceMgr EXCEPT ![s].file = 0, ![s].loaded = 0, ![s].want = FALSE, ![s].proc = 0])
          BY <1>0, TameSteps, Zenon
        <4>2. Tame([serviceMgr EXCEPT ![s].want = FALSE])
          BY <1>0, TameSteps, Zenon
        <4> QED BY <1>0, <4>1, <4>2, Zenon DEF Service!Gone, Service!DisableUnitFiles
      <3>2. Service!SystemdUninstall(s) => Tame(serviceMgr')
        BY <3>0, <3>1, Zenon DEF Service!SystemdUninstall
      <3>3. Service!LaunchdUninstall(s) => Tame(serviceMgr')
        BY <1>0, <3>1, TameSteps, Zenon DEF Service!LaunchdUninstall
      <3>4. (Service!ScmUninstall(s) => Tame(serviceMgr')) /\ (Service!SchtasksUninstall(s) => Tame(serviceMgr'))
        BY <1>0, <3>1, TameSteps, ZenonT(30) DEF Service!ScmUninstall, Service!SchtasksUninstall
      <3>5. Service!SystemdUninstall(s) \/ Service!LaunchdUninstall(s) \/ Service!ScmUninstall(s) \/ Service!SchtasksUninstall(s)
        BY <2>1, Zenon DEF Service!Uninstall
      <3> QED BY <3>2, <3>3, <3>4, <3>5, Zenon
    <2>2. CASE Service!Control
      <3>1. Service!StartService(s) \/ Service!StopService(s)
        BY <2>2, Zenon DEF Service!Control
      <3>2. Service!StartService(s) => serviceMgr' = serviceMgr \/ serviceMgr' = Service!Started(serviceMgr, s)
        BY Zenon DEF Service!StartService, Service!SystemdStart, Service!LaunchdStart, Service!ScmStart, Service!SchtasksStart
      <3>3. Service!StopService(s) => serviceMgr' = [serviceMgr EXCEPT ![s].proc = 0]
                              \/ serviceMgr' = [serviceMgr EXCEPT ![s].proc = 0, ![s].want = FALSE]
        BY Zenon DEF Service!StopService, Service!LaunchdStop, Service!ScmStop, Service!SystemdStop
      <3>4. /\ Tame(Service!Started(serviceMgr, s)) /\ Tame([serviceMgr EXCEPT ![s].proc = 0])
            /\ Tame([serviceMgr EXCEPT ![s].proc = 0, ![s].want = FALSE])
        BY <1>0, TameSteps, Zenon
      <3> QED BY <1>0, <3>1, <3>2, <3>3, <3>4, Zenon
    <2> QED BY <2>1, <2>2, Zenon
  <1>4. GenerationInv'
    BY <1>2, <1>3, Zenon DEF GenerationInv, Tame
  <1> QED BY <1>1, <1>2, <1>3, <1>4, Zenon DEF ServiceInv, ConfigInv, ProcessInv, Tame

\* What the host does meanwhile: a process ends, or is started from the definition loaded.
LEMMA HostSteps ==
    ASSUME ServiceInv, NEW s \in Service!Scopes, Service!Crash(s) \/ Service!Restart(s)
    PROVE  ServiceInv'
  <1>0. /\ Tame(serviceMgr) /\ Tame([serviceMgr EXCEPT ![s].proc = 0]) /\ Tame([serviceMgr EXCEPT ![s].proc = serviceMgr[s].loaded])
        /\ serviceMgr[s] \in Units /\ serviceCli.scope \in Service!Scopes
    BY TameSteps, Zenon DEF ServiceInv, GenerationInv, Tame, Commands
  <1>1. UNCHANGED <<serviceHost, serviceCli>> /\ Tame(serviceMgr')
    BY <1>0, Zenon DEF Service!Crash, Service!Restart
  <1>2. /\ serviceMgr'[s].loaded = serviceMgr[s].loaded /\ serviceMgr'[s].file = serviceMgr[s].file /\ serviceMgr'[s].want = serviceMgr[s].want
        /\ serviceMgr'[s].proc \in {0, serviceMgr[s].loaded}
        /\ serviceMgr'[s].proc # 0 => serviceMgr[s].want
        /\ \A t \in Service!Scopes : t # s => serviceMgr'[t] = serviceMgr[t]
    BY <1>0 DEF Service!Crash, Service!Restart, ServiceInv, Units
  <1>3. \A t \in Service!Scopes : /\ serviceMgr'[t].loaded = serviceMgr[t].loaded /\ serviceMgr'[t].file = serviceMgr[t].file
                               /\ serviceMgr'[t].want = serviceMgr[t].want
    BY <1>2, Zenon
  <1>4. ProcessInv'
    <2>1. Fresh => Fresh'
      BY <1>0, <1>1, <1>2, Zenon DEF Fresh
    <2>2. serviceMgr[serviceCli.scope].proc = 0 /\ ~serviceMgr[serviceCli.scope].want
             => serviceMgr'[serviceCli.scope].proc = 0 /\ ~serviceMgr'[serviceCli.scope].want
      BY <1>0, <1>2, Zenon
    <2> QED BY <1>1, <2>1, <2>2, Zenon DEF ServiceInv, ProcessInv
  <1>5. GenerationInv'
    BY <1>0, <1>1, <1>3, Zenon DEF ServiceInv, GenerationInv, Tame
  <1> QED BY <1>1, <1>4, <1>5, Zenon DEF ServiceInv, ConfigInv, Tame

\* The daemon saves its configuration: the command is overtaken.
LEMMA SaveStep == ASSUME ServiceInv, Service!DaemonSaves PROVE ServiceInv'
  <1>1. serviceHost' = [serviceHost EXCEPT !.saves = @ + 1, !.config = serviceHost.saves + 1] /\ serviceHost.saves < MaxSaves
        /\ UNCHANGED serviceMgr
    BY Zenon DEF Service!DaemonSaves, Service!Save
  <1>2. serviceHost' \in Hosts /\ serviceHost'.platform = serviceHost.platform
    <2>1. serviceHost.saves + 1 \in 0 .. MaxSaves /\ serviceHost.saves + 1 \in Service!Contents
      BY <1>1, ServiceConstants DEF ServiceInv, Hosts, Service!Contents
    <2> QED BY <1>1, <2>1, Zenon DEF ServiceInv, Hosts
  <1> DEFINE b == serviceCli.pc # "idle"
  <1>3. serviceCli' = [serviceCli EXCEPT !.overtaken = b] /\ b \in BOOLEAN /\ (serviceCli.pc # "idle" => b)
    BY Zenon DEF Service!DaemonSaves
  <1> HIDE DEF b
  <1>4. /\ serviceCli' \in Commands /\ serviceCli'.pc = serviceCli.pc /\ serviceCli'.gen = serviceCli.gen /\ serviceCli'.op = serviceCli.op
        /\ serviceCli'.scope = serviceCli.scope /\ serviceCli'.kept = serviceCli.kept /\ serviceCli'.result = serviceCli.result
        /\ serviceCli'.overtaken = b /\ serviceCli'.left = serviceCli.left
    BY <1>3, Zenon DEF ServiceInv, Commands
  <1>5. ConfigInv'
    BY <1>2, <1>3, <1>4, Zenon DEF ServiceInv, ConfigInv
  <1>6. GenerationInv' /\ ProcessInv'
    BY <1>1, <1>2, <1>4, Zenon DEF ServiceInv, GenerationInv, ProcessInv, Fresh
  <1> QED BY <1>1, <1>2, <1>4, <1>5, <1>6, Zenon DEF ServiceInv

\* The steps of an install or repair.
LEMMA InstallSteps ==
    ASSUME ServiceInv,
           Service!SaveConfig \/ Service!Stage \/ Service!Copy \/ Service!WriteDefinition \/ Service!LoadDefinition \/ Service!StartInstalled \/ Service!Fail \/ Service!Restore
    PROVE  ServiceInv'
  <1> DEFINE s == serviceCli.scope
  <1>0. /\ serviceCli \in Commands /\ serviceHost \in Hosts /\ Tame(serviceMgr) /\ serviceMgr \in [Service!Scopes -> Units]
        /\ s \in Service!Scopes /\ serviceCli.gen \in 0 .. MaxCommands /\ serviceMgr[s] \in Units
    BY Zenon DEF ServiceInv, GenerationInv, Tame, Commands
  <1>a. ASSUME NEW p \in {"stage", "copy", "write", "load", "undo"}, serviceCli.pc # "done", serviceCli' = [serviceCli EXCEPT !.pc = p]
        PROVE  /\ serviceCli' \in Commands /\ serviceCli'.pc = p /\ serviceCli'.gen = serviceCli.gen
               /\ serviceCli'.snap = serviceCli.snap /\ serviceCli'.base = serviceCli.base /\ serviceCli'.overtaken = serviceCli.overtaken
               /\ serviceCli'.scope = serviceCli.scope /\ serviceCli'.kept = serviceCli.kept /\ serviceCli'.left = "none"
    <2>1. serviceCli.left = "none"
      BY <1>a, Zenon DEF ServiceInv, ConfigInv
    <2> QED BY <1>0, <1>a, <2>1 DEF Commands
  <1>1. CASE Service!SaveConfig
    <2>1. /\ serviceHost' = [serviceHost EXCEPT !.saves = @ + 1, !.config = serviceHost.saves + 1] /\ serviceHost.saves < MaxSaves
          /\ UNCHANGED serviceMgr /\ serviceCli.pc = "save" /\ serviceCli' = [serviceCli EXCEPT !.pc = "stage"]
      BY <1>1, Zenon DEF Service!SaveConfig, Service!Save
    <2>2. serviceHost' \in Hosts /\ serviceHost'.config = serviceHost'.saves
      <3>1. serviceHost.saves + 1 \in 0 .. MaxSaves /\ serviceHost.saves + 1 \in Service!Contents
        BY <1>0, <2>1, ServiceConstants DEF Hosts, Service!Contents
      <3> QED BY <1>0, <2>1, <3>1, Zenon DEF Hosts
    <2> QED BY <2>1, <2>2, <1>a, Zenon DEF ServiceInv, ConfigInv, GenerationInv, ProcessInv
  <1>2. CASE Service!Stage
    <2>1. UNCHANGED serviceHost /\ serviceCli.pc = "stage" /\ serviceCli' = [serviceCli EXCEPT !.pc = "copy"]
      BY <1>2, Zenon DEF Service!Stage
    <2>2. /\ Tame(serviceMgr') /\ \A t \in Service!Scopes : serviceMgr'[t].loaded = serviceMgr[t].loaded
          /\ serviceHost.platform = "windows" => serviceMgr'[s].proc = 0 /\ ~serviceMgr'[s].want
      <3>1. CASE serviceHost.platform = "windows"
        <4>1. serviceMgr' = [serviceMgr EXCEPT ![s].proc = 0, ![s].want = FALSE]
          BY <1>2, <3>1, Zenon DEF Service!Stage, Service!Stopped
        <4>2. Tame(serviceMgr')
          BY <1>0, <4>1, TameSteps, Zenon
        <4>3. /\ serviceMgr'[s].loaded = serviceMgr[s].loaded /\ serviceMgr'[s].proc = 0 /\ serviceMgr'[s].want = FALSE
              /\ \A t \in Service!Scopes : t # s => serviceMgr'[t] = serviceMgr[t]
          BY <1>0, <4>1, Zenon DEF Units
        <4> QED BY <4>2, <4>3, Zenon
      <3>2. CASE serviceHost.platform # "windows"
        BY <1>0, <1>2, <3>2, Zenon DEF Service!Stage
      <3> QED BY <3>1, <3>2, Zenon
    <2>3. serviceCli'.scope = s /\ serviceCli'.gen = serviceCli.gen
      BY <2>1, <1>a, Zenon
    <2>4. GenerationInv'
      BY <2>1, <2>2, <1>a, Zenon DEF ServiceInv, GenerationInv, Tame
    <2>5. ConfigInv' /\ ProcessInv'
      BY <2>1, <2>2, <1>a, Zenon DEF ServiceInv, ConfigInv, ProcessInv
    <2> QED BY <2>1, <2>2, <2>4, <2>5, <1>a, Zenon DEF ServiceInv, Tame
  <1>8. CASE Service!Copy
    <2>1. UNCHANGED <<serviceHost, serviceMgr>> /\ serviceCli.pc = "copy" /\ serviceCli' = [serviceCli EXCEPT !.pc = "write"]
      BY <1>8, Zenon DEF Service!Copy
    <2> QED BY <2>1, <1>a, Zenon DEF ServiceInv, ConfigInv, GenerationInv, ProcessInv
  <1>3. CASE Service!WriteDefinition
    <2>1. UNCHANGED serviceHost /\ serviceCli.pc = "write" /\ serviceCli' = [serviceCli EXCEPT !.pc = "load"]
      BY <1>3, Zenon DEF Service!WriteDefinition
    <2>2. IF serviceHost.platform = "windows" THEN serviceMgr' = [serviceMgr EXCEPT ![s].loaded = serviceCli.gen]
                                       ELSE serviceMgr' = [serviceMgr EXCEPT ![s].file = serviceCli.gen]
      <3>1. /\ Service!Manager(s) \in {"systemd", "launchd"} => serviceMgr' = [serviceMgr EXCEPT ![s].file = serviceCli.gen]
            /\ Service!Manager(s) \notin {"systemd", "launchd"} => serviceMgr' = [serviceMgr EXCEPT ![s].loaded = serviceCli.gen]
        BY <1>3, Zenon DEF Service!WriteDefinition, Service!WriteUnit, Service!WritePlist, Service!CreateService, Service!CreateTask
      <3>2. serviceHost.platform = "windows" <=> Service!Manager(s) \notin {"systemd", "launchd"}
        BY <1>0, Zenon DEF Service!Manager, Hosts, Service!Platforms
      <3> QED BY <3>1, <3>2, Zenon
    <2>3. /\ serviceMgr' \in [Service!Scopes -> Units] /\ serviceMgr'[s].proc = serviceMgr[s].proc /\ serviceMgr'[s].want = serviceMgr[s].want
          /\ serviceMgr'[s].file \in {serviceMgr[s].file, serviceCli.gen} /\ serviceMgr'[s].loaded \in {serviceMgr[s].loaded, serviceCli.gen}
          /\ IF serviceHost.platform = "windows" THEN serviceMgr'[s].loaded = serviceCli.gen ELSE serviceMgr'[s].file = serviceCli.gen
          /\ \A t \in Service!Scopes : t # s => serviceMgr'[t] = serviceMgr[t]
      BY <1>0, <2>2 DEF Units
    <2>4. GenerationInv'
      BY <1>0, <2>1, <2>3, <1>a DEF GenerationInv, Tame
    <2>5. ConfigInv' /\ ProcessInv'
      BY <2>1, <2>3, <1>a, Zenon DEF ServiceInv, ConfigInv, ProcessInv
    <2> QED BY <2>1, <2>3, <2>4, <2>5, <1>a, Zenon DEF ServiceInv
  <1>4. CASE Service!LoadDefinition
    <2> DEFINE k == Service!Manager(s) = "systemd" /\ serviceMgr[s].proc # 0
    <2>1. UNCHANGED serviceHost /\ serviceCli.pc = "load" /\ serviceCli' = [serviceCli EXCEPT !.pc = "start", !.kept = k] /\ k \in BOOLEAN
      BY <1>4, Zenon DEF Service!LoadDefinition
    <2>2. k <=> Service!Manager(s) = "systemd" /\ serviceMgr[s].proc # 0
      BY Zenon
    <2> HIDE DEF k
    <2>3. /\ serviceCli' \in Commands /\ serviceCli'.pc = "start" /\ serviceCli'.gen = serviceCli.gen
          /\ serviceCli'.snap = serviceCli.snap /\ serviceCli'.base = serviceCli.base /\ serviceCli'.overtaken = serviceCli.overtaken
          /\ serviceCli'.scope = serviceCli.scope /\ serviceCli'.kept = k /\ serviceCli'.left = serviceCli.left
      BY <1>0, <2>1, Zenon DEF Commands
    <2>4. \/ Service!Manager(s) = "systemd" /\ serviceMgr' = [serviceMgr EXCEPT ![s].loaded = serviceMgr[s].file]
          \/ Service!Manager(s) = "launchd" /\ Service!Bootstrap(s)
          \/ Service!Manager(s) \notin {"systemd", "launchd"} /\ UNCHANGED serviceMgr
      BY <1>4, Zenon DEF Service!LoadDefinition, Service!Reload
    <2>9. serviceHost.platform = "windows" <=> Service!Manager(s) \notin {"systemd", "launchd"}
      BY <1>0, Zenon DEF Service!Manager, Hosts, Service!Platforms
    <2>10. IF serviceHost.platform = "windows" THEN serviceMgr[s].loaded = serviceCli.gen ELSE serviceMgr[s].file = serviceCli.gen
      BY <2>1, Zenon DEF ServiceInv, GenerationInv
    <2>5. Tame(serviceMgr') /\ serviceMgr'[s].loaded = serviceCli.gen /\ (~k => serviceMgr'[s].proc \in {0, serviceCli.gen})
      <3>1. CASE Service!Manager(s) = "systemd" /\ serviceMgr' = [serviceMgr EXCEPT ![s].loaded = serviceMgr[s].file]
        <4>1. Tame(serviceMgr')
          BY <1>0, <3>1, TameSteps, Zenon
        <4>2. serviceMgr'[s].proc = serviceMgr[s].proc /\ serviceMgr'[s].loaded = serviceMgr[s].file
          BY <1>0, <3>1, Zenon DEF Units
        <4> QED BY <2>2, <2>9, <2>10, <3>1, <4>1, <4>2, Zenon
      <3>2. CASE Service!Manager(s) = "launchd" /\ Service!Bootstrap(s)
        <4> DEFINE m == [serviceMgr EXCEPT ![s].loaded = serviceMgr[s].file]
        <4>1. Tame(m) /\ Tame(Service!Started(m, s))
          BY <1>0, TameSteps, Zenon
        <4>2. serviceMgr' = Service!Started(m, s)
          BY <3>2, ZenonT(30) DEF Service!Bootstrap
        <4>4. m[s].loaded = serviceMgr[s].file
          BY <1>0, Zenon DEF Units
        <4> HIDE DEF m
        <4>3. serviceMgr'[s].proc = m[s].loaded /\ serviceMgr'[s].loaded = m[s].loaded
          BY <1>0, <4>1, <4>2 DEF Service!Started, Tame, Units
        <4> QED BY <2>9, <2>10, <3>2, <4>1, <4>2, <4>3, <4>4, Zenon
      <3>3. CASE Service!Manager(s) \notin {"systemd", "launchd"} /\ UNCHANGED serviceMgr
        <4>1. serviceHost.platform = "windows"
          BY <1>0, <3>3, Zenon DEF Service!Manager, Hosts, Service!Platforms
        <4> QED BY <1>0, <2>1, <2>10, <3>3, <4>1, Zenon DEF ServiceInv, ProcessInv
      <3> QED BY <2>4, <3>1, <3>2, <3>3, Zenon
    <2>6. GenerationInv'
      BY <2>3, <2>5, Zenon DEF GenerationInv, Tame
    <2>7. ConfigInv' /\ ProcessInv'
      BY <2>1, <2>3, <2>5, Zenon DEF ServiceInv, ConfigInv, ProcessInv, Fresh
    <2> QED BY <2>1, <2>3, <2>5, <2>6, <2>7, Zenon DEF ServiceInv, Tame
  <1>5. CASE Service!StartInstalled
    <2>1. UNCHANGED serviceHost /\ serviceCli.pc = "start" /\ Fresh
      BY <1>5, Zenon DEF Service!StartInstalled, ServiceInv, ProcessInv
    <2>2. serviceCli' = [serviceCli EXCEPT !.pc = "health"] \/ Service!Finish("ok")
      BY <1>5, Zenon DEF Service!StartInstalled
    <2>3. /\ serviceCli' \in Commands /\ serviceCli'.pc \in {"health", "done"} /\ serviceCli'.gen = serviceCli.gen
          /\ serviceCli'.scope = serviceCli.scope /\ serviceCli'.kept = serviceCli.kept /\ (serviceCli'.pc = "done" => serviceCli'.result = "ok")
          /\ serviceCli'.left = serviceCli.left /\ serviceCli'.overtaken = serviceCli.overtaken
      BY <1>0, <2>2, Zenon DEF Commands, Service!Finish
    <2>9. serviceMgr[s].loaded = serviceCli.gen /\ serviceCli.left = "none"
      BY <2>1, Zenon DEF ServiceInv, ConfigInv, GenerationInv
    <2>4. \/ serviceMgr[s].proc # 0 /\ serviceMgr' = [serviceMgr EXCEPT ![s].want = TRUE]
          \/ serviceMgr[s].proc = 0 /\ serviceMgr' = Service!Started(serviceMgr, s)
      BY <1>5, Zenon DEF Service!StartInstalled
    <2>5. Tame(serviceMgr') /\ serviceMgr'[s].loaded = serviceMgr[s].loaded /\ serviceMgr'[s].proc \in {serviceMgr[s].proc, serviceMgr[s].loaded}
      <3>1. CASE serviceMgr' = [serviceMgr EXCEPT ![s].want = TRUE]
        <4>1. Tame(serviceMgr')
          BY <1>0, <3>1, TameSteps, Zenon
        <4>2. serviceMgr'[s].loaded = serviceMgr[s].loaded /\ serviceMgr'[s].proc = serviceMgr[s].proc
          BY <1>0, <3>1, Zenon DEF Units
        <4> QED BY <4>1, <4>2, Zenon
      <3>2. CASE serviceMgr' = Service!Started(serviceMgr, s)
        <4>1. Tame(serviceMgr')
          BY <1>0, <3>2, TameSteps, Zenon
        <4>2. serviceMgr'[s].loaded = serviceMgr[s].loaded /\ serviceMgr'[s].proc = serviceMgr[s].loaded
          BY <1>0, <3>2, Zenon DEF Units, Service!Started
        <4> QED BY <4>1, <4>2, Zenon
      <3> QED BY <2>4, <3>1, <3>2, Zenon
    <2>6. GenerationInv'
      BY <2>3, <2>5, <2>9, Zenon DEF GenerationInv, Tame
    <2>7. Fresh'
      BY <2>1, <2>3, <2>5, Zenon DEF Fresh
    <2>8. ConfigInv' /\ ProcessInv'
      BY <2>1, <2>3, <2>7, <2>9, Zenon DEF ServiceInv, ConfigInv, ProcessInv
    <2> QED BY <2>1, <2>3, <2>5, <2>6, <2>8, Zenon DEF ServiceInv, Tame
  <1>6. CASE Service!Fail
    <2>1. /\ serviceCli' = [serviceCli EXCEPT !.pc = "undo"]
          /\ serviceCli.pc \in {"save", "stage", "copy", "write", "load", "start"}
          /\ serviceMgr' = serviceMgr \/ serviceMgr' = Service!Stopped(s)
      BY <1>6, Zenon DEF Service!Fail
    <2>2. serviceHost' \in Hosts /\ serviceHost'.config = serviceHost.config
      BY <1>0, <1>6, ServiceConstants DEF Service!Fail, Hosts
    <2>3. Tame(serviceMgr')
      <3>1. Tame([serviceMgr EXCEPT ![s].proc = 0, ![s].want = FALSE])
        BY <1>0, TameSteps, Zenon
      <3> QED BY <1>0, <2>1, <3>1, Zenon DEF Service!Stopped
    <2>4. GenerationInv'
      BY <2>1, <2>3, <1>a, Zenon DEF GenerationInv, Tame
    <2> QED BY <2>1, <2>2, <2>3, <2>4, <1>a, Zenon DEF ServiceInv, ConfigInv, ProcessInv, Tame
  <1>7. CASE Service!Restore
    <2>0. serviceCli.pc = "undo" /\ UNCHANGED serviceMgr
      BY <1>7, Zenon DEF Service!Restore
    <2>1. CASE serviceHost' = [serviceHost EXCEPT !.config = serviceCli.snap] /\ Service!Finish("failed")
      <3>1. serviceHost' \in Hosts /\ serviceHost'.config = serviceCli.snap
        BY <1>0, <2>1, Zenon DEF Hosts, Commands
      <3>2. /\ serviceCli' \in Commands /\ serviceCli'.pc = "done" /\ serviceCli'.gen = serviceCli.gen /\ serviceCli'.result = "failed"
            /\ serviceCli'.base = serviceCli.base /\ serviceCli'.overtaken = serviceCli.overtaken /\ serviceCli'.left = serviceCli.left
        BY <1>0, <2>1, Zenon DEF Service!Finish, Commands
      <3> QED BY <2>0, <3>1, <3>2, Zenon DEF ServiceInv, ConfigInv, GenerationInv, ProcessInv
    <2>2. CASE /\ serviceHost.faults < Faults
               /\ \E c \in {serviceHost.config, Service!Torn} : serviceHost' = [serviceHost EXCEPT !.config = c, !.faults = @ + 1]
               /\ serviceCli' = [serviceCli EXCEPT !.pc = "done", !.result = "failed", !.left = "restore"]
      <3>1. PICK c \in {serviceHost.config, Service!Torn} : serviceHost' = [serviceHost EXCEPT !.config = c, !.faults = @ + 1]
        BY <2>2, Zenon
      <3>2. serviceHost.faults + 1 \in 0 .. Faults /\ c \in Service!Contents
        BY <1>0, <2>2, <3>1, ServiceConstants DEF Hosts, Service!Contents
      <3>3. serviceHost' \in Hosts
        BY <1>0, <3>1, <3>2, Zenon DEF Hosts
      <3>4. /\ serviceCli' \in Commands /\ serviceCli'.pc = "done" /\ serviceCli'.gen = serviceCli.gen /\ serviceCli'.result = "failed"
            /\ serviceCli'.left = "restore"
        BY <1>0, <2>2, Zenon DEF Commands
      <3> QED BY <2>0, <3>3, <3>4, Zenon DEF ServiceInv, ConfigInv, GenerationInv, ProcessInv
    <2> QED BY <1>7, <2>1, <2>2, Zenon DEF Service!Restore
  <1> QED BY <1>1, <1>2, <1>3, <1>4, <1>5, <1>6, <1>7, <1>8, Zenon

LEMMA ServiceSteps == ServiceInv /\ [Service!ServiceNext]_(Service!serviceVars) => ServiceInv'
  <1> SUFFICES ASSUME ServiceInv, [Service!ServiceNext]_(Service!serviceVars) PROVE ServiceInv'
    BY Zenon
  <1>1. ASSUME NEW op \in Service!Ops \ {"none"}, NEW requested \in Service!Scopes \cup {"auto"}, NEW admin \in BOOLEAN,
               NEW elevate \in BOOLEAN, NEW copy \in BOOLEAN, Service!Enter(op, requested, admin, elevate, copy)
        PROVE  ServiceInv'
    BY <1>1, EnterStep, Zenon
  <1>2. CASE Service!Dispatch \/ Service!Elevate \/ Service!Health \/ Service!ControlFails \/ Service!Again
    <2>1. UNCHANGED <<serviceHost, serviceMgr>>
      BY <1>2, Zenon DEF Service!Dispatch, Service!Elevate, Service!Health, Service!ControlFails, Service!Again
    <2> QED BY <1>2, <2>1, CommandSteps, Zenon
  <1>3. CASE Service!SaveConfig \/ Service!Stage \/ Service!Copy \/ Service!WriteDefinition \/ Service!LoadDefinition \/ Service!StartInstalled \/ Service!Fail \/ Service!Restore
    BY <1>3, InstallSteps, Zenon
  <1>4. CASE Service!Uninstall \/ Service!Control
    BY <1>4, ControlSteps, Zenon
  <1>5. ASSUME NEW s \in Service!Scopes, Service!Crash(s) \/ Service!Restart(s) PROVE ServiceInv'
    BY <1>5, HostSteps, Zenon
  <1>6. CASE Service!DaemonSaves
    BY <1>6, SaveStep, Zenon
  <1>7. CASE UNCHANGED Service!serviceVars
    BY <1>7 DEF Service!serviceVars, ServiceInv, ConfigInv, GenerationInv, ProcessInv, Fresh
  <1> QED BY <1>1, <1>2, <1>3, <1>4, <1>5, <1>6, <1>7, Zenon DEF Service!ServiceNext, Service!Step

INSTANCE FiniteSetTheorems

-----------------------------------------------------------------------------
(* StateFile: what is acknowledged survives.                               *)

Saving == {"create", "write", "replace", "rename"}

(* The inductive invariant.  The version in memory is ahead of the file    *)
(* while it is saved and never behind it while the daemon is up; a file    *)
(* that does not parse was damaged, and nothing is promised about it.      *)
IInv ==
  /\ TypeOK
  /\ pc # "down" => mem >= file
  /\ pc \in Saving => mem > file /\ mem > 0
  /\ file # Corrupt => file >= acked
  /\ file = Corrupt => damage = "done" /\ acked = 0

(* The daemon starts with no file: nothing to be saved or lost.            *)
LEMMA InitInv == Init => IInv
BY DEF Init, IInv, TypeOK, PCs, Corrupt, Saving

(* Every step of a save, every failure and every crash keeps the           *)
(* invariant, when the rename replaces the target by itself.               *)
LEMMA NextInv ==
  ASSUME Windows = FALSE, IInv, [Next]_vars
  PROVE  IInv'
<1> USE DEF IInv, TypeOK, PCs, Corrupt, Saving
<1>1. CASE Load
  BY <1>1 DEF Load
<1>2. CASE Update
  BY <1>2 DEF Update
<1>3. CASE CreateTemp
  BY <1>3, Zenon DEF CreateTemp
<1>4. CASE WriteTemp
  BY <1>4, Zenon DEF WriteTemp
<1>5. CASE RemoveTarget
  BY <1>5, Zenon DEF RemoveTarget
<1>6. CASE Rename
  BY <1>6 DEF Rename
<1>7. CASE SaveFails
  BY <1>7, Zenon DEF SaveFails
<1>8. CASE Crash
  BY <1>8 DEF Crash
<1>9. CASE Damage
  BY <1>9, Zenon DEF Damage
<1>10. CASE UNCHANGED vars
  BY <1>10, Zenon DEF vars
<1> QED
  BY <1>1, <1>2, <1>3, <1>4, <1>5, <1>6, <1>7, <1>8, <1>9, <1>10, Zenon DEF Next

(* The invariant holds throughout.                                         *)
LEMMA Invariance == ASSUME Windows = FALSE PROVE Spec => []IInv
<1>1. IInv /\ [Next]_vars => IInv'
  BY NextInv, Zenon
<1> QED
  BY InitInv, <1>1, PTL DEF Spec

(* save_text_file_private and load_store: a save that was reported as done *)
(* is in the file after every crash and every failing save.                *)
THEOREM SavesAreDurable == ASSUME Windows = FALSE PROVE Spec => []Durable
<1>1. IInv => Durable
  BY Zenon DEF IInv, Durable, TypeOK, Corrupt
<1> QED
  BY Invariance, <1>1, PTL

(* load_store: a damaged file is set aside before it can be replaced, as   *)
(* the daemon does not come up before it has been.                         *)
THEOREM DamagedFileIsKept == ASSUME Windows = FALSE, Quarantines = TRUE PROVE Spec => []CorruptKept
<1> DEFINE Kept == CorruptKept /\ (pc # "down" => damage # "done")
<1>1. Init => Kept
  BY Zenon DEF Init, CorruptKept
<1>2. ASSUME IInv, Kept, [Next]_vars PROVE Kept'
  <2> USE <1>2 DEF CorruptKept, IInv, TypeOK, Corrupt
  <2>1. CASE Load
    BY <2>1, Zenon DEF Load
  <2>2. CASE Rename
    BY <2>2, Zenon DEF Rename, Saving, PCs
  <2>3. CASE Damage
    BY <2>3, Zenon DEF Damage
  <2>4. CASE Update \/ CreateTemp \/ WriteTemp \/ RemoveTarget \/ SaveFails \/ Crash
             \/ UNCHANGED vars
    BY <2>4, Zenon DEF Update, CreateTemp, WriteTemp, RemoveTarget, SaveFails, Crash, vars
  <2> QED
    BY <2>1, <2>2, <2>3, <2>4 DEF Next
<1> QED
  BY Invariance, <1>1, <1>2, PTL DEF Spec

(* Neither an acknowledged save nor a damaged file that is yet to be set   *)
(* aside is ever lost.                                                     *)
THEOREM FileLosesNothing ==
  ASSUME Windows = FALSE, Quarantines = TRUE PROVE Spec => []NothingIsLost
<1>1. Durable /\ CorruptKept => NothingIsLost
  BY Zenon DEF NothingIsLost
<1> QED
  BY SavesAreDurable, DamagedFileIsKept, <1>1, PTL

(* What readers of the file see is the atomic cell of StateCell: complete  *)
(* versions, each newer than the one before, and one that does not parse   *)
(* only after damage from outside.                                         *)
THEOREM FileImplementsCell == ASSUME Windows = FALSE PROVE Spec => ImplementsCell
<1>1. Init => Cell!Init
  BY Zenon DEF Init, Cell!Init
<1>2. ASSUME IInv, [Next]_vars
      PROVE  [Cell!Next]_<<file, damage # "none">>
  <2> USE <1>2 DEF IInv, TypeOK, Corrupt
  <2>1. CASE Rename
    <3>1. file' \in Nat /\ file' > file /\ damage' = damage
      BY <2>1 DEF Rename, Saving
    <3> QED BY <3>1, Zenon DEF Cell!Next, Cell!Advance
  <2>2. CASE Damage
    BY <2>2, Zenon DEF Damage, Cell!Next, Cell!Damage, Cell!Unreadable
  <2>3. CASE Load
    <3>1. CASE UNCHANGED <<file, damage>>
      BY <3>1, Zenon
    <3>2. CASE file = Corrupt /\ file' = 0 /\ damage' = "kept"
      <4>1. file' \in Nat /\ file' > file
        BY <3>2
      <4> QED BY <3>2, <4>1, Zenon DEF Cell!Next, Cell!Advance
    <3> QED BY <2>3, <3>1, <3>2, Zenon DEF Load
  <2>4. CASE Update \/ CreateTemp \/ WriteTemp \/ RemoveTarget \/ SaveFails \/ Crash
             \/ UNCHANGED vars
    <3>1. UNCHANGED <<file, damage>>
      BY <2>4, Zenon DEF Update, CreateTemp, WriteTemp, RemoveTarget, SaveFails, Crash, vars
    <3> QED BY <3>1, Zenon
  <2> QED
    BY <2>1, <2>2, <2>3, <2>4, Zenon DEF Next
<1> QED
  BY Invariance, <1>1, <1>2, PTL DEF Spec, ImplementsCell, Cell!Spec

-----------------------------------------------------------------------------
(* ReverseLink: one listener, and a delay that doubles.                    *)

HoldsListener(h) == reverseHelper[h] \in {"listening", "deaf"}
HelperType == reverseHelper \in [Reverse!Attempts -> {"none", "starting", "late", "listening", "deaf", "gone"}]

\* The delay after f failures in a row.
Doubled(f) == Reverse!MinOf(BaseDelay * 2 ^ f, Reverse!max_delay)

\* What the loop's delay is worth, wherever the loop is: the counts of attempts and of failures
\* stay within the bound, and the delay is that of the failures counted so far, or of one less
\* while the failure is not yet slept over.
LinkInv ==
    /\ reverseLink = [pc |-> reverseLink.pc, delay |-> reverseLink.delay, n |-> reverseLink.n, reconnect |-> reverseLink.reconnect,
               failures |-> reverseLink.failures]
    /\ reverseLink.pc \in {"connect", "serving", "retry", "ended"}
    /\ reverseLink.delay \in 0 .. Reverse!max_delay /\ reverseLink.n \in 0 .. MaxAttempts /\ reverseLink.reconnect \in BOOLEAN
    /\ reverseLink.failures \in 0 .. reverseLink.n
    /\ reverseLink.pc = "connect" => reverseLink.delay = Doubled(reverseLink.failures)
    /\ reverseLink.pc = "serving" => reverseLink.failures = 0 /\ reverseLink.delay = BaseDelay /\ reverseLink.n >= 1
    /\ reverseLink.pc = "retry" => reverseLink.failures >= 1 /\ reverseLink.delay = Doubled(reverseLink.failures - 1)

\* OneListener is not inductive: the helper that listens must be that of the connection being
\* served, a helper that is still starting too, and none may exist before its attempt.
HelperInv ==
    /\ HelperType
    /\ \A g, h \in Reverse!Attempts : HoldsListener(g) /\ HoldsListener(h) => g = h
    /\ \A h \in Reverse!Attempts : reverseHelper[h] = "listening" => h = reverseLink.n
    /\ \A h \in Reverse!Attempts : reverseHelper[h] \in {"starting", "listening"}
                              => reverseLink.pc = "serving" /\ h = reverseLink.n

ReverseInv == LinkInv /\ HelperInv

\* The first delay, and how one delay follows from the one before.
LEMMA FirstDelay == Doubled(0) = BaseDelay /\ BaseDelay \in 0 .. Reverse!max_delay
  BY ReverseConstants, PowersOfTwo DEF Doubled, Reverse!MinOf, Reverse!max_delay

LEMMA NextDelay ==
    ASSUME NEW f \in 1 .. MaxAttempts
    PROVE  Reverse!MinOf(Doubled(f - 1) * 2, Reverse!max_delay) = Doubled(f) /\ Doubled(f) \in 0 .. Reverse!max_delay
  <1> DEFINE p == 2 ^ (f - 1)
  <1>1. p \in Nat /\ 2 ^ f = 2 * p
    <2>1. f - 1 \in 0 .. MaxAttempts /\ (f - 1) + 1 = f
      BY ReverseConstants
    <2> QED BY <2>1, PowersOfTwo, Zenon
  <1> HIDE DEF p
  <1>2. PICK b \in Nat : b = BaseDelay * p
    BY <1>1, ReverseConstants
  <1>3. BaseDelay * 2 ^ f = 2 * b
    BY <1>1, <1>2, ReverseConstants
  <1>4. Reverse!max_delay \in Nat
    BY ReverseConstants, Zenon DEF Reverse!max_delay
  <1>5. Doubled(f - 1) = Reverse!MinOf(b, Reverse!max_delay) /\ Doubled(f) = Reverse!MinOf(2 * b, Reverse!max_delay)
    BY <1>2, <1>3, Zenon DEF Doubled, p
  <1> QED BY <1>4, <1>5 DEF Reverse!MinOf

\* What a failure does to the loop.
LEMMA FailureIsCounted ==
    ASSUME NEW l, l = [pc |-> l.pc, delay |-> l.delay, n |-> l.n, reconnect |-> l.reconnect,
                       failures |-> l.failures]
    PROVE  /\ Reverse!AfterFailure(l) = [pc |-> Reverse!AfterFailure(l).pc, delay |-> l.delay, n |-> l.n,
                                 reconnect |-> l.reconnect, failures |-> l.failures + 1]
           /\ Reverse!AfterFailure(l).pc \in {"retry", "ended"}
  <1> DEFINE p == IF l.reconnect THEN "retry" ELSE "ended"
  <1>1. p \in {"retry", "ended"}
    BY Zenon
  <1>2. Reverse!AfterFailure(l) = [l EXCEPT !.pc = p, !.failures = @ + 1]
    BY Zenon DEF Reverse!AfterFailure
  <1> HIDE DEF p
  <1> QED BY <1>1, <1>2, Zenon

\* The link starts with the first delay and without a listener.
LEMMA ReverseInitially == Reverse!Init => ReverseInv
  <1> SUFFICES ASSUME Reverse!Init PROVE ReverseInv
    BY Zenon
  <1>1. LinkInv
    BY FirstDelay, ReverseConstants DEF Reverse!Init, LinkInv
  <1>2. HelperInv
    BY Zenon DEF Reverse!Init, HelperInv, HelperType, HoldsListener
  <1> QED BY <1>1, <1>2, Zenon DEF ReverseInv

\* Every step of the link and of the helper keeps the invariant.
LEMMA ReverseSteps == ReverseInv /\ [Reverse!ReverseNext]_(Reverse!reverseVars) => ReverseInv'
  <1> SUFFICES ASSUME ReverseInv, [Reverse!ReverseNext]_(Reverse!reverseVars) PROVE ReverseInv'
    BY Zenon
  <1> USE ReverseConstants DEF Reverse!Attempts
  <1>1. CASE Reverse!Open
    <2>1. reverseLink.pc = "connect" /\ reverseLink.n + 1 \in Reverse!Attempts
      BY <1>1 DEF Reverse!Open, ReverseInv, LinkInv
    <2>2. reverseLink' = [pc |-> "serving", delay |-> BaseDelay, n |-> reverseLink.n + 1,
                   reconnect |-> reverseLink.reconnect, failures |-> 0]
      <3>1. reverseLink' = [reverseLink EXCEPT !.pc = "serving", !.delay = BaseDelay, !.n = @ + 1, !.failures = 0]
        BY <1>1, Zenon DEF Reverse!Open
      <3> QED BY <3>1, Zenon DEF ReverseInv, LinkInv
    <2>3. LinkInv'
      BY <2>1, <2>2, FirstDelay DEF ReverseInv, LinkInv
    <2>4. HelperType' /\ \A h \in Reverse!Attempts : reverseHelper'[h] = IF h = reverseLink.n + 1 THEN "starting" ELSE reverseHelper[h]
      BY <1>1, <2>1, Zenon DEF Reverse!Open, ReverseInv, HelperInv, HelperType
    <2>5. \A h \in Reverse!Attempts : reverseHelper[h] \notin {"starting", "listening"}
      BY <2>1, Zenon DEF ReverseInv, HelperInv
    <2>6. HelperInv'
      BY <2>2, <2>4, <2>5 DEF ReverseInv, HelperInv, HoldsListener
    <2> QED BY <2>3, <2>6, Zenon DEF ReverseInv
  <1>2. CASE Reverse!OpenFails
    <2>1. /\ reverseLink.pc = "connect" /\ reverseLink.n + 1 \in Reverse!Attempts
          /\ reverseLink' = [pc |-> reverseLink'.pc, delay |-> reverseLink.delay, n |-> reverseLink.n + 1,
                      reconnect |-> reverseLink.reconnect, failures |-> reverseLink.failures + 1]
          /\ reverseLink'.pc \in {"retry", "ended"}
      <3> DEFINE l == [reverseLink EXCEPT !.n = @ + 1]
      <3>1. /\ reverseLink.pc = "connect" /\ reverseLink.n < MaxAttempts
            /\ reverseLink' = Reverse!AfterFailure(l)
        BY <1>2, Zenon DEF Reverse!OpenFails
      <3>2. l = [pc |-> reverseLink.pc, delay |-> reverseLink.delay, n |-> reverseLink.n + 1, reconnect |-> reverseLink.reconnect,
                 failures |-> reverseLink.failures]
        BY DEF ReverseInv, LinkInv
      <3> HIDE DEF l
      <3>3. /\ reverseLink' = [pc |-> reverseLink'.pc, delay |-> l.delay, n |-> l.n, reconnect |-> l.reconnect,
                        failures |-> l.failures + 1]
            /\ reverseLink'.pc \in {"retry", "ended"}
        BY <3>1, <3>2, FailureIsCounted, Zenon
      <3> QED BY <3>1, <3>2, <3>3 DEF ReverseInv, LinkInv
    <2>2. LinkInv'
      BY <2>1 DEF ReverseInv, LinkInv
    <2>3. \A h \in Reverse!Attempts : reverseHelper[h] \notin {"starting", "listening"}
      BY <2>1, Zenon DEF ReverseInv, HelperInv
    <2>4. HelperType' /\ \A h \in Reverse!Attempts : reverseHelper'[h] \in {"none", "late", reverseHelper[h]}
      BY <1>2, <2>1, Zenon DEF Reverse!OpenFails, ReverseInv, HelperInv, HelperType
    <2>5. \A h \in Reverse!Attempts : (HoldsListener(h)' => HoldsListener(h)) /\ reverseHelper'[h] \notin {"starting", "listening"}
      BY <2>3, <2>4, Zenon DEF HoldsListener
    <2>6. HelperInv'
      BY <2>4, <2>5, Zenon DEF ReverseInv, HelperInv
    <2> QED BY <2>2, <2>6, Zenon DEF ReverseInv
  <1>3. CASE Reverse!TransportEnds
    <2>1. /\ reverseLink.pc = "serving" /\ reverseLink.n \in Reverse!Attempts
          /\ reverseLink' = [pc |-> reverseLink'.pc, delay |-> reverseLink.delay, n |-> reverseLink.n,
                      reconnect |-> reverseLink.reconnect, failures |-> reverseLink.failures + 1]
          /\ reverseLink'.pc \in {"retry", "ended"}
      BY <1>3, FailureIsCounted DEF Reverse!TransportEnds, ReverseInv, LinkInv
    <2>2. LinkInv'
      BY <2>1, FirstDelay DEF ReverseInv, LinkInv
    <2>3. /\ HelperType'
          /\ reverseHelper'[reverseLink.n] \in {"gone", "deaf", "late"}
          /\ reverseHelper'[reverseLink.n] = "deaf" => reverseHelper[reverseLink.n] = "listening"
          /\ \A h \in Reverse!Attempts : h # reverseLink.n => reverseHelper'[h] = reverseHelper[h]
      BY <1>3, <2>1, Zenon DEF Reverse!TransportEnds, ReverseInv, HelperInv, HelperType
    <2>4. \A h \in Reverse!Attempts : reverseHelper'[h] \notin {"starting", "listening"}
      BY <2>3, Zenon DEF ReverseInv, HelperInv
    <2>5. \A h \in Reverse!Attempts : HoldsListener(h)' => HoldsListener(h)
      BY <2>3, Zenon DEF HoldsListener
    <2>6. HelperInv'
      BY <2>1, <2>3, <2>4, <2>5, Zenon DEF ReverseInv, HelperInv
    <2> QED BY <2>2, <2>6, Zenon DEF ReverseInv
  <1>4. CASE Reverse!Sleep
    <2>1. /\ reverseLink.pc = "retry" /\ UNCHANGED reverseHelper
          /\ reverseLink' = [pc |-> "connect", delay |-> Reverse!MinOf(reverseLink.delay * 2, Reverse!max_delay), n |-> reverseLink.n,
                      reconnect |-> reverseLink.reconnect, failures |-> reverseLink.failures]
      BY <1>4, Zenon DEF Reverse!Sleep, ReverseInv, LinkInv
    <2>2. reverseLink.failures \in 1 .. MaxAttempts /\ reverseLink.delay = Doubled(reverseLink.failures - 1)
      BY <2>1 DEF ReverseInv, LinkInv
    <2>3. reverseLink'.delay = Doubled(reverseLink.failures) /\ reverseLink'.delay \in 0 .. Reverse!max_delay
      BY <2>1, <2>2, NextDelay
    <2>4. LinkInv'
      BY <2>1, <2>3, Zenon DEF ReverseInv, LinkInv
    <2>5. HelperInv'
      BY <2>1, Zenon DEF ReverseInv, HelperInv, HelperType, HoldsListener
    <2> QED BY <2>4, <2>5, Zenon DEF ReverseInv
  <1>5. ASSUME NEW h \in Reverse!Attempts, Reverse!HelperBinds(h) PROVE ReverseInv'
    <2>1. /\ UNCHANGED reverseLink /\ HelperType'
          /\ \A g \in Reverse!Attempts : g # h => reverseHelper'[g] = reverseHelper[g]
          /\ \/ reverseHelper'[h] = "gone"
             \/ reverseHelper'[h] \in {"listening", "deaf"} /\ \A g \in Reverse!Attempts : ~HoldsListener(g)
          /\ reverseHelper'[h] = "listening" => reverseLink.pc = "serving" /\ h = reverseLink.n
      BY <1>5, Zenon DEF Reverse!HelperBinds, ReverseInv, HelperInv, HelperType, HoldsListener
    <2>2. \A f, g \in Reverse!Attempts : HoldsListener(f)' /\ HoldsListener(g)' => f = g
      BY <2>1, Zenon DEF ReverseInv, HelperInv, HoldsListener
    <2>3. HelperInv'
      BY <2>1, <2>2, Zenon DEF ReverseInv, HelperInv
    <2> QED BY <2>1, <2>3, Zenon DEF ReverseInv, LinkInv
  <1>6. ASSUME NEW h \in Reverse!Attempts, Reverse!HelperEnds(h) PROVE ReverseInv'
    <2>1. /\ UNCHANGED reverseLink /\ HelperType'
          /\ reverseHelper'[h] = "gone" /\ \A g \in Reverse!Attempts : g # h => reverseHelper'[g] = reverseHelper[g]
      BY <1>6, Zenon DEF Reverse!HelperEnds, ReverseInv, HelperInv, HelperType
    <2>2. \A f, g \in Reverse!Attempts : HoldsListener(f)' /\ HoldsListener(g)' => f = g
      BY <2>1, Zenon DEF ReverseInv, HelperInv, HoldsListener
    <2>3. HelperInv'
      BY <2>1, <2>2, Zenon DEF ReverseInv, HelperInv
    <2> QED BY <2>1, <2>3, Zenon DEF ReverseInv, LinkInv
  <1>7. CASE UNCHANGED Reverse!reverseVars
    BY <1>7, Zenon DEF Reverse!reverseVars, ReverseInv, LinkInv, HelperInv, HelperType, HoldsListener
  <1> QED BY <1>1, <1>2, <1>3, <1>4, <1>5, <1>6, <1>7, Zenon DEF Reverse!ReverseNext

\* Cardinality of the instance is Cardinality.
LEMMA ReverseCardinality == \A S : Reverse!Cardinality(S) = Cardinality(S)
  BY Zenon DEF Reverse!Cardinality, Cardinality

\* A set any two members of which are equal has at most one.
LEMMA AtMostOne ==
    ASSUME NEW S, \A x, y \in S : x = y PROVE Cardinality(S) <= 1
  <1>1. CASE S = {}
    BY <1>1, FS_EmptySet
  <1>2. CASE S # {}
    <2>1. PICK x \in S : S = {x}
      BY <1>2, Zenon
    <2> QED BY <2>1, FS_Singleton
  <1> QED BY <1>1, <1>2

LEMMA ReverseEnough == ReverseInv => Reverse!TypeOK /\ Reverse!OneListener /\ Reverse!DelayDoubles
  <1> SUFFICES ASSUME ReverseInv PROVE Reverse!TypeOK /\ Reverse!OneListener /\ Reverse!DelayDoubles
    BY Zenon
  <1>1. Reverse!TypeOK
    <2>1. reverseLink \in [pc : {"connect", "serving", "retry", "ended"}, delay : 0 .. Reverse!max_delay,
                    n : 0 .. MaxAttempts, reconnect : BOOLEAN, failures : 0 .. MaxAttempts]
      <3>1. reverseLink.failures \in 0 .. MaxAttempts
        BY ReverseConstants DEF ReverseInv, LinkInv
      <3> QED BY <3>1, Zenon DEF ReverseInv, LinkInv
    <2> QED BY <2>1, Zenon DEF ReverseInv, HelperInv, HelperType, Reverse!TypeOK
  <1>2. Reverse!OneListener
    <2> DEFINE S == {h \in Reverse!Attempts : reverseHelper[h] \in {"listening", "deaf"}}
    <2>1. \A x, y \in S : x = y
      BY Zenon DEF ReverseInv, HelperInv, HoldsListener
    <2>2. Cardinality(S) <= 1
      BY <2>1, AtMostOne, Zenon
    <2> QED BY <2>2, ReverseCardinality, Zenon DEF Reverse!OneListener, ReverseInv, HelperInv
  <1>3. Reverse!DelayDoubles
    BY Zenon DEF ReverseInv, LinkInv, Reverse!DelayDoubles, Doubled
  <1> QED BY <1>1, <1>2, <1>3, Zenon

-----------------------------------------------------------------------------
(* JobStore: acknowledged jobs are kept, the oldest are pruned.            *)

\* Of a finite set whose n members have different ranks below n, the k lowest are k.
LEMMA LowestRanks ==
    ASSUME NEW S, IsFiniteSet(S), NEW rank \in [S -> Nat],
           \A x \in S : rank[x] < Cardinality(S),
           \A x, y \in S : rank[x] = rank[y] => x = y,
           NEW k \in Nat, k <= Cardinality(S)
    PROVE  Cardinality({x \in S : rank[x] < k}) = k
  <1> DEFINE n == Cardinality(S)
             T == {x \in S : rank[x] < k}
             g == [x \in T |-> rank[x]]
  <1>1. n \in Nat
    BY FS_CardinalityType, Zenon
  <1>2. IsFiniteSet(0 .. n - 1) /\ Cardinality(0 .. n - 1) = n
    <2>1. n - 1 \in Int /\ 0 \in Int
      BY <1>1
    <2> HIDE DEF n
    <2>2. /\ IsFiniteSet(0 .. n - 1)
          /\ Cardinality(0 .. n - 1) = IF 0 > n - 1 THEN 0 ELSE (n - 1) - 0 + 1
      BY <2>1, FS_Interval, Zenon
    <2> QED BY <1>1, <2>2
  <1>3. rank \in Injection(S, 0 .. n - 1)
    BY <1>1 DEF Injection, IsInjective
  <1>4. rank \in Surjection(S, 0 .. n - 1)
    BY <1>2, <1>3, FS_Injection, Zenon
  <1>5. \A r \in 0 .. k - 1 : \E x \in S : rank[x] = r
    BY <1>1, <1>4 DEF Surjection
  <1>6. g \in Bijection(T, 0 .. k - 1)
    <2>1. g \in [T -> 0 .. k - 1]
      OBVIOUS
    <2>2. \A x, y \in T : g[x] = g[y] => x = y
      BY Zenon
    <2>3. \A r \in 0 .. k - 1 : \E x \in T : g[x] = r
      BY <1>5
    <2> QED BY <2>1, <2>2, <2>3, Zenon DEF Bijection, Injection, IsInjective, Surjection
  <1>7. IsFiniteSet(T)
    BY FS_Subset, Zenon
  <1>8. Cardinality(0 .. k - 1) = Cardinality(T)
    BY <1>6, <1>7, FS_Bijection DEF ExistsBijection
  <1> QED BY <1>8, FS_Interval


\* Cardinality of the instance is Cardinality.
LEMMA JobsCardinality == \A S : Jobs!Cardinality(S) = Cardinality(S)
  BY Zenon DEF Jobs!Cardinality, Cardinality

\* A map of jobs none of which was updated after second c.
JobMap(m, c) ==
    /\ m \in [JobIds -> Jobs!Records]
    /\ \A j \in JobIds : m[j].at <= c

\* The terminal jobs of m updated after j, and those that prune_store removes.
After(m, j) == {i \in Jobs!Terminal(m) : Jobs!Older(m, j, i)}
Pruned(m) == {j \in Jobs!Terminal(m) : Cardinality(After(m, j)) >= MaxTerminal}

LEMMA PruneIs ==
    ASSUME NEW m
    PROVE  Jobs!prune_store(m) = [j \in JobIds |-> IF j \in Pruned(m) THEN Jobs!Absent ELSE m[j]]
  <1>1. Pruned(m) = {j \in Jobs!Terminal(m) :
                        Jobs!Cardinality({i \in Jobs!Terminal(m) : Jobs!Older(m, j, i)}) >= MaxTerminal}
    BY JobsCardinality, Zenon DEF Pruned, After
  <1> QED BY <1>1, Zenon DEF Jobs!prune_store

\* What prune_store leaves: the live jobs, and of the terminal ones those that are not pruned.
LEMMA PruneKeeps ==
    ASSUME NEW c \in Nat, NEW m, JobMap(m, c)
    PROVE  /\ JobMap(Jobs!prune_store(m), c)
           /\ Jobs!Live(Jobs!prune_store(m)) = Jobs!Live(m)
           /\ Jobs!Terminal(Jobs!prune_store(m)) = Jobs!Terminal(m) \ Pruned(m)
           /\ \A j \in JobIds : Jobs!prune_store(m)[j].state = "none"
                                   => m[j].state = "none" \/ j \in Pruned(m)
           /\ \A j \in JobIds \ Pruned(m) : Jobs!prune_store(m)[j] = m[j]
  <1> DEFINE p == Jobs!prune_store(m)
  <1>1. p = [j \in JobIds |-> IF j \in Pruned(m) THEN Jobs!Absent ELSE m[j]]
    BY PruneIs, Zenon
  <1>2. Jobs!Absent \in Jobs!Records /\ Jobs!Absent.state = "none" /\ Jobs!Absent.at = 0
    BY JobConstants DEF Jobs!Absent, Jobs!Records
  <1>3. Pruned(m) \subseteq Jobs!Terminal(m)
    BY Zenon DEF Pruned
  <1> HIDE DEF p
  <1>4. \A j \in JobIds : p[j] = IF j \in Pruned(m) THEN Jobs!Absent ELSE m[j]
    BY <1>1, Zenon
  <1>5. JobMap(p, c)
    <2>1. p \in [JobIds -> Jobs!Records]
      BY <1>1, <1>2, Zenon DEF JobMap
    <2>2. \A j \in JobIds : p[j].at <= c
      BY <1>2, <1>4 DEF JobMap
    <2> QED BY <2>1, <2>2 DEF JobMap
  <1>6. Jobs!Live(p) = Jobs!Live(m)
    BY <1>2, <1>3, <1>4, Zenon DEF Jobs!Live, Jobs!Terminal
  <1>7. Jobs!Terminal(p) = Jobs!Terminal(m) \ Pruned(m)
    BY <1>2, <1>3, <1>4 DEF Jobs!Terminal
  <1> QED BY <1>4, <1>5, <1>6, <1>7, Zenon DEF p

\* Jobs are ordered by the second of their last update, then by id: the later ones are fewer.
LEMMA LaterHasFewerAfter ==
    ASSUME NEW c \in Nat, NEW m, JobMap(m, c), NEW i \in Jobs!Terminal(m), NEW j \in Jobs!Terminal(m),
           Jobs!Older(m, i, j)
    PROVE  Cardinality(After(m, j)) < Cardinality(After(m, i))
  <1>0. /\ i \in Int /\ j \in Int /\ \A k \in Jobs!Terminal(m) : k \in Int /\ m[k].at \in Int
    BY JobConstants DEF Jobs!Terminal, JobMap, Jobs!Records
  <1>1. IsFiniteSet(After(m, i)) /\ IsFiniteSet(After(m, j))
    BY JobConstants, FS_Subset, Zenon DEF After, Jobs!Terminal
  <1>2. ASSUME NEW k \in After(m, j) PROVE k \in After(m, i)
    <2>1. /\ k \in Jobs!Terminal(m) /\ Jobs!Older(m, j, k) /\ k \in Int
          /\ m[i].at \in Int /\ m[j].at \in Int /\ m[k].at \in Int
      BY <1>0, Zenon DEF After
    <2>2. Jobs!Older(m, i, k)
      BY <1>0, <2>1 DEF Jobs!Older
    <2> QED BY <2>1, <2>2, Zenon DEF After
  <1>3. j \in After(m, i) /\ j \notin After(m, j)
    BY <1>0 DEF After, Jobs!Older
  <1>4. /\ Cardinality(After(m, j)) <= Cardinality(After(m, i))
        /\ Cardinality(After(m, i)) = Cardinality(After(m, j)) => After(m, i) = After(m, j)
    BY <1>1, <1>2, FS_Subset, Zenon
  <1>5. Cardinality(After(m, i)) \in Nat /\ Cardinality(After(m, j)) \in Nat
    BY <1>1, FS_CardinalityType, Zenon
  <1> QED BY <1>3, <1>4, <1>5

\* If a job is pruned, exactly MaxTerminal terminal jobs stay, none of them updated before it.
LEMMA PruneLeavesLatest ==
    ASSUME NEW c \in Nat, NEW m, JobMap(m, c), NEW j \in Pruned(m)
    PROVE  /\ Cardinality(Jobs!Terminal(m) \ Pruned(m)) = MaxTerminal
           /\ \A i \in Jobs!Terminal(m) \ Pruned(m) : m[i].at >= m[j].at
  <1> DEFINE S == Jobs!Terminal(m)
             rank == [x \in S |-> Cardinality(After(m, x))]
  <1>0. \A k \in S : k \in Int /\ m[k].at \in Int /\ k \in JobIds
    BY JobConstants DEF Jobs!Terminal, JobMap, Jobs!Records
  <1>1. IsFiniteSet(S) /\ Cardinality(S) \in Nat
    <2>1. S \in SUBSET JobIds
      BY Zenon DEF Jobs!Terminal
    <2>2. IsFiniteSet(S)
      BY <2>1, JobConstants, FS_Subset, Zenon
    <2> QED BY <2>2, FS_CardinalityType, Zenon
  <1>2. ASSUME NEW x \in S PROVE Cardinality(After(m, x)) \in Nat /\ Cardinality(After(m, x)) < Cardinality(S)
    <2>1. After(m, x) \subseteq S /\ x \notin After(m, x)
      BY <1>0 DEF After, Jobs!Older
    <2>2. IsFiniteSet(After(m, x)) /\ Cardinality(After(m, x)) <= Cardinality(S)
          /\ (Cardinality(S) = Cardinality(After(m, x)) => S = After(m, x))
      BY <1>1, <2>1, FS_Subset, Zenon
    <2>3. Cardinality(After(m, x)) \in Nat
      BY <2>2, FS_CardinalityType, Zenon
    <2> QED BY <1>1, <2>1, <2>2, <2>3
  <1>3. \A x, y \in S : x = y \/ Jobs!Older(m, x, y) \/ Jobs!Older(m, y, x)
    BY <1>0 DEF Jobs!Older
  <1>4. \A x, y \in S : rank[x] = rank[y] => x = y
    BY <1>2, <1>3, LaterHasFewerAfter
  <1>5. j \in S /\ Cardinality(After(m, j)) >= MaxTerminal
    BY Zenon DEF Pruned
  <1>6. MaxTerminal <= Cardinality(S)
    BY <1>1, <1>2, <1>5, JobConstants, SMTT(30)
  <1>7. Cardinality({x \in S : rank[x] < MaxTerminal}) = MaxTerminal
    <2>1. rank \in [S -> Nat] /\ \A x \in S : rank[x] < Cardinality(S)
      BY <1>2, Zenon
    <2> HIDE DEF rank, S
    <2> QED BY <2>1, <1>1, <1>4, <1>6, JobConstants, LowestRanks, Zenon
  <1>8. {x \in S : rank[x] < MaxTerminal} = S \ Pruned(m)
    BY <1>2, JobConstants DEF Pruned
  <1>9. ASSUME NEW i \in S \ Pruned(m) PROVE m[i].at >= m[j].at
    <2>1. Cardinality(After(m, i)) < Cardinality(After(m, j))
      BY <1>2, <1>5, JobConstants DEF Pruned
    <2>2. ~Jobs!Older(m, i, j)
      BY <1>2, <1>5, <2>1, LaterHasFewerAfter
    <2> QED BY <1>0, <1>5, <2>2 DEF Jobs!Older
  <1> QED BY <1>7, <1>8, <1>9, Zenon

\* AckedSurvives is not inductive: after a restart the memory is what the file holds.  As long
\* as the file is readable, it holds the acknowledged jobs as well.
JobsInv ==
    /\ jobsStore = [mem |-> jobsStore.mem, disk |-> jobsStore.disk, readable |-> jobsStore.readable,
                    acked |-> jobsStore.acked, up |-> jobsStore.up]
    /\ jobsClock \in 0 .. MaxClock
    /\ JobMap(jobsStore.mem, jobsClock) /\ JobMap(jobsStore.disk, jobsClock)
    /\ jobsStore.readable \in BOOLEAN /\ jobsStore.up \in BOOLEAN
    /\ jobsStore.acked \subseteq JobIds
    /\ jobsStore.up => jobsStore.acked \subseteq Jobs!Live(jobsStore.mem)
    /\ jobsStore.readable => jobsStore.acked \subseteq Jobs!Live(jobsStore.disk)

LEMMA EmptyMap == ASSUME NEW c \in Nat PROVE JobMap(Jobs!Empty, c) /\ Jobs!Live(Jobs!Empty) = {}
  <1>1. Jobs!Absent \in Jobs!Records /\ Jobs!Absent.state = "none" /\ Jobs!Absent.at = 0
    BY JobConstants DEF Jobs!Absent, Jobs!Records
  <1> QED BY <1>1 DEF Jobs!Empty, JobMap, Jobs!Live

LEMMA JobsInitially == Jobs!Init => JobsInv
  <1> SUFFICES ASSUME Jobs!Init PROVE JobsInv
    BY Zenon
  <1>1. JobMap(Jobs!Empty, jobsClock)
    BY EmptyMap, Zenon DEF Jobs!Init
  <1> QED BY <1>1, JobConstants DEF Jobs!Init, JobsInv

\* The map with job j updated, before it is pruned.
Updated(j, state) == [jobsStore.mem EXCEPT ![j] = [state |-> state, at |-> jobsClock]]

\* An upsert makes its job live or terminal and keeps the other live jobs.
LEMMA UpsertKeepsLive ==
    ASSUME JobsInv, NEW j \in JobIds, NEW state \in {"live", "terminal"}
    PROVE  /\ JobMap(Updated(j, state), jobsClock)
           /\ JobMap(Jobs!prune_store(Updated(j, state)), jobsClock)
           /\ Jobs!Live(jobsStore.mem) \ {j} \subseteq Jobs!Live(Jobs!prune_store(Updated(j, state)))
           /\ state = "live" => j \in Jobs!Live(Jobs!prune_store(Updated(j, state)))
  <1> DEFINE e == Updated(j, state)
             r == [state |-> state, at |-> jobsClock]
  <1>0. jobsClock \in Nat /\ r \in Jobs!Records /\ r.at = jobsClock /\ r.state = state
    BY JobConstants DEF JobsInv, Jobs!Records
  <1>1. e = [jobsStore.mem EXCEPT ![j] = r]
    BY Zenon DEF Updated
  <1> HIDE DEF e, r
  <1>2. /\ e[j] = r
        /\ \A i \in JobIds \ {j} : e[i] = jobsStore.mem[i]
        /\ e \in [JobIds -> Jobs!Records]
    BY <1>0, <1>1, Zenon DEF JobsInv, JobMap
  <1>3. JobMap(e, jobsClock)
    BY <1>0, <1>2 DEF JobsInv, JobMap
  <1>4. /\ Jobs!Live(jobsStore.mem) \ {j} \subseteq Jobs!Live(e)
        /\ state = "live" => j \in Jobs!Live(e)
    BY <1>0, <1>2, Zenon DEF Jobs!Live
  <1>5. JobMap(Jobs!prune_store(e), jobsClock) /\ Jobs!Live(Jobs!prune_store(e)) = Jobs!Live(e)
    BY <1>0, <1>3, PruneKeeps, Zenon
  <1> QED BY <1>3, <1>4, <1>5, Zenon DEF e

\* Every step of the registry, failing saves and restarts included, keeps the invariant.
LEMMA JobsSteps == JobsInv /\ [Jobs!JobNext]_jobsVars => JobsInv'
  <1> SUFFICES ASSUME JobsInv, [Jobs!JobNext]_jobsVars PROVE JobsInv'
    BY Zenon
  <1>0. jobsClock \in Nat
    BY DEF JobsInv
  <1>1. ASSUME NEW j \in JobIds, NEW state \in {"live", "terminal"}, Jobs!Upsert(j, state)
        PROVE  JobsInv'
    <2> DEFINE m == Jobs!prune_store(Updated(j, state))
    <2>1. /\ JobMap(m, jobsClock)
          /\ Jobs!Live(jobsStore.mem) \ {j} \subseteq Jobs!Live(m)
          /\ state = "live" => j \in Jobs!Live(m)
      BY UpsertKeepsLive, Zenon
    <2>2. jobsStore.up /\ jobsStore.acked \subseteq Jobs!Live(jobsStore.mem) /\ UNCHANGED jobsClock
      BY <1>1, Zenon DEF Jobs!Upsert, JobsInv
    <2>a. \/ jobsStore' = [jobsStore EXCEPT !.mem = m, !.disk = m, !.readable = TRUE,
                              !.acked = IF state = "live" THEN @ \cup {j} ELSE @ \ {j}]
          \/ jobsStore' = [jobsStore EXCEPT !.mem = m, !.acked = IF state = "live" THEN @ ELSE @ \ {j}]
      BY <1>1, Zenon DEF Jobs!Upsert, Updated
    <2> HIDE DEF m
    <2>3. CASE jobsStore' = [jobsStore EXCEPT !.mem = m, !.disk = m, !.readable = TRUE,
                                !.acked = IF state = "live" THEN @ \cup {j} ELSE @ \ {j}]
      <3>1. jobsStore' = [mem |-> m, disk |-> m, readable |-> TRUE, up |-> jobsStore.up,
                          acked |-> IF state = "live" THEN jobsStore.acked \cup {j} ELSE jobsStore.acked \ {j}]
        BY <2>3, Zenon DEF JobsInv
      <3>2. jobsStore'.acked \subseteq Jobs!Live(m) /\ jobsStore'.acked \subseteq JobIds
        BY <3>1, <2>1, <2>2, Zenon DEF JobsInv
      <3> QED BY <3>1, <3>2, <2>1, <2>2, Zenon DEF JobsInv
    <2>4. CASE jobsStore' = [jobsStore EXCEPT !.mem = m,
                                !.acked = IF state = "live" THEN @ ELSE @ \ {j}]
      <3>1. jobsStore' = [mem |-> m, disk |-> jobsStore.disk, readable |-> jobsStore.readable,
                          up |-> jobsStore.up,
                          acked |-> IF state = "live" THEN jobsStore.acked ELSE jobsStore.acked \ {j}]
        BY <2>4, Zenon DEF JobsInv
      <3>2. jobsStore'.acked \subseteq Jobs!Live(m) /\ jobsStore'.acked \subseteq jobsStore.acked
        BY <3>1, <2>1, <2>2
      <3> QED BY <3>1, <3>2, <2>1, <2>2 DEF JobsInv
    <2> QED BY <2>a, <2>3, <2>4, Zenon
  <1>2. CASE Jobs!Stop
    <2>1. jobsStore' = [mem |-> Jobs!Empty, disk |-> jobsStore.disk, readable |-> jobsStore.readable,
                        acked |-> jobsStore.acked, up |-> FALSE] /\ UNCHANGED jobsClock
      BY <1>2, Zenon DEF Jobs!Stop, JobsInv
    <2>2. JobMap(Jobs!Empty, jobsClock)
      BY <1>0, EmptyMap, Zenon
    <2> QED BY <2>1, <2>2, Zenon DEF JobsInv
  <1>3. CASE Jobs!Damage
    <2>1. jobsStore' = [mem |-> jobsStore.mem, disk |-> jobsStore.disk, readable |-> FALSE,
                        acked |-> jobsStore.acked, up |-> jobsStore.up] /\ UNCHANGED jobsClock
      BY <1>3, Zenon DEF Jobs!Damage, JobsInv
    <2> QED BY <2>1, Zenon DEF JobsInv
  <1>4. CASE Jobs!Load
    <2>1. CASE jobsStore.readable
      <3>1. jobsStore' = [mem |-> jobsStore.disk, disk |-> jobsStore.disk,
                          readable |-> jobsStore.readable,
                          acked |-> jobsStore.acked, up |-> TRUE] /\ UNCHANGED jobsClock
        BY <1>4, <2>1, Zenon DEF Jobs!Load, JobsInv
      <3> QED BY <3>1, <2>1, Zenon DEF JobsInv
    <2>2. CASE ~jobsStore.readable
      <3>1. jobsStore' = [mem |-> Jobs!Empty, disk |-> jobsStore.disk, readable |-> jobsStore.readable,
                          acked |-> {}, up |-> TRUE] /\ UNCHANGED jobsClock
        BY <1>4, <2>2, Zenon DEF Jobs!Load, JobsInv
      <3>2. JobMap(Jobs!Empty, jobsClock)
        BY <1>0, EmptyMap, Zenon
      <3> QED BY <3>1, <3>2, <2>2, Zenon DEF JobsInv
    <2> QED BY <2>1, <2>2, Zenon
  <1>5. CASE Jobs!Tick
    <2>1. jobsClock' \in 0 .. MaxClock /\ jobsClock <= jobsClock' /\ UNCHANGED jobsStore
      BY <1>5, JobConstants DEF Jobs!Tick, JobsInv
    <2>2. ASSUME NEW m, JobMap(m, jobsClock) PROVE JobMap(m, jobsClock')
      <3>1. \A i \in JobIds : m[i].at \in Int
        BY <2>2 DEF JobMap, Jobs!Records
      <3> QED BY <1>0, <2>1, <2>2, <3>1 DEF JobMap
    <2> QED BY <2>1, <2>2, Zenon DEF JobsInv
  <1>6. CASE UNCHANGED jobsVars
    BY <1>6, Zenon DEF jobsVars, JobsInv
  <1> QED BY <1>1, <1>2, <1>3, <1>4, <1>5, <1>6, Zenon DEF Jobs!JobNext

LEMMA JobsEnough == JobsInv => Jobs!TypeOK /\ Jobs!AckedSurvives
  BY Zenon DEF JobsInv, JobMap, Jobs!TypeOK, Jobs!AckedSurvives

\* A job leaves the memory of a running daemon only when it is pruned.
LEMMA JobsPrune == JobsInv /\ [Jobs!JobNext]_jobsVars => Jobs!PrunesOldestTerminal
  <1> SUFFICES ASSUME JobsInv, [Jobs!JobNext]_jobsVars, jobsStore.up, jobsStore'.up,
                      NEW i \in JobIds, jobsStore.mem[i].state # "none", jobsStore'.mem[i].state = "none"
               PROVE  /\ Cardinality(Jobs!Terminal(jobsStore'.mem)) = MaxTerminal
                      /\ \A k \in Jobs!Terminal(jobsStore'.mem) :
                            jobsStore'.mem[k].at >= IF i \in Jobs!Live(jobsStore.mem) THEN jobsClock
                                                    ELSE jobsStore.mem[i].at
    BY JobsCardinality, Zenon DEF Jobs!PrunesOldestTerminal
  <1>0. jobsClock \in Nat
    BY DEF JobsInv
  <1>1. PICK j \in JobIds, state \in {"live", "terminal"} : Jobs!Upsert(j, state)
    BY Zenon DEF Jobs!JobNext, Jobs!Stop, Jobs!Damage, Jobs!Load, Jobs!Tick, jobsVars, JobsInv
  <1> DEFINE e == Updated(j, state)
             m == Jobs!prune_store(e)
  <1>2. jobsStore'.mem = m
    BY <1>1, Zenon DEF Jobs!Upsert, Updated, JobsInv
  <1>3. JobMap(e, jobsClock)
    BY UpsertKeepsLive, Zenon
  <1>4. /\ e[j].state = state /\ e[j].at = jobsClock
        /\ \A k \in JobIds \ {j} : e[k] = jobsStore.mem[k]
    BY Zenon DEF Updated, JobsInv, JobMap
  <1> HIDE DEF e
  <1>5. /\ Jobs!Terminal(m) = Jobs!Terminal(e) \ Pruned(e)
        /\ e[i].state = "none" \/ i \in Pruned(e)
        /\ \A k \in JobIds \ Pruned(e) : m[k] = e[k]
    BY <1>0, <1>2, <1>3, PruneKeeps, Zenon
  <1> HIDE DEF m
  <1>6. i \in Pruned(e) /\ e[i].state = "terminal"
    <2>1. e[i].state # "none"
      BY <1>4, Zenon
    <2> QED BY <2>1, <1>5, Zenon DEF Pruned, Jobs!Terminal
  <1>7. /\ Cardinality(Jobs!Terminal(e) \ Pruned(e)) = MaxTerminal
        /\ \A k \in Jobs!Terminal(e) \ Pruned(e) : e[k].at >= e[i].at
    BY <1>0, <1>3, <1>6, PruneLeavesLatest, SMTT(30)
  <1>8. e[i].at >= IF i \in Jobs!Live(jobsStore.mem) THEN jobsClock ELSE jobsStore.mem[i].at
    <2>1. jobsStore.mem[i].at \in Int /\ jobsStore.mem[i].at <= jobsClock
      BY DEF JobsInv, JobMap, Jobs!Records
    <2>2. CASE i = j
      <3>1. e[i].at = jobsClock
        BY <1>4, <2>2, Zenon
      <3> QED BY <1>0, <2>1, <3>1
    <2>3. CASE i # j
      <3>1. e[i] = jobsStore.mem[i] /\ i \notin Jobs!Live(jobsStore.mem)
        BY <1>4, <1>6, <2>3, Zenon DEF Jobs!Live
      <3> QED BY <3>1, <2>1
    <2> QED BY <2>2, <2>3, Zenon
  <1>9. ASSUME NEW k \in Jobs!Terminal(m)
        PROVE  m[k].at >= IF i \in Jobs!Live(jobsStore.mem) THEN jobsClock ELSE jobsStore.mem[i].at
    <2>1. k \in JobIds /\ k \in Jobs!Terminal(e) \ Pruned(e) /\ m[k] = e[k]
      BY <1>5, Zenon DEF Jobs!Terminal
    <2>2. e[k].at \in Int /\ e[i].at \in Int /\ jobsStore.mem[i].at \in Int
      BY <1>3, <2>1 DEF JobMap, JobsInv, Jobs!Records
    <2> QED BY <1>0, <1>7, <1>8, <2>1, <2>2
  <1> QED BY <1>2, <1>5, <1>7, <1>9, Zenon
=============================================================================
