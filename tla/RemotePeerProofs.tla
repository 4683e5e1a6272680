-------------------------- MODULE RemotePeerProofs --------------------------
(***************************************************************************)
(* What the operations on a peer leave on record, for every number of      *)
(* operations, ports, requests and restarts, and every scenario.           *)
(*                                                                         *)
(* Settled and HealthyIsRecorded are not inductive.  They hold because an  *)
(* operation that is calm is the only one in progress (CalmIsAlone), so    *)
(* that what it has established stays until it ends (Sound): the binary it *)
(* uploaded, the token the peer accepted, the profile and the peer it      *)
(* recorded.  The record of a healthy job stays true because a later job   *)
(* has overwritten it before it touches anything else, and a session that  *)
(* touches the peer is told apart (HealthyOnFile).                         *)
(***************************************************************************)
EXTENDS RemotePeer, FiniteSetTheorems, TLAPS

\* Where only the operations of a job get, and those of a job of its own.
OwnPCs == {"queue", "task_failed"}
JobPCs == {"inspect", "waiting", "phases", "answered", "record", "finish", "fail"}
Own    == {"ensure", "attached"}
Any    == {"ensure", "attached", "session"}
Idle   == {"off", "hung"}

\* What an operation r has established on the host h, in the profile p and its
\* file pf, and in the record of the peer s and its file sf.
Sound(r, h, p, pf, s, sf) ==
  /\ r.pc \in OwnPCs => r.kind \in Own
  /\ r.pc \in JobPCs => r.kind \in Any
  /\ r.pc = "rotate" => r.kind = "rotate"
  /\ r.pc \in {"service", "probe", "answered"} => h.bin = "new"
  /\ r.pc \in {"profile", "record", "finish"} /\ r.kind \in Any => h.bin = "new"
  /\ r.calm /\ r.pc = "probe" =>
       (h.at[r.port].tok # 0 /\ ~h.at[r.port].kept => h.at[r.port].ver = "new")
  /\ r.calm /\ r.pc \in {"answered", "profile", "record", "finish"} /\ r.kind \in Any =>
       /\ h.at[r.port].tok = r.tok /\ r.tok # 0
       /\ ~h.at[r.port].kept => h.at[r.port].ver = "new"
  /\ r.calm /\ r.pc \in {"record", "finish"} =>
       p.tok = r.tok /\ pf.tok = r.tok /\ p.port = r.port
  /\ r.calm /\ r.pc = "finish" => s = "healthy" /\ sf = "healthy"

AllSound == \A o \in Ops : Sound(op[o], remote, profile, profileFile, peer, peerFile)

\* An operation that is calm is alone.
CalmIsAlone ==
  \A o, p \in Ops : op[o].calm /\ op[o].pc \notin Idle /\ p # o => op[p].pc \in Idle

\* The operations that may still generate a token.
AskPCs == {"queue", "inspect", "descriptor", "waiting", "phases", "defaults", "rotate"}
Asking == {o \in Ops : op[o].pc \in AskPCs}

TokensLast == IsFiniteSet(Asking) /\ tokens + Cardinality(Asking) <= requests + 1

\* A healthy job on file: what it recorded is on file, no later job has got
\* past its first save, and no session is at work that is not told apart.
HealthyOnFile ==
  clean /\ jobFile = "healthy" =>
    /\ profileFile.tok # 0 /\ (peerFile = "healthy" \/ overwritten)
    /\ \A o \in Ops : /\ op[o].kind \in Own => op[o].pc \in Idle \cup {"queue"}
                      /\ op[o].kind = "session" => op[o].pc \in Idle \/ overwritten

\* A daemon of this version runs only from a binary of this version, and a
\* token on file is in memory too.
HostOK == \A p \in Ports : remote.at[p].ver = "new" => remote.bin = "new"

PeerInv ==
  /\ TypeOK /\ AllSound /\ CalmIsAlone /\ TokensLast /\ HealthyOnFile /\ HostOK
  /\ profileFile.tok # 0 => profile.tok # 0

LEMMA OffIs == Off \in Op /\ Off.pc = "off" /\ Off.calm /\ Off.kind = "ensure"
  BY BoundAssumption, PortAssumption DEF Off, Op, PCs, Tokens, Kinds

LEMMA Zero == 0 \in Tokens /\ 1 \in Tokens /\ NoService \in Service
  <1>1. 0 \in Tokens /\ 1 \in Tokens
    BY BoundAssumption DEF Tokens
  <1> QED BY <1>1, Zenon DEF NoService, Service, Versions

LEMMA Enough == PeerInv => RecordsAgree
  <1> SUFFICES ASSUME PeerInv PROVE RecordsAgree
    BY Zenon
  <1>1. Settled
    <2> SUFFICES ASSUME NEW o \in Ops, op[o].pc = "finish", op[o].calm
                 PROVE /\ profile.tok = remote.at[profile.port].tok /\ peer = "healthy"
                       /\ ~remote.at[profile.port].kept => remote.at[profile.port].ver = "new"
      BY Zenon DEF Settled
    <2>1. Sound(op[o], remote, profile, profileFile, peer, peerFile)
      BY Zenon DEF PeerInv, AllSound
    <2>2. profile.port = op[o].port /\ op[o].kind \in Any
      BY <2>1, Zenon DEF Sound, JobPCs
    <2> QED BY <2>1, <2>2, Zenon DEF Sound
  <1> QED BY <1>1, Zenon DEF RecordsAgree, PeerInv, HealthyOnFile, HealthyIsRecorded

LEMMA Initially == Init => PeerInv
  <1> SUFFICES ASSUME Init PROVE PeerInv
    BY Zenon
  <1> DEFINE none == [p \in Ports |-> NoService]
             old == [svc |-> 1, tok |-> 1, ver |-> "old", kept |-> FALSE]
             there == [none EXCEPT ![DefaultPort] = old]
  <1>0. /\ NoService \in Service /\ NoService.ver # "new" /\ old \in Service /\ old.ver # "new"
        /\ DefaultPort \in Ports
    BY Zero, PortAssumption, Zenon DEF NoService, Service, Versions
  <1>1. \/ remote \in [bin : {"none"}, nohup : BOOLEAN, at : {none}]
        \/ remote \in [bin : {"old"}, nohup : BOOLEAN, at : {there}]
    BY Zenon DEF Init
  <1> HIDE DEF old
  <1>2. /\ none \in [Ports -> Service] /\ there \in [Ports -> Service]
        /\ \A p \in Ports : none[p].ver # "new" /\ there[p].ver # "new"
    BY <1>0
  <1> HIDE DEF none, there
  <1>3. remote \in Remote /\ HostOK
    BY <1>1, <1>2, Zenon DEF Remote, Versions, HostOK
  <1>4. profile \in Profile
    <2>1. profile = [tok |-> 0, port |-> DefaultPort] \/ profile = [tok |-> 1, port |-> DefaultPort]
      BY Zenon DEF Init
    <2>2. \A n \in Tokens : [tok |-> n, port |-> DefaultPort] \in Profile
      BY PortAssumption, Zenon DEF Profile
    <2> QED BY <2>1, <2>2, Zero, Zenon
  <1>5. op \in [Ops -> Op] /\ \A o \in Ops : op[o].pc = "off"
    BY OffIs, Zenon DEF Init
  <1>6. TypeOK
    <2>1. /\ job \in JobStates /\ jobFile \in JobStates /\ peer \in PeerStates
          /\ peerFile \in PeerStates /\ scene \in Scenarios /\ late \subseteq Tokens \X Ports
          /\ tokens \in Tokens /\ clean \in BOOLEAN /\ overwritten \in BOOLEAN
          /\ profileFile \in Profile
      BY <1>4, Zero, Zenon DEF Init, JobStates, PeerStates
    <2>2. requests \in 0 .. MaxRequests /\ crashes \in 0 .. MaxCrashes
      BY BoundAssumption DEF Init
    <2> QED BY <1>3, <1>4, <1>5, <2>1, <2>2, Zenon DEF TypeOK
  <1>7. AllSound
    <2> SUFFICES ASSUME NEW o \in Ops
                 PROVE Sound(op[o], remote, profile, profileFile, peer, peerFile)
      BY Zenon DEF AllSound
    <2> QED BY <1>5, Zenon DEF Sound, JobPCs, OwnPCs
  <1>8. CalmIsAlone
    BY <1>5, Zenon DEF CalmIsAlone, Idle
  <1>9. Asking = {}
    BY <1>5, Zenon DEF Asking, AskPCs
  <1>10. TokensLast
    BY <1>9, FS_EmptySet DEF TokensLast, Init
  <1>11. profileFile = profile /\ jobFile # "healthy"
    BY Zenon DEF Init
  <1> QED BY <1>3, <1>6, <1>7, <1>8, <1>10, <1>11, Zenon DEF PeerInv, HealthyOnFile

\* An operation goes on to pc.
Gone(o, q, pc) ==
  /\ q \in Op /\ op' = [op EXCEPT ![o] = q] /\ q.pc = pc
  /\ pc \in Idle => q.kind = "ensure"
  /\ pc \notin Idle => /\ q.kind = op[o].kind /\ q.tok = op[o].tok /\ q.port = op[o].port
                       /\ q.calm = op[o].calm

LEMMA Going ==
  ASSUME op \in [Ops -> Op], NEW o \in Ops, NEW pc \in PCs, Goes(o, pc)
  PROVE  \E q \in Op : Gone(o, q, pc)
  <1>1. op[o] \in Op
    BY Zenon
  <1>2. CASE pc = "off"
    <2>1. op' = [op EXCEPT ![o] = Off]
      BY <1>2, Zenon DEF Goes
    <2>2. Gone(o, Off, pc)
      BY <1>2, <2>1, OffIs, Zenon DEF Gone, Idle
    <2> QED BY <2>2, OffIs, Zenon
  <1>3. CASE pc = "hung"
    <2> DEFINE q == [Off EXCEPT !.pc = pc]
    <2>1. op' = [op EXCEPT ![o] = q]
      BY <1>3 DEF Goes
    <2>2. q \in Op /\ q.pc = pc /\ q.kind = "ensure"
      BY OffIs, Zenon DEF Op
    <2>3. Gone(o, q, pc)
      BY <1>3, <2>1, <2>2, Zenon DEF Gone, Idle
    <2> QED BY <2>2, <2>3, Zenon
  <1>4. CASE pc \notin Idle
    <2> DEFINE q == [op[o] EXCEPT !.pc = pc, !.half = FALSE]
    <2>1. op' = [op EXCEPT ![o] = q]
      BY <1>4 DEF Goes, Idle
    <2>2. /\ q \in Op /\ q.pc = pc /\ q.kind = op[o].kind /\ q.tok = op[o].tok
          /\ q.port = op[o].port /\ q.calm = op[o].calm
      BY <1>1, Zenon DEF Op
    <2>3. Gone(o, q, pc)
      BY <1>4, <2>1, <2>2, Zenon DEF Gone
    <2> QED BY <2>2, <2>3, Zenon
  <1> QED BY <1>2, <1>3, <1>4, Zenon DEF Idle

\* An operation whose command failed or never returned.
LEMMA Losing ==
  ASSUME op \in [Ops -> Op], NEW o \in Ops, NEW pc \in PCs, Lost(o, pc)
  PROVE  \E x \in {pc, "off", "hung"}, q \in Op : Gone(o, q, x)
  <1>1. Goes(o, pc) \/ Goes(o, "off") \/ Goes(o, "hung")
    BY Zenon DEF Lost
  <1>2. "off" \in PCs /\ "hung" \in PCs
    BY Zenon DEF PCs
  <1> QED BY <1>1, <1>2, Going, Zenon

\* One operation in progress takes a step: what the others established stays.
LEMMA OneMoves ==
  ASSUME op \in [Ops -> Op], AllSound, CalmIsAlone, NEW o \in Ops, op[o].pc \notin Idle,
         NEW q \in Op, q.pc \in Idle \/ q.calm = op[o].calm, op' = [op EXCEPT ![o] = q],
         remote.bin = "new" => remote'.bin = "new",
         Sound(q, remote', profile', profileFile', peer', peerFile')
  PROVE  AllSound' /\ CalmIsAlone'
  <1>1. op'[o] = q /\ \A p \in Ops : p # o => op'[p] = op[p]
    BY Zenon
  <1>2. AllSound'
    <2> SUFFICES ASSUME NEW p \in Ops
                 PROVE Sound(op'[p], remote', profile', profileFile', peer', peerFile')
      BY Zenon DEF AllSound
    <2>1. CASE p = o
      BY <2>1, <1>1, Zenon
    <2>2. CASE p # o
      <3>1. op'[p] = op[p]
        BY <1>1, <2>2, Zenon
      <3>2. Sound(op[p], remote, profile, profileFile, peer, peerFile)
        BY Zenon DEF AllSound
      <3>3. ~op[p].calm \/ op[p].pc \in Idle
        BY <2>2, Zenon DEF CalmIsAlone
      <3>4. CASE ~op[p].calm
        BY <3>1, <3>2, <3>4, Zenon DEF Sound
      <3>5. CASE op[p].pc \in Idle
        BY <3>1, <3>5, Zenon DEF Sound, JobPCs, OwnPCs, Idle
      <3> QED BY <3>3, <3>4, <3>5, Zenon
    <2> QED BY <2>1, <2>2, Zenon
  <1>3. CalmIsAlone'
    <2> SUFFICES ASSUME NEW p \in Ops, NEW x \in Ops, op'[p].calm, op'[p].pc \notin Idle, x # p
                 PROVE  op'[x].pc \in Idle
      BY Zenon DEF CalmIsAlone
    <2>1. op[p].calm /\ op[p].pc \notin Idle
      BY <1>1, Zenon
    <2>2. op[x].pc \in Idle
      BY <2>1, Zenon DEF CalmIsAlone
    <2> QED BY <1>1, <2>2, Zenon
  <1> QED BY <1>2, <1>3, Zenon

\* Tokens last when an operation that may generate one has done so, or goes on.
LEMMA TokensLastOn ==
  ASSUME TokensLast, tokens \in Nat, requests \in Nat, tokens' = tokens, requests' = requests,
         Asking' \subseteq Asking
  PROVE  TokensLast'
  <1>1. IsFiniteSet(Asking') /\ Cardinality(Asking') <= Cardinality(Asking)
    BY FS_Subset, Zenon DEF TokensLast
  <1>2. Cardinality(Asking) \in Nat /\ Cardinality(Asking') \in Nat
    BY <1>1, FS_CardinalityType, Zenon DEF TokensLast
  <1> QED BY <1>1, <1>2 DEF TokensLast

LEMMA TokenTaken ==
  ASSUME TokensLast, tokens \in Nat, requests \in 0 .. MaxRequests, NEW o \in Asking,
         requests' = requests, Asking' = Asking \ {o}
  PROVE  /\ tokens + 1 \in Tokens
         /\ tokens' = tokens + 1 => TokensLast'
  <1>1. /\ IsFiniteSet(Asking') /\ Cardinality(Asking') = Cardinality(Asking) - 1
    BY FS_RemoveElement, Zenon DEF TokensLast
  <1>2. Cardinality(Asking) \in Nat /\ Cardinality(Asking') \in Nat
    BY <1>1, FS_CardinalityType, Zenon DEF TokensLast
  <1>3. tokens + 1 <= requests + 1
    BY <1>1, <1>2 DEF TokensLast
  <1> QED BY <1>1, <1>2, <1>3, BoundAssumption DEF TokensLast, Tokens

LEMMA TokenWanted ==
  ASSUME TokensLast, tokens \in Nat, requests \in Nat, NEW o, tokens' = tokens,
         requests' = requests + 1, Asking' \subseteq Asking \cup {o}
  PROVE  TokensLast'
  <1>1. IsFiniteSet(Asking \cup {o}) /\ Cardinality(Asking \cup {o}) <= Cardinality(Asking) + 1
    BY FS_AddElement, FS_CardinalityType DEF TokensLast
  <1>2. IsFiniteSet(Asking') /\ Cardinality(Asking') <= Cardinality(Asking \cup {o})
    BY <1>1, FS_Subset, Zenon
  <1>3. Cardinality(Asking) \in Nat /\ Cardinality(Asking') \in Nat /\
        Cardinality(Asking \cup {o}) \in Nat
    BY <1>1, <1>2, FS_CardinalityType, Zenon DEF TokensLast
  <1> QED BY <1>1, <1>2, <1>3 DEF TokensLast

\* The stores after a step, and the host.
StoresOK ==
  /\ profile \in Profile /\ profileFile \in Profile
  /\ job \in JobStates /\ jobFile \in JobStates /\ peer \in PeerStates /\ peerFile \in PeerStates
  /\ scene \in Scenarios /\ remote \in Remote /\ late \subseteq Tokens \X Ports
  /\ clean \in BOOLEAN /\ overwritten \in BOOLEAN
  /\ HostOK
  /\ profileFile.tok # 0 => profile.tok # 0

LEMMA StoresKept == PeerInv => StoresOK
  BY Zenon DEF PeerInv, TypeOK, StoresOK

\* A step that leaves the host alone.
LEMMA HostStays == ASSUME HostOK, remote' = remote PROVE HostOK'
  BY Zenon DEF HostOK

\* A step of an operation that generates no token keeps the invariant.
LEMMA OpMoves ==
  ASSUME PeerInv, NEW o \in Ops, op[o].pc \notin Idle, NEW pc \in PCs, NEW q, Gone(o, q, pc),
         StoresOK', UNCHANGED counts, remote.bin = "new" => remote'.bin = "new",
         Sound(q, remote', profile', profileFile', peer', peerFile'),
         pc \in AskPCs => op[o].pc \in AskPCs, HealthyOnFile'
  PROVE  PeerInv'
  <1>1. op \in [Ops -> Op] /\ tokens \in Nat /\ requests \in Nat
    BY BoundAssumption DEF PeerInv, TypeOK, Tokens
  <1>2. q \in Op /\ op' = [op EXCEPT ![o] = q] /\ (q.pc \in Idle \/ q.calm = op[o].calm) /\ q.pc = pc
    BY Zenon DEF Gone
  <1>3. AllSound' /\ CalmIsAlone'
    BY <1>1, <1>2, OneMoves, Zenon DEF PeerInv
  <1>4. Asking' \subseteq Asking
    BY <1>1, <1>2, Zenon DEF Asking
  <1>5. TokensLast'
    BY <1>1, <1>4, TokensLastOn, Zenon DEF PeerInv, counts
  <1>6. TypeOK'
    BY <1>1, <1>2, Zenon DEF PeerInv, TypeOK, StoresOK, counts
  <1> QED BY <1>3, <1>5, <1>6, Zenon DEF PeerInv, StoresOK

\* While the record of a healthy job is on file, there is no job of its own at
\* work; a session is told apart, and the other operations change nothing that
\* the record speaks of.
LEMMA FileStays ==
  ASSUME PeerInv, NEW o \in Ops, op[o].pc \notin Idle \cup {"queue"}, NEW q,
         op' = [op EXCEPT ![o] = q],
         (q.pc \in Idle /\ q.kind = "ensure") \/ q.kind = op[o].kind,
         UNCHANGED <<clean, overwritten>>, jobFile' = jobFile \/ jobFile' # "healthy",
         op[o].kind \in Any \/ peerFile' = peerFile,
         op[o].kind \in Own \/ (profileFile.tok # 0 => profileFile'.tok # 0)
  PROVE  HealthyOnFile'
  <1> SUFFICES ASSUME clean, jobFile = "healthy", jobFile' = "healthy"
               PROVE  HealthyOnFile'
    BY Zenon DEF HealthyOnFile
  <1>1. /\ profileFile.tok # 0 /\ (peerFile = "healthy" \/ overwritten)
        /\ \A p \in Ops : /\ op[p].kind \in Own => op[p].pc \in Idle \cup {"queue"}
                          /\ op[p].kind = "session" => op[p].pc \in Idle \/ overwritten
    BY Zenon DEF PeerInv, HealthyOnFile
  <1>2. op[o].kind \notin Own /\ (op[o].kind = "session" => overwritten)
    BY <1>1, Zenon
  <1>3. peerFile' = "healthy" \/ overwritten
    BY <1>1, <1>2, Zenon DEF Any, Own
  <1>4. op \in [Ops -> Op]
    BY Zenon DEF PeerInv, TypeOK
  <1>5. \A p \in Ops : op'[p] = IF p = o THEN q ELSE op[p]
    BY <1>4, Zenon
  <1>6. ASSUME NEW p \in Ops
        PROVE  /\ op'[p].kind \in Own => op'[p].pc \in Idle \cup {"queue"}
               /\ op'[p].kind = "session" => op'[p].pc \in Idle \/ overwritten
    BY <1>1, <1>2, <1>5, Zenon
  <1> QED BY <1>1, <1>2, <1>3, <1>6, Zenon DEF HealthyOnFile

LEMMA JobState == {"queued", "running", "waiting_retry", "healthy", "failed"} \subseteq JobStates
  BY Zenon DEF JobStates

LEMMA PeerState == {"running", "healthy", "failed"} \subseteq PeerStates
  BY Zenon DEF PeerStates

\* The first state of the steps of an operation.
LEMMA Before ==
  ASSUME PeerInv, NEW o \in Ops
  PROVE  /\ op \in [Ops -> Op] /\ op[o] \in Op /\ op[o].pc \in PCs /\ op[o].kind \in Kinds
         /\ op[o].calm \in BOOLEAN /\ op[o].half \in BOOLEAN /\ op[o].tok \in Tokens
         /\ op[o].port \in Ports
         /\ Sound(op[o], remote, profile, profileFile, peer, peerFile)
         /\ StoresOK
  <1>1. op \in [Ops -> Op] /\ op[o] \in Op
    BY Zenon DEF PeerInv, TypeOK
  <1> QED BY <1>1, StoresKept, Zenon DEF PeerInv, AllSound, Op

LEMMA Halving ==
  ASSUME op \in [Ops -> Op], NEW o \in Ops, op[o].pc \notin Idle, Half(o)
  PROVE  \E q \in Op : Gone(o, q, op[o].pc)
  <1> DEFINE q == [op[o] EXCEPT !.half = TRUE]
  <1>1. op[o] \in Op
    BY Zenon
  <1>2. op' = [op EXCEPT ![o] = q]
    BY Zenon DEF Half
  <1>3. q \in Op /\ q.pc = op[o].pc /\ q.kind = op[o].kind /\ q.tok = op[o].tok /\
        q.port = op[o].port /\ q.calm = op[o].calm
    BY <1>1, Zenon DEF Op
  <1>4. Gone(o, q, op[o].pc)
    BY <1>2, <1>3, Zenon DEF Gone
  <1> QED BY <1>3, <1>4, Zenon

\* The first half of a record: a job of its own is recorded, and the peer is not.
LEMMA FirstHalf ==
  ASSUME op \in [Ops -> Op], NEW o \in Ops, op[o].pc \notin Idle, StoresOK, NEW s \in JobStates,
         NEW fails \in PCs, JobFirst(o, s, fails)
  PROVE  /\ UNCHANGED <<peer, peerFile>>
         /\ job' \in JobStates /\ jobFile' \in JobStates /\ (jobFile' = jobFile \/ jobFile' = s)
         /\ \E x \in {op[o].pc, fails}, q \in Op : Gone(o, q, x)
  <1>1. UNCHANGED <<peer, peerFile>>
    BY Zenon DEF JobFirst, peers
  <1>2. job' \in JobStates /\ jobFile' \in JobStates /\ (jobFile' = jobFile \/ jobFile' = s)
    BY Zenon DEF JobFirst, PutJob, jobs, StoresOK
  <1>3. Half(o) \/ Goes(o, fails)
    BY Zenon DEF JobFirst
  <1> QED BY <1>1, <1>2, <1>3, Halving, Going, Zenon

LEMMA QueueStep ==
  ASSUME PeerInv, NEW o \in Ops, Queue(o)
  PROVE  PeerInv'
  <1>1. PICK ok \in Saves("jobs") : PutJob("queued", ok) /\ Goes(o, IF ok THEN "inspect" ELSE "off")
    BY Zenon DEF Queue
  <1> DEFINE pc == IF ok THEN "inspect" ELSE "off"
  <1>2. pc \in PCs /\ pc \in {"inspect", "off"} /\ Goes(o, pc)
    BY <1>1, Zenon DEF PCs
  <1>3. PICK q \in Op : Gone(o, q, pc)
    BY <1>2, Going, Before, Zenon
  <1>4. op[o].pc = "queue" /\ op[o].kind \in Own /\ op[o].kind \in Any /\ op[o].pc \notin Idle
    BY Before, Zenon DEF Queue, At, Sound, OwnPCs, Own, Any, Idle
  <1>5. UNCHANGED <<profile, profileFile, peer, peerFile, scene, remote, late, counts, clean,
                    overwritten>>
    BY Zenon DEF Queue, config, peers, world, ended
  <1>6. StoresOK'
    BY <1>1, <1>5, Before, JobState, HostStays, Zenon DEF StoresOK, PutJob
  <1>7. Sound(q, remote', profile', profileFile', peer', peerFile')
    BY <1>2, <1>3, <1>4, Zenon DEF Sound, JobPCs, OwnPCs, Gone, Idle
  <1>8. HealthyOnFile'
    <2>1. CASE jobFile' = "queued"
      BY <2>1, Zenon DEF HealthyOnFile
    <2>2. CASE pc = "off" /\ jobFile' = jobFile
      <3>1. \A p \in Ops : op'[p] = IF p = o THEN q ELSE op[p]
        BY <1>3, Before, Zenon DEF Gone
      <3>2. q.pc \in Idle /\ q.kind = "ensure"
        BY <1>3, <2>2, Zenon DEF Gone, Idle
      <3> QED BY <1>5, <2>2, <3>1, <3>2, Zenon DEF PeerInv, HealthyOnFile
    <2> QED BY <1>1, <2>1, <2>2, Zenon DEF PutJob
  <1> HIDE DEF pc
  <1> QED BY <1>2, <1>3, <1>4, <1>5, <1>6, <1>7, <1>8, OpMoves, Zenon DEF AskPCs

\* Where an error of the task leads.
LEMMA FailingTo ==
  ASSUME NEW o \in Ops
  PROVE  /\ Failing(o) \in PCs /\ Failing(o) \in {"task_failed", "off"}
         /\ Failing(o) = "task_failed" => op[o].kind \in Own
  BY Zenon DEF Failing, OwnJob, Own, PCs

LEMMA PhaseStep ==
  ASSUME PeerInv, NEW o \in Ops, remote_peer_phase(o)
  PROVE  PeerInv'
  <1>1. UNCHANGED <<profile, profileFile, scene, remote, late, counts, clean, overwritten>>
    BY Zenon DEF remote_peer_phase, config, world, ended
  <1>2. /\ op[o].pc \in {"inspect", "phases", "answered"} /\ op[o].kind \in Any
        /\ op[o].pc \notin Idle \cup {"queue"}
    BY Before, Zenon DEF remote_peer_phase, AfterEvent, Sound, JobPCs, Idle
  <1> DEFINE after == AfterEvent[op[o].pc]
  <1>3. after \in PCs /\ after \notin Idle
    BY <1>2 DEF AfterEvent, PCs, Idle
  <1>4. /\ job' \in JobStates /\ jobFile' \in JobStates /\ (jobFile' = jobFile \/ jobFile' = "running")
        /\ peer' \in PeerStates /\ peerFile' \in PeerStates
        /\ \E x \in {op[o].pc, after}, q \in Op : Gone(o, q, x)
    <2>1. CASE op[o].half
      <3>1. Goes(o, after) /\ \E ok \in Saves("peers") : PutPeer("running", ok) /\ UNCHANGED jobs
        BY <2>1, Zenon DEF remote_peer_phase
      <3>2. \E q \in Op : Gone(o, q, after)
        BY <1>3, <3>1, Going, Before, Zenon
      <3> QED BY <3>1, <3>2, Before, PeerState, Zenon DEF PutPeer, jobs, StoresOK
    <2>2. CASE ~op[o].half
      <3>1. JobFirst(o, "running", after)
        BY <2>2, Zenon DEF remote_peer_phase
      <3> HIDE DEF after
      <3> QED BY <1>2, <1>3, <3>1, FirstHalf, Before, JobState, Zenon DEF StoresOK
    <2> QED BY <2>1, <2>2, Zenon
  <1>5. StoresOK'
    BY <1>1, <1>4, Before, HostStays, Zenon DEF StoresOK
  <1>6. PICK pc \in PCs, q \in Op : Gone(o, q, pc) /\ pc \in {op[o].pc, after}
    BY <1>3, <1>4, Before, Zenon
  <1>7. Sound(q, remote', profile', profileFile', peer', peerFile')
    <2>1. /\ q.kind = op[o].kind /\ q.tok = op[o].tok /\ q.port = op[o].port
          /\ q.calm = op[o].calm /\ q.pc = pc
      BY <1>2, <1>3, <1>6, Zenon DEF Gone
    <2>2. \/ q.pc = op[o].pc
          \/ op[o].pc \in {"inspect", "phases"} /\ q.pc \in {"descriptor", "defaults"}
          \/ op[o].pc = "answered" /\ q.pc = "profile"
      BY <1>2, <1>6, <2>1 DEF AfterEvent
    <2> QED BY <1>1, <1>2, <2>1, <2>2, Before, Zenon DEF Sound, JobPCs, OwnPCs
  <1>8. HealthyOnFile'
    BY <1>1, <1>2, <1>4, <1>6, FileStays, Zenon DEF Gone
  <1>9. pc \in AskPCs => op[o].pc \in AskPCs
    BY <1>2, <1>6 DEF AskPCs, AfterEvent
  <1> QED BY <1>1, <1>2, <1>5, <1>6, <1>7, <1>8, <1>9, OpMoves, Zenon

LEMMA WaitingStep ==
  ASSUME PeerInv, NEW o \in Ops, record_peer_waiting(o)
  PROVE  PeerInv'
  <1>1. UNCHANGED <<profile, profileFile, scene, remote, late, counts, clean, overwritten>>
    BY Zenon DEF record_peer_waiting, config, world, ended
  <1>2. op[o].pc = "waiting" /\ op[o].kind \in Any /\ op[o].pc \notin Idle \cup {"queue"}
    BY Before, Zenon DEF record_peer_waiting, At, Sound, JobPCs, Idle
  <1>3. /\ job' \in JobStates /\ jobFile' \in JobStates
        /\ jobFile' = jobFile \/ jobFile' = "waiting_retry"
        /\ peer' \in PeerStates /\ peerFile' \in PeerStates
        /\ \E x \in {"waiting", "phases", Failing(o)}, q \in Op : Gone(o, q, x)
    <2>1. CASE op[o].half
      <3>1. /\ Goes(o, "phases") \/ Goes(o, Failing(o))
            /\ UNCHANGED peers \/ \E ok \in BOOLEAN : PutPeer(peer, ok)
            /\ UNCHANGED jobs
        BY <2>1, Zenon DEF record_peer_waiting, Saves
      <3>2. \E x \in {"phases", Failing(o)}, q \in Op : Gone(o, q, x)
        BY <3>1, Going, FailingTo, Before, Zenon DEF PCs
      <3>3. peer' \in PeerStates /\ peerFile' \in PeerStates
        BY <3>1, Before, Zenon DEF PutPeer, peers, StoresOK
      <3>4. job' = job /\ jobFile' = jobFile /\ job \in JobStates /\ jobFile \in JobStates
        BY <3>1, Before, Zenon DEF jobs, StoresOK
      <3> QED BY <3>2, <3>3, <3>4, Zenon
    <2>2. CASE ~op[o].half
      <3>1. JobFirst(o, "waiting_retry", Failing(o))
        BY <2>2, Zenon DEF record_peer_waiting
      <3>2. Failing(o) \in PCs /\ "waiting_retry" \in JobStates /\ op[o].pc \notin Idle
        BY <1>2, FailingTo, Zenon DEF JobStates
      <3>3. /\ UNCHANGED <<peer, peerFile>>
            /\ job' \in JobStates /\ jobFile' \in JobStates
            /\ jobFile' = jobFile \/ jobFile' = "waiting_retry"
            /\ \E x \in {op[o].pc, Failing(o)}, q \in Op : Gone(o, q, x)
        BY <3>1, <3>2, FirstHalf, Before, Zenon
      <3> QED BY <1>2, <3>3, Before, Zenon DEF StoresOK
    <2> QED BY <2>1, <2>2, Zenon
  <1>4. StoresOK'
    BY <1>1, <1>3, Before, HostStays, Zenon DEF StoresOK
  <1>5. PICK pc \in PCs, q \in Op : Gone(o, q, pc) /\ pc \in {"waiting", "phases", Failing(o)}
    BY <1>3, FailingTo, Zenon DEF PCs
  <1>6. Sound(q, remote', profile', profileFile', peer', peerFile')
    BY <1>2, <1>5, FailingTo, Zenon DEF Sound, JobPCs, OwnPCs, Gone, Idle
  <1>7. HealthyOnFile'
    BY <1>1, <1>2, <1>3, <1>5, FileStays, Zenon DEF Gone
  <1> QED BY <1>1, <1>2, <1>4, <1>5, <1>6, <1>7, OpMoves, Zenon DEF AskPCs

LEMMA DescriptorStep ==
  ASSUME PeerInv, NEW o \in Ops, refresh_remote_peer_descriptor(o)
  PROVE  PeerInv'
  <1>1. UNCHANGED <<profile, profileFile, job, jobFile, peer, peerFile, scene, remote, late, counts,
                    clean, overwritten>>
    BY Zenon DEF refresh_remote_peer_descriptor, config, jobs, peers, world, ended
  <1>2. op[o].pc = "descriptor" /\ op[o].pc \notin Idle \cup {"queue"} /\ StoresOK'
    BY <1>1, Before, HostStays, Zenon DEF refresh_remote_peer_descriptor, At, StoresOK, Idle
  <1>3. PICK pc \in PCs, q \in Op :
          /\ Gone(o, q, pc)
          /\ \/ pc = "profile" /\ Accepted(o) /\ (Ensures(o) => There(o).ver = "new")
             \/ pc = "waiting" /\ Ensures(o)
             \/ pc \in Idle
    <2>1. \/ Goes(o, "profile") /\ Accepted(o) /\ (Ensures(o) => There(o).ver = "new")
          \/ Lost(o, "waiting") /\ Ensures(o)
          \/ Lost(o, "off")
      BY Zenon DEF refresh_remote_peer_descriptor
    <2>2. {"profile", "waiting", "off", "hung"} \subseteq PCs
      BY Zenon DEF PCs
    <2>3. CASE Goes(o, "profile") /\ Accepted(o) /\ (Ensures(o) => There(o).ver = "new")
      BY <2>2, <2>3, Going, Before, Zenon
    <2>4. CASE Lost(o, "waiting") /\ Ensures(o)
      BY <2>2, <2>4, Losing, Before, Zenon DEF Idle
    <2>5. CASE Lost(o, "off")
      BY <2>2, <2>5, Losing, Before, Zenon DEF Idle
    <2> QED BY <2>1, <2>3, <2>4, <2>5, Zenon
  <1>4. Sound(q, remote', profile', profileFile', peer', peerFile')
    <2>1. CASE pc # "profile"
      BY <1>3, <2>1, Zenon DEF Sound, JobPCs, OwnPCs, Gone, Idle, Ensures, Any
    <2>2. CASE pc = "profile"
      <3>1. /\ q.kind = op[o].kind /\ q.tok = op[o].tok /\ q.port = op[o].port /\ q.pc = "profile"
            /\ op[o].port \in Ports
        BY <1>3, <2>2, Before, Zenon DEF Gone, Idle
      <3>2. /\ There(o).tok = q.tok /\ q.tok # 0 /\ There(o) = remote'.at[q.port]
            /\ q.kind \in Any => There(o).ver = "new" /\ remote'.bin = "new"
        BY <1>1, <1>3, <2>2, <3>1, Before, Zenon
           DEF Accepted, Ensures, Any, There, StoresOK, HostOK, Idle
      <3> QED BY <3>1, <3>2, Zenon DEF Sound, JobPCs, OwnPCs
    <2> QED BY <2>1, <2>2, Zenon
  <1>5. HealthyOnFile'
    BY <1>1, <1>2, <1>3, FileStays, Zenon DEF Gone
  <1>6. pc \in AskPCs => op[o].pc \in AskPCs
    BY <1>2, Zenon DEF AskPCs
  <1> QED BY <1>1, <1>2, <1>3, <1>4, <1>5, <1>6, OpMoves, Zenon

\* An operation ends, or an installation fails.
LEMMA FailingStep ==
  ASSUME PeerInv, NEW o \in Ops, op[o].pc \notin Idle \cup {"queue"}, StoresOK',
         NEW x, NEW q \in Op, Gone(o, q, x), x \in Idle \/ (x = "fail" /\ op[o].kind \in Any),
         UNCHANGED <<profile, profileFile, job, jobFile, peer, peerFile, counts, clean, overwritten>>,
         remote.bin = "new" => remote'.bin = "new"
  PROVE  PeerInv'
  <1>1. x \in PCs /\ x \notin AskPCs
    BY Zenon DEF PCs, Idle, AskPCs
  <1>2. Sound(q, remote', profile', profileFile', peer', peerFile')
    BY Zenon DEF Sound, JobPCs, OwnPCs, Gone, Idle
  <1>3. HealthyOnFile'
    BY FileStays, Zenon DEF Gone
  <1> QED BY <1>1, <1>2, <1>3, OpMoves, Zenon

\* Where an installation that fails leads.
LEMMA LosingTo ==
  ASSUME op \in [Ops -> Op], NEW o \in Ops, Lost(o, FailedAt(o)) \/ InstallFails(o)
  PROVE  \E x \in PCs, q \in Op : Gone(o, q, x) /\ (x \in Idle \/ (x = "fail" /\ op[o].kind \in Any))
  <1>1. FailedAt(o) \in PCs
    BY Zenon DEF FailedAt, PCs
  <1>2. FailedAt(o) \in Idle \/ (FailedAt(o) = "fail" /\ op[o].kind \in Any)
    BY Zenon DEF FailedAt, Ensures, Any, Idle
  <1>3. \E x \in {FailedAt(o), "off", "hung"}, q \in Op : Gone(o, q, x)
    BY <1>1, Losing, Going, Zenon DEF InstallFails
  <1>4. "off" \in PCs /\ "hung" \in PCs
    BY Zenon DEF PCs
  <1> QED BY <1>1, <1>2, <1>3, <1>4, Zenon DEF Idle

\* A step that may have generated a token.
LEMMA TokenStep ==
  ASSUME PeerInv, NEW o \in Ops, op[o].pc \in AskPCs, op[o].pc # "queue", NEW q \in Op,
         op' = [op EXCEPT ![o] = q], q.pc \notin AskPCs,
         (q.pc \in Idle /\ q.kind = "ensure") \/ (q.calm = op[o].calm /\ q.kind = op[o].kind),
         StoresOK', remote.bin = "new" => remote'.bin = "new",
         UNCHANGED <<profile, profileFile, job, jobFile, peer, peerFile, requests, crashes, clean,
                     overwritten>>,
         tokens' = tokens + 1, Sound(q, remote', profile', profileFile', peer', peerFile')
  PROVE  PeerInv'
  <1>0. op[o].pc \notin Idle \cup {"queue"}
    BY Zenon DEF AskPCs, Idle
  <1>1. op \in [Ops -> Op] /\ tokens \in Nat /\ requests \in 0 .. MaxRequests
    BY BoundAssumption DEF PeerInv, TypeOK, Tokens
  <1>2. AllSound' /\ CalmIsAlone'
    BY <1>0, <1>1, OneMoves, Zenon DEF PeerInv
  <1>3. Asking' = Asking \ {o} /\ o \in Asking
    BY <1>1, Zenon DEF Asking
  <1>4. TokensLast' /\ tokens' \in Tokens
    BY <1>1, <1>3, TokenTaken, Zenon DEF PeerInv
  <1>5. TypeOK'
    BY <1>1, <1>4, Zenon DEF PeerInv, TypeOK, StoresOK
  <1>6. HealthyOnFile'
    BY <1>0, FileStays, Zenon
  <1> QED BY <1>2, <1>4, <1>5, <1>6, Zenon DEF PeerInv, StoresOK

\* The token that is generated is one there may be.
LEMMA TokenThere ==
  ASSUME PeerInv, NEW o \in Ops, op[o].pc \in AskPCs
  PROVE  tokens + 1 \in Tokens /\ tokens + 1 # 0
  <1>1. tokens \in Nat /\ requests \in 0 .. MaxRequests
    BY BoundAssumption DEF PeerInv, TypeOK, Tokens
  <1>2. o \in Asking /\ IsFiniteSet(Asking)
    BY Zenon DEF Asking, PeerInv, TokensLast
  <1>3. Cardinality(Asking) \in Nat /\ Cardinality(Asking) # 0
    BY <1>2, FS_CardinalityType, FS_EmptySet, Zenon
  <1> QED BY <1>1, <1>3, BoundAssumption DEF PeerInv, TokensLast, Tokens

LEMMA DefaultsStep ==
  ASSUME PeerInv, NEW o \in Ops, apply_remote_auto_defaults(o)
  PROVE  PeerInv'
  <1>1. UNCHANGED <<profile, profileFile, job, jobFile, peer, peerFile, scene, remote, late, requests,
                    crashes, clean, overwritten>>
    BY Zenon DEF apply_remote_auto_defaults, config, jobs, peers, world, ended
  <1>2. op[o].pc = "defaults" /\ op[o].pc \notin Idle \cup {"queue"} /\ StoresOK'
    BY <1>1, Before, HostStays, Zenon DEF apply_remote_auto_defaults, At, StoresOK, Idle
  <1>3. CASE Lost(o, FailedAt(o)) /\ UNCHANGED tokens
    BY <1>1, <1>2, <1>3, LosingTo, FailingStep, Before, Zenon DEF counts
  <1> DEFINE n == IF op[o].tok = 0 THEN tokens + 1 ELSE op[o].tok
  <1>4. CASE /\ tokens' = IF op[o].tok = 0 THEN tokens + 1 ELSE tokens
             /\ \E p \in Ports : op' = [op EXCEPT ![o].pc = "upload", ![o].port = p, ![o].tok = n]
    <2>1. PICK p \in Ports : op' = [op EXCEPT ![o].pc = "upload", ![o].port = p, ![o].tok = n]
      BY <1>4, Zenon
    <2> DEFINE q == [op[o] EXCEPT !.pc = "upload", !.port = p, !.tok = n]
    <2>2. n \in Tokens
      BY <1>2, TokenThere, Before, Zenon DEF AskPCs
    <2>3. op' = [op EXCEPT ![o] = q]
      BY <2>1, Before, Zenon
    <2> HIDE DEF n
    <2>4. q \in Op /\ q.pc = "upload" /\ q.kind = op[o].kind /\ q.calm = op[o].calm
      BY <2>2, Before, Zenon DEF Op, PCs
    <2>5. Sound(q, remote', profile', profileFile', peer', peerFile')
      BY <2>4, Zenon DEF Sound, JobPCs, OwnPCs
    <2> HIDE DEF q
    <2>6. CASE op[o].tok = 0
      <3>1. tokens' = tokens + 1
        BY <1>4, <2>6, Zenon
      <3> QED BY <1>1, <1>2, <2>3, <2>4, <2>5, <3>1, TokenStep, Zenon DEF AskPCs
    <2>7. CASE op[o].tok # 0
      <3>1. tokens' = tokens
        BY <1>4, <2>7, Zenon
      <3>2. HealthyOnFile'
        BY <1>1, <1>2, <2>3, <2>4, FileStays, Zenon
      <3>3. op \in [Ops -> Op] /\ tokens \in Nat /\ requests \in Nat
        BY BoundAssumption DEF PeerInv, TypeOK, Tokens
      <3>4. AllSound' /\ CalmIsAlone'
        BY <1>1, <1>2, <2>3, <2>4, <2>5, <3>3, OneMoves, Zenon DEF PeerInv
      <3>5. Asking' \subseteq Asking
        BY <2>3, <2>4, <3>3, Zenon DEF Asking, AskPCs
      <3>6. TokensLast'
        BY <1>1, <3>1, <3>3, <3>5, TokensLastOn, Zenon DEF PeerInv
      <3>7. TypeOK'
        BY <1>1, <1>2, <2>3, <2>4, <3>1, <3>3, Zenon DEF PeerInv, TypeOK, StoresOK
      <3> QED BY <1>2, <3>2, <3>4, <3>6, <3>7, Zenon DEF PeerInv, StoresOK
    <2> QED BY <2>6, <2>7, Zenon
  <1> QED BY <1>3, <1>4, Zenon DEF apply_remote_auto_defaults

LEMMA UploadStep ==
  ASSUME PeerInv, NEW o \in Ops, upload_helper(o)
  PROVE  PeerInv'
  <1>1. UNCHANGED <<profile, profileFile, job, jobFile, peer, peerFile, scene, late, counts, clean,
                    overwritten>>
    BY Zenon DEF upload_helper, config, jobs, peers, ended
  <1>2. op[o].pc = "upload" /\ op[o].pc \notin Idle \cup {"queue"}
    BY Zenon DEF upload_helper, At, Idle
  <1>3. CASE Lost(o, FailedAt(o)) /\ UNCHANGED remote
    <2>1. StoresOK'
      BY <1>1, <1>3, Before, HostStays, Zenon DEF StoresOK
    <2> QED BY <1>1, <1>2, <1>3, <2>1, LosingTo, FailingStep, Before, Zenon
  <1>4. CASE remote' = [remote EXCEPT !.bin = "new"] /\ Goes(o, "service")
    <2>1. remote' \in Remote /\ remote'.bin = "new"
      BY <1>4, Before, Zenon DEF StoresOK, Remote, Versions
    <2>2. StoresOK'
      BY <1>1, <2>1, Before, Zenon DEF StoresOK, HostOK
    <2>3. PICK q \in Op : Gone(o, q, "service")
      BY <1>4, Going, Before, Zenon DEF PCs
    <2>4. Sound(q, remote', profile', profileFile', peer', peerFile')
      BY <2>1, <2>3, Zenon DEF Sound, JobPCs, OwnPCs, Gone
    <2>5. HealthyOnFile'
      BY <1>1, <1>2, <2>3, FileStays, Zenon DEF Gone
    <2> QED BY <1>1, <1>2, <2>1, <2>2, <2>3, <2>4, <2>5, OpMoves, Zenon DEF AskPCs, PCs
  <1> QED BY <1>3, <1>4, Zenon DEF upload_helper

\* What the host is after the service of one port is replaced.
LEMMA Placed ==
  ASSUME remote \in Remote, NEW p \in Ports, NEW s \in Service
  PROVE  /\ Put(p, s) \in Remote /\ Put(p, s).bin = remote.bin /\ Put(p, s).at[p] = s
         /\ \A q \in Ports : q # p => Put(p, s).at[q] \in {remote.at[q], NoService}
  <1> DEFINE m == [q \in Ports |-> IF q = p THEN s
                                   ELSE IF remote.nohup THEN remote.at[q] ELSE NoService]
  <1>1. remote.at \in [Ports -> Service]
    BY Zenon DEF Remote
  <1>2. m \in [Ports -> Service]
    BY <1>1, Zero, Zenon
  <1>3. m[p] = s /\ \A q \in Ports : q # p => m[q] \in {remote.at[q], NoService}
    BY Zenon
  <1>4. Put(p, s) = [remote EXCEPT !.at = m]
    BY Zenon DEF Put
  <1> HIDE DEF m
  <1>5. Put(p, s) \in Remote /\ Put(p, s).bin = remote.bin /\ Put(p, s).at = m
    BY <1>2, <1>4, Zenon DEF Remote
  <1> QED BY <1>3, <1>5, Zenon

\* What the install command may leave behind.
LEMMA Commanded ==
  ASSUME remote \in Remote, HostOK, NEW p \in Ports, NEW t \in Tokens, NEW h \in Installed(p, t)
  PROVE  /\ h \in Remote /\ h.bin = remote.bin
         /\ \A q \in Ports : h.at[q].ver = "new" => h.bin = "new"
         /\ h.at[p].tok # 0 /\ ~h.at[p].kept => h.at[p].ver = remote.bin
  <1> DEFINE d == remote.at[p]
             b == d.tok # 0
  <1>1. PICK s \in Service :
          /\ h = Put(p, s) /\ (s.ver = "new" => remote.bin = "new")
          /\ s.tok # 0 /\ ~s.kept => s.ver = remote.bin
    <2>1. d \in Service /\ remote.bin \in Versions /\ b \in BOOLEAN
      BY Zenon DEF Remote
    <2>2. CASE h = Restarted(p, t)
      <3> DEFINE s == [svc |-> t, tok |-> t, ver |-> remote.bin, kept |-> FALSE]
      <3>1. s \in Service /\ s.ver = remote.bin
        BY <2>1, Zenon DEF Service
      <3> QED BY <2>2, <3>1, Zenon DEF Restarted
    <2>3. CASE h = Down(p, t)
      <3> DEFINE s == [svc |-> t, tok |-> 0, ver |-> "none", kept |-> FALSE]
      <3>1. s \in Service /\ s.ver = "none" /\ s.tok = 0
        BY Zero, Zenon DEF Service, Versions
      <3> QED BY <2>3, <3>1 DEF Down
    <2>4. CASE h = Kept(p, t)
      <3> DEFINE s == [d EXCEPT !.svc = t, !.kept = b]
      <3>1. h = Put(p, s)
        BY <2>4, Zenon DEF Kept
      <3>2. (b <=> d.tok # 0) /\ (d.ver = "new" => remote.bin = "new")
        BY Zenon DEF HostOK
      <3> HIDE DEF d, b
      <3>3. s \in Service /\ s.ver = d.ver /\ s.tok = d.tok /\ s.kept = b
        BY <2>1, Zenon DEF Service
      <3> HIDE DEF s
      <3> QED BY <3>1, <3>2, <3>3, Zenon
    <2> QED BY <2>2, <2>3, <2>4, Zenon DEF Installed
  <1>2. h \in Remote /\ h.bin = remote.bin /\ h.at[p] = s
    BY <1>1, Placed, Zenon
  <1>3. ASSUME NEW q \in Ports, h.at[q].ver = "new" PROVE remote.bin = "new"
    <2>1. CASE q = p
      BY <1>1, <1>2, <1>3, <2>1, Zenon
    <2>2. CASE q # p
      <3>1. h.at[q] \in {remote.at[q], NoService}
        BY <1>1, <2>2, Placed, Zenon
      <3>2. NoService.ver # "new"
        BY DEF NoService
      <3> QED BY <1>3, <3>1, <3>2, Zenon DEF HostOK
    <2> QED BY <2>1, <2>2, Zenon
  <1> QED BY <1>1, <1>2, <1>3, Zenon

LEMMA ServiceStep ==
  ASSUME PeerInv, NEW o \in Ops, install_remote_service(o)
  PROVE  PeerInv'
  <1>1. UNCHANGED <<profile, profileFile, job, jobFile, peer, peerFile, scene, counts, clean,
                    overwritten>>
    BY Zenon DEF install_remote_service, config, jobs, peers, ended
  <1> DEFINE p == op[o].port t == op[o].tok
  <1>2. /\ op[o].pc = "service" /\ op[o].pc \notin Idle \cup {"queue"} /\ remote.bin = "new"
        /\ t \in Tokens /\ p \in Ports /\ remote \in Remote /\ HostOK
    BY Before, Zenon DEF install_remote_service, At, Sound, StoresOK, Idle
  <1>3. ASSUME remote' \in Installed(p, t)
        PROVE  /\ remote' \in Remote /\ remote'.bin = "new" /\ HostOK'
               /\ remote'.at[p].tok # 0 /\ ~remote'.at[p].kept => remote'.at[p].ver = "new"
    BY <1>2, <1>3, Commanded, Zenon DEF HostOK
  <1>4. \/ remote' \in Installed(p, t) /\ Goes(o, "probe") /\ UNCHANGED late
        \/ remote' \in {remote} \cup Installed(p, t) /\ InstallFails(o) /\ UNCHANGED late
        \/ late' = late \cup {<<t, p>>} /\ InstallFails(o) /\ UNCHANGED remote
    BY Zenon DEF install_remote_service
  <1> HIDE DEF p, t
  <1>5. CASE remote' \in {remote} \cup Installed(p, t) /\ InstallFails(o) /\ UNCHANGED late
    <2>1. remote' \in Remote /\ remote'.bin = "new" /\ HostOK'
      BY <1>2, <1>3, <1>5, HostStays, Zenon
    <2>2. StoresOK'
      BY <1>1, <1>5, <2>1, Before, Zenon DEF StoresOK
    <2> QED BY <1>1, <1>2, <1>5, <2>1, <2>2, LosingTo, FailingStep, Before, Zenon
  <1>6. CASE late' = late \cup {<<t, p>>} /\ InstallFails(o) /\ UNCHANGED remote
    <2>0. <<t, p>> \in Tokens \X Ports /\ late \subseteq Tokens \X Ports
      BY <1>2, Before DEF StoresOK
    <2>1. late' \subseteq Tokens \X Ports /\ HostOK'
      BY <1>2, <1>6, <2>0, HostStays, Zenon
    <2>2. StoresOK'
      BY <1>1, <1>6, <2>1, Before, Zenon DEF StoresOK
    <2> QED BY <1>1, <1>2, <1>6, <2>2, LosingTo, FailingStep, Before, Zenon
  <1>7. CASE remote' \in Installed(p, t) /\ Goes(o, "probe") /\ UNCHANGED late
    <2>1. StoresOK'
      BY <1>1, <1>3, <1>7, Before, Zenon DEF StoresOK
    <2>2. PICK q \in Op : Gone(o, q, "probe")
      BY <1>7, Going, Before, Zenon DEF PCs
    <2>3. q.pc = "probe" /\ q.port = p
      BY <2>2, Zenon DEF Gone, Idle, p
    <2>4. Sound(q, remote', profile', profileFile', peer', peerFile')
      BY <1>3, <1>7, <2>3, Zenon DEF Sound, JobPCs, OwnPCs
    <2>5. HealthyOnFile'
      BY <1>1, <1>2, <2>2, FileStays, Zenon DEF Gone
    <2> QED BY <1>1, <1>2, <1>3, <1>7, <2>1, <2>2, <2>4, <2>5, OpMoves, Zenon DEF AskPCs, PCs
  <1> QED BY <1>4, <1>5, <1>6, <1>7, Zenon

LEMMA ProbeStep ==
  ASSUME PeerInv, NEW o \in Ops, wait_remote_peer_descriptor(o)
  PROVE  PeerInv'
  <1>1. UNCHANGED <<profile, profileFile, job, jobFile, peer, peerFile, scene, remote, late, counts,
                    clean, overwritten>>
    BY Zenon DEF wait_remote_peer_descriptor, config, jobs, peers, world, ended
  <1>2. op[o].pc = "probe" /\ op[o].pc \notin Idle \cup {"queue"} /\ StoresOK'
    BY <1>1, Before, HostStays, Zenon DEF wait_remote_peer_descriptor, At, StoresOK, Idle
  <1>3. CASE Lost(o, FailedAt(o))
    BY <1>1, <1>2, <1>3, LosingTo, FailingStep, Before, Zenon
  <1>4. CASE Accepted(o) /\ Goes(o, IF Ensures(o) THEN "answered" ELSE "profile")
    <2>1. {"answered", "profile"} \subseteq PCs
      BY Zenon DEF PCs
    <2>2. PICK pc \in PCs, q \in Op : /\ Gone(o, q, pc)
                               /\ \/ pc = "answered" /\ Ensures(o)
                                  \/ pc = "profile" /\ ~Ensures(o)
      BY <1>4, <2>1, Going, Before, Zenon
    <2>3. /\ q.kind = op[o].kind /\ q.tok = op[o].tok /\ q.port = op[o].port
          /\ q.calm = op[o].calm /\ q.pc = pc
      BY <2>2, Zenon DEF Gone, Idle
    <2>4. Sound(q, remote', profile', profileFile', peer', peerFile')
      BY <1>1, <1>2, <1>4, <2>2, <2>3, Before, Zenon
         DEF Sound, JobPCs, OwnPCs, Accepted, There, Ensures, Any
    <2>5. HealthyOnFile'
      BY <1>1, <1>2, <2>2, FileStays, Zenon DEF Gone
    <2> QED BY <1>1, <1>2, <2>2, <2>4, <2>5, OpMoves, Zenon DEF AskPCs
  <1> QED BY <1>3, <1>4, Zenon DEF wait_remote_peer_descriptor

LEMMA ProfileStep ==
  ASSUME PeerInv, NEW o \in Ops, record_remote_profile(o)
  PROVE  PeerInv'
  <1>1. UNCHANGED <<job, jobFile, peer, peerFile, scene, remote, late, counts, clean, overwritten>>
    BY Zenon DEF record_remote_profile, jobs, peers, world, ended
  <1>2. op[o].pc = "profile" /\ op[o].pc \notin Idle \cup {"queue"}
    BY Zenon DEF record_remote_profile, At, Idle
  <1> DEFINE n == IF op[o].tok = 0 THEN profile.tok ELSE op[o].tok
  <1>3. PICK ok \in Saves("config") :
          /\ PutProfile([tok |-> n, port |-> op[o].port], ok)
          /\ Goes(o, IF ~Ensures(o) THEN "off" ELSE IF ok THEN "record" ELSE Failing(o))
    BY Zenon DEF record_remote_profile
  <1>4. /\ profile.tok \in Tokens /\ op[o].tok \in Tokens /\ op[o].port \in Ports
        /\ profile \in Profile /\ profileFile \in Profile
    BY Before, Zenon DEF StoresOK, Profile
  <1>5. n \in Tokens /\ (profile.tok # 0 => n # 0) /\ (op[o].tok # 0 => n = op[o].tok)
    BY <1>4, Zenon
  <1> HIDE DEF n
  <1>6. /\ profile' \in Profile /\ profileFile' \in Profile /\ profile'.tok = n
        /\ profile'.port = op[o].port /\ (ok => profileFile'.tok = n)
        /\ profileFile' = profile' \/ profileFile' = profileFile
    BY <1>3, <1>4, <1>5, Zenon DEF PutProfile, Profile
  <1>7. StoresOK'
    BY <1>1, <1>5, <1>6, Before, HostStays, Zenon DEF StoresOK
  <1>8. PICK pc \in PCs, q \in Op :
          /\ Gone(o, q, pc)
          /\ \/ pc = "off"
             \/ pc = "record" /\ ok /\ Ensures(o)
             \/ pc = "task_failed" /\ op[o].kind \in Own
    <2>1. {"off", "record", "task_failed"} \subseteq PCs
      BY Zenon DEF PCs
    <2>2. \/ Goes(o, "off")
          \/ Goes(o, "record") /\ ok /\ Ensures(o)
          \/ Goes(o, "task_failed") /\ op[o].kind \in Own
      BY <1>3, FailingTo, Zenon
    <2> QED BY <2>1, <2>2, Going, Before, Zenon
  <1>9. Sound(q, remote', profile', profileFile', peer', peerFile')
    <2>1. CASE pc # "record"
      BY <1>8, <2>1, Zenon DEF Sound, JobPCs, OwnPCs, Gone, Idle
    <2>2. CASE pc = "record"
      <3>1. /\ q.kind = op[o].kind /\ q.tok = op[o].tok /\ q.port = op[o].port
            /\ q.calm = op[o].calm /\ q.pc = "record" /\ ok /\ q.kind \in Any
        BY <1>8, <2>2, Zenon DEF Gone, Idle, Ensures, Any
      <3> QED BY <1>1, <1>2, <1>5, <1>6, <3>1, Before, Zenon DEF Sound, JobPCs, OwnPCs
    <2> QED BY <2>1, <2>2, Zenon
  <1>10. profileFile.tok # 0 => profileFile'.tok # 0
    BY <1>5, <1>6, Before, Zenon DEF StoresOK
  <1>11. HealthyOnFile'
    BY <1>1, <1>2, <1>8, <1>10, FileStays, Zenon DEF Gone
  <1>12. pc \notin AskPCs
    BY <1>8, Zenon DEF AskPCs
  <1> QED BY <1>1, <1>2, <1>7, <1>8, <1>9, <1>11, <1>12, OpMoves, Zenon

\* A job records itself and then the peer, or goes on without.
LEMMA RecordStep ==
  ASSUME PeerInv, NEW o \in Ops, record_installed_peer(o)
  PROVE  PeerInv'
  <1>1. UNCHANGED <<profile, profileFile, scene, remote, late, counts, clean, overwritten>>
    BY Zenon DEF record_installed_peer, config, world, ended
  <1>2. op[o].pc = "record" /\ op[o].kind \in Any /\ op[o].pc \notin Idle \cup {"queue"}
    BY Before, Zenon DEF record_installed_peer, At, Sound, JobPCs, Idle
  <1>3. /\ job' \in JobStates /\ jobFile' \in JobStates /\ (jobFile' = jobFile \/ jobFile' = "running")
        /\ peer' \in PeerStates /\ peerFile' \in PeerStates
        /\ \/ \E x \in {"record", Failing(o)}, q \in Op : Gone(o, q, x)
           \/ /\ \E q \in Op : Gone(o, q, "finish")
              /\ peer' = "healthy" /\ peerFile' = "healthy"
    <2>1. CASE op[o].half
      <3>1. /\ UNCHANGED jobs
            /\ peer' = "healthy" /\ peerFile' \in {"healthy", peerFile}
            /\ Goes(o, Failing(o)) \/ (Goes(o, "finish") /\ peerFile' = "healthy")
        BY <2>1, Zenon DEF record_installed_peer, PutPeer
      <3>2. \/ \E x \in {"record", Failing(o)}, q \in Op : Gone(o, q, x)
            \/ (\E q \in Op : Gone(o, q, "finish")) /\ peerFile' = "healthy"
        BY <3>1, Going, FailingTo, Before, Zenon DEF PCs
      <3>3. peer' \in PeerStates /\ peerFile' \in PeerStates
        BY <3>1, Before, PeerState, Zenon DEF StoresOK
      <3> QED BY <3>1, <3>2, <3>3, Before, Zenon DEF jobs, StoresOK
    <2>2. CASE ~op[o].half
      <3>1. JobFirst(o, "running", Failing(o))
        BY <2>2, Zenon DEF record_installed_peer
      <3>2. Failing(o) \in PCs /\ "running" \in JobStates /\ op[o].pc \notin Idle
        BY <1>2, FailingTo, Zenon DEF JobStates
      <3>3. /\ UNCHANGED <<peer, peerFile>>
            /\ job' \in JobStates /\ jobFile' \in JobStates
            /\ jobFile' = jobFile \/ jobFile' = "running"
            /\ \E x \in {op[o].pc, Failing(o)}, q \in Op : Gone(o, q, x)
        BY <3>1, <3>2, FirstHalf, Before, Zenon
      <3> QED BY <1>2, <3>3, Before, Zenon DEF StoresOK
    <2> QED BY <2>1, <2>2, Zenon
  <1>4. StoresOK'
    BY <1>1, <1>3, Before, HostStays, Zenon DEF StoresOK
  <1>5. PICK pc \in PCs, q \in Op :
          /\ Gone(o, q, pc)
          /\ \/ pc = "record" \/ pc = Failing(o)
             \/ pc = "finish" /\ peer' = "healthy" /\ peerFile' = "healthy"
    BY <1>3, FailingTo, Zenon DEF PCs
  <1>6. Sound(q, remote', profile', profileFile', peer', peerFile')
    <2>1. CASE pc = Failing(o)
      BY <1>5, <2>1, FailingTo, Zenon DEF Sound, JobPCs, OwnPCs, Gone, Idle
    <2>2. CASE pc \in {"record", "finish"}
      <3>1. /\ q.kind = op[o].kind /\ q.tok = op[o].tok /\ q.port = op[o].port
            /\ q.calm = op[o].calm /\ q.pc = pc
        BY <1>5, <2>2, Zenon DEF Gone, Idle
      <3>2. pc = "finish" => peer' = "healthy" /\ peerFile' = "healthy"
        BY <1>5, FailingTo, Zenon
      <3> QED BY <1>1, <1>2, <2>2, <3>1, <3>2, Before, Zenon DEF Sound, JobPCs, OwnPCs
    <2> QED BY <1>5, <2>1, <2>2, Zenon
  <1>7. HealthyOnFile'
    BY <1>1, <1>2, <1>3, <1>5, FileStays, Zenon DEF Gone
  <1>8. pc \notin AskPCs
    BY <1>5, FailingTo, Zenon DEF AskPCs
  <1> QED BY <1>1, <1>2, <1>4, <1>5, <1>6, <1>7, <1>8, OpMoves, Zenon

LEMMA FinishStep ==
  ASSUME PeerInv, NEW o \in Ops, finish_direct_remote_peer_job(o)
  PROVE  PeerInv'
  <1>1. UNCHANGED <<profile, profileFile, peer, peerFile, scene, remote, late, counts>>
    BY Zenon DEF finish_direct_remote_peer_job, config, peers, world
  <1>2. op[o].pc = "finish" /\ op[o].kind \in Any /\ op[o].pc \notin Idle \cup {"queue"}
    BY Before, Zenon DEF finish_direct_remote_peer_job, At, Sound, JobPCs, Idle
  <1>3. {"off", "task_failed"} \subseteq PCs
    BY Zenon DEF PCs
  <1>4. CASE HasSpec(o) /\ Goes(o, "off") /\ UNCHANGED <<jobs, ended>>
    <2>1. UNCHANGED <<job, jobFile, clean, overwritten>>
      BY <1>4, Zenon DEF jobs, ended
    <2>2. StoresOK'
      BY <1>1, <2>1, Before, HostStays, Zenon DEF StoresOK
    <2>3. PICK q \in Op : Gone(o, q, "off")
      BY <1>3, <1>4, Going, Before, Zenon
    <2> QED BY <1>1, <1>2, <2>1, <2>2, <2>3, FailingStep, Zenon DEF Idle
  <1>5. CASE ~HasSpec(o) /\ \E ok \in Saves("jobs") :
               /\ PutJob("healthy", ok)
               /\ clean' = IF ok THEN op[o].calm ELSE clean
               /\ overwritten' = (overwritten /\ ~ok)
               /\ Goes(o, IF ok THEN "off" ELSE "task_failed")
    <2>1. PICK ok \in Saves("jobs") :
               /\ PutJob("healthy", ok)
               /\ clean' = IF ok THEN op[o].calm ELSE clean
               /\ overwritten' = (overwritten /\ ~ok)
               /\ Goes(o, IF ok THEN "off" ELSE "task_failed")
      BY <1>5, Zenon
    <2>2. op[o].kind \in Own
      BY <1>2, <1>5, Zenon DEF HasSpec, Any, Own
    <2>3. /\ clean' \in BOOLEAN /\ overwritten' \in BOOLEAN
          /\ job' \in JobStates /\ jobFile' \in JobStates
      BY <2>1, Before, JobState, Zenon DEF StoresOK, PutJob
    <2>4. StoresOK'
      BY <1>1, <2>3, Before, HostStays, Zenon DEF StoresOK
    <2>5. CASE ok
      <3>1. PICK q \in Op : Gone(o, q, "off")
        BY <1>3, <2>1, <2>5, Going, Before, Zenon
      <3>2. q.pc \in Idle /\ clean' = op[o].calm
        BY <2>1, <2>5, <3>1, Zenon DEF Gone, Idle
      <3>3. Sound(q, remote', profile', profileFile', peer', peerFile')
        BY <3>2, Zenon DEF Sound, JobPCs, OwnPCs, Idle
      <3>4. HealthyOnFile'
        <4> SUFFICES ASSUME op[o].calm PROVE HealthyOnFile'
          BY <3>2, Zenon DEF HealthyOnFile
        <4>1. peerFile = "healthy" /\ profileFile.tok # 0
          BY <1>2, Before, Zenon DEF Sound
        <4>2. \A p \in Ops : op'[p].pc \in Idle
          BY <1>2, <3>1, <3>2, Before, Zenon DEF PeerInv, CalmIsAlone, Gone
        <4> QED BY <1>1, <4>1, <4>2, Zenon DEF HealthyOnFile
      <3> QED BY <1>1, <1>2, <1>3, <2>4, <3>1, <3>3, <3>4, OpMoves, Zenon DEF AskPCs
    <2>6. CASE ~ok
      <3>1. PICK q \in Op : Gone(o, q, "task_failed")
        BY <1>3, <2>1, <2>6, Going, Before, Zenon
      <3>2. clean' = clean /\ jobFile' = jobFile /\ overwritten' = overwritten
        BY <2>1, <2>6, Before, Zenon DEF PutJob, StoresOK
      <3>3. Sound(q, remote', profile', profileFile', peer', peerFile')
        BY <2>2, <3>1, Zenon DEF Sound, JobPCs, OwnPCs, Gone, Idle
      <3>4. HealthyOnFile'
        BY <1>1, <1>2, <3>1, <3>2, FileStays, Zenon DEF Gone
      <3> QED BY <1>1, <1>2, <1>3, <2>4, <3>1, <3>3, <3>4, OpMoves, Zenon DEF AskPCs
    <2> QED BY <2>5, <2>6, Zenon
  <1> QED BY <1>4, <1>5, Zenon DEF finish_direct_remote_peer_job

LEMMA FailStep ==
  ASSUME PeerInv, NEW o \in Ops, ensure_failed(o) \/ job_task_failed(o)
  PROVE  PeerInv'
  <1>1. UNCHANGED <<profile, profileFile, scene, remote, late, counts, clean, overwritten>>
    BY Zenon DEF ensure_failed, job_task_failed, config, world, ended
  <1>2. /\ op[o].pc \in {"fail", "task_failed"} /\ op[o].kind \in Any
        /\ op[o].pc \notin Idle \cup {"queue"}
    BY Before, Zenon DEF ensure_failed, job_task_failed, At, Sound, JobPCs, OwnPCs, Idle, Own, Any
  <1>3. /\ job' \in JobStates /\ jobFile' \in JobStates /\ (jobFile' = jobFile \/ jobFile' = "failed")
        /\ peer' \in PeerStates /\ peerFile' \in PeerStates
        /\ \E x \in {"fail", "off", Failing(o)}, q \in Op : Gone(o, q, x)
    <2>1. CASE job_task_failed(o)
      <3>1. Goes(o, "off") /\ UNCHANGED peers /\ \E ok \in Saves("jobs") : PutJob("failed", ok)
        BY <2>1, Zenon DEF job_task_failed
      <3>2. \E q \in Op : Gone(o, q, "off")
        BY <3>1, Going, Before, Zenon DEF PCs
      <3> QED BY <3>1, <3>2, Before, JobState, Zenon DEF PutJob, peers, StoresOK
    <2>2. CASE ensure_failed(o) /\ op[o].half
      <3>1. /\ UNCHANGED jobs /\ peer' = "failed" /\ peerFile' \in {"failed", peerFile}
            /\ Goes(o, "off") \/ Goes(o, Failing(o))
        BY <2>2, Zenon DEF ensure_failed, PutPeer
      <3>2. \E x \in {"off", Failing(o)}, q \in Op : Gone(o, q, x)
        BY <3>1, Going, FailingTo, Before, Zenon DEF PCs
      <3>3. peer' \in PeerStates /\ peerFile' \in PeerStates
        BY <3>1, Before, PeerState, Zenon DEF StoresOK
      <3> QED BY <3>1, <3>2, <3>3, Before, Zenon DEF jobs, StoresOK
    <2>3. CASE ensure_failed(o) /\ ~op[o].half
      <3>1. JobFirst(o, "failed", Failing(o)) /\ op[o].pc = "fail"
        BY <2>3, Zenon DEF ensure_failed, At
      <3>2. Failing(o) \in PCs /\ "failed" \in JobStates /\ op[o].pc \notin Idle
        BY <1>2, FailingTo, Zenon DEF JobStates
      <3>3. /\ UNCHANGED <<peer, peerFile>>
            /\ job' \in JobStates /\ jobFile' \in JobStates
            /\ jobFile' = jobFile \/ jobFile' = "failed"
            /\ \E x \in {op[o].pc, Failing(o)}, q \in Op : Gone(o, q, x)
        BY <3>1, <3>2, FirstHalf, Before, Zenon
      <3> QED BY <3>1, <3>3, Before, Zenon DEF StoresOK
    <2> QED BY <2>1, <2>2, <2>3, Zenon
  <1>4. StoresOK'
    BY <1>1, <1>3, Before, HostStays, Zenon DEF StoresOK
  <1>5. PICK pc \in PCs, q \in Op : Gone(o, q, pc) /\ pc \in {"fail", "off", Failing(o)}
    BY <1>3, FailingTo, Zenon DEF PCs
  <1>6. Sound(q, remote', profile', profileFile', peer', peerFile')
    BY <1>2, <1>5, FailingTo, Zenon DEF Sound, JobPCs, OwnPCs, Gone, Idle
  <1>7. HealthyOnFile'
    BY <1>1, <1>2, <1>3, <1>5, FileStays, Zenon DEF Gone
  <1>8. pc \notin AskPCs
    BY <1>5, FailingTo, Zenon DEF AskPCs
  <1> QED BY <1>1, <1>2, <1>4, <1>5, <1>6, <1>7, <1>8, OpMoves, Zenon

LEMMA RotateStep ==
  ASSUME PeerInv, NEW o \in Ops, rotate_remote_peer_token(o)
  PROVE  PeerInv'
  <1>1. UNCHANGED <<profile, profileFile, job, jobFile, peer, peerFile, scene, late, requests,
                    crashes, clean, overwritten>>
    BY Zenon DEF rotate_remote_peer_token, config, jobs, peers, ended
  <1>2. /\ op[o].pc = "rotate" /\ op[o].kind = "rotate" /\ op[o].pc \notin Idle \cup {"queue"}
        /\ op[o].port \in Ports
    BY Before, Zenon DEF rotate_remote_peer_token, At, Sound, Idle
  <1>3. tokens + 1 \in Tokens /\ tokens + 1 # 0
    BY <1>2, TokenThere, Zenon DEF AskPCs
  <1>4. ASSUME Lost(o, "off") PROVE \E x \in Idle, q \in Op : Gone(o, q, x)
    <2>1. "off" \in PCs /\ op \in [Ops -> Op]
      BY Before, Zenon DEF PCs
    <2>2. \E x \in {"off", "off", "hung"}, q \in Op : Gone(o, q, x)
      BY <1>4, <2>1, Losing, Zenon
    <2> QED BY <2>2, Zenon DEF Idle
  <1>5. CASE Lost(o, "off") /\ UNCHANGED <<remote, tokens>>
    <2>1. StoresOK'
      BY <1>1, <1>5, Before, HostStays, Zenon DEF StoresOK
    <2> QED BY <1>1, <1>2, <1>4, <1>5, <2>1, FailingStep, Zenon DEF counts
  <1>6. CASE /\ tokens' = tokens + 1
             /\ remote' = [remote EXCEPT !.at[op[o].port].tok = tokens + 1]
             /\ \/ op' = [op EXCEPT ![o] = [@ EXCEPT !.pc = "profile", !.tok = tokens + 1]]
                \/ Lost(o, "off")
    <2> DEFINE p == op[o].port
               s == [remote.at[p] EXCEPT !.tok = tokens + 1]
               m == [remote.at EXCEPT ![p] = s]
    <2>1. remote \in Remote /\ HostOK /\ remote.at \in [Ports -> Service] /\ remote.at[p] \in Service
      BY <1>2, Before, Zenon DEF StoresOK, Remote
    <2>2. s \in Service /\ s.ver = remote.at[p].ver
      BY <1>3, <2>1, Zenon DEF Service
    <2>3. remote' = [remote EXCEPT !.at = m]
      BY <1>6, Zenon
    <2> HIDE DEF s
    <2>4. m \in [Ports -> Service] /\ \A q \in Ports : m[q].ver = remote.at[q].ver
      BY <1>2, <2>1, <2>2, Zenon
    <2> HIDE DEF m
    <2>5. remote' \in Remote /\ remote'.bin = remote.bin /\ remote'.at = m
      BY <2>1, <2>3, <2>4, Zenon DEF Remote
    <2>6. HostOK'
      BY <2>1, <2>4, <2>5, Zenon DEF HostOK
    <2>7. StoresOK'
      BY <1>1, <2>5, <2>6, Before, Zenon DEF StoresOK
    <2>8. CASE Lost(o, "off")
      <3>1. PICK x \in Idle, q \in Op : Gone(o, q, x)
        BY <1>4, <2>8, Zenon
      <3>2. q.pc \in Idle /\ q.kind = "ensure" /\ op' = [op EXCEPT ![o] = q] /\ q.pc \notin AskPCs
        BY <3>1, Zenon DEF Gone, Idle, AskPCs
      <3>3. Sound(q, remote', profile', profileFile', peer', peerFile')
        BY <3>2, Zenon DEF Sound, JobPCs, OwnPCs, Idle
      <3> QED BY <1>1, <1>2, <1>6, <2>5, <2>7, <3>2, <3>3, TokenStep, Zenon DEF AskPCs
    <2>9. CASE op' = [op EXCEPT ![o] = [@ EXCEPT !.pc = "profile", !.tok = tokens + 1]]
      <3> DEFINE q == [op[o] EXCEPT !.pc = "profile", !.tok = tokens + 1]
      <3>1. q \in Op /\ q.pc = "profile" /\ q.kind = op[o].kind /\ q.calm = op[o].calm
        BY <1>3, Before, Zenon DEF Op, PCs
      <3>2. op' = [op EXCEPT ![o] = q]
        BY <2>9, Zenon
      <3> HIDE DEF q
      <3>3. Sound(q, remote', profile', profileFile', peer', peerFile')
        BY <1>2, <3>1, Zenon DEF Sound, JobPCs, OwnPCs, Any
      <3> QED BY <1>1, <1>2, <1>6, <2>5, <2>7, <3>1, <3>2, <3>3, TokenStep, Zenon DEF AskPCs
    <2> QED BY <1>6, <2>8, <2>9, Zenon
  <1> QED BY <1>5, <1>6, Zenon DEF rotate_remote_peer_token

\* A request begins an operation, and leaves nobody calm but one that is alone.
LEMMA BeginStep ==
  ASSUME PeerInv, NEW o \in Ops, NEW k \in Kinds, NEW pc \in PCs, Asked(o, k), Begins(o, k, pc),
         \/ pc = "queue" /\ k \in Own
         \/ pc = "inspect" /\ k = "session" /\ (jobFile = "healthy" => overwritten')
         \/ pc \in {"defaults", "descriptor"} /\ k \notin Any
         \/ pc = "rotate" /\ k = "rotate",
         profile' = profile, profileFile' = profile \/ profileFile' = profileFile,
         overwritten' \in BOOLEAN, overwritten => overwritten',
         UNCHANGED <<job, jobFile, peer, peerFile, scene, remote, late, tokens, crashes, clean>>
  PROVE  PeerInv'
  <1> DEFINE
        r == [kind |-> k, pc |-> pc, half |-> FALSE, tok |-> profile.tok,
              port |-> profile.port, calm |-> \A q \in Ops : ~Active(q)]
  <1>1. /\ op \in [Ops -> Op] /\ StoresOK /\ profile.tok \in Tokens /\ profile.port \in Ports
        /\ tokens \in Nat /\ requests \in 0 .. MaxRequests
    BY StoresKept, BoundAssumption DEF PeerInv, TypeOK, StoresOK, Profile, Tokens
  <1>3. op' = [p \in Ops |-> IF p = o THEN r
                             ELSE IF ~Active(p) THEN op[p] ELSE [op[p] EXCEPT !.calm = FALSE]]
    BY Zenon DEF Begins
  <1>4. /\ r \in Op /\ r.kind = k /\ r.pc = pc
        /\ r.calm => \A q \in Ops : op[q].pc \in Idle
    <2> DEFINE b == \A q \in Ops : ~Active(q)
    <2>1. b \in BOOLEAN /\ (b => \A q \in Ops : op[q].pc \in Idle)
      BY Zenon DEF Active, Idle
    <2> HIDE DEF b
    <2>2. r \in Op /\ r.kind = k /\ r.pc = pc /\ r.calm = b
      BY <1>1, <2>1, Zenon DEF Op, b
    <2> QED BY <2>1, <2>2, Zenon
  <1> HIDE DEF r
  <1>5. op'[o] = r
    BY <1>3, Zenon
  <1>6. ASSUME NEW p \in Ops, p # o
        PROVE  /\ op'[p] \in Op /\ op'[p].pc = op[p].pc /\ op'[p].kind = op[p].kind
               /\ op'[p].pc \notin Idle => op'[p].calm = FALSE
    <2>1. op[p] \in Op
      BY <1>1, Zenon
    <2>2. CASE ~Active(p)
      BY <1>3, <1>6, <2>1, <2>2, Zenon DEF Active, Idle
    <2>3. CASE Active(p)
      <3>1. op'[p] = [op[p] EXCEPT !.calm = FALSE]
        BY <1>3, <1>6, <2>3, Zenon
      <3> QED BY <2>1, <3>1, Zenon DEF Op
    <2> QED BY <2>2, <2>3, Zenon
  <1>7. op' \in [Ops -> Op]
    <2>1. \A p \in Ops : op'[p] \in Op
      BY <1>4, <1>5, <1>6, Zenon
    <2>2. op' = [p \in Ops |-> op'[p]]
      BY <1>3, Zenon
    <2> QED BY <2>1, <2>2, Zenon
  <1>8. StoresOK'
    BY <1>1, HostStays, Zenon DEF StoresOK
  <1>9. AllSound'
    <2> SUFFICES ASSUME NEW p \in Ops
                 PROVE Sound(op'[p], remote', profile', profileFile', peer', peerFile')
      BY Zenon DEF AllSound
    <2>1. CASE p = o
      BY <1>4, <1>5, <2>1, Zenon DEF Sound, JobPCs, OwnPCs, Any
    <2>2. CASE p # o
      <3>1. Sound(op[p], remote, profile, profileFile, peer, peerFile)
        BY Zenon DEF PeerInv, AllSound
      <3>2. op'[p].pc \in Idle \/ op'[p].calm = FALSE
        BY <1>6, <2>2, Zenon
      <3>3. CASE op'[p].pc \in Idle
        BY <3>3, Zenon DEF Sound, JobPCs, OwnPCs, Idle
      <3>4. CASE op'[p].calm = FALSE
        BY <1>6, <2>2, <3>1, <3>4, Zenon DEF Sound
      <3> QED BY <3>2, <3>3, <3>4, Zenon
    <2> QED BY <2>1, <2>2, Zenon
  <1>10. CalmIsAlone'
    <2> SUFFICES ASSUME NEW p \in Ops, NEW q \in Ops, op'[p].calm, op'[p].pc \notin Idle, q # p
                 PROVE  op'[q].pc \in Idle
      BY Zenon DEF CalmIsAlone
    <2>1. p = o
      BY <1>6, Zenon
    <2> QED BY <1>4, <1>5, <1>6, <2>1, Zenon
  <1>11. Asking' \subseteq Asking \cup {o}
    BY <1>6, Zenon DEF Asking
  <1>12. TokensLast' /\ requests' \in 0 .. MaxRequests
    <2>0. scene.requests \in 0 .. MaxRequests
      BY <1>1, BoundAssumption DEF StoresOK, Scenario
    <2>1. requests \in Nat /\ requests' = requests + 1 /\ requests < MaxRequests
      BY <1>1, <2>0, BoundAssumption DEF Asked
    <2>2. TokensLast'
      BY <1>1, <1>11, <2>1, TokenWanted, Zenon DEF PeerInv
    <2> QED BY <2>1, <2>2, BoundAssumption
  <1>13. TypeOK'
    BY <1>7, <1>8, <1>12, Zenon DEF PeerInv, TypeOK, StoresOK
  <1>14. HealthyOnFile'
    <2> SUFFICES ASSUME clean, jobFile = "healthy"
                 PROVE  HealthyOnFile'
      BY Zenon DEF HealthyOnFile
    <2>1. /\ profileFile.tok # 0 /\ (peerFile = "healthy" \/ overwritten) /\ profile.tok # 0
          /\ \A p \in Ops : /\ op[p].kind \in Own => op[p].pc \in Idle \cup {"queue"}
                            /\ op[p].kind = "session" => op[p].pc \in Idle \/ overwritten
      BY Zenon DEF PeerInv, HealthyOnFile
    <2>2. profileFile'.tok # 0 /\ (peerFile' = "healthy" \/ overwritten')
      BY <2>1, Zenon
    <2>3. ASSUME NEW p \in Ops
          PROVE  /\ op'[p].kind \in Own => op'[p].pc \in Idle \cup {"queue"}
                 /\ op'[p].kind = "session" => op'[p].pc \in Idle \/ overwritten'
      <3>1. CASE p = o
        BY <1>4, <1>5, <3>1, Zenon DEF Own, Any
      <3>2. CASE p # o
        BY <1>6, <2>1, <3>2, Zenon
      <3> QED BY <3>1, <3>2, Zenon
    <2> QED BY <2>2, <2>3, Zenon DEF HealthyOnFile
  <1> QED BY <1>8, <1>9, <1>10, <1>12, <1>13, <1>14, Zenon DEF PeerInv, StoresOK

\* The configuration is saved or not, as it is.
LEMMA ConfigStep ==
  ASSUME PeerInv, profile' = profile, profileFile' = profile \/ profileFile' = profileFile,
         requests' \in 0 .. MaxRequests, requests' >= requests,
         overwritten' \in BOOLEAN, overwritten => overwritten',
         UNCHANGED <<job, jobFile, peer, peerFile, scene, remote, late, op, tokens, crashes, clean>>
  PROVE  PeerInv'
  <1>1. StoresOK /\ tokens \in Nat /\ requests \in Nat
    BY StoresKept, BoundAssumption DEF PeerInv, TypeOK, Tokens
  <1>2. StoresOK' /\ (profileFile.tok # 0 => profileFile'.tok # 0)
    BY <1>1, HostStays, Zenon DEF StoresOK
  <1>3. AllSound'
    <2> SUFFICES ASSUME NEW p \in Ops
                 PROVE Sound(op[p], remote, profile, profileFile', peer, peerFile)
      BY Zenon DEF AllSound
    <2>1. Sound(op[p], remote, profile, profileFile, peer, peerFile)
      BY Zenon DEF PeerInv, AllSound
    <2> QED BY <2>1, Zenon DEF Sound
  <1>4. CalmIsAlone' /\ Asking' = Asking
    BY Zenon DEF PeerInv, CalmIsAlone, Asking
  <1>5. TokensLast'
    <2>1. Cardinality(Asking) \in Nat
      BY FS_CardinalityType, Zenon DEF PeerInv, TokensLast
    <2> QED BY <1>1, <1>4, <2>1, BoundAssumption DEF PeerInv, TokensLast
  <1>6. TypeOK'
    BY <1>2, Zenon DEF PeerInv, TypeOK, StoresOK
  <1>7. HealthyOnFile'
    BY <1>2, Zenon DEF PeerInv, HealthyOnFile
  <1> QED BY <1>2, <1>3, <1>4, <1>5, <1>6, <1>7, Zenon DEF PeerInv, StoresOK

LEMMA RequestSteps ==
  ASSUME PeerInv, NEW o \in Ops,
         \/ accept_remote_peer_job(o) \/ ensure_remote_peer_for_proxy_session(o)
         \/ bootstrap_peer(o) \/ refresh_peer(o) \/ rotate_peer_token(o)
  PROVE  PeerInv'
  <1>0. {"queue", "inspect", "defaults", "descriptor", "rotate"} \subseteq PCs
    BY Zenon DEF PCs
  <1>1. ASSUME NEW k, Asked(o, k)
        PROVE  requests' \in 0 .. MaxRequests /\ requests' >= requests
    <2>1. scene.requests \in 0 .. MaxRequests
      BY BoundAssumption DEF PeerInv, TypeOK, Scenario
    <2> QED BY <1>1, <2>1, BoundAssumption DEF Asked, PeerInv, TypeOK
  <1>2. overwritten \in BOOLEAN
    BY Zenon DEF PeerInv, TypeOK
  <1>3. CASE accept_remote_peer_job(o)
    <2>1. PICK k \in {"ensure", "attached"} :
          /\ Asked(o, k) /\ profile' = profile
          /\ profileFile' = profile \/ profileFile' = profileFile
          /\ Begins(o, k, "queue") \/ UNCHANGED op
      BY <1>3, Zenon DEF accept_remote_peer_job, PutProfile
    <2>2. UNCHANGED <<job, jobFile, peer, peerFile, scene, remote, late, tokens, crashes, clean,
                      overwritten>>
      BY <1>3, Zenon DEF accept_remote_peer_job, jobs, peers, world, ended
    <2>3. k \in Kinds /\ k \in Own
      BY Zenon DEF Kinds, Own
    <2>4. CASE Begins(o, k, "queue")
      BY <1>0, <1>2, <2>1, <2>2, <2>3, <2>4, BeginStep, Zenon
    <2>5. CASE UNCHANGED op
      BY <1>1, <1>2, <2>1, <2>2, <2>5, ConfigStep, Zenon
    <2> QED BY <2>1, <2>4, <2>5, Zenon
  <1>4. CASE ensure_remote_peer_for_proxy_session(o)
    <2>1. /\ Asked(o, "session") /\ profile' = profile
          /\ profileFile' = profile \/ profileFile' = profileFile
          /\ Begins(o, "session", "inspect") \/ UNCHANGED op
      BY <1>4, Zenon DEF ensure_remote_peer_for_proxy_session, PutProfile
    <2>2. UNCHANGED <<job, jobFile, peer, peerFile, scene, remote, late, tokens, crashes, clean>>
      BY <1>4, Zenon DEF ensure_remote_peer_for_proxy_session, jobs, peers, world
    <2>3. overwritten' \in BOOLEAN /\ (overwritten => overwritten')
      BY <1>2, <1>4, Zenon DEF ensure_remote_peer_for_proxy_session
    <2>4. jobFile = "healthy" => overwritten'
      BY <1>4, Zenon DEF ensure_remote_peer_for_proxy_session
    <2>5. "session" \in Kinds
      BY Zenon DEF Kinds
    <2>6. CASE Begins(o, "session", "inspect")
      BY <1>0, <2>1, <2>2, <2>3, <2>4, <2>5, <2>6, BeginStep, Zenon
    <2>7. CASE UNCHANGED op
      BY <1>1, <2>1, <2>2, <2>3, <2>7, ConfigStep, Zenon
    <2> QED BY <2>1, <2>6, <2>7, Zenon
  <1>5. CASE bootstrap_peer(o)
    <2>1. /\ Asked(o, "bootstrap") /\ profile' = profile
          /\ profileFile' = profile \/ profileFile' = profileFile
          /\ Begins(o, "bootstrap", "defaults") \/ UNCHANGED op
      BY <1>5, Zenon DEF bootstrap_peer, PutProfile
    <2>2. UNCHANGED <<job, jobFile, peer, peerFile, scene, remote, late, tokens, crashes, clean,
                      overwritten>>
      BY <1>5, Zenon DEF bootstrap_peer, jobs, peers, world, ended
    <2>3. "bootstrap" \in Kinds /\ "bootstrap" \notin Any
      BY Zenon DEF Kinds, Any
    <2> QED BY <1>0, <1>1, <1>2, <2>1, <2>2, <2>3, BeginStep, ConfigStep, Zenon
  <1>6. CASE refresh_peer(o)
    <2>1. /\ Asked(o, "refresh") /\ Begins(o, "refresh", "descriptor")
          /\ UNCHANGED <<profile, profileFile, job, jobFile, peer, peerFile, scene, remote, late,
                         tokens, crashes, clean, overwritten>>
      BY <1>6, Zenon DEF refresh_peer, config, jobs, peers, world, ended
    <2>2. "refresh" \in Kinds /\ "refresh" \notin Any
      BY Zenon DEF Kinds, Any
    <2> QED BY <1>0, <1>2, <2>1, <2>2, BeginStep, Zenon
  <1>7. CASE rotate_peer_token(o)
    <2>1. /\ Asked(o, "rotate") /\ Begins(o, "rotate", "rotate")
          /\ UNCHANGED <<profile, profileFile, job, jobFile, peer, peerFile, scene, remote, late,
                         tokens, crashes, clean, overwritten>>
      BY <1>7, Zenon DEF rotate_peer_token, config, jobs, peers, world, ended
    <2>2. "rotate" \in Kinds
      BY Zenon DEF Kinds
    <2> QED BY <1>0, <1>2, <2>1, <2>2, BeginStep, Zenon
  <1> QED BY <1>3, <1>4, <1>5, <1>6, <1>7, Zenon

LEMMA ForgetStep ==
  ASSUME PeerInv, forget_peer
  PROVE  PeerInv'
  <1>1. profile' = profile /\ (profileFile' = profile \/ profileFile' = profileFile)
    BY Zenon DEF forget_peer, PutProfile
  <1>2. UNCHANGED <<job, jobFile, peer, peerFile, scene, remote, late, op, tokens, requests, crashes,
                    clean, overwritten>>
    BY Zenon DEF forget_peer, jobs, peers, world, counts, ended
  <1>3. requests \in 0 .. MaxRequests /\ requests >= requests /\ overwritten \in BOOLEAN
    BY BoundAssumption DEF PeerInv, TypeOK
  <1> QED BY <1>1, <1>2, <1>3, ConfigStep, Zenon

\* A daemon of the peer is started again: at every port the service stays, is
\* gone, or runs from the binary that is installed.
LEMMA HostStep ==
  ASSUME PeerInv, remote' \in Remote, remote'.bin = remote.bin, Disturbs, late' \subseteq late,
         \A p \in Ports : \/ remote'.at[p] \in {remote.at[p], NoService}
                          \/ remote'.at[p].ver = remote.bin,
         UNCHANGED <<profile, profileFile, job, jobFile, peer, peerFile, scene, tokens, requests,
                     crashes, clean, overwritten>>
  PROVE  PeerInv'
  <1>1. op \in [Ops -> Op] /\ StoresOK /\ remote \in Remote /\ tokens \in Nat /\ requests \in Nat
    BY StoresKept, BoundAssumption DEF PeerInv, TypeOK, Tokens
  <1>2. NoService.ver = "none" /\ NoService.tok = 0
    BY DEF NoService
  <1>3. HostOK'
    BY <1>1, <1>2, Zenon DEF StoresOK, HostOK
  <1>4. StoresOK'
    BY <1>1, <1>3, Zenon DEF StoresOK
  <1>5. ASSUME NEW p \in Ops
        PROVE  /\ op'[p] \in Op /\ op'[p].pc = op[p].pc /\ op'[p].kind = op[p].kind
               /\ op'[p].tok = op[p].tok /\ op'[p].port = op[p].port /\ op[p].port \in Ports
               /\ op'[p].calm => op[p].calm
               /\ op'[p].calm /\ op'[p].pc \notin Idle =>
                    There(p).tok = 0 \/ remote'.at[op[p].port].tok = There(p).tok
    <2> DEFINE hit == Active(p) /\ There(p).tok \notin {0, remote'.at[op[p].port].tok}
    <2>1. op[p] \in Op /\ op[p].port \in Ports
      BY <1>1, Zenon DEF Op
    <2>2. op'[p] = IF hit THEN [op[p] EXCEPT !.calm = FALSE] ELSE op[p]
      BY Zenon DEF Disturbs
    <2>3. ~hit => op[p].pc \in Idle \/ There(p).tok = 0 \/ remote'.at[op[p].port].tok = There(p).tok
      BY Zenon DEF Active, Idle
    <2> HIDE DEF hit
    <2>4. CASE hit
      <3>1. op'[p] = [op[p] EXCEPT !.calm = FALSE]
        BY <2>2, <2>4, Zenon
      <3> QED BY <2>1, <3>1, Zenon DEF Op
    <2>5. CASE ~hit
      BY <2>1, <2>2, <2>3, <2>5, Zenon
    <2> QED BY <2>4, <2>5, Zenon
  <1>6. op' \in [Ops -> Op]
    <2>1. op' = [p \in Ops |-> op'[p]]
      BY Zenon DEF Disturbs
    <2> QED BY <1>5, <2>1, Zenon
  <1>7. AllSound'
    <2> SUFFICES ASSUME NEW p \in Ops
                 PROVE Sound(op'[p], remote', profile', profileFile', peer', peerFile')
      BY Zenon DEF AllSound
    <2> DEFINE d == remote.at[op[p].port] e == remote'.at[op[p].port]
    <2>1. Sound(op[p], remote, profile, profileFile, peer, peerFile)
      BY Zenon DEF PeerInv, AllSound
    <2>2. e \in {d, NoService} \/ e.ver = remote.bin
      BY <1>5, Zenon
    <2>3. op'[p].calm /\ op'[p].pc \notin Idle => d.tok = 0 \/ e.tok = d.tok
      BY <1>5, Zenon DEF There
    <2>4. CASE ~op'[p].calm
      BY <1>5, <2>1, <2>4, Zenon DEF Sound
    <2>5. CASE op'[p].calm /\ op'[p].pc = "probe"
      <3>1. remote.bin = "new" /\ (d.tok # 0 /\ ~d.kept => d.ver = "new")
        BY <1>5, <2>1, <2>5, Zenon DEF Sound
      <3>2. e.tok # 0 /\ ~e.kept => e.ver = "new"
        BY <1>2, <2>2, <3>1, Zenon
      <3> QED BY <1>5, <2>5, <3>1, <3>2, Zenon DEF Sound, JobPCs, OwnPCs
    <2>6. CASE /\ op'[p].calm /\ op'[p].kind \in Any
               /\ op'[p].pc \in {"answered", "profile", "record", "finish"}
      <3>1. remote.bin = "new" /\ d.tok = op[p].tok /\ op[p].tok # 0 /\ (~d.kept => d.ver = "new")
        BY <1>5, <2>1, <2>6, Zenon DEF Sound
      <3>2. e.tok = op[p].tok /\ (~e.kept => e.ver = "new")
        BY <1>2, <2>2, <2>3, <2>6, <3>1, Zenon DEF Idle
      <3> HIDE DEF d, e
      <3>3. remote'.at[op'[p].port] = e
        BY <1>5, Zenon DEF e
      <3> QED BY <1>5, <2>1, <2>6, <3>1, <3>2, <3>3, Zenon DEF Sound
    <2>7. CASE /\ op'[p].pc # "probe"
               /\ op'[p].kind \notin Any \/ op'[p].pc \notin {"answered", "profile", "record", "finish"}
      BY <1>5, <2>1, <2>7, Zenon DEF Sound
    <2> QED BY <2>4, <2>5, <2>6, <2>7, Zenon
  <1>8. CalmIsAlone'
    BY <1>5, Zenon DEF PeerInv, CalmIsAlone
  <1>9. Asking' = Asking
    BY <1>5, Zenon DEF Asking
  <1>10. TokensLast'
    BY <1>1, <1>9, TokensLastOn, Zenon DEF PeerInv
  <1>11. TypeOK'
    BY <1>4, <1>6, Zenon DEF PeerInv, TypeOK, StoresOK
  <1>12. HealthyOnFile'
    BY <1>5, Zenon DEF PeerInv, HealthyOnFile
  <1> QED BY <1>4, <1>7, <1>8, <1>10, <1>11, <1>12, Zenon DEF PeerInv, StoresOK

LEMMA RestartStep ==
  ASSUME PeerInv, Restart
  PROVE  PeerInv'
  <1>1. /\ op' = [o \in Ops |-> Off] /\ profile' = profileFile /\ job' = jobFile /\ peer' = peerFile
        /\ remote' \in {remote, Aged}
        /\ late' = late \cup {<<op[o].tok, op[o].port>> : o \in {p \in Ops : op[p].pc = "service"}}
        /\ UNCHANGED <<profileFile, jobFile, peerFile, scene, tokens, requests, clean, overwritten>>
    BY Zenon DEF Restart, ended
  <1>2. op \in [Ops -> Op] /\ StoresOK /\ remote \in Remote /\ tokens \in Nat /\ requests \in Nat
    BY StoresKept, BoundAssumption DEF PeerInv, TypeOK, Tokens
  <1>3. Aged \in Remote /\ \A p \in Ports : Aged.at[p].ver # "new"
    <2>1. \A v \in Versions : Older(v) \in Versions /\ Older(v) # "new"
      BY Zenon DEF Older, Versions
    <2> DEFINE m == [p \in Ports |-> [remote.at[p] EXCEPT !.ver = Older(@)]]
    <2>2. ASSUME NEW p \in Ports
          PROVE  m[p] \in Service /\ m[p].ver # "new"
      <3> DEFINE s == remote.at[p] v == Older(s.ver)
      <3>1. s \in Service /\ v \in Versions /\ v # "new"
        BY <1>2, <2>1, Zenon DEF Remote, Service
      <3>2. m[p] = [s EXCEPT !.ver = v]
        BY Zenon
      <3> HIDE DEF s, v, m
      <3> QED BY <3>1, <3>2, Zenon DEF Service
    <2>3. m \in [Ports -> Service]
      BY <2>2, Zenon
    <2>4. remote.bin \in Versions /\ Aged = [remote EXCEPT !.bin = Older(remote.bin), !.at = m]
      BY <1>2, Zenon DEF Aged, Remote
    <2> HIDE DEF m
    <2>5. Aged \in Remote /\ Aged.at = m
      BY <1>2, <2>1, <2>3, <2>4, Zenon DEF Remote
    <2> QED BY <2>2, <2>5, Zenon
  <1>4. \A o \in Ops : <<op[o].tok, op[o].port>> \in Tokens \X Ports
    BY <1>2 DEF Op
  <1>5. remote' \in Remote /\ HostOK'
    BY <1>1, <1>2, <1>3, Zenon DEF StoresOK, HostOK
  <1>6. late' \subseteq Tokens \X Ports
    BY <1>1, <1>2, <1>4, Zenon DEF StoresOK
  <1>7. StoresOK'
    BY <1>1, <1>2, <1>5, <1>6, Zenon DEF StoresOK
  <1>8. op' \in [Ops -> Op] /\ \A o \in Ops : op'[o].pc = "off"
    BY <1>1, OffIs, Zenon
  <1>9. AllSound' /\ CalmIsAlone'
    BY <1>8, Zenon DEF AllSound, CalmIsAlone, Sound, JobPCs, OwnPCs, Idle
  <1>10. Asking' \subseteq Asking
    BY <1>8, Zenon DEF Asking, AskPCs
  <1>11. TokensLast'
    BY <1>1, <1>2, <1>10, TokensLastOn, Zenon DEF PeerInv
  <1>12. crashes' \in 0 .. MaxCrashes
    <2>1. scene.crashes \in 0 .. MaxCrashes
      BY BoundAssumption DEF PeerInv, TypeOK, Scenario
    <2> QED BY <2>1, BoundAssumption DEF Restart, PeerInv, TypeOK
  <1>13. TypeOK'
    BY <1>1, <1>7, <1>8, <1>12, Zenon DEF PeerInv, TypeOK, StoresOK
  <1>14. HealthyOnFile'
    BY <1>1, <1>8, Zenon DEF PeerInv, HealthyOnFile, Idle
  <1> QED BY <1>7, <1>9, <1>11, <1>13, <1>14, Zenon DEF PeerInv, StoresOK

LEMMA Steps == PeerInv /\ [Next]_vars => PeerInv'
  <1> SUFFICES ASSUME PeerInv, [Next]_vars PROVE PeerInv'
    BY Zenon
  <1>0. remote \in Remote /\ remote.at \in [Ports -> Service] /\ remote.bin \in Versions
    BY Zenon DEF PeerInv, TypeOK, Remote
  <1>1. ASSUME NEW o \in Ops, OpStep(o) PROVE PeerInv'
    BY <1>1, QueueStep, PhaseStep, DescriptorStep, WaitingStep, DefaultsStep, UploadStep,
       ServiceStep, ProbeStep, ProfileStep, RecordStep, FinishStep, FailStep, RotateStep, Zenon DEF OpStep
  <1>2. ASSUME NEW p \in Ports, NEW t \in Tokens
        PROVE  /\ Restarted(p, t) \in Remote /\ Restarted(p, t).bin = remote.bin
               /\ Restarted(p, t).at[p] \in Service /\ Restarted(p, t).at[p].ver = remote.bin
               /\ \A q \in Ports : q # p => Restarted(p, t).at[q] \in {remote.at[q], NoService}
    <2> DEFINE s == [svc |-> t, tok |-> t, ver |-> remote.bin, kept |-> FALSE]
    <2>1. s \in Service /\ s.ver = remote.bin
      BY <1>0, Zenon DEF Service
    <2>2. Restarted(p, t) = Put(p, s)
      BY Zenon DEF Restarted
    <2> HIDE DEF s
    <2>3. /\ Put(p, s) \in Remote /\ Put(p, s).bin = remote.bin /\ Put(p, s).at[p] = s
          /\ \A q \in Ports : q # p => Put(p, s).at[q] \in {remote.at[q], NoService}
      BY <1>0, <2>1, Placed, Zenon
    <2> QED BY <2>1, <2>2, <2>3, Zenon
  <1>3. CASE PeerRestarts
    <2>1. PICK p \in Ports : remote' = [remote EXCEPT !.at[p] = Restarted(p, @.svc).at[p]]
      BY <1>3, Zenon DEF PeerRestarts
    <2> DEFINE s == Restarted(p, remote.at[p].svc).at[p]
    <2>2. remote.at[p].svc \in Tokens
      BY <1>0, Zenon DEF Service
    <2>3. s \in Service /\ s.ver = remote.bin
      BY <1>2, <2>2, Zenon
    <2>4. remote' = [remote EXCEPT !.at[p] = s]
      BY <2>1, Zenon
    <2> HIDE DEF s
    <2>5. remote' = [remote EXCEPT !.at = [remote.at EXCEPT ![p] = s]]
      BY <2>4, Zenon
    <2>6. [remote.at EXCEPT ![p] = s] \in [Ports -> Service]
      BY <1>0, <2>3, Zenon
    <2>7. /\ remote' \in Remote /\ remote'.bin = remote.bin
          /\ remote'.at = [remote.at EXCEPT ![p] = s]
      BY <1>0, <2>5, <2>6, Zenon DEF Remote
    <2>8. \A q \in Ports : remote'.at[q] \in {remote.at[q], NoService} \/ remote'.at[q].ver = remote.bin
      BY <1>0, <2>3, <2>7, Zenon
    <2>9. /\ Disturbs
          /\ UNCHANGED <<profile, profileFile, job, jobFile, peer, peerFile, scene, late, tokens,
                         requests, crashes, clean, overwritten>>
      BY <1>3, Zenon DEF PeerRestarts, config, jobs, peers, counts, ended
    <2> QED BY <2>7, <2>8, <2>9, HostStep, Zenon
  <1>4. CASE LateInstall
    <2>1. PICK c \in late : remote' = Restarted(c[2], c[1]) /\ late' = late \ {c}
      BY <1>4, Zenon DEF LateInstall
    <2>2. c[1] \in Tokens /\ c[2] \in Ports
      BY <2>1 DEF PeerInv, TypeOK
    <2>3. /\ remote' \in Remote /\ remote'.bin = remote.bin /\ late' \subseteq late
          /\ \A q \in Ports : \/ remote'.at[q] \in {remote.at[q], NoService}
                              \/ remote'.at[q].ver = remote.bin
      BY <1>2, <2>1, <2>2, Zenon
    <2>4. /\ Disturbs
          /\ UNCHANGED <<profile, profileFile, job, jobFile, peer, peerFile, scene, tokens,
                         requests, crashes, clean, overwritten>>
      BY <1>4, Zenon DEF LateInstall, config, jobs, peers, counts, ended
    <2> QED BY <2>3, <2>4, HostStep, Zenon
  <1>5. CASE UNCHANGED vars
    <2>1. UNCHANGED <<profile, profileFile, job, jobFile, peer, peerFile, scene, remote, late, op,
                      tokens, requests, crashes, clean, overwritten>>
      BY <1>5, Zenon DEF vars, config, jobs, peers, world, counts, ended
    <2>2. /\ TypeOK' /\ AllSound' /\ CalmIsAlone' /\ HealthyOnFile' /\ HostOK' /\ Asking' = Asking
      BY <2>1, Zenon DEF PeerInv, TypeOK, AllSound, CalmIsAlone, HealthyOnFile, HostOK, Asking
    <2> QED BY <2>1, <2>2, Zenon DEF PeerInv, TokensLast
  <1> QED BY <1>1, <1>3, <1>4, <1>5, RequestSteps, ForgetStep, RestartStep, Zenon DEF Next

\* What a job says it has done is true of the peer and is in the files: the
\* invariant RecordsAgree, of the jobs of remote_peer.rs, alone, attached to a
\* session or run by one, with saves of every store that fail, lost answers,
\* late commands and restarts, for any number of each and any set of ports.
THEOREM JobsTellTheTruth == Spec => []RecordsAgree
  <1> QED BY Initially, Steps, Enough, PTL DEF Spec

=============================================================================
