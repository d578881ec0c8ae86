--------------------------- MODULE PtyHostsProofs ---------------------------
(***************************************************************************)
(* The reaper spares every host that an agent of the running daemon uses,  *)
(* for any number of hosts, daemons and failures: while such a host runs,  *)
(* it is in the set of tracked hosts, whatever the ledger says.            *)
(***************************************************************************)
EXTENDS PtyHosts, TLAPS

\* A host that runs and is this daemon's is tracked by it.
Tracked ==
  \A h \in Hosts :
    /\ host[h].owner <= daemon
    /\ OfThisDaemon(h) /\ HostAlive(h) => host[h].tracked

HostInv == HostTypeOK /\ Tracked

LEMMA NoHostIsHost == NoHost \in Host
BY HostAssumption DEF NoHost, Host, Client, Daemons

\* What a daemon's death writes to a record, and a blind sweep.
LEMMA AbandonedIsHost ==
  ASSUME NEW r \in Host, NEW c \in Client
  PROVE  /\ [r EXCEPT !.ready = "no", !.tracked = FALSE, !.client = c] \in Host
         /\ [r EXCEPT !.ready = "no", !.tracked = FALSE, !.client = c].owner = r.owner
BY DEF Host

LEMMA ForgottenIsHost ==
  ASSUME NEW r \in Host, NEW b \in BOOLEAN
  PROVE  [r EXCEPT !.noted = "no", !.lost = b] \in Host
BY DEF Host

LEMMA DownIsHost == ASSUME NEW r \in Host PROVE Down(r) \in Host
BY DEF Down, Host

LEMMA DestroyedIsHost == ASSUME NEW r \in Host PROVE Destroyed(r) \in Host
BY DEF Destroyed, Host, Client

\* What a stop or a failed spawn attempt of a Codex app-server writes.
LEMMA LeftIsHost ==
  ASSUME NEW r \in Host, NEW c \in Client
  PROVE  /\ [r EXCEPT !.client = c] \in Host /\ [r EXCEPT !.client = c].owner = r.owner
         /\ [r EXCEPT !.client = c].proc = r.proc
         /\ [r EXCEPT !.client = c].tracked = r.tracked
BY DEF Host

LEMMA StoppedIsHost ==
  ASSUME NEW r \in Host
  PROVE  /\ [r EXCEPT !.runtime = "dead", !.lost = FALSE] \in Host
         /\ [r EXCEPT !.runtime = "dead", !.lost = FALSE].owner = r.owner
         /\ [r EXCEPT !.runtime = "dead", !.lost = FALSE].proc = r.proc
         /\ [r EXCEPT !.runtime = "dead", !.lost = FALSE].tracked = r.tracked
BY DEF Host

LEMMA KilledIsHost == ASSUME NEW r \in Host PROVE Killed(r) \in Host
<1>1. CASE r.noted = "host"
  BY <1>1, DownIsHost DEF Killed
<1>2. CASE r.noted # "host"
  BY <1>2 DEF Killed, Host
<1> QED BY <1>1, <1>2

\* A step that changes one host alone keeps the type if the record does.
LEMMA IsTyped ==
  ASSUME HostTypeOK, NEW h \in Hosts, NEW r \in Host, Is(h, r), faults' \in 0..MaxFaults
  PROVE  HostTypeOK'
BY DEF HostTypeOK, Is

LEMMA FaultIsCounted ==
  ASSUME HostTypeOK, Fault \/ UNCHANGED faults
  PROVE  faults' \in 0..MaxFaults
BY HostAssumption DEF HostTypeOK, Fault

LEMMA HostInvInit == HostInit => HostInv
<1> SUFFICES ASSUME HostInit PROVE HostInv
  OBVIOUS
<1>1. HostTypeOK
  BY NoHostIsHost, HostAssumption DEF HostInit, HostTypeOK, Daemons
<1>2. Tracked
  BY DEF HostInit, Tracked, NoHost, HostAlive
<1> QED BY <1>1, <1>2 DEF HostInv

-----------------------------------------------------------------------------
(* The type *)

LEMMA HostTypeNext == HostTypeOK /\ [HostNext]_hostVars => HostTypeOK'
<1> SUFFICES ASSUME HostTypeOK, [HostNext]_hostVars PROVE HostTypeOK'
  OBVIOUS
<1>0. \A h \in Hosts : host[h] \in Host
  BY DEF HostTypeOK
<1>1. CASE UNCHANGED hostVars
  BY <1>1 DEF hostVars, HostTypeOK
<1>2. ASSUME NEW h \in Hosts, HostStep(h) PROVE HostTypeOK'
  <2>1. host[h] \in Host /\ daemon \in Daemons
    BY DEF HostTypeOK
  <2>2. \E r \in Host : Is(h, r) /\ (Fault \/ UNCHANGED faults)
    <3>1. CASE HostSpawn(h)
      <4>1. PICK noted \in {"no", "host"} :
              /\ May(noted = "no")
              /\ Is(h, [NoHost EXCEPT !.proc = "up", !.wire = {"spawn"}, !.owner = daemon,
                                      !.tracked = TRUE, !.noted = noted])
        BY <3>1 DEF HostSpawn
      <4>2. [NoHost EXCEPT !.proc = "up", !.wire = {"spawn"}, !.owner = daemon,
                           !.tracked = TRUE, !.noted = noted] \in Host
        BY <2>1, NoHostIsHost DEF Host
      <4> QED BY <4>1, <4>2 DEF May
    <3>2. CASE Ready(h)
      BY <2>1, <3>2 DEF Ready, May, Host, Client
    <3>3. CASE ReadyTimesOut(h) \/ Release(h)
      BY <2>1, <3>3, DestroyedIsHost DEF ReadyTimesOut, Release
    <3>4. CASE Escalates(h)
      BY <2>1, <3>4, DownIsHost DEF Escalates
    <3>5. CASE ExitSeen(h)
      BY <2>1, <3>5 DEF ExitSeen, Host, Client
    <3>6. CASE HostStarts(h)
      <4> DEFINE begun == [host[h] EXCEPT !.wire = @ \ {"spawn"}]
      <4>1. PICK starts \in BOOLEAN :
              /\ Fault \/ UNCHANGED faults
              /\ Is(h, IF starts
                       THEN [begun EXCEPT !.runtime = "live",
                                          !.ready = IF OfThisDaemon(h) THEN "sent" ELSE @]
                       ELSE Down(begun))
        BY <3>6 DEF HostStarts, May
      <4>2. begun \in Host
        BY <2>1 DEF Host
      <4>3. ASSUME NEW b \in Host
            PROVE  [b EXCEPT !.runtime = "live",
                             !.ready = IF OfThisDaemon(h) THEN "sent" ELSE @] \in Host
        BY DEF Host
      <4> HIDE DEF begun
      <4> QED BY <4>1, <4>2, <4>3, DownIsHost
    <3>7. CASE HostDisposes(h)
      BY <2>1, <3>7, DownIsHost DEF HostDisposes, Host
    <3>8. CASE HostFallsBack(h)
      <4>1. [host[h] EXCEPT !.runtime = "dead"] \in Host
        BY <2>1 DEF Host
      <4> QED BY <3>8, <4>1, DownIsHost DEF HostFallsBack
    <3>9. CASE HostEnds(h)
      BY <2>1, <3>9, DownIsHost DEF HostEnds
    <3>10. CASE RuntimeExits(h) \/ StopKills(h)
      BY <2>1, <3>10, StoppedIsHost DEF RuntimeExits, StopKills
    <3>11. CASE HostFails(h)
      <4>1. [host[h] EXCEPT !.hung = TRUE] \in Host
        BY <2>1 DEF Host
      <4> QED BY <2>1, <3>11, <4>1, DownIsHost DEF HostFails
    <3>12. CASE StopsServer(h) \/ AbandonsServer(h)
      <4>1. {"stopping", "abandoned"} \subseteq Client
        BY DEF Client
      <4> QED BY <2>1, <3>12, <4>1, LeftIsHost DEF StopsServer, AbandonsServer
    <3> QED BY <1>2, <3>1, <3>2, <3>3, <3>4, <3>5, <3>6, <3>7, <3>8, <3>9, <3>10, <3>11, <3>12
            DEF HostStep
  <2> QED BY <2>2, FaultIsCounted, IsTyped
<1>3. CASE DaemonDies
  <2> DEFINE after(h) == [host[h] EXCEPT !.ready = "no", !.tracked = FALSE,
                            !.client = IF host[h].proc = "none" THEN @ ELSE "over"]
  <2>1. daemon' \in Daemons
    <3>1. daemon \in 1..MaxDaemons /\ daemon < MaxDaemons /\ daemon' = daemon + 1
      BY <1>3 DEF DaemonDies, HostTypeOK, Daemons
    <3> QED BY <3>1, HostAssumption DEF Daemons
  <2>2. host' \in [Hosts -> Host]
    <3>1. host' = [h \in Hosts |-> after(h)]
      BY <1>3 DEF DaemonDies
    <3>2. ASSUME NEW h \in Hosts PROVE after(h) \in Host
      <4> DEFINE c == IF host[h].proc = "none" THEN host[h].client ELSE "over"
      <4>1. host[h] \in Host
        BY <1>0
      <4>2. c \in Client
        BY <4>1 DEF Host, Client
      <4>3. after(h) = [host[h] EXCEPT !.ready = "no", !.tracked = FALSE, !.client = c]
        OBVIOUS
      <4> HIDE DEF c, after
      <4>4. [host[h] EXCEPT !.ready = "no", !.tracked = FALSE, !.client = c] \in Host
        BY <4>1, <4>2, AbandonedIsHost
      <4> QED BY <4>3, <4>4
    <3> HIDE DEF after
    <3> QED BY <3>1, <3>2
  <2> QED BY <1>3, <2>1, <2>2 DEF DaemonDies, HostTypeOK
<1>4. CASE SweepsSome
  <2>1. PICK spared \in SUBSET Hosts : Sweep(spared) /\ UNCHANGED faults
    BY <1>4 DEF SweepsSome
  <2> DEFINE hit(h) == IF h \in Reaped(spared) \cup Strays THEN Killed(host[h]) ELSE host[h]
             after(h) == IF h \in Reaped(spared) \cup Cleared
                         THEN [hit(h) EXCEPT !.noted = "no"] ELSE hit(h)
  <2>2. ASSUME NEW h \in Hosts PROVE after(h) \in Host
    <3>1. hit(h) \in Host
      BY <1>0, KilledIsHost
    <3>2. ASSUME NEW r \in Host PROVE [r EXCEPT !.noted = "no"] \in Host
      BY DEF Host
    <3> HIDE DEF hit
    <3> QED BY <3>1, <3>2
  <2>3. host' \in [Hosts -> Host]
    <3>1. host' = [h \in Hosts |-> after(h)]
      BY <2>1 DEF Sweep
    <3> HIDE DEF after
    <3> QED BY <2>2, <3>1
  <2> QED BY <2>1, <2>3 DEF Sweep, HostTypeOK
<1>5. CASE SweepsBlind
  <2> DEFINE after(h) == [host[h] EXCEPT !.noted = "no",
                            !.lost = @ \/ (host[h].proc = "gone" /\ RuntimeAlive(h))]
  <2>1. host' \in [Hosts -> Host]
    <3>1. host' = [h \in Hosts |-> after(h)]
      BY <1>5 DEF SweepsBlind
    <3>2. ASSUME NEW h \in Hosts PROVE after(h) \in Host
      <4> DEFINE b == host[h].lost \/ (host[h].proc = "gone" /\ RuntimeAlive(h))
      <4>1. host[h] \in Host
        BY <1>0
      <4>2. b \in BOOLEAN
        BY <4>1 DEF Host
      <4>3. after(h) = [host[h] EXCEPT !.noted = "no", !.lost = b]
        OBVIOUS
      <4> HIDE DEF b, after
      <4>4. [host[h] EXCEPT !.noted = "no", !.lost = b] \in Host
        BY <4>1, <4>2, ForgottenIsHost
      <4> QED BY <4>3, <4>4
    <3> HIDE DEF after
    <3> QED BY <3>1, <3>2
  <2>2. faults' \in 0..MaxFaults
    BY <1>5, FaultIsCounted DEF SweepsBlind
  <2> QED BY <1>5, <2>1, <2>2 DEF SweepsBlind, HostTypeOK
<1> QED BY <1>1, <1>2, <1>3, <1>4, <1>5 DEF HostNext

\* The hosts, their daemon and the ledger stay well formed, as pty-host-client.ts
\* and the reaper write them.
THEOREM HostsAreTyped == HostSpec => []HostTypeOK
<1>1. HostInit => HostTypeOK
  BY HostInvInit DEF HostInv
<1> QED BY <1>1, HostTypeNext, PTL DEF HostSpec

-----------------------------------------------------------------------------
(* Who is tracked *)

\* What a change of one host has to respect.
Respects(r, h) ==
  /\ r.owner = host[h].owner
  /\ r.proc = "up" => host[h].proc = "up" /\ (host[h].tracked => r.tracked)

LEMMA DownRespects ==
  ASSUME NEW r \in Host
  PROVE  Down(r).owner = r.owner /\ Down(r).proc = "gone"
BY DEF Down, Host

LEMMA DestroyedRespects ==
  ASSUME NEW r \in Host
  PROVE  /\ Destroyed(r).owner = r.owner /\ Destroyed(r).proc = r.proc
         /\ Destroyed(r).tracked = r.tracked
BY DEF Destroyed, Host

LEMMA KilledRespects ==
  ASSUME NEW r \in Host
  PROVE  Killed(r).owner = r.owner /\ Killed(r).proc = "gone"
<1>1. CASE r.noted = "host"
  BY <1>1, DownRespects DEF Killed
<1>2. CASE r.noted # "host"
  BY <1>2 DEF Killed, Host
<1> QED BY <1>1, <1>2

\* A step that changes one host alone changes it as its record does.
LEMMA OneHostRespects ==
  ASSUME HostTypeOK, NEW h \in Hosts, NEW r, Is(h, r), Respects(r, h)
  PROVE  /\ daemon' = daemon /\ \A g \in Hosts \ {h} : host'[g] = host[g]
         /\ Respects(host'[h], h)
<1>1. host'[h] = r
  BY DEF HostTypeOK, Is
<1> QED BY <1>1 DEF HostTypeOK, Is

LEMMA HostInvNext == HostInv /\ [HostNext]_hostVars => HostInv'
<1> SUFFICES ASSUME HostInv, [HostNext]_hostVars PROVE HostInv'
  OBVIOUS
<1>0. HostTypeOK /\ HostTypeOK' /\ \A h \in Hosts : host[h] \in Host /\ host'[h] \in Host
  BY HostTypeNext DEF HostInv, HostTypeOK
<1>1. CASE UNCHANGED hostVars
  BY <1>0, <1>1 DEF hostVars, HostInv, Tracked, OfThisDaemon, HostAlive
<1>2. ASSUME NEW h \in Hosts, HostStep(h) PROVE Tracked'
  <2>1. host[h] \in Host
    BY <1>0
  <2>2. CASE HostSpawn(h)
    <3>1. /\ daemon' = daemon /\ host'[h].owner = daemon /\ host'[h].tracked
          /\ \A g \in Hosts \ {h} : host'[g] = host[g]
      BY <1>0, <2>2 DEF HostSpawn, Is, NoHost, HostTypeOK
    <3>2. daemon \in Nat
      BY <1>0, HostAssumption DEF HostTypeOK, Daemons
    <3> QED BY <3>1, <3>2 DEF HostInv, Tracked, OfThisDaemon, HostAlive
  <2>3. \/ HostSpawn(h)
        \/ /\ daemon' = daemon /\ \A g \in Hosts \ {h} : host'[g] = host[g]
           /\ Respects(host'[h], h)
    <3>1. CASE Ready(h)
      <4>1. PICK c \in {"over", "using"}, n \in {"no", "host", "both"} :
              /\ daemon' = daemon
              /\ host' = [host EXCEPT ![h] =
                   [host[h] EXCEPT !.ready = "told", !.client = c, !.noted = n]]
        <5>1. CASE host[h].client = "over"
          <6>1. [host[h] EXCEPT !.ready = "told"]
                  = [host[h] EXCEPT !.ready = "told", !.client = "over", !.noted = host[h].noted]
            BY <2>1, <5>1 DEF Host
          <6>2. host[h].noted \in {"no", "host", "both"}
            BY <2>1 DEF Host
          <6> QED BY <3>1, <5>1, <6>1, <6>2 DEF Ready, Is
        <5>2. CASE host[h].client # "over"
          <6>1. PICK written \in BOOLEAN :
                  Is(h, [host[h] EXCEPT !.ready = "told", !.client = "using",
                           !.noted = IF written /\ @ = "host" THEN "both" ELSE @])
            BY <3>1, <5>2 DEF Ready
          <6> DEFINE n == IF written /\ host[h].noted = "host" THEN "both" ELSE host[h].noted
          <6>2. n \in {"no", "host", "both"}
            BY <2>1 DEF Host
          <6>3. /\ daemon' = daemon
                /\ host' = [host EXCEPT ![h] =
                     [host[h] EXCEPT !.ready = "told", !.client = "using", !.noted = n]]
            BY <6>1 DEF Is
          <6> QED BY <6>2, <6>3
        <5> QED BY <5>1, <5>2
      <4> QED BY <1>0, <2>1, <4>1 DEF HostTypeOK, Respects, Host
    <3>2. CASE ReadyTimesOut(h) \/ Release(h)
      <4>1. Is(h, Destroyed(host[h]))
        BY <3>2 DEF ReadyTimesOut, Release
      <4>2. Respects(Destroyed(host[h]), h)
        BY <2>1, DestroyedRespects DEF Respects
      <4> QED BY <1>0, <4>1, <4>2, OneHostRespects
    <3>3. CASE Escalates(h) \/ HostEnds(h)
      <4>1. Is(h, Down(host[h]))
        BY <3>3 DEF Escalates, HostEnds
      <4>2. Respects(Down(host[h]), h)
        BY <2>1, DownRespects DEF Respects
      <4> QED BY <1>0, <4>1, <4>2, OneHostRespects
    <3>4. CASE ExitSeen(h)
      <4> DEFINE n == IF host[h].ready = "told" /\ RuntimeAlive(h) THEN host[h].noted ELSE "no"
                 c == IF host[h].client = "stopping" THEN "stopping" ELSE "over"
                 seen == [host[h] EXCEPT !.tracked = FALSE, !.client = c, !.noted = n]
      <4>1. daemon' = daemon /\ host' = [host EXCEPT ![h] = seen] /\ host[h].proc = "gone"
        BY <3>4 DEF ExitSeen, Is
      <4> HIDE DEF n, c
      <4>2. seen.owner = host[h].owner /\ seen.proc = host[h].proc
        BY <2>1 DEF Host
      <4> HIDE DEF seen
      <4> QED BY <1>0, <4>1, <4>2 DEF HostTypeOK, Respects
    <3>5. CASE HostStarts(h)
      <4> DEFINE begun == [host[h] EXCEPT !.wire = @ \ {"spawn"}]
                 told == IF OfThisDaemon(h) THEN "sent" ELSE host[h].ready
                 started == [begun EXCEPT !.runtime = "live", !.ready = told]
      <4>1. begun \in Host /\ begun.owner = host[h].owner /\ begun.tracked = host[h].tracked
            /\ begun.proc = host[h].proc /\ begun.ready = host[h].ready
        BY <2>1 DEF Host
      <4>2. Is(h, started) \/ Is(h, Down(begun))
        BY <3>5, <4>1 DEF HostStarts
      <4> HIDE DEF begun, told
      <4>3. started.owner = begun.owner /\ started.tracked = begun.tracked
            /\ started.proc = begun.proc
        BY <4>1 DEF Host
      <4> HIDE DEF started
      <4>4. Respects(started, h) /\ Respects(Down(begun), h)
        BY <4>1, <4>3, DownRespects DEF Respects
      <4> QED BY <1>0, <4>2, <4>4, OneHostRespects
    <3>6. CASE HostDisposes(h)
      <4> DEFINE dying == [host[h] EXCEPT !.wire = {}, !.dying = TRUE]
      <4>1. Is(h, dying) \/ Is(h, Down(host[h]))
        BY <3>6 DEF HostDisposes
      <4>2. dying.owner = host[h].owner /\ dying.tracked = host[h].tracked
            /\ dying.proc = host[h].proc
        BY <2>1 DEF Host
      <4> HIDE DEF dying
      <4>3. Respects(dying, h) /\ Respects(Down(host[h]), h)
        BY <2>1, <4>2, DownRespects DEF Respects
      <4> QED BY <1>0, <4>1, <4>3, OneHostRespects
    <3>7. CASE HostFallsBack(h)
      <4> DEFINE ended == [host[h] EXCEPT !.runtime = "dead"]
      <4>1. ended \in Host /\ ended.owner = host[h].owner
        BY <2>1 DEF Host
      <4>2. daemon' = daemon /\ host' = [host EXCEPT ![h] = Down(ended)]
        BY <3>7 DEF HostFallsBack, Is
      <4> HIDE DEF ended
      <4> QED BY <1>0, <4>1, <4>2, DownRespects DEF HostTypeOK, Respects
    <3>8. CASE RuntimeExits(h) \/ StopKills(h)
      <4> DEFINE ended == [host[h] EXCEPT !.runtime = "dead", !.lost = FALSE]
      <4>1. Is(h, ended)
        BY <3>8 DEF RuntimeExits, StopKills
      <4>2. Respects(ended, h)
        BY <2>1, StoppedIsHost DEF Respects
      <4> QED BY <1>0, <4>1, <4>2, OneHostRespects
    <3>9. CASE HostFails(h)
      <4> DEFINE hung == [host[h] EXCEPT !.hung = TRUE]
      <4>1. Is(h, hung) \/ Is(h, Down(host[h]))
        BY <3>9 DEF HostFails
      <4>2. hung.owner = host[h].owner /\ hung.tracked = host[h].tracked
            /\ hung.proc = host[h].proc
        BY <2>1 DEF Host
      <4> HIDE DEF hung
      <4>3. Respects(hung, h) /\ Respects(Down(host[h]), h)
        BY <2>1, <4>2, DownRespects DEF Respects
      <4> QED BY <1>0, <4>1, <4>3, OneHostRespects
    <3>10. CASE StopsServer(h) \/ AbandonsServer(h)
      <4>1. PICK c \in Client : Is(h, [host[h] EXCEPT !.client = c])
        BY <3>10 DEF StopsServer, AbandonsServer, Client
      <4>2. Respects([host[h] EXCEPT !.client = c], h)
        BY <2>1, LeftIsHost DEF Respects
      <4> QED BY <1>0, <4>1, <4>2, OneHostRespects
    <3> QED BY <1>2, <3>1, <3>2, <3>3, <3>4, <3>5, <3>6, <3>7, <3>8, <3>9, <3>10 DEF HostStep
  <2>4. CASE /\ daemon' = daemon /\ \A g \in Hosts \ {h} : host'[g] = host[g]
             /\ Respects(host'[h], h)
    BY <1>0, <2>4 DEF HostInv, Tracked, OfThisDaemon, HostAlive, Respects
  <2> QED BY <2>2, <2>3, <2>4
<1>3. CASE DaemonDies
  <2>1. daemon \in Nat /\ daemon' = daemon + 1
    <3>1. daemon \in 1..MaxDaemons
      BY <1>0 DEF HostTypeOK, Daemons
    <3>2. daemon' = daemon + 1
      BY <1>3 DEF DaemonDies
    <3> QED BY <3>1, <3>2, HostAssumption
  <2>2. \A h \in Hosts : host'[h].owner = host[h].owner
    <3>1. ASSUME NEW h \in Hosts
          PROVE  host'[h] = [host[h] EXCEPT !.ready = "no", !.tracked = FALSE,
                               !.client = IF host[h].proc = "none" THEN @ ELSE "over"]
      BY <1>3 DEF DaemonDies
    <3>2. ASSUME NEW h \in Hosts PROVE host'[h].owner = host[h].owner
      <4> DEFINE c == IF host[h].proc = "none" THEN host[h].client ELSE "over"
      <4>1. host[h] \in Host
        BY <1>0
      <4>2. host'[h] = [host[h] EXCEPT !.ready = "no", !.tracked = FALSE, !.client = c]
        BY <3>1
      <4>3. c \in Client
        BY <4>1 DEF Host, Client
      <4> HIDE DEF c
      <4>4. [host[h] EXCEPT !.ready = "no", !.tracked = FALSE, !.client = c].owner
              = host[h].owner
        BY <4>1, <4>3, AbandonedIsHost
      <4> QED BY <4>2, <4>4
    <3> QED BY <3>2
  <2>3. \A h \in Hosts : host[h].owner \in Nat /\ host[h].owner <= daemon
    BY <1>0, HostAssumption DEF HostInv, Tracked, Host, Daemons
  <2>4. ASSUME NEW h \in Hosts
        PROVE  host'[h].owner <= daemon' /\ host'[h].owner # daemon'
    BY <2>1, <2>2, <2>3
  <2> QED BY <1>0, <2>4 DEF HostInv, Tracked, OfThisDaemon
<1>4. CASE SweepsSome \/ SweepsBlind
  <2>1. daemon' = daemon
    BY <1>4 DEF SweepsSome, SweepsBlind, Sweep
  <2>2. ASSUME NEW h \in Hosts PROVE Respects(host'[h], h)
    <3>1. CASE SweepsSome
      <4>1. PICK spared \in SUBSET Hosts : Sweep(spared)
        BY <3>1 DEF SweepsSome
      <4> DEFINE hit == IF h \in Reaped(spared) \cup Strays THEN Killed(host[h]) ELSE host[h]
      <4>2. host'[h] \in {hit, [hit EXCEPT !.noted = "no"]}
        BY <4>1 DEF Sweep
      <4>3. hit \in Host /\ Respects(hit, h)
        BY <1>0, KilledIsHost, KilledRespects DEF Respects
      <4> HIDE DEF hit
      <4> QED BY <4>2, <4>3 DEF Respects, Host
    <3>2. CASE SweepsBlind
      <4>1. host'[h] = [host[h] EXCEPT !.noted = "no",
              !.lost = @ \/ (host[h].proc = "gone" /\ RuntimeAlive(h))]
        BY <3>2 DEF SweepsBlind
      <4> QED BY <1>0, <4>1 DEF Respects, Host
    <3> QED BY <1>4, <3>1, <3>2
  <2> QED BY <1>0, <2>1, <2>2 DEF HostInv, Tracked, OfThisDaemon, HostAlive, Respects
<1> QED BY <1>0, <1>1, <1>2, <1>3, <1>4 DEF HostNext, HostInv

\* A sweep leaves alone what the running daemon uses or waits for: the reaper
\* asks for the tracked hosts, and a host that runs is one of them.
THEOREM WantedSurvives == HostSpec => WantedIsSpared
<1>1. HostInv /\ SweepsSome =>
        \A h \in Hosts : Wanted(h) =>
          host'[h].proc = host[h].proc /\ host'[h].runtime = host[h].runtime
  <2> SUFFICES ASSUME HostInv, SweepsSome, NEW h \in Hosts, Wanted(h)
               PROVE  host'[h].proc = host[h].proc /\ host'[h].runtime = host[h].runtime
    OBVIOUS
  <2>1. PICK spared \in SUBSET Hosts : Sweep(spared)
    BY DEF SweepsSome
  <2>2. h \notin Reaped(spared) \cup Strays \cup Cleared
    BY DEF HostInv, Tracked, Wanted, Reaped, Strays, Cleared
  <2> QED BY <2>1, <2>2 DEF Sweep
<1>2. HostInv /\ [HostNext]_hostVars
        => [SweepsSome => \A h \in Hosts : Wanted(h) =>
              host'[h].proc = host[h].proc /\ host'[h].runtime = host[h].runtime]_hostVars
  BY <1>1
<1> QED BY <1>2, HostInvInit, HostInvNext, PTL DEF HostSpec, WantedIsSpared
=============================================================================
