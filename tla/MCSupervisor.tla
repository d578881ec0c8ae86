---------------------------- MODULE MCSupervisor ----------------------------
(* Instances of Supervisor for TLC: the requests the daemon really submits. *)
EXTENDS Supervisor

Req(kind, cause, fresh, observed) ==
  [kind |-> kind, cause |-> cause, fresh |-> fresh, observed |-> observed]

\* Manual stop, halt on image poison, resume, the boot or reaper start, a fresh
\* crash restart, and a session refresh of a generation someone observed.
AllRequests ==
  { Req("stop", "manual-cli", FALSE, NoGeneration),
    Req("halt", "image-poison", FALSE, NoGeneration),
    Req("resume", "manual-cli", FALSE, NoGeneration),
    Req("start", "manual-ipc", FALSE, NoGeneration),
    Req("restart", "crash", TRUE, NoGeneration),
    Req("refresh", "session-age", FALSE, 1) }

StopStart == {r \in AllRequests : r.kind \in {"stop", "start"}}
HaltResumeStart == {r \in AllRequests : r.kind \in {"halt", "resume", "start"}}

\* Nothing the owner does depends on which processes are alive, on whether it was
\* asked for a start, or on the gaps it has run into: a run whose properties mention
\* none of them can leave them out.
OwnerView == <<snap, tasks, crashes, spawned>>
=============================================================================
