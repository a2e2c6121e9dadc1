---------------------------- MODULE EventSession ----------------------------
(***************************************************************************)
(* One run of the vsomeip event bench in its two containers: entrypoint    *)
(* and EventService in pub, entrypoint and EventClient in sub, the marker  *)
(* files in the shared workspace, the timers of both sides, and compose,   *)
(* which stops everything as soon as one container exits                   *)
(* (--exit-code-from sub).                                                 *)
(*                                                                         *)
(* Time passes in ticks of 15 seconds; a timer that has run out is acted   *)
(* on within the tick, and other due steps are late by Slack ticks in all. *)
(* The stream is one paced interval: its frames are module EventStream's,  *)
(* its calls module EchoCalls'.                                            *)
(***************************************************************************)
EXTENDS Naturals

CONSTANTS StreamLengths, \* the lengths of the stream to look at, in ticks
          Slack          \* ticks, in all, that a due step may be put off

ASSUME SessionAssumption ==
    /\ Slack \in Nat
    /\ StreamLengths \subseteq Nat \ {0} /\ StreamLengths # {}

VARIABLES
    bench,        \* the run: [rpc, size, lossless, stream], see Benches
    svc,          \* "boot", "register", "subscribe", "ready", "stream",
                  \* "marker", "stuck", "exited"
    svcExit,      \* "none", "ok", "error", "killed"
    svcTimer,     \* ticks left of the service's current wait
    offered,      \* the service is offered, its container healthy
    subscribed,   \* subscribed_ of the service
    cli,          \* "off", "wait", "calls", "data", "touch", "quit", "exited"
    cliExit,
    cliTimer,
    callback,     \* OnAvailability: "idle", "mark", "set", "done"
    available,    \* available_ of the client
    received,     \* done_: count measured frames have arrived
    row,          \* PrintCsv: "none", "partial", "complete"
    failed,       \* failed_ of the client
    readyMark,    \* .bench-sub-ready: "none", "stale", "fresh"
    doneMark,     \* .bench-sub-done
    late          \* ticks that passed while some step was due

svcVars  == <<svc, svcExit, svcTimer, offered>>
cliVars  == <<cli, cliExit, cliTimer, row, failed>>
cbVars   == <<callback, available>>
netVars  == <<subscribed, received>>
markVars == <<readyMark, doneMark>>
vars == <<bench, svcVars, cliVars, cbVars, netVars, markVars, late>>

\* --rpc-calls, --size (below 4 MiB, below 10 MiB, from 10 MiB), offer and
\* subscription and every frame arrive, (warmup + count) / rate-hz.
Benches == [rpc : BOOLEAN, size : {"small", "large", "huge"}, lossless : BOOLEAN,
            stream : StreamLengths]

ReadyWait == 4      \* service polls for .bench-sub-ready
AvailWait == 8      \* client waits to be available

\* The service's container waits for .bench-sub-done.
PubWait == [small |-> 16, large |-> 60, huge |-> 240][bench.size]

\* The client waits for its samples.
DataWait == [small |-> 8, large |-> 60, huge |-> 240][bench.size]

\* The workspace is mounted from the host: markers of an earlier run are there.
Init ==
    /\ bench \in Benches
    /\ svc = "boot" /\ svcExit = "none" /\ svcTimer = 0 /\ offered = FALSE
    /\ cli = "off" /\ cliExit = "none" /\ cliTimer = 0 /\ row = "none" /\ failed = FALSE
    /\ callback = "idle" /\ available = FALSE
    /\ subscribed = FALSE /\ received = FALSE
    /\ readyMark \in {"none", "stale"} /\ doneMark \in {"none", "stale"}
    /\ late = 0

-----------------------------------------------------------------------------
(* Container pub.                                                          *)

SvcExits(code) == svc' = "exited" /\ svcExit' = code

\* Only the marker the service waits for last is removed.
ClearDone == doneMark' = "none" /\ UNCHANGED readyMark

ClearMarkers == doneMark' = "none" /\ readyMark' = "none"

SvcBoots ==
    /\ svc = "boot"
    /\ ClearMarkers
    /\ svc' = "register"
    /\ UNCHANGED <<bench, svcExit, svcTimer, offered, cliVars, cbVars, netVars, late>>

\* A failing build, routing manager or vsomeip init.
SvcFails ==
    /\ svc \in {"boot", "register"}
    /\ SvcExits("error")
    /\ UNCHANGED <<bench, svcTimer, offered, cliVars, cbVars, netVars, markVars, late>>

SvcRegisters ==
    /\ svc = "register"
    /\ offered' = TRUE
    /\ svc' = "subscribe"
    /\ UNCHANGED <<bench, svcExit, svcTimer, cliVars, cbVars, netVars, markVars, late>>

SvcSubscribed ==
    /\ svc = "subscribe"
    /\ subscribed
    /\ svc' = "ready" /\ svcTimer' = ReadyWait
    /\ UNCHANGED <<bench, svcExit, offered, cliVars, cbVars, netVars, markVars, late>>

SvcStarts ==
    /\ svc = "ready"
    /\ readyMark # "none" \/ svcTimer = 0
    /\ svc' = "stream" /\ svcTimer' = bench.stream
    /\ UNCHANGED <<bench, svcExit, offered, cliVars, cbVars, netVars, markVars, late>>

\* The process and its container end with the stream.
LeaveAtOnce == SvcExits("ok") /\ UNCHANGED svcTimer

\* The entrypoint waits for the marker; vsomeip's shutdown may block before.
AwaitMarker ==
    /\ svc' \in {"marker", "stuck"} /\ svcTimer' = PubWait
    /\ UNCHANGED svcExit

SvcStreams ==
    /\ svc = "stream" /\ svcTimer = 0
    /\ AwaitMarker
    /\ UNCHANGED <<bench, offered, cliVars, cbVars, netVars, markVars, late>>

SvcLeaves ==
    /\ svc = "marker"
    /\ doneMark # "none" \/ svcTimer = 0
    /\ SvcExits("ok")
    /\ UNCHANGED <<bench, svcTimer, offered, cliVars, cbVars, netVars, markVars, late>>

-----------------------------------------------------------------------------
(* Container sub.                                                          *)

CliExits(code) == cli' = "exited" /\ cliExit' = code

\* Compose starts it once pub is healthy.
CliBoots ==
    /\ cli = "off" /\ offered
    /\ cli' = "wait" /\ cliTimer' = AvailWait
    /\ UNCHANGED <<bench, cliExit, row, failed, svcVars, cbVars, netVars, markVars, late>>

CliFails ==
    /\ cli = "off" /\ offered
    /\ CliExits("error")
    /\ UNCHANGED <<bench, cliTimer, row, failed, svcVars, cbVars, netVars, markVars, late>>

\* OnAvailability, on a dispatcher thread once discovery finds the service:
\* subscribe, leave the marker, tell the worker.
CbSubscribes ==
    /\ cli \notin {"off", "exited"} /\ offered
    /\ callback = "idle"
    /\ IF bench.rpc THEN callback' = "done" /\ available' = TRUE
              ELSE callback' = "mark" /\ UNCHANGED available
    /\ UNCHANGED <<bench, svcVars, cliVars, netVars, markVars, late>>

CbMarks ==
    /\ cli # "exited" /\ callback = "mark"
    /\ readyMark' = "fresh"
    /\ callback' = "set"
    /\ UNCHANGED <<bench, available, svcVars, cliVars, netVars, doneMark, late>>

CbSets ==
    /\ cli # "exited" /\ callback = "set"
    /\ available' = TRUE
    /\ callback' = "done"
    /\ UNCHANGED <<bench, svcVars, cliVars, netVars, markVars, late>>

CliAvailable ==
    /\ cli = "wait" /\ available
    /\ IF bench.rpc THEN cli' = "calls" /\ cliTimer' = 0
              ELSE cli' = "data" /\ cliTimer' = DataWait
    /\ UNCHANGED <<bench, cliExit, row, failed, svcVars, cbVars, netVars, markVars, late>>

\* TouchBenchSubDone; the process goes on.
Touch == doneMark' = "fresh" /\ cli' = "quit" /\ UNCHANGED readyMark

CliGivesUp ==
    /\ cli = "wait" /\ ~available /\ cliTimer = 0
    /\ failed' = TRUE
    /\ Touch
    /\ UNCHANGED <<bench, cliExit, cliTimer, row, svcVars, cbVars, netVars, late>>

\* RunEchoCalls fails when the payload does not fit a datagram.
CliCalls ==
    /\ cli = "calls"
    /\ failed' \in BOOLEAN
    /\ Touch
    /\ UNCHANGED <<bench, cliExit, cliTimer, row, svcVars, cbVars, netVars, late>>

\* A wait without a limit.
WaitIsOver == received

\* A wait without a predicate ends at any wake-up.
WakesUp == TRUE

DataWaitEnds == received \/ cliTimer = 0

CliReports ==
    /\ cli = "data"
    /\ DataWaitEnds
    /\ row' = IF received THEN "complete" ELSE "partial"
    /\ cli' = "touch"
    /\ UNCHANGED <<bench, cliExit, cliTimer, failed, svcVars, cbVars, netVars, markVars, late>>

CliTouches ==
    /\ cli = "touch"
    /\ Touch
    /\ UNCHANGED <<bench, cliExit, cliTimer, row, failed, svcVars, cbVars, netVars, late>>

CliQuits ==
    /\ cli = "quit"
    /\ CliExits(IF failed THEN "error" ELSE "ok")
    /\ UNCHANGED <<bench, cliTimer, row, failed, svcVars, cbVars, netVars, markVars, late>>

-----------------------------------------------------------------------------
(* Network, compose and time.                                              *)

SubscriptionArrives ==
    /\ callback # "idle" /\ ~bench.rpc /\ ~subscribed
    /\ svc # "exited"
    /\ subscribed' = TRUE
    /\ UNCHANGED <<bench, svcVars, cliVars, cbVars, received, markVars, late>>

StreamSent == svc \in {"marker", "stuck"} \/ svcExit = "ok"

LastFrameArrives ==
    /\ StreamSent /\ cli # "exited" /\ ~received
    /\ received' = TRUE
    /\ UNCHANGED <<bench, svcVars, cliVars, cbVars, subscribed, markVars, late>>

StopSub ==
    /\ svc = "exited" /\ cli # "exited"
    /\ CliExits("killed")
    /\ UNCHANGED <<bench, cliTimer, row, failed, svcVars, cbVars, netVars, markVars, late>>

StopPub ==
    /\ cli = "exited" /\ svc # "exited"
    /\ SvcExits("killed")
    /\ UNCHANGED <<bench, svcTimer, offered, cliVars, cbVars, netVars, markVars, late>>

\* Steps that wait for nothing but their turn.
Busy ==
    \/ svc \in {"boot", "register", "exited"}
    \/ svc = "subscribe" /\ subscribed
    \/ svc = "ready" /\ readyMark # "none"
    \/ svc = "marker" /\ doneMark # "none"
    \/ cli \in {"calls", "touch", "quit", "exited"}
    \/ cli = "off" /\ offered
    \/ cli # "exited" /\ callback \in {"mark", "set"}
    \/ bench.lossless /\ cli \notin {"off", "exited"} /\ callback = "idle"
    \/ cli = "wait" /\ available
    \/ cli = "data" /\ received
    \/ bench.lossless /\ callback # "idle" /\ ~bench.rpc /\ ~subscribed
    \/ bench.lossless /\ StreamSent /\ ~received

SvcTimed == svc \in {"ready", "stream", "marker"}
CliTimed == cli \in {"wait", "data"}

Tick ==
    /\ SvcTimed => svcTimer > 0
    /\ CliTimed => cliTimer > 0
    /\ SvcTimed \/ CliTimed
    /\ Busy => late < Slack
    /\ late' = IF Busy THEN late + 1 ELSE late
    /\ svcTimer' = IF SvcTimed THEN svcTimer - 1 ELSE svcTimer
    /\ cliTimer' = IF CliTimed THEN cliTimer - 1 ELSE cliTimer
    /\ UNCHANGED <<bench, svc, svcExit, offered, cli, cliExit, row, failed, cbVars, netVars,
                   markVars>>

-----------------------------------------------------------------------------
Service == \/ SvcBoots \/ SvcFails \/ SvcRegisters \/ SvcSubscribed
           \/ SvcStarts \/ SvcStreams \/ SvcLeaves

Callback == CbMarks \/ CbSets

Client == \/ CliBoots \/ CliFails \/ CliAvailable \/ CliGivesUp
          \/ CliCalls \/ CliReports \/ CliTouches \/ CliQuits

Compose == StopSub \/ StopPub

Network == CbSubscribes \/ SubscriptionArrives \/ LastFrameArrives

Next == Service \/ Callback \/ Client \/ Compose \/ Network \/ Tick

Spec == Init /\ [][Next]_vars

\* Every process runs, and time passes.  Only a lossless network delivers.
FairSpec ==
    /\ Spec
    /\ WF_vars(Service) /\ WF_vars(Callback) /\ WF_vars(Client)
    /\ WF_vars(Compose) /\ WF_vars(Tick) /\ WF_vars(bench.lossless /\ Network)

-----------------------------------------------------------------------------
(* Compose stops sub before its own end only when pub failed, or when sub  *)
(* had printed its row and left its marker and was about to exit: no end   *)
(* of the publisher costs a row (bazel_entrypoint.sh:185).                 *)
CutAfterRow ==
    cliExit = "killed" => svcExit = "error" \/ (row # "none" /\ doneMark = "fresh")

(* The stream starts when this run's subscriber has left its marker, or    *)
(* after the whole wait for it.                                            *)
StreamAfterReady ==
    [][SvcStarts => readyMark = "fresh" \/ svcTimer = 0]_vars

(* When no frame is lost and the stream is shorter than the client's wait, *)
(* delays included, a printed row counts all the samples asked for.        *)
RowWhole ==
    (bench.lossless /\ bench.stream + Slack < DataWait) => row # "partial"

(* What docker/run.sh:58 takes for granted, no frame being lost: pub has    *)
(* finished its notify loop when sub has collected its samples.            *)
LoopFirst == (bench.lossless /\ row # "none") => StreamSent

(* A run ends with both containers stopped, also when the service blocks   *)
(* in its shutdown, frames are lost or the service was never called on.    *)
SessionEnds == <>(svc = "exited" /\ cli = "exited")
=============================================================================
