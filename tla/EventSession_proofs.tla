------------------------ MODULE EventSession_proofs ------------------------
(***************************************************************************)
(* Theorems about EventSession, for all stream lengths and delays: which   *)
(* marker the publisher trusts, what its end may cost the subscriber, and  *)
(* when a row is whole.                                                    *)
(*                                                                         *)
(* Inequalities carry the last two, each between a timer and what the     *)
(* other side has left to do before it runs out.  Slack - late, the ticks  *)
(* by which steps may still be put off, are part of what is left.          *)
(***************************************************************************)
EXTENDS EventSession, Integers, TLAPS

TypeInv ==
    /\ bench \in Benches
    /\ svc \in {"boot", "register", "subscribe", "ready", "stream", "marker", "stuck", "exited"}
    /\ svcExit \in {"none", "ok", "error", "killed"}
    /\ cli \in {"off", "wait", "calls", "data", "touch", "quit", "exited"}
    /\ cliExit \in {"none", "ok", "error", "killed"}
    /\ callback \in {"idle", "mark", "set", "done"}
    /\ row \in {"none", "partial", "complete"}
    /\ readyMark \in {"none", "stale", "fresh"}
    /\ doneMark \in {"none", "stale", "fresh"}
    /\ svcTimer \in Nat /\ cliTimer \in Nat /\ late \in 0 .. Slack
    /\ svc = "stream" => svcTimer <= bench.stream
    /\ cli = "data" => cliTimer <= DataWait
    /\ {offered, subscribed, available, received, failed} \subseteq BOOLEAN

\* How far one part is tells how far the others must be.
PhaseInv ==
    /\ svc \in {"boot", "register"} => ~offered
    /\ ~offered \/ cli = "off" => callback = "idle"
    /\ cli \in {"wait", "calls", "data", "touch", "quit"} => offered
    /\ subscribed => callback # "idle" /\ ~bench.rpc
    /\ svc \in {"ready", "stream", "marker", "stuck"} => subscribed
    /\ available <=> callback = "done"
    /\ cli \in {"data", "touch"} => available /\ ~bench.rpc
    /\ cli = "calls" => bench.rpc
    /\ cli = "touch" => row # "none"
    /\ row # "none" => callback = "done"

\* Markers of an earlier run are gone before the service is offered.
MarkInv ==
    /\ svc = "register" \/ offered => readyMark # "stale" /\ doneMark # "stale"
    /\ callback \in {"set", "done"} /\ ~bench.rpc => readyMark = "fresh"
    /\ doneMark = "fresh" => cli \in {"quit", "exited"}
    /\ cli = "quit" => doneMark = "fresh"

EndInv ==
    /\ svc = "exited" <=> svcExit # "none"
    /\ cli = "exited" <=> cliExit # "none"
    /\ svcExit = "killed" => cli = "exited"
    /\ svcExit = "ok" => cli = "exited" \/ (cli = "quit" /\ row # "none")
    /\ CutAfterRow

\* Ticks until the subscriber leaves its last wait, and until the publisher
\* leaves its own.
CliLeft == IF cli = "wait" THEN DataWait ELSE IF cli = "data" THEN cliTimer ELSE 0
SvcLeft == IF svc = "ready" THEN bench.stream + PubWait
           ELSE IF svc = "stream" THEN svcTimer + PubWait ELSE svcTimer

\* Ticks until the last frame is sent.
StreamLeft == IF svc \in {"subscribe", "ready"} THEN bench.stream
              ELSE IF svc = "stream" THEN svcTimer ELSE 0

\* The publisher outlasts the subscriber.
OutlastInv ==
    svc \in {"ready", "stream", "marker"} /\ cli # "exited"
        => CliLeft + (Slack - late) < SvcLeft

\* The last frame arrives before the subscriber's wait is over.
InTimeInv ==
    bench.lossless /\ bench.stream + Slack < DataWait =>
        /\ row # "partial"
        /\ cli = "data" /\ ~received => StreamLeft + (Slack - late) < cliTimer

Facts == TypeInv /\ PhaseInv /\ MarkInv

IInv == Facts /\ InTimeInv

\* No stream is so short that the delays are longer.
LongStreams == \A s \in StreamLengths : Slack < s

\* A subscriber that gave up is gone before the stream it asked for ends.
EarlyInv ==
    /\ ~bench.rpc /\ cli # "exited"
    /\ callback \in {"mark", "set"} \/ (cli = "quit" /\ row = "none")
    => svcExit # "ok" /\ (offered /\ svc # "exited" => Slack - late < StreamLeft)

EndsWell == OutlastInv /\ EarlyInv /\ EndInv

-----------------------------------------------------------------------------
\* The waits of a run, in ticks.
LEMMA Waits ==
    ASSUME TypeInv
    PROVE  /\ Slack \in Nat /\ bench.stream \in Nat \ {0} /\ bench.stream \in StreamLengths
           /\ AvailWait \in Nat /\ ReadyWait \in Nat
           /\ DataWait \in Nat /\ PubWait \in Nat /\ DataWait <= PubWait
<1>1. bench \in Benches
  BY DEF TypeInv
<1>2. bench.stream \in StreamLengths /\ bench.size \in {"small", "large", "huge"}
  BY <1>1 DEF Benches
<1>3. bench.stream \in Nat \ {0} /\ Slack \in Nat
  BY <1>2, SessionAssumption
<1>4. DataWait \in Nat /\ PubWait \in Nat /\ DataWait <= PubWait
  BY <1>2 DEF DataWait, PubWait
<1> QED  BY <1>2, <1>3, <1>4 DEF AvailWait, ReadyWait

\* No action changes the run.
LEMMA SameRun ==
    ASSUME [Next]_vars
    PROVE  bench' = bench /\ DataWait' = DataWait /\ PubWait' = PubWait
<1>1. bench' = bench
  BY DEF Next, Service, Callback, Client, Compose, Network, vars,
         SvcBoots, SvcFails, SvcRegisters, SvcSubscribed, SvcStarts, SvcStreams,
         SvcLeaves, CliBoots, CliFails, CbSubscribes, CbMarks, CbSets,
         CliAvailable, CliGivesUp, CliCalls, CliReports, CliTouches, CliQuits,
         SubscriptionArrives,
         LastFrameArrives, StopSub, StopPub, Tick
<1> QED  BY <1>1 DEF DataWait, PubWait

-----------------------------------------------------------------------------
LEMMA InvInit == Init => IInv /\ EndsWell
<1> SUFFICES ASSUME Init PROVE IInv /\ EndsWell
  OBVIOUS
<1> USE SessionAssumption DEF Init
<1>1. TypeInv
  <2>1. bench \in Benches /\ late \in 0 .. Slack
    OBVIOUS
  <2>2. {offered, subscribed, available, received, failed} \subseteq BOOLEAN
    OBVIOUS
  <2>3. svcTimer \in Nat /\ cliTimer \in Nat
    OBVIOUS
  <2> QED  BY <2>1, <2>2, <2>3 DEF TypeInv
<1>2. PhaseInv /\ MarkInv
  BY DEF PhaseInv, MarkInv
<1>3. InTimeInv
  BY DEF InTimeInv
<1>4. EndsWell
  BY DEF EndsWell, OutlastInv, EarlyInv, EndInv, CutAfterRow
<1> QED  BY <1>1, <1>2, <1>3, <1>4 DEF IInv, Facts

LEMMA FactsStep ==
    ASSUME Facts, [Next]_vars
    PROVE  Facts'
<1> USE Waits, SameRun, SessionAssumption DEF Facts, TypeInv, PhaseInv, MarkInv,
            svcVars, cliVars, cbVars, netVars, markVars
<1>1. CASE SvcBoots
  BY <1>1 DEF SvcBoots, ClearMarkers
<1>2. CASE SvcFails
  BY <1>2 DEF SvcFails, SvcExits
<1>3. CASE SvcRegisters
  BY <1>3 DEF SvcRegisters
<1>4. CASE SvcSubscribed
  BY <1>4 DEF SvcSubscribed
<1>5. CASE SvcStarts
  BY <1>5 DEF SvcStarts
<1>6. CASE SvcStreams
  BY <1>6 DEF SvcStreams, AwaitMarker
<1>7. CASE SvcLeaves
  BY <1>7 DEF SvcLeaves, SvcExits
<1>8. CASE CliBoots
  BY <1>8 DEF CliBoots
<1>9. CASE CliFails
  BY <1>9 DEF CliFails, CliExits
<1>10. CASE CbSubscribes
  <2>1. CASE bench.rpc
    BY <1>10, <2>1 DEF CbSubscribes
  <2>2. CASE ~bench.rpc
    BY <1>10, <2>2 DEF CbSubscribes
  <2> QED  BY <2>1, <2>2
<1>11. CASE CbMarks
  BY <1>11 DEF CbMarks
<1>12. CASE CbSets
  BY <1>12 DEF CbSets
<1>13. CASE CliAvailable
  BY <1>13 DEF CliAvailable
<1>14. CASE CliGivesUp
  BY <1>14 DEF CliGivesUp, Touch
<1>15. CASE CliCalls
  BY <1>15 DEF CliCalls, Touch
<1>16. CASE CliReports
  BY <1>16 DEF CliReports, DataWaitEnds
<1>17. CASE CliTouches
  BY <1>17 DEF CliTouches, Touch
<1>18. CASE SubscriptionArrives
  BY <1>18 DEF SubscriptionArrives
<1>19. CASE LastFrameArrives
  BY <1>19 DEF LastFrameArrives, StreamSent
<1>20. CASE StopSub
  BY <1>20 DEF StopSub, CliExits
<1>21. CASE StopPub
  BY <1>21 DEF StopPub, SvcExits
<1>22. CASE Tick
  BY <1>22 DEF Tick, SvcTimed, CliTimed, Busy
<1>23. CASE CliQuits
  BY <1>23 DEF CliQuits, CliExits
<1>24. CASE UNCHANGED vars
  BY <1>24 DEF vars
<1> QED  BY <1>1, <1>2, <1>3, <1>4, <1>5, <1>6, <1>7, <1>8, <1>9, <1>10, <1>11, <1>12,
             <1>13, <1>14, <1>15, <1>16, <1>17, <1>18, <1>19, <1>20, <1>21, <1>22, <1>23,
             <1>24
         DEF Next, Service, Callback, Client, Compose, Network

(* A tick takes one from the wait and one from the stream, or one from the *)
(* delays that are left.                                                   *)
LEMMA InTimeStep ==
    ASSUME Facts, InTimeInv, [Next]_vars
    PROVE  InTimeInv'
<1> USE DEF PhaseInv, MarkInv, InTimeInv, StreamLeft, svcVars, cliVars, cbVars, netVars, markVars
<1>a. /\ bench.stream \in Nat /\ Slack \in Nat /\ late \in Nat /\ late <= Slack
      /\ DataWait \in Nat /\ PubWait \in Nat /\ DataWait <= PubWait
      /\ svcTimer \in Nat /\ cliTimer \in Nat
      /\ svc = "stream" => svcTimer <= bench.stream
      /\ cli = "data" => cliTimer <= DataWait
      /\ svcExit \in {"none", "ok", "error", "killed"}
  BY Waits, SessionAssumption DEF Facts, TypeInv
<1>b. bench' = bench /\ DataWait' = DataWait /\ PubWait' = PubWait
  BY SameRun
<1>c. PhaseInv /\ MarkInv
  BY DEF Facts
<1> USE <1>a, <1>b, <1>c
<1>1. CASE SvcBoots
  BY <1>1 DEF SvcBoots, ClearMarkers
<1>2. CASE SvcFails
  BY <1>2 DEF SvcFails, SvcExits
<1>3. CASE SvcRegisters
  BY <1>3 DEF SvcRegisters
<1>4. CASE SvcSubscribed
  BY <1>4 DEF SvcSubscribed
<1>5. CASE SvcStarts
  BY <1>5 DEF SvcStarts
<1>6. CASE SvcStreams
  BY <1>6 DEF SvcStreams, AwaitMarker
<1>7. CASE SvcLeaves
  BY <1>7 DEF SvcLeaves, SvcExits
<1>8. CASE CliBoots
  BY <1>8 DEF CliBoots
<1>9. CASE CliFails
  BY <1>9 DEF CliFails, CliExits
<1>10. CASE CbSubscribes
  BY <1>10 DEF CbSubscribes
<1>11. CASE CbMarks
  BY <1>11 DEF CbMarks
<1>12. CASE CbSets
  BY <1>12 DEF CbSets
<1>13. CASE CliAvailable
  BY <1>13 DEF CliAvailable
<1>14. CASE CliGivesUp
  BY <1>14 DEF CliGivesUp, Touch
<1>15. CASE CliCalls
  BY <1>15 DEF CliCalls, Touch
<1>16. CASE CliReports
  BY <1>16 DEF CliReports, DataWaitEnds
<1>17. CASE CliTouches
  BY <1>17 DEF CliTouches, Touch
<1>18. CASE SubscriptionArrives
  BY <1>18 DEF SubscriptionArrives
<1>19. CASE LastFrameArrives
  BY <1>19 DEF LastFrameArrives, StreamSent
<1>20. CASE StopSub
  BY <1>20 DEF StopSub, CliExits
<1>21. CASE StopPub
  BY <1>21 DEF StopPub, SvcExits
<1>22. CASE Tick
  <2>1. /\ UNCHANGED <<row, cli, svc, received>>
        /\ cli = "data" => cliTimer' = cliTimer - 1
        /\ StreamLeft' = IF svc = "stream" THEN StreamLeft - 1 ELSE StreamLeft
    BY <1>22 DEF Tick, SvcTimed, CliTimed
  <2>2. late' \in Nat /\ (late' = late \/ late' = late + 1) /\ (Busy => late' = late + 1)
    BY <1>22 DEF Tick
  <2>3. bench.lossless /\ cli = "data" /\ ~received => svc = "stream" \/ Busy
    BY DEF Busy, StreamSent, Facts, TypeInv
  <2>4. StreamLeft \in Int
    OBVIOUS
  <2> HIDE DEF StreamLeft, PhaseInv, MarkInv
  <2> QED  BY <2>1, <2>2, <2>3, <2>4
<1>23. CASE CliQuits
  BY <1>23 DEF CliQuits, CliExits
<1>24. CASE UNCHANGED vars
  BY <1>24 DEF vars
<1> QED  BY <1>1, <1>2, <1>3, <1>4, <1>5, <1>6, <1>7, <1>8, <1>9, <1>10, <1>11, <1>12,
             <1>13, <1>14, <1>15, <1>16, <1>17, <1>18, <1>19, <1>20, <1>21, <1>22, <1>23,
             <1>24
         DEF Next, Service, Callback, Client, Compose, Network

(* The same for the wait of the publisher and the one of the subscriber.   *)
LEMMA OutlastStep ==
    ASSUME Facts, OutlastInv, LongStreams, [Next]_vars
    PROVE  OutlastInv'
<1> USE DEF PhaseInv, MarkInv, OutlastInv, SvcLeft, CliLeft, svcVars, cliVars, cbVars, netVars, markVars
<1>a. /\ bench.stream \in Nat /\ Slack \in Nat /\ late \in Nat /\ late <= Slack
      /\ DataWait \in Nat /\ PubWait \in Nat /\ DataWait <= PubWait
      /\ svcTimer \in Nat /\ cliTimer \in Nat
      /\ svc = "stream" => svcTimer <= bench.stream
      /\ cli = "data" => cliTimer <= DataWait
      /\ svcExit \in {"none", "ok", "error", "killed"}
  BY Waits, SessionAssumption DEF Facts, TypeInv
<1>b. bench' = bench /\ DataWait' = DataWait /\ PubWait' = PubWait
  BY SameRun
<1>c. PhaseInv /\ MarkInv
  BY DEF Facts
<1> USE <1>a, <1>b, <1>c
<1>d. Slack < bench.stream
  BY Waits DEF Facts, LongStreams
<1> USE <1>d
<1>1. CASE SvcBoots
  BY <1>1 DEF SvcBoots, ClearMarkers
<1>2. CASE SvcFails
  BY <1>2 DEF SvcFails, SvcExits
<1>3. CASE SvcRegisters
  BY <1>3 DEF SvcRegisters
<1>4. CASE SvcSubscribed
  BY <1>4 DEF SvcSubscribed
<1>5. CASE SvcStarts
  BY <1>5 DEF SvcStarts
<1>6. CASE SvcStreams
  BY <1>6 DEF SvcStreams, AwaitMarker
<1>7. CASE SvcLeaves
  BY <1>7 DEF SvcLeaves, SvcExits
<1>8. CASE CliBoots
  BY <1>8 DEF CliBoots
<1>9. CASE CliFails
  BY <1>9 DEF CliFails, CliExits
<1>10. CASE CbSubscribes
  BY <1>10 DEF CbSubscribes
<1>11. CASE CbMarks
  BY <1>11 DEF CbMarks
<1>12. CASE CbSets
  BY <1>12 DEF CbSets
<1>13. CASE CliAvailable
  BY <1>13 DEF CliAvailable
<1>14. CASE CliGivesUp
  BY <1>14 DEF CliGivesUp, Touch
<1>15. CASE CliCalls
  BY <1>15 DEF CliCalls, Touch
<1>16. CASE CliReports
  BY <1>16 DEF CliReports, DataWaitEnds
<1>17. CASE CliTouches
  BY <1>17 DEF CliTouches, Touch
<1>18. CASE SubscriptionArrives
  BY <1>18 DEF SubscriptionArrives
<1>19. CASE LastFrameArrives
  BY <1>19 DEF LastFrameArrives, StreamSent
<1>20. CASE StopSub
  BY <1>20 DEF StopSub, CliExits
<1>21. CASE StopPub
  BY <1>21 DEF StopPub, SvcExits
<1>22. CASE Tick
  <2>1. /\ UNCHANGED <<cli, svc>>
        /\ CliLeft' = IF cli = "data" THEN CliLeft - 1 ELSE CliLeft
        /\ SvcLeft' = SvcLeft \/ (svc \in {"stream", "marker"} /\ SvcLeft' = SvcLeft - 1)
    BY <1>22 DEF Tick, SvcTimed, CliTimed
  <2>2. late' \in Nat /\ (late' = late \/ late' = late + 1) /\ (Busy => late' = late + 1)
    BY <1>22 DEF Tick
  <2>3. svc \in {"ready", "stream", "marker"} /\ cli # "exited" => cli = "data" \/ Busy
    BY DEF Busy, Facts, TypeInv
  <2>4. CliLeft \in Int /\ SvcLeft \in Int
    OBVIOUS
  <2> HIDE DEF CliLeft, SvcLeft, PhaseInv, MarkInv
  <2> QED  BY <2>1, <2>2, <2>3, <2>4
<1>23. CASE CliQuits
  BY <1>23 DEF CliQuits, CliExits
<1>24. CASE UNCHANGED vars
  BY <1>24 DEF vars
<1> QED  BY <1>1, <1>2, <1>3, <1>4, <1>5, <1>6, <1>7, <1>8, <1>9, <1>10, <1>11, <1>12,
             <1>13, <1>14, <1>15, <1>16, <1>17, <1>18, <1>19, <1>20, <1>21, <1>22, <1>23,
             <1>24
         DEF Next, Service, Callback, Client, Compose, Network

(* A callback still at work, or a client about to exit, delays the stream   *)
(* at most by what is left of Slack, and the stream is longer.              *)
LEMMA EarlyStep ==
    ASSUME Facts, EarlyInv, EndInv, LongStreams, [Next]_vars
    PROVE  EarlyInv'
<1> USE DEF PhaseInv, MarkInv, EarlyInv, EndInv, StreamLeft, svcVars, cliVars, cbVars, netVars, markVars
<1>a. /\ bench.stream \in Nat /\ Slack \in Nat /\ late \in Nat /\ late <= Slack
      /\ DataWait \in Nat /\ PubWait \in Nat /\ DataWait <= PubWait
      /\ svcTimer \in Nat /\ cliTimer \in Nat
      /\ svc = "stream" => svcTimer <= bench.stream
      /\ cli = "data" => cliTimer <= DataWait
      /\ svcExit \in {"none", "ok", "error", "killed"}
      /\ callback \in {"idle", "mark", "set", "done"}
      /\ svc \in {"boot", "register", "subscribe", "ready", "stream", "marker", "stuck", "exited"}
  BY Waits, SessionAssumption DEF Facts, TypeInv
<1>b. bench' = bench /\ DataWait' = DataWait /\ PubWait' = PubWait
  BY SameRun
<1>c. PhaseInv /\ MarkInv
  BY DEF Facts
<1> USE <1>a, <1>b, <1>c
<1>d. Slack < bench.stream
  BY Waits DEF Facts, LongStreams
<1> USE <1>d
<1>1. CASE SvcBoots
  BY <1>1 DEF SvcBoots, ClearMarkers
<1>2. CASE SvcFails
  BY <1>2 DEF SvcFails, SvcExits
<1>3. CASE SvcRegisters
  BY <1>3 DEF SvcRegisters
<1>4. CASE SvcSubscribed
  BY <1>4 DEF SvcSubscribed
<1>5. CASE SvcStarts
  BY <1>5 DEF SvcStarts
<1>6. CASE SvcStreams
  BY <1>6 DEF SvcStreams, AwaitMarker
<1>7. CASE SvcLeaves
  BY <1>7 DEF SvcLeaves, SvcExits
<1>8. CASE CliBoots
  BY <1>8 DEF CliBoots
<1>9. CASE CliFails
  BY <1>9 DEF CliFails, CliExits
<1>10. CASE CbSubscribes
  BY <1>10 DEF CbSubscribes
<1>11. CASE CbMarks
  BY <1>11 DEF CbMarks
<1>12. CASE CbSets
  BY <1>12 DEF CbSets
<1>13. CASE CliAvailable
  BY <1>13 DEF CliAvailable
<1>14. CASE CliGivesUp
  BY <1>14 DEF CliGivesUp, Touch
<1>15. CASE CliCalls
  BY <1>15 DEF CliCalls, Touch
<1>16. CASE CliReports
  BY <1>16 DEF CliReports, DataWaitEnds
<1>17. CASE CliTouches
  BY <1>17 DEF CliTouches, Touch
<1>18. CASE SubscriptionArrives
  BY <1>18 DEF SubscriptionArrives
<1>19. CASE LastFrameArrives
  BY <1>19 DEF LastFrameArrives, StreamSent
<1>20. CASE StopSub
  BY <1>20 DEF StopSub, CliExits
<1>21. CASE StopPub
  BY <1>21 DEF StopPub, SvcExits
<1>22. CASE Tick
  <2>1. /\ UNCHANGED <<cli, svc, svcExit, offered, callback, row>>
        /\ StreamLeft' = IF svc = "stream" THEN StreamLeft - 1 ELSE StreamLeft
    BY <1>22 DEF Tick, SvcTimed, CliTimed
  <2>2. late' \in Nat /\ (late' = late \/ late' = late + 1) /\ (Busy => late' = late + 1)
    BY <1>22 DEF Tick
  <2>3. cli # "exited" /\ (callback \in {"mark", "set"} \/ cli = "quit") => Busy
    BY DEF Busy
  <2>4. StreamLeft \in Int
    OBVIOUS
  <2>5. CASE ~(cli # "exited" /\ (callback \in {"mark", "set"} \/ cli = "quit"))
    BY <2>1, <2>5
  <2>6. CASE Busy
    <3>1. StreamLeft' \in Int /\ StreamLeft' >= StreamLeft - 1 /\ late' = late + 1
      BY <2>1, <2>2, <2>4, <2>6
    <3> HIDE DEF StreamLeft
    <3> QED  BY <2>1, <2>4, <3>1
  <2> QED  BY <2>3, <2>5, <2>6
<1>23. CASE CliQuits
  BY <1>23 DEF CliQuits, CliExits
<1>24. CASE UNCHANGED vars
  BY <1>24 DEF vars
<1> QED  BY <1>1, <1>2, <1>3, <1>4, <1>5, <1>6, <1>7, <1>8, <1>9, <1>10, <1>11, <1>12,
             <1>13, <1>14, <1>15, <1>16, <1>17, <1>18, <1>19, <1>20, <1>21, <1>22, <1>23,
             <1>24
         DEF Next, Service, Callback, Client, Compose, Network

(* The publisher leaves when the subscriber has left its marker, with its  *)
(* row by EarlyInv, or when OutlastInv says that the subscriber is gone.   *)
LEMMA EndStep ==
    ASSUME Facts, OutlastInv, EarlyInv, EndInv, [Next]_vars
    PROVE  EndInv'
<1> USE DEF PhaseInv, MarkInv, OutlastInv, EndInv, CutAfterRow, SvcLeft, CliLeft, svcVars, cliVars, cbVars, netVars, markVars
<1>a. /\ bench.stream \in Nat /\ Slack \in Nat /\ late \in Nat /\ late <= Slack
      /\ DataWait \in Nat /\ PubWait \in Nat /\ DataWait <= PubWait
      /\ svcTimer \in Nat /\ cliTimer \in Nat
      /\ svc = "stream" => svcTimer <= bench.stream
      /\ cli = "data" => cliTimer <= DataWait
      /\ svcExit \in {"none", "ok", "error", "killed"}
  BY Waits, SessionAssumption DEF Facts, TypeInv
<1>b. bench' = bench /\ DataWait' = DataWait /\ PubWait' = PubWait
  BY SameRun
<1>c. PhaseInv /\ MarkInv
  BY DEF Facts
<1> USE <1>a, <1>b, <1>c
<1>1. CASE SvcBoots
  BY <1>1 DEF SvcBoots, ClearMarkers
<1>2. CASE SvcFails
  BY <1>2 DEF SvcFails, SvcExits
<1>3. CASE SvcRegisters
  BY <1>3 DEF SvcRegisters
<1>4. CASE SvcSubscribed
  BY <1>4 DEF SvcSubscribed
<1>5. CASE SvcStarts
  BY <1>5 DEF SvcStarts
<1>6. CASE SvcStreams
  BY <1>6 DEF SvcStreams, AwaitMarker
<1>7. CASE SvcLeaves
  <2>1. cli = "exited" \/ cli = "quit"
    <3>1. CASE doneMark # "none"
      BY <1>7, <3>1, Waits DEF SvcLeaves, Facts, TypeInv
    <3>2. CASE svcTimer = 0
      <4>1. CliLeft >= 0 /\ CliLeft \in Int /\ SvcLeft = 0
        BY <1>7, <3>2 DEF SvcLeaves
      <4> HIDE DEF CliLeft, SvcLeft
      <4> QED  BY <1>7, <4>1 DEF SvcLeaves
    <3> QED  BY <1>7, <3>1, <3>2 DEF SvcLeaves
  <2>2. cli = "quit" => row # "none"
    <3>1. svc = "marker" /\ ~bench.rpc /\ offered /\ StreamLeft = 0
      BY <1>7 DEF SvcLeaves, StreamLeft, Facts, TypeInv
    <3> QED  BY <3>1 DEF EarlyInv
  <2> QED  BY <1>7, <2>1, <2>2 DEF SvcLeaves, SvcExits
<1>8. CASE CliBoots
  BY <1>8 DEF CliBoots
<1>9. CASE CliFails
  BY <1>9 DEF CliFails, CliExits
<1>10. CASE CbSubscribes
  BY <1>10 DEF CbSubscribes
<1>11. CASE CbMarks
  BY <1>11 DEF CbMarks
<1>12. CASE CbSets
  BY <1>12 DEF CbSets
<1>13. CASE CliAvailable
  BY <1>13 DEF CliAvailable
<1>14. CASE CliGivesUp
  BY <1>14 DEF CliGivesUp, Touch
<1>15. CASE CliCalls
  BY <1>15 DEF CliCalls, Touch
<1>16. CASE CliReports
  BY <1>16 DEF CliReports, DataWaitEnds
<1>17. CASE CliTouches
  BY <1>17 DEF CliTouches, Touch
<1>18. CASE SubscriptionArrives
  BY <1>18 DEF SubscriptionArrives
<1>19. CASE LastFrameArrives
  BY <1>19 DEF LastFrameArrives, StreamSent
<1>20. CASE StopSub
  BY <1>20 DEF StopSub, CliExits
<1>21. CASE StopPub
  BY <1>21 DEF StopPub, SvcExits
<1>22. CASE Tick
  BY <1>22 DEF Tick, SvcTimed, CliTimed
<1>23. CASE CliQuits
  BY <1>23 DEF CliQuits, CliExits
<1>24. CASE UNCHANGED vars
  BY <1>24 DEF vars
<1> QED  BY <1>1, <1>2, <1>3, <1>4, <1>5, <1>6, <1>7, <1>8, <1>9, <1>10, <1>11, <1>12,
             <1>13, <1>14, <1>15, <1>16, <1>17, <1>18, <1>19, <1>20, <1>21, <1>22, <1>23,
             <1>24
         DEF Next, Service, Callback, Client, Compose, Network

-----------------------------------------------------------------------------
LEMMA IInvHolds == Spec => []IInv
<1>1. IInv /\ [Next]_vars => IInv'
  BY FactsStep, InTimeStep DEF IInv
<1> QED  BY <1>1, InvInit, PTL DEF Spec

(* The publisher goes by a marker only when this run's subscriber left it: *)
(* a marker of an earlier run is gone before the service is offered.       *)
THEOREM MarkersAreFresh == Spec => StreamAfterReady
<1>1. IInv /\ [Next]_vars => [SvcStarts => readyMark = "fresh" \/ svcTimer = 0]_vars
  <2> SUFFICES ASSUME IInv, SvcStarts, svcTimer # 0
               PROVE  readyMark = "fresh"
    OBVIOUS
  <2>1. readyMark \in {"none", "stale", "fresh"} /\ readyMark # "none"
    BY DEF IInv, Facts, TypeInv, SvcStarts
  <2>2. offered
    BY DEF IInv, Facts, PhaseInv, SvcStarts
  <2> QED  BY <2>1, <2>2 DEF IInv, Facts, MarkInv
<1> QED  BY <1>1, IInvHolds, PTL DEF Spec, StreamAfterReady

(* Without loss, and with a wait longer than the stream and all delays, a  *)
(* printed row is whole: the code's 120, 900 and 3600 s do below that.     *)
THEOREM LosslessRowsAreWhole == Spec => []RowWhole
<1>1. IInv => RowWhole
  BY DEF IInv, InTimeInv, RowWhole
<1> QED  BY <1>1, IInvHolds, PTL

(* The publisher's regular end stops the subscriber at most between its    *)
(* marker and its exit, with its row printed, whatever is lost, as long as *)
(* the stream is longer than all delays: from 4 MiB on both sides wait     *)
(* equally long, and the stream is the only margin.                        *)
THEOREM SubscriberIsCutAfterRow == ASSUME LongStreams PROVE Spec => []CutAfterRow
<1>1. IInv /\ EndsWell /\ [Next]_vars => EndsWell'
  BY OutlastStep, EarlyStep, EndStep DEF IInv, EndsWell
<1>2. EndsWell => CutAfterRow
  BY DEF EndsWell, EndInv
<1> QED  BY <1>1, <1>2, InvInit, IInvHolds, PTL DEF Spec
=============================================================================
