------------------------ MODULE MonitoringClientProofs ------------------------
(***************************************************************************)
(* IndInv is an invariant of MonitoringClient for any number of metrics,   *)
(* workers, timers, uploads and events: no metric is posted twice, and the *)
(* chain of one-shot timers does not break.                                *)
(***************************************************************************)
EXTENDS MonitoringClient, TLAPS

\* An agent that has just been created satisfies the invariant.
LEMMA InitInv == Init => IndInv
<1> SUFFICES ASSUME Init PROVE IndInv
  OBVIOUS
<1> USE MonitoringAssumption DEF Init
<1>1. TypeOK
  <2>1. /\ wpc \in [Workers -> {"idle", "startup"}]
        /\ tstate \in [Timers -> {"none"}] /\ ustate \in [Uploads -> {"idle"}]
        /\ holding \in [Uploads -> SUBSET Metrics] /\ posts \in [Metrics -> Nat]
    OBVIOUS
  <2>2. \A w \in Workers : syncLock = w <=> wpc[w] \notin {"idle", "startup", "refresh", "sync"}
    OBVIOUS
  <2>3. recording \subseteq Metrics /\ queue \subseteq Metrics /\ events \in 0 .. MaxEvents
    OBVIOUS
  <2>4. wpc \in [Workers -> {"idle", "startup", "refresh", "sync", "cancelled", "flip",
                            "fire", "establish", "upload", "finish"}]
    BY <2>1
  <2> QED
    BY <2>1, <2>2, <2>3, <2>4 DEF TypeOK
<1>2. MetricInOnePlace
  BY DEF MetricInOnePlace, PostedAtMostOnce
<1>3. ChainHolds
  BY DEF ChainHolds, Monitoring
<1> QED
  BY <1>1, <1>2, <1>3 DEF IndInv

\* Every step keeps the types, and the lock with the worker that is within it.
LEMMA TypeStep ==
    ASSUME TypeOK, [Next]_vars
    PROVE  TypeOK'
<1> USE MonitoringAssumption DEF TypeOK, Timers, Uploads,
        agentVars, timerVars, workerVars, uploadVars, metricVars, appVars
<1>1. ASSUME NEW w \in Workers, NEW s \in {"none", "on", "off"}, NEW ok \in BOOLEAN,
           retrieveServerConfig(w, s, ok) PROVE TypeOK'
  BY <1>1 DEF retrieveServerConfig
<1>2. ASSUME NEW w \in Workers, startMonitoring(w) PROVE TypeOK'
  BY <1>2 DEF startMonitoring, Invalidated
<1>3. ASSUME NEW w \in Workers, forgetTimer(w) PROVE TypeOK'
  BY <1>3 DEF forgetTimer
<1>4. ASSUME NEW w \in Workers, notStarted(w) PROVE TypeOK'
  <2>1. wpc' = [wpc EXCEPT ![w] = "idle"] /\ wpc[w] = "flip" /\ syncLock' = None
    BY <1>4 DEF notStarted
  <2>2. syncLock = w /\ \A v \in Workers : v # w => wpc[v] \in {"idle", "startup", "refresh", "sync"}
    BY <2>1
  <2>3. UNCHANGED <<settings, agentVars, timerVars, uploadVars, metricVars, appVars>>
    BY <1>4 DEF notStarted
  <2> QED
    BY <2>1, <2>2, <2>3
<1>5. ASSUME NEW w \in Workers, NEW sampled \in BOOLEAN, flipCoin(w, sampled) PROVE TypeOK'
  BY <1>5 DEF flipCoin
<1>6. ASSUME NEW w \in Workers, fire(w) PROVE TypeOK'
  BY <1>6 DEF fire
<1>7. ASSUME NEW w \in Workers, establish(w) PROVE TypeOK'
  <2>1. timer' \in Timers \cup {None} /\ tstate' \in [Timers -> {"none", "pending", "scheduled"}]
    BY <1>7 DEF establish, establishTimer
  <2>2. ustate' \in [Uploads -> {"idle", "queued", "posting"}]
    BY <1>7 DEF establish, dispatchUpload
  <2>3. missed' \in BOOLEAN
    BY <1>7 DEF establish, establishTimer
  <2>4. wpc' = [wpc EXCEPT ![w] = "finish"] /\ wpc[w] \in {"establish", "upload"}
    BY <1>7 DEF establish
  <2>5. UNCHANGED <<settings, agentVars, syncLock, holding, posts, sentStartingSessionData, metricVars, appVars>>
    BY <1>7 DEF establish
  <2> QED
    BY <2>1, <2>2, <2>3, <2>4, <2>5
<1>8. ASSUME NEW w \in Workers, finish(w) PROVE TypeOK'
  BY <1>8 DEF finish
<1>9. ASSUME NEW t \in Timers, setUpTimer(t) PROVE TypeOK'
  BY <1>9 DEF setUpTimer
<1>10. ASSUME NEW t \in Timers, timerFired(t) PROVE TypeOK'
  <2>1. timer' \in Timers \cup {None} /\ tstate' \in [Timers -> {"none", "pending", "scheduled"}]
    BY <1>10 DEF timerFired, establishTimer
  <2>2. ustate' \in [Uploads -> {"idle", "queued", "posting"}]
    BY <1>10 DEF timerFired, dispatchUpload
  <2>3. missed' \in BOOLEAN
    BY <1>10 DEF timerFired, establishTimer
  <2>5. UNCHANGED <<settings, agentVars, workerVars, holding, posts, sentStartingSessionData, metricVars, appVars>>
    BY <1>10 DEF timerFired
  <2> QED
    BY <2>1, <2>2, <2>3, <2>5
<1>11. ASSUME NEW m \in Metrics, recordNetworkEntry(m) PROVE TypeOK'
  BY <1>11 DEF recordNetworkEntry
<1>12. ASSUME NEW m \in Metrics, enqueue(m) PROVE TypeOK'
  BY <1>12 DEF enqueue
<1>13. ASSUME NEW u \in Uploads, NEW b \in BOOLEAN, NEW logs \in BOOLEAN,
            uploadEvents(u, b, logs) PROVE TypeOK'
  <2>1. posts' \in [Metrics -> Nat]
    <3>1. \A m \in Metrics : posts[m] \in Nat /\ posts[m] + 1 \in Nat
      OBVIOUS
    <3>2. posts' = posts \/ posts' = [m \in Metrics |-> IF m \in queue THEN posts[m] + 1 ELSE posts[m]]
      BY <1>13 DEF uploadEvents
    <3> QED
      BY <3>1, <3>2
  <2>2. /\ ustate' \in [Uploads -> {"idle", "queued", "posting"}]
        /\ holding' \in [Uploads -> SUBSET Metrics]
        /\ queue' \subseteq Metrics
    BY <1>13 DEF uploadEvents
  <2>3. UNCHANGED <<settings, agentVars, timerVars, workerVars, sentStartingSessionData, recording, appVars>>
    BY <1>13 DEF uploadEvents
  <2> QED
    BY <2>1, <2>2, <2>3
<1>14. ASSUME NEW u \in Uploads, NEW b \in BOOLEAN, uploadReturns(u, b) PROVE TypeOK'
  BY <1>14 DEF uploadReturns
<1>15. ASSUME NEW w \in Workers, networkChanged(w) PROVE TypeOK'
  BY <1>15 DEF networkChanged, event, dispatch
<1>16. ASSUME NEW w \in Workers, refreshConfiguration(w) PROVE TypeOK'
  BY <1>16 DEF refreshConfiguration, event, dispatch
<1>17. ASSUME uploadMetrics PROVE TypeOK'
  BY <1>17 DEF uploadMetrics, event, dispatchUpload
<1>18. ASSUME pause PROVE TypeOK'
  BY <1>18 DEF pause, event, cancelTimer, Invalidated
<1>19. ASSUME resume PROVE TypeOK'
  <2>1. timer' \in Timers /\ tstate' \in [Timers -> {"none", "pending", "scheduled"}] /\ missed' \in BOOLEAN
    BY <1>19 DEF resume, establishTimer
  <2>2. monitoringPaused' \in BOOLEAN /\ inBackground' \in BOOLEAN
    BY <1>19 DEF resume
  <2>4. events' \in 0 .. MaxEvents
    BY <1>19 DEF resume, event
  <2>3. UNCHANGED <<settings, agentVars, workerVars, uploadVars, metricVars>>
    BY <1>19 DEF resume
  <2> QED
    BY <2>1, <2>2, <2>3, <2>4
<1>20. ASSUME applicationDidEnterBackground PROVE TypeOK'
  BY <1>20 DEF applicationDidEnterBackground, event, cancelTimer, Invalidated
<1>21. ASSUME applicationWillEnterForeground PROVE TypeOK'
  <2>1. timer' \in Timers \cup {None}
        /\ tstate' \in [Timers -> {"none", "pending", "scheduled"}] /\ missed' \in BOOLEAN
    BY <1>21 DEF applicationWillEnterForeground, establishTimer
  <2>2. monitoringPaused' \in BOOLEAN /\ inBackground' \in BOOLEAN
    BY <1>21 DEF applicationWillEnterForeground
  <2>4. events' \in 0 .. MaxEvents
    BY <1>21 DEF applicationWillEnterForeground, event
  <2>3. UNCHANGED <<settings, agentVars, workerVars, uploadVars, metricVars>>
    BY <1>21 DEF applicationWillEnterForeground
  <2> QED
    BY <2>1, <2>2, <2>3, <2>4
<1>22. ASSUME applicationDidReceiveMemoryWarning PROVE TypeOK'
  BY <1>22 DEF applicationDidReceiveMemoryWarning, event
<1>23. ASSUME UNCHANGED vars PROVE TypeOK'
  BY <1>23 DEF vars
<1> HIDE DEF TypeOK
<1> QED
  BY <1>1, <1>2, <1>3, <1>4, <1>5, <1>6, <1>7, <1>8, <1>9, <1>10, <1>11, <1>12,
     <1>13, <1>14, <1>15, <1>16, <1>17, <1>18, <1>19, <1>20, <1>21, <1>22, <1>23
     DEF Next, WorkerStep, AppStep

\* Every step keeps each metric at one place.
LEMMA MetricStep ==
    ASSUME TypeOK, MetricInOnePlace, [Next]_vars
    PROVE  MetricInOnePlace'
<1> USE MonitoringAssumption DEF TypeOK, MetricInOnePlace, PostedAtMostOnce, Timers, Uploads,
        agentVars, timerVars, workerVars, uploadVars, metricVars, appVars
<1>1. ASSUME NEW w \in Workers, NEW s \in {"none", "on", "off"}, NEW ok \in BOOLEAN,
           retrieveServerConfig(w, s, ok) PROVE MetricInOnePlace'
  BY <1>1 DEF retrieveServerConfig
<1>2. ASSUME NEW w \in Workers, startMonitoring(w) PROVE MetricInOnePlace'
  BY <1>2 DEF startMonitoring, Invalidated
<1>3. ASSUME NEW w \in Workers, forgetTimer(w) PROVE MetricInOnePlace'
  BY <1>3 DEF forgetTimer
<1>4. ASSUME NEW w \in Workers, notStarted(w) PROVE MetricInOnePlace'
  BY <1>4 DEF notStarted
<1>5. ASSUME NEW w \in Workers, NEW sampled \in BOOLEAN, flipCoin(w, sampled) PROVE MetricInOnePlace'
  BY <1>5 DEF flipCoin
<1>6. ASSUME NEW w \in Workers, fire(w) PROVE MetricInOnePlace'
  BY <1>6 DEF fire
<1>7. ASSUME NEW w \in Workers, establish(w) PROVE MetricInOnePlace'
  BY <1>7 DEF establish, establishTimer, dispatchUpload
<1>8. ASSUME NEW w \in Workers, finish(w) PROVE MetricInOnePlace'
  BY <1>8 DEF finish
<1>9. ASSUME NEW t \in Timers, setUpTimer(t) PROVE MetricInOnePlace'
  BY <1>9 DEF setUpTimer
<1>10. ASSUME NEW t \in Timers, timerFired(t) PROVE MetricInOnePlace'
  BY <1>10 DEF timerFired, establishTimer, dispatchUpload
<1>11. ASSUME NEW m \in Metrics, recordNetworkEntry(m) PROVE MetricInOnePlace'
  BY <1>11 DEF recordNetworkEntry
<1>12. ASSUME NEW m \in Metrics, enqueue(m) PROVE MetricInOnePlace'
  BY <1>12 DEF enqueue
<1>13. ASSUME NEW u \in Uploads, NEW b \in BOOLEAN, NEW logs \in BOOLEAN,
            uploadEvents(u, b, logs) PROVE MetricInOnePlace'
  BY <1>13 DEF uploadEvents
<1>14. ASSUME NEW u \in Uploads, NEW b \in BOOLEAN, uploadReturns(u, b) PROVE MetricInOnePlace'
  BY <1>14 DEF uploadReturns
<1>15. ASSUME NEW w \in Workers, networkChanged(w) PROVE MetricInOnePlace'
  BY <1>15 DEF networkChanged, event, dispatch
<1>16. ASSUME NEW w \in Workers, refreshConfiguration(w) PROVE MetricInOnePlace'
  BY <1>16 DEF refreshConfiguration, event, dispatch
<1>17. ASSUME uploadMetrics PROVE MetricInOnePlace'
  BY <1>17 DEF uploadMetrics, event, dispatchUpload
<1>18. ASSUME pause PROVE MetricInOnePlace'
  BY <1>18 DEF pause, event, cancelTimer, Invalidated
<1>19. ASSUME resume PROVE MetricInOnePlace'
  BY <1>19 DEF resume, event, establishTimer
<1>20. ASSUME applicationDidEnterBackground PROVE MetricInOnePlace'
  BY <1>20 DEF applicationDidEnterBackground, event, cancelTimer, Invalidated
<1>21. ASSUME applicationWillEnterForeground PROVE MetricInOnePlace'
  BY <1>21 DEF applicationWillEnterForeground, event, establishTimer
<1>22. ASSUME applicationDidReceiveMemoryWarning PROVE MetricInOnePlace'
  BY <1>22 DEF applicationDidReceiveMemoryWarning, event
<1>23. ASSUME UNCHANGED vars PROVE MetricInOnePlace'
  BY <1>23 DEF vars
<1> HIDE DEF TypeOK, MetricInOnePlace, PostedAtMostOnce
<1> QED
  BY <1>1, <1>2, <1>3, <1>4, <1>5, <1>6, <1>7, <1>8, <1>9, <1>10, <1>11, <1>12,
     <1>13, <1>14, <1>15, <1>16, <1>17, <1>18, <1>19, <1>20, <1>21, <1>22, <1>23
     DEF Next, WorkerStep, AppStep

\* Every step that ends the chain of timers leaves a worker on its way to start another, or the agent no
\* longer to monitor.
LEMMA ChainStep ==
    ASSUME TypeOK, ChainHolds, [Next]_vars
    PROVE  ChainHolds'
<1> USE MonitoringAssumption DEF TypeOK, ChainHolds, Monitoring, Starting, TimerComing, Timers, Uploads,
        agentVars, timerVars, workerVars, uploadVars, metricVars, appVars
<1>1. ASSUME NEW w \in Workers, NEW s \in {"none", "on", "off"}, NEW ok \in BOOLEAN,
           retrieveServerConfig(w, s, ok) PROVE ChainHolds'
  BY <1>1 DEF retrieveServerConfig
<1>2. ASSUME NEW w \in Workers, startMonitoring(w) PROVE ChainHolds'
  BY <1>2 DEF startMonitoring, Invalidated
<1>3. ASSUME NEW w \in Workers, forgetTimer(w) PROVE ChainHolds'
  BY <1>3 DEF forgetTimer
<1>4. ASSUME NEW w \in Workers, notStarted(w) PROVE ChainHolds'
  BY <1>4 DEF notStarted
<1>5. ASSUME NEW w \in Workers, NEW sampled \in BOOLEAN, flipCoin(w, sampled) PROVE ChainHolds'
  BY <1>5 DEF flipCoin
<1>6. ASSUME NEW w \in Workers, fire(w) PROVE ChainHolds'
  BY <1>6 DEF fire
<1>7. ASSUME NEW w \in Workers, establish(w) PROVE ChainHolds'
  BY <1>7 DEF establish, establishTimer, dispatchUpload
<1>8. ASSUME NEW w \in Workers, finish(w) PROVE ChainHolds'
  BY <1>8 DEF finish
<1>9. ASSUME NEW t \in Timers, setUpTimer(t) PROVE ChainHolds'
  BY <1>9 DEF setUpTimer
<1>10. ASSUME NEW t \in Timers, timerFired(t) PROVE ChainHolds'
  BY <1>10 DEF timerFired, establishTimer, dispatchUpload
<1>11. ASSUME NEW m \in Metrics, recordNetworkEntry(m) PROVE ChainHolds'
  BY <1>11 DEF recordNetworkEntry
<1>12. ASSUME NEW m \in Metrics, enqueue(m) PROVE ChainHolds'
  BY <1>12 DEF enqueue
<1>13. ASSUME NEW u \in Uploads, NEW b \in BOOLEAN, NEW logs \in BOOLEAN,
            uploadEvents(u, b, logs) PROVE ChainHolds'
  BY <1>13 DEF uploadEvents
<1>14. ASSUME NEW u \in Uploads, NEW b \in BOOLEAN, uploadReturns(u, b) PROVE ChainHolds'
  BY <1>14 DEF uploadReturns
<1>15. ASSUME NEW w \in Workers, networkChanged(w) PROVE ChainHolds'
  BY <1>15 DEF networkChanged, event, dispatch
<1>16. ASSUME NEW w \in Workers, refreshConfiguration(w) PROVE ChainHolds'
  BY <1>16 DEF refreshConfiguration, event, dispatch
<1>17. ASSUME uploadMetrics PROVE ChainHolds'
  BY <1>17 DEF uploadMetrics, event, dispatchUpload
<1>18. ASSUME pause PROVE ChainHolds'
  BY <1>18 DEF pause, event, cancelTimer, Invalidated
<1>19. ASSUME resume PROVE ChainHolds'
  BY <1>19 DEF resume, event, establishTimer
<1>20. ASSUME applicationDidEnterBackground PROVE ChainHolds'
  BY <1>20 DEF applicationDidEnterBackground, event, cancelTimer, Invalidated
<1>21. ASSUME applicationWillEnterForeground PROVE ChainHolds'
  BY <1>21 DEF applicationWillEnterForeground, event, establishTimer
<1>22. ASSUME applicationDidReceiveMemoryWarning PROVE ChainHolds'
  BY <1>22 DEF applicationDidReceiveMemoryWarning, event
<1>23. ASSUME UNCHANGED vars PROVE ChainHolds'
  BY <1>23 DEF vars
<1> HIDE DEF TypeOK, ChainHolds, Monitoring, Starting, TimerComing
<1> QED
  BY <1>1, <1>2, <1>3, <1>4, <1>5, <1>6, <1>7, <1>8, <1>9, <1>10, <1>11, <1>12,
     <1>13, <1>14, <1>15, <1>16, <1>17, <1>18, <1>19, <1>20, <1>21, <1>22, <1>23
     DEF Next, WorkerStep, AppStep

\* The invariant of the agent.
THEOREM InvariantHolds == Spec => []IndInv
<1>1. IndInv /\ [Next]_vars => IndInv'
  BY TypeStep, MetricStep, ChainStep DEF IndInv
<1> QED
  BY InitInv, <1>1, PTL DEF Spec

\* The variables keep their types, and the lock of startMonitoring is held by the worker that is within.
THEOREM TypeCorrect == Spec => []TypeOK
<1>1. IndInv => TypeOK
  BY DEF IndInv
<1> QED
  BY InvariantHolds, <1>1, PTL

\* No metric is posted twice, however many uploads run at the same time.
THEOREM NoMetricIsPostedTwice == Spec => []PostedAtMostOnce
<1>1. IndInv => PostedAtMostOnce
  BY DEF IndInv, MetricInOnePlace
<1> QED
  BY InvariantHolds, <1>1, PTL

\* An agent that monitors has a timer coming once its workers are done, whatever the app did.
THEOREM ChainDoesNotBreak == Spec => []UploadsGoOn
<1>1. IndInv => UploadsGoOn
  BY DEF IndInv, ChainHolds, UploadsGoOn, Monitoring, Starting, TimerComing
<1> QED
  BY InvariantHolds, <1>1, PTL
=============================================================================
