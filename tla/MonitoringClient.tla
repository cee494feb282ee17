--------------------------- MODULE MonitoringClient ---------------------------
(***************************************************************************)
(* The monitoring agent ApigeeMonitoringClient: starting and restarting    *)
(* it, the chain of one-shot ApigeeIntervalTimers that keeps it uploading, *)
(* pause and resume, the app's lifecycle, and the network metrics, from    *)
(* the call that records one to the upload that carries it.                *)
(*                                                                         *)
(* The main thread runs the app's calls, the notifications and the timers. *)
(* Blocks on the global queue (workers) run startMonitoring, in steps that *)
(* the main thread's interleave with; each upload is a block of its own,   *)
(* and an intercepted connection records its metric on any thread.         *)
(* Configurations are abstracted to whether they disable monitoring; the   *)
(* sampling rate to the outcome of the coin flip.                          *)
(***************************************************************************)
EXTENDS Integers, FiniteSets

CONSTANTS
    Metrics,      \* network metrics: each is recorded once
    Workers,      \* blocks that configure and start the agent at the same time
    Startup,      \* the one that the initializer dispatches
    None,         \* nil
    MaxTimers,    \* bound: timers alive at a time, and one that has fired
    MaxUploads,   \* bound: uploads dispatched and not finished
    MaxEvents     \* bound: events from outside

ASSUME MonitoringAssumption ==
    /\ Startup \in Workers
    /\ None \notin Workers \cup Int
    /\ MaxTimers \in Nat
    /\ MaxUploads \in Nat
    /\ MaxEvents \in Nat

Timers == 1 .. MaxTimers
Uploads == 1 .. MaxUploads

VARIABLES
    settings,          \* activeSettings: "none", "on", "off" (monitoring disabled)
    isActive,
    isPartOfSample,
    isInitialized,
    monitoringPaused,
    sentStartingSessionData,
    inBackground,      \* the app is in the background
    timer,             \* self.timer
    tstate,            \* each timer: pending (set up on main later) or scheduled
    missed,            \* history: since the last timer, the app came to the
                       \* foreground while the agent was not yet initialized
    wpc,               \* where each worker is
    syncLock,          \* the worker in @synchronized (self)
    recording,         \* metrics that passed the checks but are not yet queued
    queue,             \* networkMetricsQueue
    ustate,            \* where each upload is
    holding,           \* the metrics it dequeued
    posts,             \* history: how often each metric was posted
    events             \* events so far

agentVars == <<isActive, isPartOfSample, isInitialized>>
timerVars == <<timer, tstate, missed>>
workerVars == <<wpc, syncLock>>
uploadVars == <<ustate, holding, posts, sentStartingSessionData>>
metricVars == <<recording, queue>>
appVars == <<monitoringPaused, inBackground, events>>
vars == <<settings, agentVars, timerVars, workerVars, uploadVars, metricVars, appVars>>

TypeOK ==
    /\ settings \in {"none", "on", "off"}
    /\ isActive \in BOOLEAN /\ isPartOfSample \in BOOLEAN
    /\ isInitialized \in BOOLEAN /\ monitoringPaused \in BOOLEAN
    /\ sentStartingSessionData \in BOOLEAN /\ inBackground \in BOOLEAN
    /\ missed \in BOOLEAN
    /\ timer \in Timers \cup {None}
    /\ tstate \in [Timers -> {"none", "pending", "scheduled"}]
    /\ wpc \in [Workers -> {"idle", "startup", "refresh", "sync", "cancelled", "flip",
                            "fire", "establish", "upload", "finish"}]
    /\ syncLock \in Workers \cup {None}
    /\ \A w \in Workers : syncLock = w <=> wpc[w] \notin {"idle", "startup", "refresh", "sync"}
    /\ recording \subseteq Metrics /\ queue \subseteq Metrics
    /\ ustate \in [Uploads -> {"idle", "queued", "posting"}]
    /\ holding \in [Uploads -> SUBSET Metrics]
    /\ posts \in [Metrics -> Nat]
    /\ events \in 0 .. MaxEvents

Init ==
    /\ settings = "none"
    /\ isActive = FALSE /\ isPartOfSample = FALSE /\ isInitialized = FALSE
    /\ monitoringPaused = FALSE /\ inBackground = FALSE
    /\ sentStartingSessionData = FALSE
    /\ timer = None /\ tstate = [t \in Timers |-> "none"] /\ missed = FALSE
    /\ wpc = [w \in Workers |-> IF w = Startup THEN "startup" ELSE "idle"]
    /\ syncLock = None
    /\ recording = {} /\ queue = {}
    /\ ustate = [u \in Uploads |-> "idle"] /\ holding = [u \in Uploads |-> {}]
    /\ posts = [m \in Metrics |-> 0]
    /\ events = 0

-----------------------------------------------------------------------------
(* Timers and uploads *)

\* fireOnInterval: on the main thread the NSTimer is scheduled at once, on another
\* one when the main thread gets to it.  alive is what tstate has become.
establishTimer(alive, how) ==
    \E t \in Timers :
        /\ alive[t] = "none" /\ timer # t
        /\ \A s \in Timers : s < t => ~(alive[s] = "none" /\ timer # s)
        /\ timer' = t
        /\ tstate' = [alive EXCEPT ![t] = how]
        /\ missed' = FALSE

\* [self.timer cancel]: invalidates the NSTimer, which a pending timer has not got.
Invalidated == [t \in Timers |-> IF t = timer /\ tstate[t] = "scheduled" THEN "none"
                                                                         ELSE tstate[t]]

cancelTimer == timer' = None /\ tstate' = Invalidated /\ UNCHANGED missed

\* dispatch_async of uploadEvents.
dispatchUpload ==
    \E u \in Uploads :
        /\ ustate[u] = "idle" /\ \A v \in Uploads : v < u => ustate[v] # "idle"
        /\ ustate' = [ustate EXCEPT ![u] = "queued"]

\* setUpTimer: reaches the main thread.
setUpTimer(t) ==
    /\ tstate[t] = "pending"
    /\ tstate' = [tstate EXCEPT ![t] = "scheduled"]
    /\ UNCHANGED <<settings, agentVars, timer, missed, workerVars, uploadVars, metricVars,
                   appVars>>

\* Fault: the one-shot timer is taken for a repeating one.
timerFiredOnce(t) ==
    /\ tstate[t] = "scheduled"
    /\ tstate' = [tstate EXCEPT ![t] = "none"]
    /\ \/ (monitoringPaused \/ ~isPartOfSample) /\ UNCHANGED ustate
       \/ ~monitoringPaused /\ isPartOfSample /\ dispatchUpload
    /\ UNCHANGED <<settings, agentVars, timer, missed, workerVars, holding, posts,
                   sentStartingSessionData, metricVars, appVars>>

\* timerFired, called by the timer.  (isPartOfSample implies a configuration, so
\* that the client is able to send.)
timerFired(t) ==
    /\ tstate[t] = "scheduled"
    /\ \/ /\ monitoringPaused \/ ~isPartOfSample
          /\ tstate' = [tstate EXCEPT ![t] = "none"]
          /\ UNCHANGED <<timer, missed, ustate>>
       \/ /\ ~monitoringPaused /\ isPartOfSample
          /\ establishTimer([tstate EXCEPT ![t] = "none"], "scheduled")
          /\ dispatchUpload
    /\ UNCHANGED <<settings, agentVars, workerVars, holding, posts,
                   sentStartingSessionData, metricVars, appVars>>

-----------------------------------------------------------------------------
(* Configuring and starting the agent *)

\* retrieveCachedConfig and retrieveServerConfig leave the client with
\* configuration s; ok: the server has answered.  The initializer's block starts
\* the agent unless the configuration disables it, the others if the server answered.
retrieveServerConfig(w, s, ok) ==
    /\ wpc[w] \in {"startup", "refresh"}
    /\ \/ s = settings                                 \* nothing newer
       \/ s \in {"on", "off"} /\ (ok \/ wpc[w] = "startup")
    /\ ok => s # "none"
    /\ settings' = s
    /\ wpc' = [wpc EXCEPT ![w] = IF IF wpc[w] = "startup" THEN s # "off" ELSE ok
                                    THEN "sync" ELSE "idle"]
    /\ UNCHANGED <<agentVars, timerVars, syncLock, uploadVars, metricVars, appVars>>

\* startMonitoring: enters @synchronized (self) and cancels the timer ...
startMonitoring(w) ==
    /\ wpc[w] = "sync"
    /\ syncLock = None
    /\ syncLock' = w
    /\ tstate' = Invalidated
    /\ wpc' = [wpc EXCEPT ![w] = "cancelled"]
    /\ UNCHANGED <<settings, agentVars, timer, missed, uploadVars, metricVars, appVars>>

\* ... and forgets it, whichever it is by now ...
forgetTimer(w) ==
    /\ wpc[w] = "cancelled"
    /\ timer' = None
    /\ wpc' = [wpc EXCEPT ![w] = "flip"]
    /\ UNCHANGED <<settings, agentVars, tstate, missed, syncLock, uploadVars, metricVars,
                   appVars>>

\* Fault: the early return leaves the lock taken.
notStartedLocked(w) ==
    /\ wpc[w] = "flip"
    /\ settings # "on"
    /\ wpc' = [wpc EXCEPT ![w] = "idle"]
    /\ UNCHANGED <<settings, agentVars, timerVars, syncLock, uploadVars, metricVars,
                   appVars>>

\* ... returns without a configuration or with one that disables monitoring ...
notStarted(w) ==
    /\ wpc[w] = "flip"
    /\ settings # "on"
    /\ wpc' = [wpc EXCEPT ![w] = "idle"]
    /\ syncLock' = None
    /\ UNCHANGED <<settings, agentVars, timerVars, uploadVars, metricVars, appVars>>

\* ... or flips the coin: a device in the sample uploads at once if it never has
\* sent data, otherwise when the timer fires.
flipCoin(w, sampled) ==
    /\ wpc[w] = "flip"
    /\ settings = "on"
    /\ isPartOfSample' = sampled
    /\ isActive' = (isActive \/ sampled)
    /\ wpc' = [wpc EXCEPT ![w] = CASE ~sampled -> "finish"
                                   [] sampled /\ ~sentStartingSessionData -> "fire"
                                   [] OTHER -> "establish"]
    /\ UNCHANGED <<settings, isInitialized, timerVars, syncLock, uploadVars,
                   metricVars, appVars>>

\* timerFired, called by startMonitoring.
fire(w) ==
    /\ wpc[w] = "fire"
    /\ \/ monitoringPaused /\ wpc' = [wpc EXCEPT ![w] = "finish"]
       \/ ~monitoringPaused /\ wpc' = [wpc EXCEPT ![w] = "upload"]
    /\ UNCHANGED <<settings, agentVars, timerVars, syncLock, uploadVars, metricVars,
                   appVars>>

establish(w) ==
    /\ \/ wpc[w] = "establish" /\ UNCHANGED ustate
       \/ wpc[w] = "upload" /\ dispatchUpload
    /\ establishTimer(tstate, "pending")
    /\ wpc' = [wpc EXCEPT ![w] = "finish"]
    /\ UNCHANGED <<settings, agentVars, syncLock, holding, posts,
                   sentStartingSessionData, metricVars, appVars>>

\* isInitialized = YES, and out of @synchronized (self).
finish(w) ==
    /\ wpc[w] = "finish"
    /\ isInitialized' = TRUE
    /\ syncLock' = None
    /\ wpc' = [wpc EXCEPT ![w] = "idle"]
    /\ UNCHANGED <<settings, isActive, isPartOfSample, timerVars, uploadVars,
                   metricVars, appVars>>

-----------------------------------------------------------------------------
(* Recording and uploading metrics *)

\* The interceptors, and recordNetworkSuccessForUrl and recordNetworkFailureForUrl,
\* which ask for an initialized agent as well: the checks ...
recordNetworkEntry(m) ==
    /\ m \notin recording \cup queue
    /\ posts[m] = 0 /\ \A u \in Uploads : m \notin holding[u]
    /\ ~monitoringPaused /\ isPartOfSample
    /\ recording' = recording \cup {m}
    /\ UNCHANGED <<settings, agentVars, timerVars, workerVars, uploadVars, queue, appVars>>

\* ... and the enqueue, by then.
enqueue(m) ==
    /\ m \in recording
    /\ recording' = recording \ {m}
    /\ queue' = queue \cup {m}
    /\ UNCHANGED <<settings, agentVars, timerVars, workerVars, uploadVars, appVars>>

\* Fault: the queue is read and emptied only when the post succeeds.
uploadKeepsQueue(u, reachable, logs) ==
    /\ ustate[u] = "queued"
    /\ reachable
    /\ holding' = [holding EXCEPT ![u] = queue]
    /\ posts' = [m \in Metrics |-> IF m \in queue THEN posts[m] + 1 ELSE posts[m]]
    /\ ustate' = [ustate EXCEPT ![u] = "posting"]
    /\ UNCHANGED <<settings, agentVars, timerVars, workerVars, sentStartingSessionData,
                   metricVars, appVars>>

\* uploadEvents up to the post: nothing happens without a network it may use, or
\* with nothing to send (logs: the log has entries to send).
uploadEvents(u, reachable, logs) ==
    /\ ustate[u] = "queued"
    /\ IF reachable
         THEN /\ holding' = [holding EXCEPT ![u] = queue]
              /\ queue' = {}
              /\ posts' = [m \in Metrics |-> IF m \in queue THEN posts[m] + 1 ELSE posts[m]]
              /\ ustate' = [ustate EXCEPT ![u] =
                    IF queue = {} /\ sentStartingSessionData /\ ~logs THEN "idle"
                                                                   ELSE "posting"]
         ELSE /\ ustate' = [ustate EXCEPT ![u] = "idle"]
              /\ UNCHANGED <<holding, queue, posts>>
    /\ UNCHANGED <<settings, agentVars, timerVars, workerVars, sentStartingSessionData,
                   recording, appVars>>

\* The answer to the post, or its failure: the metrics are gone either way.
uploadReturns(u, ok) ==
    /\ ustate[u] = "posting"
    /\ ustate' = [ustate EXCEPT ![u] = "idle"]
    /\ holding' = [holding EXCEPT ![u] = {}]
    /\ sentStartingSessionData' = (sentStartingSessionData \/ ok)
    /\ UNCHANGED <<settings, agentVars, timerVars, workerVars, posts, metricVars, appVars>>

-----------------------------------------------------------------------------
(* The app and the system, on the main thread *)

event == events < MaxEvents /\ events' = events + 1

dispatch(w) ==
    /\ wpc[w] = "idle"
    /\ wpc' = [wpc EXCEPT ![w] = "refresh"]
    /\ UNCHANGED <<settings, agentVars, timerVars, syncLock, uploadVars, metricVars,
                   monitoringPaused, inBackground>>

\* networkChanged: the network is back and the agent not yet initialized.
networkChanged(w) == event /\ ~isInitialized /\ dispatch(w)

\* asyncRefreshConfiguration; refreshConfiguration blocks the app as well.
refreshConfiguration(w) == event /\ isInitialized /\ isActive /\ dispatch(w)

\* uploadMetrics, asyncUploadMetrics.
uploadMetrics ==
    /\ event
    /\ isInitialized /\ isActive
    /\ dispatchUpload
    /\ UNCHANGED <<settings, agentVars, timerVars, workerVars, holding, posts,
                   sentStartingSessionData, metricVars, monitoringPaused, inBackground>>

pause ==
    /\ event
    /\ ~monitoringPaused
    /\ monitoringPaused' = TRUE
    /\ cancelTimer
    /\ queue' = {}
    /\ UNCHANGED <<settings, agentVars, workerVars, uploadVars, recording, inBackground>>

resume ==
    /\ event
    /\ monitoringPaused
    /\ monitoringPaused' = FALSE
    /\ establishTimer(tstate, "scheduled")
    /\ UNCHANGED <<settings, agentVars, workerVars, uploadVars, metricVars, inBackground>>

applicationDidEnterBackground ==
    /\ event
    /\ ~inBackground
    /\ inBackground' = TRUE
    /\ cancelTimer
    /\ UNCHANGED <<settings, agentVars, workerVars, uploadVars, metricVars, monitoringPaused>>

\* Fault: the foreground does not re-establish the timer.
foregroundWithoutTimer ==
    /\ event
    /\ inBackground
    /\ inBackground' = FALSE
    /\ UNCHANGED <<settings, agentVars, timerVars, workerVars, uploadVars, metricVars,
                   monitoringPaused>>

applicationWillEnterForeground ==
    /\ event
    /\ inBackground
    /\ inBackground' = FALSE
    /\ \/ /\ isInitialized /\ settings # "off"
          /\ establishTimer(tstate, "scheduled")
       \/ /\ ~isInitialized \/ settings = "off"
          /\ missed' = (missed \/ ~isInitialized)
          /\ UNCHANGED <<timer, tstate>>
    /\ UNCHANGED <<settings, agentVars, workerVars, uploadVars, metricVars, monitoringPaused>>

applicationDidReceiveMemoryWarning ==
    /\ event
    /\ isInitialized
    /\ queue' = {}
    /\ UNCHANGED <<settings, agentVars, timerVars, workerVars, uploadVars, recording,
                   monitoringPaused, inBackground>>

-----------------------------------------------------------------------------

WorkerStep(w) ==
    \/ \E s \in {"none", "on", "off"}, ok \in BOOLEAN : retrieveServerConfig(w, s, ok)
    \/ startMonitoring(w)
    \/ forgetTimer(w)
    \/ notStarted(w)
    \/ \E sampled \in BOOLEAN : flipCoin(w, sampled)
    \/ fire(w)
    \/ establish(w)
    \/ finish(w)

AppStep ==
    \/ \E w \in Workers : networkChanged(w) \/ refreshConfiguration(w)
    \/ uploadMetrics
    \/ pause
    \/ resume
    \/ applicationDidEnterBackground
    \/ applicationWillEnterForeground
    \/ applicationDidReceiveMemoryWarning

Next ==
    \/ \E w \in Workers : WorkerStep(w)
    \/ \E t \in Timers : setUpTimer(t) \/ timerFired(t)
    \/ \E m \in Metrics : recordNetworkEntry(m) \/ enqueue(m)
    \/ \E u \in Uploads, b, logs \in BOOLEAN : uploadEvents(u, b, logs)
    \/ \E u \in Uploads, b \in BOOLEAN : uploadReturns(u, b)
    \/ AppStep

Spec == Init /\ [][Next]_vars

\* Some dispatched block runs, some post returns (NSURLConnection times out), the
\* main run loop sets up or fires some timer (WF); an upload finds a network that it
\* may use now and then (SF).  Weaker than a promise for each, and enough.
Fairness ==
    /\ WF_vars(\E w \in Workers : WorkerStep(w))
    /\ WF_vars(\E t \in Timers : setUpTimer(t) \/ timerFired(t))
    /\ WF_vars(\E u \in Uploads, ok \in BOOLEAN : uploadReturns(u, ok))
    /\ SF_vars(\E u \in Uploads, logs \in BOOLEAN : uploadEvents(u, TRUE, logs))

FairSpec == Spec /\ Fairness

-----------------------------------------------------------------------------
(* Properties *)

\* Uploads run at the same time, yet no metric is posted by two of them or again
\* by a later one.
PostedAtMostOnce == \A m \in Metrics : posts[m] <= 1

\* The chain of one-shot timers does not break: an agent that monitors, with nobody
\* at work on it, has a timer coming, whatever cancelled and replaced timers before.
\* The one exception is an app that goes to the background and returns while the
\* agent starts: entering the background cancels the new timer, and the foreground
\* does not re-establish it, for isInitialized is not set yet.
UploadsGoOn ==
    /\ isInitialized /\ isPartOfSample /\ settings = "on"
    /\ ~monitoringPaused /\ ~inBackground /\ ~missed
    /\ \A w \in Workers : wpc[w] = "idle"
    => \E t \in Timers : tstate[t] # "none"

\* A metric does not stay queued: it is uploaded, unless monitoring stops (or the
\* chain of timers breaks as above).
MetricsGetUploaded ==
    \A m \in Metrics :
        m \in queue ~> \/ m \notin queue
                       \/ monitoringPaused \/ inBackground \/ missed
                       \/ ~isPartOfSample \/ settings # "on"

\* "turn off our timer if we have one": no timer is left when the app has entered
\* the background.
BackgroundTurnsOffTheTimer ==
    [][applicationDidEnterBackground => \A t \in Timers : tstate'[t] = "none"]_vars

-----------------------------------------------------------------------------
(* The inductive invariant *)

\* A metric that is not yet posted is at one place, and one that was is at none.
MetricInOnePlace ==
    /\ recording \cap queue = {}
    /\ \A m \in recording \cup queue : posts[m] = 0
    /\ PostedAtMostOnce

\* While the agent is to monitor, whether or not it is initialized yet, a timer is
\* coming or some worker is on its way to establish one.
Monitoring ==
    isPartOfSample /\ settings = "on" /\ ~monitoringPaused /\ ~inBackground /\ ~missed
Starting ==
    \E w \in Workers : wpc[w] \in {"sync", "cancelled", "flip", "fire", "establish", "upload"}
TimerComing == \E t \in Timers : tstate[t] # "none"
ChainHolds == Monitoring => Starting \/ TimerComing

IndInv == TypeOK /\ MetricInOnePlace /\ ChainHolds

=============================================================================
