------------------------------- MODULE LivoxMid360 -------------------------------
(* The Livox lidar (LivoxMid360Service, LivoxMid360Worker).  Its startWorker() runs *)
(* an event loop of its own until the device is found or the time is up: the         *)
(* worker's calls, and the end of its thread, are served inside it.  The SDK calls    *)
(* back from a thread of its own.                                                      *)
EXTENDS SensorService

CONSTANTS
  Device,    \* the devices on the network
  Wanted,    \* the one with the configured serial number
  MaxQueue   \* bound: calls of the SDK that wait at the worker

ASSUME LivoxAssumption == Nothing \notin Device /\ Wanted \in Device

VARIABLES
  bySerial,         \* whether a serial number is configured
  sdkInitialized,   \* m_sdkInitialized
  discoveryActive,  \* m_discoveryActive
  found,            \* m_discoveredDevices
  windowFinished,   \* discoveryWindowFinished() was emitted: the loop is to quit
  activeWorker,     \* g_activeWorker is this worker, and the callback is set
  inCall            \* the device of the SDK's callback under way, or Nothing

livoxVars == <<bySerial, sdkInitialized, discoveryActive, found, windowFinished, activeWorker, inCall>>

LivoxInit ==
  /\ bySerial \in BOOLEAN /\ sdkInitialized = FALSE /\ discoveryActive = FALSE /\ found = {}
  /\ windowFinished = FALSE /\ activeWorker = FALSE /\ inCall = Nothing

--------------------------------------------------------------------------------
\* The service's slots change nothing but what they pass on.
LivoxStateChanged == OnWorkerStateChanged /\ UNCHANGED livoxVars
LivoxOpenFinished ==
  /\ Hears("open") /\ opened' = Head(posted).value
  /\ UNCHANGED <<kind, phase, state, inbox, worker, livoxVars>>
LivoxStop == StopService /\ UNCHANGED livoxVars

--------------------------------------------------------------------------------
\* The SDK's thread: the callback takes its lock after it was called, perhaps much later.
SdkCalls(d) ==
  /\ activeWorker /\ inCall = Nothing /\ inCall' = d
  /\ UNCHANGED <<serviceVars, bySerial, sdkInitialized, discoveryActive, found, windowFinished, activeWorker>>

LivoxInfoChangeCallback ==
  /\ inCall # Nothing /\ inCall' = Nothing
  /\ Len(SelectSeq(inbox, LAMBDA c : c.what = "device")) < MaxQueue
  /\ inbox' = IF activeWorker THEN Append(inbox, Call("device", inCall)) ELSE inbox
  /\ UNCHANGED <<kind, phase, state, posted, worker, opened, bySerial, sdkInitialized,
                 discoveryActive, found, windowFinished, activeWorker>>

--------------------------------------------------------------------------------
LivoxUnchanged == UNCHANGED <<kind, phase, state, opened, bySerial, inCall>>

\* startWorker() without a configuration, or with an SDK that does not start.
LivoxStartFails ==
  /\ worker = "idle" /\ Takes("start") /\ UNCHANGED worker
  /\ Emit(<<StateIs("Enumerating"), OpenIs("no"), StateIs("Failed")>>)
  /\ LivoxUnchanged /\ UNCHANGED <<sdkInitialized, discoveryActive, found, windowFinished, activeWorker>>

\* startWorker() up to its event loop.
LivoxStartWorker ==
  /\ worker = "idle" /\ Takes("start") /\ worker' = "discovering"
  /\ Emit(<<StateIs("Enumerating"), StateIs("Opening")>>)
  /\ sdkInitialized' = TRUE /\ activeWorker' = TRUE /\ discoveryActive' = TRUE
  /\ LivoxUnchanged /\ UNCHANGED <<found, windowFinished>>

OnDeviceDiscovered ==
  /\ worker \in {"idle", "discovering"} /\ Takes("device")
  /\ LET d == Head(inbox).about
     IN /\ found' = IF discoveryActive THEN found \cup {d} ELSE found
        /\ windowFinished' = (windowFinished \/ (discoveryActive /\ bySerial /\ d = Wanted))
  /\ LivoxUnchanged /\ UNCHANGED <<posted, worker, sdkInitialized, discoveryActive, activeWorker>>

\* Mutant: the time of the discovery only ends it when something was found.
TimeoutOnlyIfFound ==
  /\ worker = "discovering" /\ discoveryActive /\ found # {} /\ windowFinished' = TRUE
  /\ LivoxUnchanged
  /\ UNCHANGED <<inbox, posted, worker, sdkInitialized, discoveryActive, found, activeWorker>>

OnDiscoveryTimeout ==
  /\ worker = "discovering" /\ discoveryActive /\ windowFinished' = TRUE
  /\ LivoxUnchanged
  /\ UNCHANGED <<inbox, posted, worker, sdkInitialized, discoveryActive, found, activeWorker>>

\* The loop quits: finishDiscovery().  A discovery that fails forgets the SDK and does
\* not uninitialise it.
Selected == IF bySerial THEN Wanted \in found ELSE found # {}
FinishDiscovery ==
  /\ worker = "discovering" /\ (windowFinished \/ phase = "joining")
  /\ worker' = "idle" /\ discoveryActive' = FALSE /\ windowFinished' = FALSE
  /\ Emit(IF ~discoveryActive THEN <<>>
          ELSE IF Selected THEN <<OpenIs("yes"), StateIs("Ready")>>
          ELSE <<OpenIs("no"), StateIs("Failed")>>)
  /\ sdkInitialized' = (sdkInitialized /\ Selected)
  /\ activeWorker' = (activeWorker /\ Selected)
  /\ LivoxUnchanged /\ UNCHANGED <<inbox, found>>

\* Mutant: the callback keeps its worker.
StopWorkerKeepsCallback ==
  /\ worker \in {"idle", "discovering"} /\ Takes("stop") /\ StopWorkerDone
  /\ Emit(IF sdkInitialized \/ discoveryActive THEN <<StateIs("Stopped")>> ELSE <<>>)
  /\ sdkInitialized' = FALSE /\ discoveryActive' = FALSE /\ found' = {}
  /\ UNCHANGED <<worker, bySerial, windowFinished, inCall, activeWorker>>

\* stopWorker(), teardownSdk(): from the thread's loop or from startWorker()'s.
LivoxStopWorker ==
  /\ worker \in {"idle", "discovering"} /\ Takes("stop") /\ StopWorkerDone
  /\ Emit(IF sdkInitialized \/ discoveryActive THEN <<StateIs("Stopped")>> ELSE <<>>)
  /\ sdkInitialized' = FALSE /\ discoveryActive' = FALSE /\ activeWorker' = FALSE /\ found' = {}
  /\ UNCHANGED <<worker, bySerial, windowFinished, inCall>>

\* deleteLater() comes from another thread: any loop of the worker's thread, startWorker()'s
\* too, may carry it out.  What startWorker() reads of the worker afterwards is undefined.
DeleteInLoop ==
  /\ worker = "discovering" /\ phase = "joining" /\ worker' = "dangling" /\ inbox' = <<>>
  /\ LivoxUnchanged
  /\ UNCHANGED <<posted, sdkInitialized, discoveryActive, found, windowFinished, activeWorker>>

LeaveDangling ==
  /\ worker = "dangling" /\ worker' \in {"gone", "crashed"}
  /\ LivoxUnchanged
  /\ UNCHANGED <<inbox, posted, sdkInitialized, discoveryActive, found, windowFinished, activeWorker>>

LivoxMain == LivoxStateChanged \/ LivoxOpenFinished \/ LivoxStop
LivoxSdk == LivoxInfoChangeCallback \/ \E d \in Device : SdkCalls(d)
LivoxWorker ==
  LivoxStartFails \/ LivoxStartWorker \/ OnDeviceDiscovered \/ OnDiscoveryTimeout \/ FinishDiscovery
  \/ LivoxStopWorker \/ DeleteInLoop \/ LeaveDangling
LivoxNext == kind = "livox" /\ (LivoxMain \/ LivoxSdk \/ LivoxWorker)

--------------------------------------------------------------------------------
\* Properties.

\* A callback that finds its worker active finds it alive, whenever it gets the lock
\* (livoxInfoChangeCallback(), teardownSdk()).
CallbackFindsWorker == activeWorker => worker \in {"idle", "discovering"}
================================================================================
