--------------------------------- MODULE Sensors ---------------------------------
(* The auxiliary sensors as the runtime runs them: nothing ties one to another, so   *)
(* a behaviour is about one of them.                                                  *)
EXTENDS OrbbecGemini, LivoxMid360, TfminiPlus

vars == <<serviceVars, orbbecVars, livoxVars, tfminiVars>>

Init == ServiceInit /\ OrbbecInit /\ LivoxInit /\ TfminiInit

\* What the three services do alike.
Common ==
  /\ StartService \/ EndThread \/ StopReturns
  /\ UNCHANGED <<orbbecVars, livoxVars, tfminiVars>>

Next ==
  \/ Common
  \/ OrbbecNext /\ UNCHANGED <<livoxVars, tfminiVars>>
  \/ LivoxNext /\ UNCHANGED <<orbbecVars, tfminiVars>>
  \/ TfminiNext /\ UNCHANGED <<orbbecVars, livoxVars>>

Spec == Init /\ [][Next]_vars

\* Both threads run their queues, the SDK's callback returns, and a discovery's time is up in
\* the end; nobody has to stop the service, ask for a capture or find a device.
OrbbecHears ==
  /\ kind = "orbbec" /\ (OrbbecStateChanged \/ OrbbecOpenFinished \/ OnWorkerCaptureFinished)
  /\ UNCHANGED <<livoxVars, tfminiVars>>
OrbbecWorks == kind = "orbbec" /\ OrbbecWorker /\ UNCHANGED <<livoxVars, tfminiVars>>
LivoxHears ==
  kind = "livox" /\ (LivoxStateChanged \/ LivoxOpenFinished) /\ UNCHANGED <<orbbecVars, tfminiVars>>
LivoxCallback == kind = "livox" /\ LivoxInfoChangeCallback /\ UNCHANGED <<orbbecVars, tfminiVars>>
LivoxTimeout == kind = "livox" /\ OnDiscoveryTimeout /\ UNCHANGED <<orbbecVars, tfminiVars>>
LivoxLeaves ==
  kind = "livox" /\ (FinishDiscovery \/ LeaveDangling) /\ UNCHANGED <<orbbecVars, tfminiVars>>
LivoxCalls ==
  /\ kind = "livox" /\ (LivoxStartFails \/ LivoxStartWorker \/ OnDeviceDiscovered \/ LivoxStopWorker)
  /\ UNCHANGED <<orbbecVars, tfminiVars>>
TfminiHears ==
  kind = "tfmini" /\ (TfminiStateChanged \/ TfminiOpenFinished) /\ UNCHANGED <<orbbecVars, livoxVars>>
TfminiCalls ==
  kind = "tfmini" /\ (TfminiStartWorker \/ TfminiStopWorker) /\ UNCHANGED <<orbbecVars, livoxVars>>

Fairness ==
  /\ WF_vars(Common) /\ WF_vars(OrbbecHears) /\ WF_vars(OrbbecWorks)
  /\ WF_vars(LivoxHears) /\ WF_vars(LivoxCallback) /\ WF_vars(LivoxTimeout)
  /\ WF_vars(LivoxLeaves) /\ WF_vars(LivoxCalls)
  /\ WF_vars(TfminiHears) /\ WF_vars(TfminiCalls)
FairSpec == Spec /\ Fairness
==================================================================================
