------------------------------ MODULE PlcProtocol ------------------------------
(* The vocabulary of the PLC <-> IPC handshake: which triggers exist, in which  *)
(* order the IPC prefers them, which of them are scan stages, and the values an *)
(* acknowledge register takes.  Translated from plc_protocol.h.                 *)
EXTENDS Naturals

\* triggerDefinitions(), by name; the rank is the position in that list, which
\* is the order selectPendingTrigger() tries them in.
Rank == [TelescopicScan |-> 1, LoadGrasp |-> 2, StationMaterialCheck |-> 3,
         PoseCheck |-> 4, ScanSegment |-> 5, Inspection |-> 6, UnloadCalc |-> 7,
         SelfCheck |-> 8, CodeRead |-> 9, ResultReset |-> 10]

AllTriggers == {"TelescopicScan", "LoadGrasp", "StationMaterialCheck",
                "PoseCheck", "ScanSegment", "Inspection", "UnloadCalc",
                "SelfCheck", "CodeRead", "ResultReset"}

NoTrigger == "none"

ScanStage == {"ScanSegment", "TelescopicScan"}   \* isScanCaptureStage()

Device == {"arm", "telescopic"}

DeviceOf(t) == IF t = "TelescopicScan" THEN "telescopic" ELSE "arm"

AckState == {"idle", "running", "completed", "failed"}

\* Result codes the modelled handlers write: 1 OK, 2 NG, 3 data incomplete,
\* 5 bad parameter, 6 timeout, 7 device or algorithm failure, 8 not enabled in
\* this station, 9 not ready.  0 is the cleared register.
ResultCode == 0..9
================================================================================
