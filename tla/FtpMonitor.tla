------------------------------ MODULE FtpMonitor ------------------------------
(* The monitor of the directory a smart camera uploads its images to            *)
(* (HikSmartCameraFtpMonitor): a directory watcher finds new files, a timer      *)
(* watches their size until it stands still.  The upload is the environment's.   *)
EXTENDS Naturals, Sequences

CONSTANTS
  File,     \* the image files, by name
  MaxSize   \* bound: the size an upload may reach

ASSUME FtpAssumption == MaxSize \in Nat \ {0}

VARIABLES
  monitoring,  \* "off", "on" (m_monitoring) or "stopped"
  size,        \* per file: its size, or Absent
  upload,      \* per file: "no", "shared" or "exclusive": how the FTP server holds it
  changed,     \* whether directoryChanged() waits in the event queue
  pending,     \* m_pendingFiles: per file, NotPending or its size and its time
  processed,   \* m_processedFiles
  reports      \* per file: how often imageReady() announced it

ftpVars == <<monitoring, size, upload, changed, pending, processed, reports>>

Absent == MaxSize + 1
NotPending == [size |-> Absent, aged |-> FALSE]
IsPending(f) == pending[f] # NotPending

FtpInit ==
  /\ monitoring = "off" /\ changed = FALSE /\ processed = {}
  /\ reports = [f \in File |-> 0]
  /\ size \in [File -> {1, Absent}]
  /\ upload = [f \in File |-> "no"]
  /\ pending = [f \in File |-> NotPending]

--------------------------------------------------------------------------------
\* The environment, while the monitor looks.

Upload(f) ==
  /\ monitoring = "on" /\ size[f] = Absent
  /\ \E n \in 0..(MaxSize - 1) : size' = [size EXCEPT ![f] = n]
  /\ changed' = TRUE
  /\ \E how \in {"shared", "exclusive"} : upload' = [upload EXCEPT ![f] = how]
  /\ UNCHANGED <<monitoring, pending, processed, reports>>

Grow(f) ==
  /\ monitoring = "on" /\ upload[f] # "no" /\ size[f] < MaxSize
  /\ size' = [size EXCEPT ![f] = @ + 1]
  /\ UNCHANGED <<monitoring, upload, changed, pending, processed, reports>>

FinishUpload(f) ==
  /\ monitoring = "on" /\ upload[f] # "no" /\ size[f] > 0
  /\ upload' = [upload EXCEPT ![f] = "no"]
  /\ UNCHANGED <<monitoring, size, changed, pending, processed, reports>>

RemoveFile(f) ==
  /\ monitoring = "on" /\ size[f] # Absent /\ upload[f] = "no"
  /\ size' = [size EXCEPT ![f] = Absent] /\ changed' = TRUE
  /\ UNCHANGED <<monitoring, upload, pending, processed, reports>>

\* A file that is no image comes or goes.
OtherFile ==
  /\ monitoring = "on" /\ changed' = TRUE
  /\ UNCHANGED <<monitoring, size, upload, pending, processed, reports>>

\* m_fileStableTimeMs passes after detectedTime.
Age(f) ==
  /\ IsPending(f) /\ pending' = [pending EXCEPT ![f].aged = TRUE]
  /\ UNCHANGED <<monitoring, size, upload, changed, processed, reports>>

--------------------------------------------------------------------------------
\* The monitor.

\* start(): what is already there counts as processed.
StartMonitor ==
  /\ monitoring = "off" /\ monitoring' = "on"
  /\ processed' = {f \in File : size[f] # Absent}
  /\ UNCHANGED <<size, upload, changed, pending, reports>>

\* start() that fails: the directory cannot be made or watched.
MonitorFails == monitoring = "off" /\ UNCHANGED ftpVars

StopMonitor ==
  /\ monitoring' = IF monitoring = "on" THEN "stopped" ELSE monitoring
  /\ pending' = IF monitoring = "on" THEN [f \in File |-> NotPending] ELSE pending
  /\ UNCHANGED <<size, upload, changed, processed, reports>>

\* scanDirectory(), processNewFile(): the files that are there, not processed, not pending.
OnDirectoryChanged ==
  /\ changed /\ changed' = FALSE
  /\ pending' = [f \in File |->
       IF monitoring = "on" /\ size[f] # Absent /\ f \notin processed /\ ~IsPending(f)
       THEN [size |-> 0, aged |-> FALSE] ELSE pending[f]]
  /\ UNCHANGED <<monitoring, size, upload, processed, reports>>

\* isFileComplete() only asks whether the file can be opened.
IsFileComplete(f) == size[f] # Absent /\ upload[f] # "exclusive"

\* What a check is done with: the files that are lost to it, and those that stand still.
Lost == {f \in File : IsPending(f) /\ ~IsFileComplete(f)}
Complete == {f \in File : IsPending(f) /\ IsFileComplete(f) /\ pending[f].aged
                          /\ pending[f].size # 0 /\ pending[f].size = size[f]}

\* The first size a check sees is noted, a changed one starts the time again.
Watched(f) ==
  IF pending[f].size = size[f] THEN pending[f]
  ELSE [size |-> size[f], aged |-> pending[f].size = 0 /\ pending[f].aged]

\* Mutant: only the first size is ever noted.
CheckFirstSize ==
  /\ monitoring = "on" /\ processed' = processed \cup Lost \cup Complete
  /\ reports' = [f \in File |-> reports[f] + IF f \in Complete THEN 1 ELSE 0]
  /\ pending' = [f \in File |->
       IF f \in Lost \cup Complete THEN NotPending
       ELSE IF IsPending(f) /\ pending[f].size = 0 THEN Watched(f) ELSE pending[f]]
  /\ UNCHANGED <<monitoring, size, upload, changed>>

CheckPendingFiles ==
  /\ monitoring = "on" /\ processed' = processed \cup Lost \cup Complete
  /\ reports' = [f \in File |-> reports[f] + IF f \in Complete THEN 1 ELSE 0]
  /\ pending' = [f \in File |->
       IF f \in Lost \cup Complete THEN NotPending ELSE IF IsPending(f) THEN Watched(f) ELSE pending[f]]
  /\ UNCHANGED <<monitoring, size, upload, changed>>

FtpEnvironment == OtherFile \/ \E f \in File : Upload(f) \/ Grow(f) \/ FinishUpload(f) \/ RemoveFile(f)

FtpTurn == OnDirectoryChanged \/ CheckPendingFiles \/ \E f \in File : Age(f)

--------------------------------------------------------------------------------
\* Properties.

\* An image whose upload is over, and that the monitor has not given up, is announced: unless
\* it is removed or the monitor stops first (checkPendingFiles()).
EveryImageReported ==
  \A f \in File :
    (monitoring = "on" /\ upload[f] = "no" /\ size[f] \in 1..MaxSize /\ f \notin processed)
      ~> (reports[f] > 0 \/ size[f] = Absent \/ monitoring # "on")
================================================================================
