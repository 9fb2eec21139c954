---------------------------- MODULE MCFlowControl ------------------------------
(* Small instances of FlowControl for TLC.                                      *)
EXTENDS FlowControl

\* Path 1 reads the code of the workpiece at one point, path 2 scans one point
\* with the arm, as the first two paths of the station's configuration do.
TwoPathQuota == [p \in {1, 2} |-> [d \in Device |-> IF d = "arm" THEN 1 ELSE 0]]

Blocks(triggers, flows, paths, tids, segs) ==
  {[trig |-> T, flow |-> f, path |-> p, tid |-> i, seg |-> [d \in Device |-> s],
    empty |-> FALSE] :
     T \in triggers, f \in flows, p \in paths, i \in tids, s \in segs}

\* Any set of triggers, one segment number, the path left to the IPC.
PlainBlocks == Blocks(SUBSET Trigger, {TRUE}, {0}, {0}, {1})

\* One trigger at a time, with the two paths and an unknown one asked for, two task
\* numbers and two segment numbers; a withdrawn Flow_Enable.
PathBlocks ==
  LET singles == {{}} \cup {{t} : t \in Trigger}
  IN Blocks(singles, {TRUE}, {0, 1, 2, 3}, {1, 2}, {1, 2})
       \cup Blocks(singles, {FALSE}, {1}, {1}, {1})

\* Path 2 needs a point of each device.
BothDevicesQuota ==
  [p \in {1, 2} |-> [d \in Device |-> IF p = 1 /\ d = "telescopic" THEN 0 ELSE 1]]
================================================================================
