------------------------- MODULE MCStandaloneRunner -------------------------
(* Small workflows for StandaloneRunner.                                   *)
EXTENDS StandaloneRunner

MCArrivals == <<<<1, 2>>, <<3>>>>

Workflow(mode, processor, dlq, whole) ==
  [mode |-> mode, processor |-> processor, dlq |-> dlq, whole |-> whole]

(* Both modes, both replay points, with and without a processor.           *)
MCConfigs ==
  {Workflow("Continuous", FALSE, "AfterSources", FALSE),
   Workflow("Continuous", TRUE, "none", TRUE),
   Workflow("Continuous", TRUE, "none", FALSE),
   Workflow("OneShot", TRUE, "BeforeSources", FALSE)}
=============================================================================
