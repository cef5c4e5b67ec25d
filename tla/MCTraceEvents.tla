--------------------------- MODULE MCTraceEvents ---------------------------
(* Two events at a time: seven addresses hold their four buffers, the      *)
(* replayer and what is lost.  Lengths and spare capacities of 0 and 1.    *)
EXTENDS TraceEvents
=============================================================================
