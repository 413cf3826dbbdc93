--------------------------- MODULE MCMonitorPages ---------------------------
(* MonitorPages for TLC: two reads in flight, every view.  Two rows are    *)
(* enough for the list and the history; behind the others, the collection  *)
(* of active incidents among them, a third may open between two answers.   *)
EXTENDS MonitorPages

MCReads == {1, 2}
MCFaults == {TimedOut, Response(500)}
MCViews == ListViews \cup SetViews \cup RowViews \cup {"create"}
MCCrowded == MCViews \ {"list", "history"}
=============================================================================
