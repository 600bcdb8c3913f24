----------------------------- MODULE MCPanelHub -----------------------------
(* Instances of PanelHub for TLC. *)
EXTENDS PanelHub

MCStreams == {"logs", "intercept_logs"}
MCCapacity == [s \in MCStreams |-> 1]
MCLimit == [s \in MCStreams |-> 2]
MCOffers == [s \in MCStreams |-> IF s = "logs" THEN 3 ELSE 1]

\* An ERROR between two INFO lines.
MCLevelOf == <<"INFO", "ERROR", "INFO">>

\* Everything, and only the errors of the log.
MCRequests == {[topics |-> MCStreams, level |-> "INFO"], [topics |-> {"logs"}, level |-> "ERROR"]}
=============================================================================
