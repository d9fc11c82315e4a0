------------------------- MODULE MCRealtimeSession -------------------------
(* An instance of the realtime session for TLC. *)
EXTENDS RealtimeSession

BothChannels == {"detections", "incidents"}
Detections == {"detections"}
Incidents == {"incidents"}
=============================================================================
