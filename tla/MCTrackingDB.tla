---------------------------- MODULE MCTrackingDB ----------------------------
(* The instance TLC checks: the batch fills at two records, the interval   *)
(* is two ticks, the schema is tried twice.                                *)
EXTENDS TrackingDB
=============================================================================
