---------------------------- MODULE MCReportDelivery ----------------------------
(* Small instances of ReportDelivery: one delegation, or two of one parent.  *)
EXTENDS ReportDelivery

OneId == {1}
TwoIds == {1, 2}
=============================================================================
