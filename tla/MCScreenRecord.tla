---------------------------- MODULE MCScreenRecord ----------------------------
\* The instance of ScreenRecordActivity that TLC checks.
EXTENDS ScreenRecordActivity
================================================================================
