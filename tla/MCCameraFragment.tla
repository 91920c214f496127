---------------------------- MODULE MCCameraFragment ----------------------------
(* Three resumes: what one pause left behind meets the opens after it.      *)
EXTENDS CameraConnectionFragment

================================================================================
