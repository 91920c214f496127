---------------------------- MODULE MCCameraActivity ----------------------------
(* Every camera API with every activity, chosen in the initial state.       *)
EXTENDS CameraActivity

================================================================================
