-------------------------------- MODULE MCAudio --------------------------------
(* RESSoftAudioCore for TLC.  MCAudioFiltered.cfg: a filter is installed and  *)
(* nobody else locks it.  MCAudioSessions.cfg: any use of the filter, failing *)
(* starts and restarts.  MCAudioRecopy.cfg: the application's use, no filter. *)
EXTENDS RESSoftAudioCore
================================================================================
