---------------------------- MODULE MCWireClient ----------------------------
(***************************************************************************)
(* The two websocket clients of the kernels, the test driver's client of   *)
(* Chrome, and the codec of the frames on every envelope of a bounded set. *)
(* A behaviour is of one of the four.                                      *)
(***************************************************************************)
EXTENDS SocketClients, FrameCodec, ChromeDriver

VARIABLE part

allVars == <<part, clientVars, pageVars, codecVars, crVars>>

MCInit ==
  /\ Init
  /\ \/ part = "bridge" /\ NewPage("none") /\ CodecIdle
     \/ part = "page" /\ PageInit /\ CodecIdle
     \/ part = "codec" /\ NewPage("none") /\ CodecInit
     \/ part = "driver" /\ NewPage("none") /\ CodecIdle
  /\ DriverInit(IF part = "driver" THEN "spawned" ELSE "off")

MCNext ==
  /\ UNCHANGED part
  /\ \/ part = "bridge" /\ Next /\ UNCHANGED <<pageVars, codecVars, crVars>>
     \/ part = "page" /\ PageNext /\ UNCHANGED <<clientVars, codecVars, crVars>>
     \/ part = "codec" /\ CodecNext /\ UNCHANGED <<clientVars, pageVars, crVars>>
     \/ part = "driver" /\ DriverNext /\ UNCHANGED <<clientVars, pageVars, codecVars>>

\* No fair action of a part is enabled in a behaviour of another.
MCSpec == MCInit /\ [][MCNext]_allVars /\ Fairness /\ PageFairness
=============================================================================
