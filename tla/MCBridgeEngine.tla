--------------------------- MODULE MCBridgeEngine ---------------------------
(***************************************************************************)
(* Two verbs that overlap around one forward, and one verb around two      *)
(* forwards, on transports that do and that do not report their closing.   *)
(***************************************************************************)
EXTENDS BridgeEngine

MCLoads ==
  {[ops |-> 2, forwards |-> 1, sees |-> TRUE]} \cup [ops : {1}, forwards : {2}, sees : BOOLEAN]
=============================================================================
