-------------------------------- MODULE MCPins --------------------------------
(* Two CIDs, so that one can fail where the other must not; one re-provide     *)
(* run, and one request that may overlap it and outlive its response.          *)
EXTENDS Pins
=============================================================================
