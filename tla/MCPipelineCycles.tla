--------------------------- MODULE MCPipelineCycles ---------------------------
(* Two cycles and a shutdown, two raw frames, two encode workers and an      *)
(* inter encoder that holds one frame.                                       *)
EXTENDS PipelineCycles
=============================================================================
