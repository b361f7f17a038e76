--------------------------- MODULE MC_DspDebugger ---------------------------
(* DspDebugger with the layer default 108 scaled down to 2, scenario       *)
(* max_layer 1 (below the default finish, so both boundaries differ), and input  *)
(* target lists of one file, local lists of up to two (one overruns).                                    *)
EXTENDS DspDebugger

MCMaxLayers == {1}
=============================================================================
