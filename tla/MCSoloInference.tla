--------------------------- MODULE MCSoloInference ---------------------------
(* Instances of SoloInference for TLC.                                      *)
EXTENDS SoloInference

(* From H15 on, before and after the attention gate.                        *)
SomeEras == {{"v2", "inline", "trace"}, {"v2", "inline", "trace", "attention"}}
=============================================================================
