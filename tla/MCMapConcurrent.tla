-------------------------- MODULE MCMapConcurrent --------------------------
(* Instances of MapConcurrent: the serial path and two sizes of window.    *)
EXTENDS MapConcurrent
=============================================================================
