---------------------------- MODULE MCShapeArena ----------------------------
(* A small arena: two slots of two generations, so that slots are reused,  *)
(* exhausted and retired, and a scope counter that wraps.                  *)
EXTENDS ShapeArena
=============================================================================
