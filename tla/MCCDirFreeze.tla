---------------------------- MODULE MCCDirFreeze ----------------------------
(* A chain of three directories: the middle one has both a parent and a     *)
(* child that can freeze.                                                   *)
EXTENDS CDirFreeze, TLC

MCparentOf == "a" :> "root" @@ "b" :> "a"
=============================================================================
