---------------------------- MODULE MCSubtreeMap ----------------------------
(* A tree of five dirfrags for SubtreeMap: b lies in a and has two          *)
(* dirfrags, c lies in one of them.  Renaming b moves a fragmented          *)
(* directory with another one beneath it; renaming c moves it in and out.   *)
EXTENDS SubtreeMap, TLC

MCDirs == {"root", "a0", "b0", "b1", "c0"}
MCInodes == {"/", "a", "b", "c"}
MCino == "root" :> "/" @@ "a0" :> "a" @@ "b0" :> "b" @@ "b1" :> "b" @@ "c0" :> "c"
MCHome == "a" :> "root" @@ "b" :> "a0" @@ "c" :> "b0"
MCAmbiguous == {<<0, 1>>}
=============================================================================
