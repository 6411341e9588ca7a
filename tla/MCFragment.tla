----------------------------- MODULE MCFragment -----------------------------
(* One directory with two names that hash to different halves.             *)
EXTENDS Fragment

MCNames == {"a", "b"}
MCHalf == [n \in MCNames |-> IF n = "a" THEN "0" ELSE "1"]
MCStored == {"b"}

Load_(start, small, updates, refrags, crashes) ==
  [start |-> start, small |-> small, updates |-> updates, refrags |-> refrags, crashes |-> crashes]

MCLoads ==
  {Load_("new", TRUE, 1, 1, 1), Load_("whole", FALSE, 1, 1, 1), Load_("split", TRUE, 1, 1, 1),
   Load_("new", FALSE, 0, 1, 2), Load_("whole", FALSE, 0, 2, 1),
   Load_("new", FALSE, 2, 0, 2), Load_("whole", TRUE, 2, 0, 1),
   Load_("whole", FALSE, 2, 1, 0), Load_("split", TRUE, 2, 1, 0),
   Load_("new", FALSE, 1, 2, 0), Load_("whole", FALSE, 1, 2, 0), Load_("split", FALSE, 1, 2, 0)}
=============================================================================
