--------------------------- MODULE MCRegistration ---------------------------
(* Two names; the slug of the second is what the second team of the first  *)
(* name would get.                                                         *)
EXTENDS Registration, TLC

MCName == {"ann", "ann 2"}
MCBase == "ann" :> "ann" @@ "ann 2" :> "ann-2"
MCSlug == {"ann", "ann-2", "ann-3", "ann-2-2", "ann-2-3"}
MCNumbered ==
  <<"ann", 2>> :> "ann-2" @@ <<"ann", 3>> :> "ann-3" @@
  <<"ann-2", 2>> :> "ann-2-2" @@ <<"ann-2", 3>> :> "ann-2-3" @@
  [p \in {"ann-3", "ann-2-2", "ann-2-3"} \X (2..3) |-> p[1]]
=============================================================================
