------------------------------ MODULE MCTeams -------------------------------
(* Small instances of Teams for TLC.                                       *)
EXTENDS Teams, TLC

MCRoles == {"ADMIN", "VIEWER"}

(* Invitations, requests, and the users but the founder are alike.         *)
MCSymmetry ==
  Permutations(Invitation) \cup Permutations(Request) \cup Permutations(User \ {Founder})
=============================================================================
