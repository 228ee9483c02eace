-------------------------- MODULE MCMemberFetcher ---------------------------
(* Three members of one guild and, for the choice of the biggest queue, one  *)
(* of another.                                                               *)
EXTENDS MemberFetcher

CONSTANTS big, small, m1, m2, m3

MCGuildOf == [m \in Members |-> IF m = m3 THEN small ELSE big]

MCForeign == {{m1, m2}}
=============================================================================
