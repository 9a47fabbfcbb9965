------------------------- MODULE MCCompetitionStore -------------------------
(***************************************************************************)
(* Two auctions and two transaction hashes, so that two records may share  *)
(* a hash, and one legacy row stored before the json carried an auction id.*)
(***************************************************************************)
EXTENDS CompetitionStore

MCAuctionIds == {1, 2}
MCLegacyIds == {3}

=============================================================================
