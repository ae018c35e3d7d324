-------------------------------- MODULE MCFeed --------------------------------
(* Instances of the event feed for TLC. *)
EXTENDS FeedProperties, TLC
=============================================================================
