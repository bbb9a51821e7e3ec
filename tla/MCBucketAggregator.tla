------------------------- MODULE MCBucketAggregator -------------------------
(* Names for the contexts. *)
EXTENDS BucketAggregator

CONSTANTS counter, packetCount
=============================================================================
