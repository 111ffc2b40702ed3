-------------------------- MODULE MCAppPromotion --------------------------
(* AppPromotion with its properties, for model checking small instances.   *)
EXTENDS AppPromotion

\* Constants of the instances.  The block hashes put later blocks before earlier
\* ones, so that a new record may land on either side of the saved one.
MCStakerRank == [s \in Stakers |-> IF s = CHOOSE t \in Stakers : TRUE THEN 0 ELSE 1]
MCBlockRank == [b \in Relays |-> (b * 3 + 1) % (MaxRelay + 1)]
=============================================================================
