------------------------- MODULE MCArchiveDiscovery -------------------------
(* Every mailbox with UIDs up to a bound, every cursor, and every          *)
(* interleaving of expunges and arrivals with the commands of a session.   *)
EXTENDS ArchiveDiscovery
=============================================================================
