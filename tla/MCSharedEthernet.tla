-------------------------- MODULE MCSharedEthernet --------------------------
(***************************************************************************)
(* Instances of SharedEthernet for TLC.                                    *)
(***************************************************************************)
EXTENDS SharedEthernet
=============================================================================
