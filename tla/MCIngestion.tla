--------------------------- MODULE MCIngestion ---------------------------
(* An instance of Ingestion for TLC: Ingestion.cfg gives the constants, for *)
(* safety and liveness under every policy.                                  *)
EXTENDS Ingestion
=============================================================================
