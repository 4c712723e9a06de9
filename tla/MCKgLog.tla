------------------------------ MODULE MCKgLog ------------------------------
(* Small instances of KgLog, scaled down from a buffer of 50,000 bytes.    *)
EXTENDS KgLog

=============================================================================
