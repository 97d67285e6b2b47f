--------------------------- MODULE MCLogPipeline ---------------------------
(* Instances of LogPipeline for TLC. *)
EXTENDS LogPipeline

\* Run log_lines: no user replaces the manifest with a password of his own,
\* which for the collector is one more refused batch.
GeneratedPasswords == manifest # OwnPassword
=============================================================================
