--------------------------- MODULE MCSmtpSession ----------------------------
(* Small instances of SmtpSession for TLC.                                  *)
EXTENDS SmtpSession, TLC

\* Connections on the same listener are interchangeable.
Interchangeable == Permutations(ImplicitTLS) \cup Permutations(Sessions \ ImplicitTLS)
=============================================================================
