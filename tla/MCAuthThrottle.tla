--------------------------- MODULE MCAuthThrottle ---------------------------
(* Small instances of AuthThrottle for TLC.                                 *)
EXTENDS AuthThrottle, TLC

\* Every client connects from the same address.
OneAddress == [c \in Clients |-> CHOOSE a \in Addresses : TRUE]

Interchangeable == Permutations(Clients) \cup Permutations(Users)
=============================================================================
