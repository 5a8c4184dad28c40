---------------------------- MODULE AuthThrottle ----------------------------
(***************************************************************************)
(* The throttling of AUTH in internal/smtp/server.go: the failures counted *)
(* on a connection, and Server.authState, one entry per user and one per   *)
(* address, which all sessions share under a mutex.  The mutex is taken    *)
(* anew by every authBlocked, recordAuthFailureKey and clearAuthState, so  *)
(* other sessions and the clock can act between them, and between the AUTH *)
(* command and the lines with the credentials.                             *)
(*                                                                         *)
(* Instants are kept relative: since is now - WindowStart, up to the       *)
(* window's end, and locked is LockedUntil - now.  An absent entry, whose  *)
(* WindowStart is zero, and one whose window is over are treated alike by  *)
(* the code and are one value here.                                        *)
(***************************************************************************)
EXTENDS Integers, FiniteSets

CONSTANTS Clients,    \* connections, one after the other for each client
          Users,      \* names a client may present, known to the relay or not
          NoUser,     \* no name presented
          Addresses,  \* the "ip:" keys
          AddressOf,  \* AddressOf[c]: remoteIP of c's connections
          Limit,      \* SMTP_AUTH_RATE_LIMIT_PER_MIN
          Lockout,    \* SMTP_AUTH_LOCKOUT_SECONDS, in ticks
          Window      \* the minute of recordAuthFailureKey, in ticks

ASSUME ClientsAssumption == /\ IsFiniteSet(Clients) /\ Clients # {}
                            /\ AddressOf \in [Clients -> Addresses]
ASSUME KeysAssumption == Users \cap Addresses = {} /\ NoUser \notin Users
ASSUME LimitsAssumption == /\ Limit \in Nat \ {0} /\ Lockout \in Nat \ {0}
                           /\ Window \in Nat \ {0}

Keys == Users \cup Addresses

VARIABLES
  auth,      \* authState
  pc,        \* each session inside AUTH: idle, prompt, checked, half recorded
  user,      \* the name a session presented, while it is checked
  failures,  \* session.authFailures
  slipped,   \* slipped[k]: failures of k met by the lock it is, or was last, under
  watch,     \* how long failures have been watched, less than a window
  seen       \* seen[k]: failures of k since the watch began

vars == <<auth, pc, user, failures, slipped, watch, seen>>

Entry == [since: 0..Window, attempts: 0..(Limit - 1), locked: 0..Lockout]
Fresh == [since |-> Window, attempts |-> 0, locked |-> 0]

Init == /\ auth = [k \in Keys |-> Fresh]
        /\ pc = [c \in Clients |-> "idle"]
        /\ user = [c \in Clients |-> NoUser]
        /\ failures = [c \in Clients |-> 0]
        /\ slipped = [k \in Keys |-> 0]
        /\ watch = 0
        /\ seen = [k \in Keys |-> 0]

Locked(k) == auth[k].locked > 0

\* Mutant of Counted: > for >= in the test of the limit.
CountedOneMore(st) ==
  LET over  == st.since >= Window
      start == IF over THEN 0 ELSE st.since
      n     == IF over THEN 1 ELSE st.attempts + 1
  IN IF n > Limit THEN [since |-> start, attempts |-> 0, locked |-> Lockout]
                  ELSE [since |-> start, attempts |-> n, locked |-> 0]

\* Mutant of Counted: the failure that opens a window is not counted in it.
CountedFromZero(st) ==
  LET over  == st.since >= Window
      start == IF over THEN 0 ELSE st.since
      n     == IF over THEN 0 ELSE st.attempts + 1
  IN IF n >= Limit THEN [since |-> start, attempts |-> 0, locked |-> Lockout]
                   ELSE [since |-> start, attempts |-> n, locked |-> 0]

\* An entry that is not locked after one more failure.
Counted(st) ==
  LET over  == st.since >= Window
      start == IF over THEN 0 ELSE st.since
      n     == IF over THEN 1 ELSE st.attempts + 1
  IN IF n >= Limit THEN [since |-> start, attempts |-> 0, locked |-> Lockout]
                   ELSE [since |-> start, attempts |-> n, locked |-> 0]

(* recordAuthFailureKey.                                                    *)
Record(k) ==
  /\ auth' = [auth EXCEPT ![k] = IF Locked(k) THEN @ ELSE Counted(@)]
  /\ slipped' = [slipped EXCEPT ![k] = IF Locked(k) THEN @ + 1 ELSE 0]
  /\ seen' = [seen EXCEPT ![k] = @ + 1]
-----------------------------------------------------------------------------
(* AUTH passes the connection's limit and the address's lock, and handleAuth *)
(* asks for the credentials.                                                *)
AuthCommand(c) ==
  /\ pc[c] = "idle"
  /\ failures[c] < 3
  /\ ~Locked(AddressOf[c])
  /\ pc' = [pc EXCEPT ![c] = "prompt"]
  /\ UNCHANGED <<auth, user, failures, slipped, watch, seen>>

\* Mutant of Present: the user's lock is not looked at.
PresentAnyone(c, u) ==
  /\ pc[c] = "prompt"
  /\ user' = [user EXCEPT ![c] = u]
  /\ pc' = [pc EXCEPT ![c] = "checked"]
  /\ UNCHANGED <<auth, failures, slipped, watch, seen>>

(* The credentials arrive, and the user is not locked.                      *)
Present(c, u) ==
  /\ pc[c] = "prompt"
  /\ ~Locked(u)
  /\ user' = [user EXCEPT ![c] = u]
  /\ pc' = [pc EXCEPT ![c] = "checked"]
  /\ UNCHANGED <<auth, failures, slipped, watch, seen>>

(* Malformed credentials, 535, or a locked user, 454: nothing is counted.   *)
Rejected(c) ==
  /\ pc[c] = "prompt"
  /\ pc' = [pc EXCEPT ![c] = "idle"]
  /\ UNCHANGED <<auth, user, failures, slipped, watch, seen>>

(* ValidateCredentials says no, and the failure is counted for the user ... *)
Wrong(c) ==
  /\ pc[c] = "checked"
  /\ failures' = [failures EXCEPT ![c] = @ + 1]
  /\ Record(user[c])
  /\ user' = [user EXCEPT ![c] = NoUser]
  /\ pc' = [pc EXCEPT ![c] = "half"]
  /\ UNCHANGED watch

(* ... and then for the address, in a critical section of its own.          *)
WrongAddress(c) ==
  /\ pc[c] = "half"
  /\ Record(AddressOf[c])
  /\ pc' = [pc EXCEPT ![c] = "idle"]
  /\ UNCHANGED <<user, failures, watch>>

\* Mutant of Right: the success forgets the address's entry as well.
RightForgetsAddress(c) ==
  /\ pc[c] = "checked"
  /\ auth' = [auth EXCEPT ![user[c]] = Fresh, ![AddressOf[c]] = Fresh]
  /\ seen' = [seen EXCEPT ![user[c]] = 0]
  /\ failures' = [failures EXCEPT ![c] = 0]
  /\ user' = [user EXCEPT ![c] = NoUser]
  /\ pc' = [pc EXCEPT ![c] = "idle"]
  /\ UNCHANGED <<slipped, watch>>

(* ValidateCredentials says yes: clearAuthState forgets the user's entry,   *)
(* also a lock set since it was looked at.                                  *)
Right(c) ==
  /\ pc[c] = "checked"
  /\ auth' = [auth EXCEPT ![user[c]] = Fresh]
  /\ seen' = [seen EXCEPT ![user[c]] = 0]
  /\ failures' = [failures EXCEPT ![c] = 0]
  /\ user' = [user EXCEPT ![c] = NoUser]
  /\ pc' = [pc EXCEPT ![c] = "idle"]
  /\ UNCHANGED <<slipped, watch>>

(* The connection ends and the client opens another.                        *)
Reconnect(c) ==
  /\ pc[c] \in {"idle", "prompt"}
  /\ pc' = [pc EXCEPT ![c] = "idle"]
  /\ failures' = [failures EXCEPT ![c] = 0]
  /\ UNCHANGED <<auth, user, slipped, watch, seen>>

(* No part of the program: someone watches the failures for a window's      *)
(* time, beginning at any moment, as whatever holds of every such watch     *)
(* holds of every window's length of time.                                  *)
Watch == \/ /\ watch' = 0
            /\ seen' = [k \in Keys |-> 0]
         \/ /\ watch + 1 < Window
            /\ watch' = watch + 1
            /\ UNCHANGED seen

(* One unit of time.                                                        *)
Tick ==
  /\ auth' = [k \in Keys |->
       [auth[k] EXCEPT !.since  = IF @ < Window THEN @ + 1 ELSE @,
                       !.locked = IF @ > 0 THEN @ - 1 ELSE 0]]
  /\ Watch
  /\ UNCHANGED <<pc, user, failures, slipped>>

Next == \/ \E c \in Clients :
             \/ AuthCommand(c) \/ Rejected(c) \/ Wrong(c) \/ WrongAddress(c)
             \/ Right(c) \/ Reconnect(c) \/ \E u \in Users : Present(c, u)
        \/ Tick

Spec == Init /\ [][Next]_vars
-----------------------------------------------------------------------------
TypeOK == /\ auth \in [Keys -> Entry]
          /\ pc \in [Clients -> {"idle", "prompt", "checked", "half"}]
          /\ user \in [Clients -> Users \cup {NoUser}]
          /\ \A c \in Clients : user[c] \in Users <=> pc[c] = "checked"
          /\ failures \in [Clients -> 0..3]
          /\ slipped \in [Keys -> Nat]
          /\ watch \in 0..(Window - 1)
          /\ seen \in [Keys -> Nat]

\* Sessions whose failure for k can still come although k is locked.
PastCheck(k) ==
  IF k \in Users THEN {c \in Clients : user[c] = k}
  ELSE {c \in Clients : pc[c] # "idle" /\ AddressOf[c] = k}

(* A lock lets through only the sessions that had passed its check: each    *)
(* can fail once more, and the one that set the lock cannot.                *)
LockLetsFewThrough ==
  \A k \in Keys : Locked(k) =>
    slipped[k] + Cardinality(PastCheck(k)) < Cardinality(Clients)

\* The sessions other than the one whose failure sets a lock.
Others == Cardinality(Clients) - 1

\* What can come before the window whose failures set a lock: those that slipped
\* past the lock before, or those of a window that ended without one.
Before == IF Others > Limit - 2 THEN Others ELSE Limit - 2

(* However sessions race and windows and locks follow each other, a minute  *)
(* sees no more failures of a key than a limit's worth, those its lock lets *)
(* through, and either those of the lock before or what an ending window    *)
(* holds, if a lockout takes a minute or more.  A success starts its user's *)
(* count anew.  The bound is reached.                                       *)
BurstBounded ==
  Lockout >= Window => \A k \in Keys : seen[k] <= Limit + Others + Before

RunsOut(k) == Locked(k) => auth'[k].locked \in {auth[k].locked, auth[k].locked - 1}

(* An address's lock ends by time alone, whatever its clients' sessions do. *)
(* A user's need not: Right deletes a lock that another session's failure   *)
(* set after this session was checked.                                      *)
AddressLocksRunOut == [][\A a \in Addresses : RunsOut(a)]_vars
=============================================================================
