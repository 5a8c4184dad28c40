---------------------------- MODULE SmtpSession -----------------------------
(***************************************************************************)
(* The SMTP front end of internal/smtp/server.go: the connections the      *)
(* accept loops admit, the command loop of handleConn, one action per case *)
(* of handleCommand, DATA split where other sessions can act (backlog      *)
(* check, body, INSERT), and the orderly shutdown.  Sessions share the     *)
(* queue's backlog, which the delivery workers drain.                      *)
(*                                                                         *)
(* Left nondeterministic: what clients send, the credential check and the  *)
(* per-user and per-address lockouts, the sender pattern and alias policy, *)
(* and store errors.                                                       *)
(***************************************************************************)
EXTENDS Naturals, FiniteSets

CONSTANTS Sessions,        \* connections a client may open, one at a time each
          ImplicitTLS,     \* those it opens on the 465 listener
          RequireTLS,      \* SMTP_REQUIRE_TLS_587
          MaxConnections,  \* SMTP_MAX_CONNECTIONS
          MaxCommands,     \* SMTP_MAX_COMMANDS_PER_SESSION
          MaxRecipients,   \* SMTP_MAX_RECIPIENTS
          MaxBacklog       \* QUEUE_MAX_BACKLOG

ASSUME SessionsAssumption == IsFiniteSet(Sessions) /\ ImplicitTLS \subseteq Sessions
ASSUME LimitsAssumption == /\ RequireTLS \in BOOLEAN
                           /\ MaxConnections \in Nat \ {0}
                           /\ MaxCommands \in Nat \ {0}
                           /\ MaxRecipients \in Nat \ {0}
                           /\ MaxBacklog \in Nat \ {0}

VARIABLES
  phase,     \* where handleConn is: closed, greeting, command, body, store; or
             \* refused: an accept loop is telling the client 421
  sess,      \* the session struct, with handleConn's commandCount
  inBody,    \* sessions whose client is still sending the body of a DATA
  backlog,   \* BacklogCount: rows pending or processing
  listening, \* the listeners are open
  stopping,  \* ctx is done
  cut,       \* closeActiveConnections has run
  late       \* messages stored since ctx was done

vars == <<phase, sess, inBody, backlog, listening, stopping, cut, late>>

\* What a client can have established: the envelope of a transaction, and what
\* holds for all transactions of a channel.
Envelope == {"mailFrom", "rcptTo"}
Facts    == Envelope \cup {"greeted", "authed"}

Session == [isTLS: BOOLEAN, greeted: BOOLEAN, authed: BOOLEAN, authFailures: 0..3,
            mailFrom: BOOLEAN, rcptTo: 0..MaxRecipients, commands: 0..MaxCommands,
            old: SUBSET Facts]

\* The struct handleConn builds; mailFrom stands for mailFrom # "", rcptTo for
\* len(rcptTo).  old is history: the facts that outlived their end.
NewSession(tls) == [isTLS |-> tls, greeted |-> FALSE, authed |-> FALSE,
                    authFailures |-> 0, mailFrom |-> FALSE, rcptTo |-> 0, commands |-> 0,
                    old |-> {}]

ResetEnvelope(r) == [r EXCEPT !.mailFrom = FALSE, !.rcptTo = 0]

\* A transaction, or all that was said on a channel, has come to its end: of the
\* facts that end with it, those the handler's result r still holds are old.
Held(r) == {f \in {"greeted", "authed", "mailFrom"} : r[f]}
             \cup (IF r.rcptTo > 0 THEN {"rcptTo"} ELSE {})

Ended(r, facts) == [r EXCEPT !.old = @ \cup (Held(r) \cap facts)]

\* Sessions that hold a slot, those that may carry out a command, and those that
\* are inside a DATA.
Open      == {s \in Sessions : phase[s] \notin {"closed", "refused"}}
Serving   == {s \in Sessions : phase[s] \in {"command", "body", "store"}}
Receiving == {s \in Sessions : phase[s] \in {"body", "store"}}

Init == /\ phase = [s \in Sessions |-> "closed"]
        /\ sess = [s \in Sessions |-> NewSession(FALSE)]
        /\ inBody = {}
        /\ backlog = 0
        /\ listening = TRUE /\ stopping = FALSE /\ cut = FALSE
        /\ late = 0
-----------------------------------------------------------------------------
\* handleConn returns: the connection is closed and its slot released.
Hangup(s) == /\ phase' = [phase EXCEPT ![s] = "closed"]
             /\ sess' = [sess EXCEPT ![s] = NewSession(FALSE)]
             /\ inBody' = inBody \ {s}

\* Mutant of Continue: the loop does not look at ctx.
ContinueAlways(s, r) == /\ phase' = [phase EXCEPT ![s] = "command"]
                        /\ sess' = [sess EXCEPT ![s] = r]
                        /\ UNCHANGED inBody

\* Back at the top of handleConn's loop, which ends the session with 421 once
\* ctx is done and otherwise reads the next line.
Continue(s, r) == \/ stopping /\ Hangup(s)
                  \/ /\ ~stopping
                     /\ phase' = [phase EXCEPT ![s] = "command"]
                     /\ sess' = [sess EXCEPT ![s] = r]
                     /\ UNCHANGED inBody

\* What a session's own step leaves to others.
Elsewhere == UNCHANGED <<backlog, listening, stopping, cut, late>>

\* The listener's accept loop takes s's connection: it is not inside
\* writeAndClose, which it calls itself.
Arrives(s) == /\ listening
              /\ phase[s] = "closed"
              /\ \A t \in Sessions : phase[t] = "refused" =>
                                      (t \in ImplicitTLS) # (s \in ImplicitTLS)

\* Mutant of Accept: > for >= in tryAcquireConnectionSlot.
AcceptOneMore(s) ==
  /\ Arrives(s)
  /\ Cardinality(Open) <= MaxConnections
  /\ phase' = [phase EXCEPT ![s] = "greeting"]
  /\ sess' = [sess EXCEPT ![s] = NewSession(s \in ImplicitTLS)]
  /\ UNCHANGED inBody /\ Elsewhere

(* acceptLoop takes a connection that finds a free slot.                    *)
Accept(s) ==
  /\ Arrives(s)
  /\ Cardinality(Open) < MaxConnections
  /\ phase' = [phase EXCEPT ![s] = "greeting"]
  /\ sess' = [sess EXCEPT ![s] = NewSession(s \in ImplicitTLS)]
  /\ UNCHANGED inBody /\ Elsewhere

(* There is none: the loop writes a 421, on 465 after the TLS handshake     *)
(* which its Write starts, and closes the connection.                       *)
Refuse(s) ==
  /\ Arrives(s)
  /\ Cardinality(Open) >= MaxConnections
  /\ phase' = [phase EXCEPT ![s] = "refused"]
  /\ UNCHANGED <<sess, inBody>> /\ Elsewhere

RefuseDone(s) == phase[s] = "refused" /\ Hangup(s) /\ Elsewhere

(* The 220 greeting is flushed; on 465 this first needs the TLS handshake.  *)
Greet(s) == phase[s] = "greeting" /\ Continue(s, sess[s]) /\ Elsewhere

(* A read or write fails or times out, or the client hangs up.              *)
Disconnect(s) == phase[s] \in {"greeting", "command"} /\ Hangup(s) /\ Elsewhere

\* A line arrives and is within the session's command budget; the handler is
\* given the session with the line counted.
Command(s) == phase[s] = "command" /\ sess[s].commands < MaxCommands

\* Mutant of Line: the line is not counted.
LineUncounted(s) == sess[s]

Line(s) == [sess[s] EXCEPT !.commands = @ + 1]

(* One line more than the budget: 421.                                      *)
TooManyCommands(s) ==
  /\ phase[s] = "command" /\ sess[s].commands = MaxCommands
  /\ Hangup(s) /\ Elsewhere

(* Any line answered without a change to the session: NOOP, VRFY, EXPN, an  *)
(* unknown verb, an empty line, every 4xx and 5xx rejection, and the 421    *)
(* that DATA gets when the backlog is full.                                 *)
ReplyOnly(s) == Command(s) /\ Continue(s, Line(s)) /\ Elsewhere

(* EHLO and HELO.                                                           *)
Hello(s) == /\ Command(s)
            /\ Continue(s, Ended([ResetEnvelope(Line(s)) EXCEPT !.greeted = TRUE],
                                 Envelope))
            /\ Elsewhere

\* Mutant of StartTLS: what was authenticated in the clear still counts.
StartTLSKeepsAuth(s) ==
  /\ Command(s) /\ ~sess[s].isTLS
  /\ \/ Continue(s, Ended([ResetEnvelope(Line(s)) EXCEPT
                             !.isTLS = TRUE, !.greeted = FALSE],
                           Facts))
     \/ Hangup(s)
  /\ Elsewhere

(* STARTTLS: after the handshake the session starts over; authFailures and  *)
(* the command count survive.  A failed handshake ends the session.         *)
StartTLS(s) ==
  /\ Command(s) /\ ~sess[s].isTLS
  /\ \/ Continue(s, Ended([ResetEnvelope(Line(s)) EXCEPT
                             !.isTLS = TRUE, !.greeted = FALSE, !.authed = FALSE],
                           Facts))
     \/ Hangup(s)
  /\ Elsewhere

\* Mutant of MayAuth: failures on this connection are not looked at.
MayAlwaysAuth(s) == /\ Command(s)
                    /\ sess[s].isTLS \/ ~RequireTLS
                    /\ sess[s].greeted

\* Mutant of MayAuth: the channel is not looked at.
MayAuthInPlain(s) == /\ Command(s)
                     /\ sess[s].greeted
                     /\ sess[s].authFailures < 3

(* AUTH reaches handleAuth and the credentials are checked; the answers     *)
(* that leave the session alone are ReplyOnly.                              *)
MayAuth(s) == /\ Command(s)
              /\ sess[s].isTLS \/ ~RequireTLS
              /\ sess[s].greeted
              /\ sess[s].authFailures < 3

AuthSuccess(s) ==
  /\ MayAuth(s)
  /\ Continue(s, [Line(s) EXCEPT !.authed = TRUE, !.authFailures = 0])
  /\ Elsewhere

AuthFailure(s) ==
  /\ MayAuth(s)
  /\ Continue(s, [Line(s) EXCEPT !.authFailures = @ + 1])
  /\ Elsewhere

(* The client hangs up, or the deadline passes, between AUTH's lines.       *)
AuthCut(s) == MayAuth(s) /\ Hangup(s) /\ Elsewhere

(* MAIL FROM with an address the pattern and the alias policy let through.  *)
Mail(s) ==
  /\ Command(s)
  /\ sess[s].greeted /\ sess[s].authed /\ ~sess[s].mailFrom
  /\ Continue(s, [Line(s) EXCEPT !.mailFrom = TRUE])
  /\ Elsewhere

(* RCPT TO with a valid address.                                            *)
Rcpt(s) ==
  /\ Command(s)
  /\ sess[s].mailFrom /\ sess[s].rcptTo < MaxRecipients
  /\ Continue(s, [Line(s) EXCEPT !.rcptTo = @ + 1])
  /\ Elsewhere

\* Mutant of Data: > for >= in the backlog check.
DataOneMore(s) ==
  /\ Command(s)
  /\ sess[s].mailFrom /\ sess[s].rcptTo > 0
  /\ backlog <= MaxBacklog
  /\ phase' = [phase EXCEPT ![s] = "body"]
  /\ sess' = [sess EXCEPT ![s] = Line(s)]
  /\ inBody' = inBody \cup {s}
  /\ Elsewhere

(* DATA up to the 354: the backlog is read here and not looked at again.    *)
Data(s) ==
  /\ Command(s)
  /\ sess[s].mailFrom /\ sess[s].rcptTo > 0
  /\ backlog < MaxBacklog
  /\ phase' = [phase EXCEPT ![s] = "body"]
  /\ sess' = [sess EXCEPT ![s] = Line(s)]
  /\ inBody' = inBody \cup {s}
  /\ Elsewhere

(* The flush of the 354 fails, and the session with it.                     *)
DataCut(s) ==
  /\ phase[s] = "body" /\ Hangup(s) /\ Elsewhere

(* consumeData meets the final dot within the size limit.                   *)
BodyComplete(s) ==
  /\ phase[s] = "body"
  /\ phase' = [phase EXCEPT ![s] = "store"]
  /\ inBody' = inBody \ {s}
  /\ UNCHANGED sess
  /\ Elsewhere

(* The body is too large, and was read to its end: 552.                     *)
BodyTooLarge(s) ==
  /\ phase[s] = "body"
  /\ \/ stopping /\ Hangup(s)
     \/ /\ ~stopping
        /\ phase' = [phase EXCEPT ![s] = "command"]
        /\ sess' = [sess EXCEPT ![s] = Ended(ResetEnvelope(@), Envelope)]
        /\ inBody' = inBody \ {s}
  /\ Elsewhere

(* A read inside consumeData fails, the command's deadline having passed:   *)
(* 451, and the session goes on with its envelope and the client's stream.  *)
BodyReadError(s) ==
  /\ phase[s] = "body"
  /\ Continue(s, sess[s])
  /\ Elsewhere

(* Enqueue succeeds: 250, whether or not the reply gets through.            *)
Store(s) ==
  /\ phase[s] = "store"
  /\ backlog' = backlog + 1
  /\ late' = IF stopping THEN late + 1 ELSE late
  /\ Continue(s, Ended(ResetEnvelope(sess[s]), Envelope))
  /\ UNCHANGED <<listening, stopping, cut>>

(* Enqueue fails (an empty body, or a store error): 451, envelope kept.     *)
StoreError(s) ==
  /\ phase[s] = "store"
  /\ Continue(s, sess[s])
  /\ Elsewhere

(* RSET.                                                                    *)
Rset(s) == /\ Command(s)
           /\ Continue(s, Ended(ResetEnvelope(Line(s)), Envelope))
           /\ Elsewhere

(* QUIT.                                                                    *)
Quit(s) == Command(s) /\ Hangup(s) /\ Elsewhere
-----------------------------------------------------------------------------
(* A worker's MarkSent or MarkFailed takes a row out of the backlog; under a *)
(* context that is done these fail.                                         *)
Drain == ~stopping /\ backlog > 0 /\ backlog' = backlog - 1
         /\ UNCHANGED <<phase, sess, inBody, listening, stopping, cut, late>>

(* SIGTERM: ctx is done.                                                    *)
Signal == ~stopping /\ stopping' = TRUE
          /\ UNCHANGED <<phase, sess, inBody, backlog, listening, cut, late>>

(* Shutdown closes the listeners; until then they still take connections.   *)
CloseListeners == stopping /\ listening /\ listening' = FALSE
                  /\ UNCHANGED <<phase, sess, inBody, backlog, stopping, cut, late>>

\* Mutant of CutConnections: Shutdown only waits for the sessions.
CutNothing == ~listening /\ ~cut /\ Open # {} /\ UNCHANGED vars

(* Shutdown's 15 s are over: closeActiveConnections.                        *)
CutConnections == ~listening /\ ~cut /\ Open # {} /\ cut' = TRUE
                  /\ UNCHANGED <<phase, sess, inBody, backlog, listening, stopping, late>>

\* What a session does between two reads of its client, each read bounded by
\* the deadline handleConn sets before it reads a command.
Step(s) ==
  \/ Disconnect(s) \/ TooManyCommands(s) \/ ReplyOnly(s) \/ Hello(s) \/ StartTLS(s)
  \/ AuthSuccess(s) \/ AuthFailure(s) \/ AuthCut(s) \/ Mail(s) \/ Rcpt(s) \/ Data(s)
  \/ DataCut(s) \/ BodyComplete(s) \/ BodyTooLarge(s) \/ BodyReadError(s)
  \/ Store(s) \/ StoreError(s) \/ Rset(s) \/ Quit(s)

Next == \/ \E s \in Sessions : \/ Accept(s) \/ Refuse(s) \/ RefuseDone(s)
                               \/ Greet(s) \/ Step(s)
        \/ Drain \/ Signal \/ CloseListeners \/ CutConnections

\* Deadlines bound every read after the greeting, and on 587 the writes of the
\* greeting and of a refusal.  On 465 these writes wait for the client's half of
\* the handshake, which no deadline bounds: a session in its greeting waits until
\* the connections are cut, and a refused connection is not even among those.
Fairness ==
  /\ WF_vars(CloseListeners) /\ WF_vars(CutConnections)
  /\ \A s \in Sessions :
       /\ WF_vars(phase[s] # "greeting" /\ Step(s))
       /\ WF_vars(s \notin ImplicitTLS /\ (Greet(s) \/ Disconnect(s) \/ RefuseDone(s)))
       /\ WF_vars(cut /\ Disconnect(s))

Spec == Init /\ [][Next]_vars /\ Fairness
-----------------------------------------------------------------------------
TypeOK ==
  /\ phase \in [Sessions -> {"closed", "refused", "greeting", "command",
                             "body", "store"}]
  /\ sess \in [Sessions -> Session]
  /\ inBody \subseteq Open
  /\ backlog \in Nat
  /\ listening \in BOOLEAN /\ stopping \in BOOLEAN /\ cut \in BOOLEAN
  /\ late \in Nat

\* The envelope is whole, its sender was greeted and authenticated, under TLS
\* where that is required, and no part of it is older than it should be.
Authorised(r) == /\ r.rcptTo > 0 => r.mailFrom
                 /\ r.mailFrom => r.greeted /\ r.authed
                 /\ r.authed /\ RequireTLS => r.isTLS
                 /\ r.old = {}

(* Every session's envelope is authorised, and a message being received has *)
(* a recipient.  No sender or recipient given before the session's last     *)
(* EHLO, HELO, STARTTLS, RSET, or DATA that was stored or too large is part *)
(* of it, nor a greeting or an authentication from before STARTTLS.         *)
EnvelopeAuthorised ==
  \A s \in Sessions : /\ Authorised(sess[s])
                      /\ s \in Receiving => sess[s].rcptTo > 0

(* The backlog check and the INSERT are apart, so sessions that all saw     *)
(* room overshoot QUEUE_MAX_BACKLOG, but never by MaxConnections or more.   *)
BacklogBounded == backlog < MaxBacklog + MaxConnections

(* Once ctx is done each session past its greeting stores at most one more *)
(* message, and connections taken before the listeners close store none.    *)
LateMessagesBounded == late + Cardinality(Serving) <= MaxConnections

(* A shutdown gets rid of every session, one whose client never finishes    *)
(* its TLS handshake and one taken after the signal included.               *)
ShutdownDrains == stopping ~> ~listening /\ Open = {}

(* Every session on 587, and on 465 once it has been greeted, comes to an   *)
(* end and gives its slot back.                                             *)
ConnectionsEnd ==
  \A s \in Sessions :
    s \in Open /\ (s \in ImplicitTLS => s \in Serving) ~> s \notin Open

(* A full server that goes on running sheds load: the accept loop is done   *)
(* with a connection it refuses, and takes the next one.                    *)
RefusalsEnd ==
  \A s \in Sessions :
    phase[s] = "refused" /\ ~stopping ~> phase[s] = "closed" \/ stopping

\* The front end as the queue sees it: sessions reduced to whether they are
\* inside, and whether they are receiving a message.
Standing(p) == IF p \in {"body", "store"} THEN "receiving"
               ELSE IF p = "command" THEN "ready" ELSE "away"

A == INSTANCE Admission WITH stage <- [s \in Sessions |-> Standing(phase[s])]

(* Every step of the server is one that Admission allows: slots are not     *)
(* exceeded, a message is received only where there was room, and each      *)
(* session's part in a shutdown is over after one more message.             *)
AdmissionSteps == A!Init /\ [][A!Next]_(A!vars)

(* It implements Admission with its promise that a shutdown gets rid of     *)
(* every session.                                                           *)
ImplementsAdmission == A!Spec

(* While the server reads commands the client is not inside a body: "keep   *)
(* stream in sync".                                                         *)
CommandsInSync == \A s \in Sessions : phase[s] = "command" => s \notin inBody
=============================================================================
