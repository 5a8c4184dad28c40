------------------------- MODULE SmtpSessionProofs --------------------------
(***************************************************************************)
(* Safety of SmtpSession for every number of connections and every value   *)
(* of the limits.  The inductive invariant adds to the types and to        *)
(* EnvelopeAuthorised what the counters need: the open connections fit the *)
(* slots, and each session that was told 354 has a place reserved between  *)
(* the backlog it saw and the bound.                                       *)
(***************************************************************************)
EXTENDS SmtpSession, FiniteSetTheorems, TLAPS

Safe == TypeOK /\ EnvelopeAuthorised

\* backlog counts stored messages, Receiving those that may still be stored.
Reserved ==
  /\ Cardinality(Open) <= MaxConnections
  /\ backlog + Cardinality(Receiving) < MaxBacklog + MaxConnections
  /\ ~stopping => late = 0
  /\ late + Cardinality(Serving) <= MaxConnections

-----------------------------------------------------------------------------
\* What a session that stays, or one that ends, brings to the invariant.
Good(s, r) == /\ r \in Session /\ Authorised(r)
              /\ phase[s] \in {"greeting", "command", "body", "store"}

(* Ending a session leaves a fresh, unauthorised one behind.                *)
LEMMA HangupSafe ==
  ASSUME Safe, NEW s \in Sessions, Hangup(s), UNCHANGED <<listening, stopping, cut>>,
         backlog' \in Nat, late' \in Nat
  PROVE  Safe'
<1> USE LimitsAssumption DEF Safe, TypeOK
<1>1. NewSession(FALSE) \in Session
  BY DEF NewSession, Session
<1>2. Authorised(NewSession(FALSE))
  BY DEF Authorised, NewSession
<1>3. TypeOK'
  BY <1>1 DEF Hangup, Open
<1>4. EnvelopeAuthorised'
  BY <1>2 DEF Hangup, EnvelopeAuthorised, Authorised, Receiving
<1> QED
  BY <1>3, <1>4

(* A handler that hands back a good session keeps the invariant, whichever  *)
(* way the loop goes.                                                       *)
LEMMA ContinueSafe ==
  ASSUME Safe, NEW s \in Sessions, NEW r, Good(s, r), Continue(s, r),
         UNCHANGED <<listening, stopping, cut>>, backlog' \in Nat, late' \in Nat
  PROVE  Safe'
<1>1. CASE Hangup(s)
  BY <1>1, HangupSafe
<1>2. CASE /\ phase' = [phase EXCEPT ![s] = "command"]
           /\ sess' = [sess EXCEPT ![s] = r]
           /\ UNCHANGED inBody
  <2>1. TypeOK'
    BY <1>2 DEF Safe, TypeOK, Good, Open
  <2>2. EnvelopeAuthorised'
    BY <1>2 DEF Safe, TypeOK, EnvelopeAuthorised, Good, Authorised, Receiving
  <2> QED
    BY <2>1, <2>2 DEF Safe
<1> QED
  BY <1>1, <1>2 DEF Continue

(* A cleared envelope is authorised.                                        *)
LEMMA ResetGood ==
  ASSUME NEW r \in Session, Authorised(r)
  PROVE  ResetEnvelope(r) \in Session /\ Authorised(ResetEnvelope(r))
<1> DEFINE q == ResetEnvelope(r)
<1>1. /\ q.isTLS = r.isTLS /\ q.authed = r.authed
      /\ ~q.mailFrom /\ ~(q.rcptTo > 0) /\ q.old = r.old
  <2>1. q.isTLS = r.isTLS
    BY DEF ResetEnvelope, Session
  <2>2. q.authed = r.authed
    BY DEF ResetEnvelope, Session
  <2>3. q.mailFrom = FALSE
    BY DEF ResetEnvelope, Session
  <2>4. q.rcptTo = 0
    BY DEF ResetEnvelope, Session
  <2>5. q.old = r.old
    BY DEF ResetEnvelope, Session
  <2> QED
    BY <2>1, <2>2, <2>3, <2>4, <2>5
<1>2. q \in Session
  <2> DEFINE p == [r EXCEPT !.mailFrom = FALSE]
  <2>1. p \in Session
    BY DEF Session
  <2>2. q = [p EXCEPT !.rcptTo = 0]
    BY DEF ResetEnvelope, Session
  <2> HIDE DEF p, q
  <2> QED
    BY <2>1, <2>2, LimitsAssumption DEF Session
<1> HIDE DEF q
<1>3. Authorised(q)
  BY <1>1 DEF Authorised
<1> QED
  BY <1>2, <1>3 DEF q

(* A session that holds none of the facts that end is left as it is.        *)
LEMMA EndedClean ==
  ASSUME NEW r \in Session, NEW F, r.old = {}, Held(r) \cap F = {}
  PROVE  Ended(r, F) = r
<1>1. r.old \cup (Held(r) \cap F) = r.old
  OBVIOUS
<1>2. Ended(r, F) = [r EXCEPT !.old = r.old]
  BY <1>1 DEF Ended
<1> HIDE DEF Held
<1> QED
  BY <1>2 DEF Session

(* EHLO, RSET and the end of a DATA hold nothing of the envelope, STARTTLS  *)
(* nothing at all.                                                          *)
LEMMA NothingKept ==
  ASSUME NEW r \in Session, Authorised(r)
  PROVE  LET q == ResetEnvelope(r)
             h == [q EXCEPT !.greeted = TRUE]
             t == [q EXCEPT !.isTLS = TRUE, !.greeted = FALSE, !.authed = FALSE]
         IN /\ Ended(q, Envelope) = q
            /\ h \in Session /\ Authorised(h) /\ Ended(h, Envelope) = h
            /\ t \in Session /\ Authorised(t) /\ Ended(t, Facts) = t
<1> DEFINE q == ResetEnvelope(r)
           h == [q EXCEPT !.greeted = TRUE]
           u == [q EXCEPT !.isTLS = TRUE]
           v == [u EXCEPT !.greeted = FALSE]
           w == [v EXCEPT !.authed = FALSE]
           t == [q EXCEPT !.isTLS = TRUE, !.greeted = FALSE, !.authed = FALSE]
<1>1. /\ q \in Session /\ Authorised(q)
      /\ q.mailFrom = FALSE /\ q.rcptTo = 0 /\ q.old = {}
  <2>1. q.mailFrom = FALSE
    BY DEF ResetEnvelope, Session
  <2>2. q.rcptTo = 0
    BY DEF ResetEnvelope, Session
  <2>3. q \in Session /\ Authorised(q)
    BY ResetGood
  <2>4. q.old = {}
    BY <2>3 DEF Authorised
  <2> QED
    BY <2>1, <2>2, <2>3, <2>4
<1> HIDE DEF q
<1>2. ASSUME NEW x \in Session, x.mailFrom = FALSE, x.rcptTo = 0
      PROVE  Held(x) \cap Envelope = {}
  BY <1>2 DEF Held, Envelope
<1>3. Ended(q, Envelope) = q
  BY <1>1, <1>2, EndedClean
<1>4. /\ h \in Session /\ h.mailFrom = FALSE /\ h.rcptTo = 0 /\ h.old = {}
      /\ h.greeted = TRUE /\ h.authed = q.authed /\ h.isTLS = q.isTLS
  BY <1>1 DEF Session
<1>5. Authorised(h)
  BY <1>1, <1>4 DEF Authorised
<1> HIDE DEF h
<1>6. Ended(h, Envelope) = h
  BY <1>2, <1>4, EndedClean
<1>7. u \in Session /\ u.mailFrom = FALSE /\ u.rcptTo = 0 /\ u.old = {} /\ u.isTLS = TRUE
  BY <1>1 DEF Session
<1> HIDE DEF u
<1>8. /\ v \in Session /\ v.mailFrom = FALSE /\ v.rcptTo = 0 /\ v.old = {}
      /\ v.greeted = FALSE
  BY <1>7 DEF Session
<1> HIDE DEF v
<1>9. /\ w \in Session /\ w.mailFrom = FALSE /\ w.rcptTo = 0 /\ w.old = {}
      /\ w.greeted = FALSE /\ w.authed = FALSE
  BY <1>8 DEF Session
<1>10. t = w
  BY <1>1 DEF Session, u, v
<1> HIDE DEF w, t
<1>11. Authorised(w) /\ Held(w) \cap Facts = {}
  <2>1. Authorised(w)
    BY <1>9 DEF Authorised
  <2>2. Held(w) = {}
    BY <1>9 DEF Held
  <2> QED
    BY <2>1, <2>2
<1>12. Ended(w, Facts) = w
  BY <1>9, <1>11, EndedClean
<1> QED
  BY <1>1, <1>3, <1>4, <1>5, <1>6, <1>9, <1>10, <1>11, <1>12 DEF q, h, t

(* Counting the line, and clearing the envelope, leave a session good.      *)
LEMMA LineGood ==
  ASSUME Safe, NEW s \in Sessions, Command(s)
  PROVE  /\ Good(s, Line(s))
         /\ Good(s, ResetEnvelope(Line(s)))
         /\ Line(s) = [isTLS |-> sess[s].isTLS, greeted |-> sess[s].greeted,
                       authed |-> sess[s].authed,
                       authFailures |-> sess[s].authFailures,
                       mailFrom |-> sess[s].mailFrom, rcptTo |-> sess[s].rcptTo,
                       commands |-> sess[s].commands + 1, old |-> sess[s].old]
         /\ Authorised(sess[s]) /\ sess[s] \in Session
<1> USE LimitsAssumption
    DEF Safe, TypeOK, EnvelopeAuthorised, Command, Line, Session, Authorised
<1>1. sess[s] \in Session /\ Authorised(sess[s])
  OBVIOUS
<1>2. Line(s) \in Session /\ Authorised(Line(s))
  BY <1>1
<1>3. ResetEnvelope(Line(s)) \in Session /\ Authorised(ResetEnvelope(Line(s)))
  BY <1>2, ResetGood
<1>4. Line(s) = [isTLS |-> sess[s].isTLS, greeted |-> sess[s].greeted,
                 authed |-> sess[s].authed, authFailures |-> sess[s].authFailures,
                 mailFrom |-> sess[s].mailFrom, rcptTo |-> sess[s].rcptTo,
                 commands |-> sess[s].commands + 1, old |-> sess[s].old]
  <2> DEFINE q == sess[s]
  <2>1. q \in Session /\ Line(s) = [q EXCEPT !.commands = q.commands + 1]
    BY <1>1
  <2> HIDE DEF q, Safe, TypeOK, EnvelopeAuthorised, Command, Line, Authorised
  <2>2. Line(s) = [isTLS |-> q.isTLS, greeted |-> q.greeted, authed |-> q.authed,
                   authFailures |-> q.authFailures, mailFrom |-> q.mailFrom,
                   rcptTo |-> q.rcptTo, commands |-> q.commands + 1, old |-> q.old]
    BY <2>1
  <2> QED
    BY <2>2 DEF q
<1>5. phase[s] \in {"greeting", "command", "body", "store"}
  OBVIOUS
<1> HIDE DEF Safe, TypeOK, EnvelopeAuthorised, Command, Line, Session, Authorised
<1> QED
  BY <1>1, <1>2, <1>3, <1>4, <1>5 DEF Good

(* Every command keeps the invariant.                                       *)
LEMMA CommandSafe ==
  ASSUME Safe, NEW s \in Sessions, Step(s) PROVE Safe'
<1> USE LimitsAssumption DEF Elsewhere
<1>0. backlog \in Nat /\ late \in Nat /\ backlog + 1 \in Nat /\ late + 1 \in Nat
  BY DEF Safe, TypeOK
<1>1. CASE Disconnect(s) \/ TooManyCommands(s) \/ Quit(s) \/ AuthCut(s) \/ DataCut(s)
  BY <1>0, <1>1, HangupSafe
  DEF Disconnect, TooManyCommands, Quit, AuthCut, DataCut
<1>2. CASE ReplyOnly(s)
  BY <1>0, <1>2, LineGood, ContinueSafe DEF ReplyOnly
<1>3. CASE Rset(s)
  <2>1. /\ Command(s) /\ Line(s) \in Session /\ Authorised(Line(s))
        /\ Good(s, ResetEnvelope(Line(s)))
    BY <1>3, LineGood DEF Rset, Good
  <2>2. Ended(ResetEnvelope(Line(s)), Envelope) = ResetEnvelope(Line(s))
    BY <2>1, NothingKept
  <2> QED
    BY <1>0, <1>3, <2>1, <2>2, ContinueSafe DEF Rset
<1>4. CASE Hello(s)
  <2> DEFINE h == [ResetEnvelope(Line(s)) EXCEPT !.greeted = TRUE]
  <2>1. Good(s, Line(s))
    BY <1>4, LineGood DEF Hello
  <2>2. Good(s, h) /\ Ended(h, Envelope) = h
    BY <2>1, NothingKept DEF Good
  <2> QED
    BY <1>0, <1>4, <2>2, ContinueSafe DEF Hello
<1>5. CASE StartTLS(s)
  <2> DEFINE h == [ResetEnvelope(Line(s)) EXCEPT
                     !.isTLS = TRUE, !.greeted = FALSE, !.authed = FALSE]
  <2>1. Good(s, Line(s))
    BY <1>5, LineGood DEF StartTLS
  <2>2. Good(s, h) /\ Ended(h, Facts) = h
    BY <2>1, NothingKept DEF Good
  <2> QED
    BY <1>0, <1>5, <2>2, ContinueSafe, HangupSafe DEF StartTLS
<1>6. CASE AuthSuccess(s)
  <2> DEFINE r == [Line(s) EXCEPT !.authed = TRUE, !.authFailures = 0]
  <2>1. Good(s, r)
    <3>1. MayAuth(s) /\ Command(s) /\ Line(s) \in Session /\ Authorised(Line(s))
      BY <1>6, LineGood DEF AuthSuccess, MayAuth, Good
    <3>2. r \in Session
      <4> DEFINE l == Line(s)
                 p == [l EXCEPT !.authed = TRUE]
      <4>0. l \in Session
        BY <3>1
      <4> HIDE DEF l
      <4>1. p \in Session
        BY <4>0 DEF Session
      <4>2. [l EXCEPT !.authed = TRUE, !.authFailures = 0]
              = [p EXCEPT !.authFailures = 0]
        BY <4>0 DEF Session
      <4>3. r = [l EXCEPT !.authed = TRUE, !.authFailures = 0]
        BY DEF l
      <4> HIDE DEF p, r
      <4>4. [p EXCEPT !.authFailures = 0] \in Session
        BY <4>1 DEF Session
      <4> QED
        BY <4>2, <4>3, <4>4
    <3>3. /\ r.isTLS = sess[s].isTLS /\ r.rcptTo = Line(s).rcptTo
          /\ r.mailFrom = Line(s).mailFrom /\ r.greeted = Line(s).greeted
          /\ r.authed = TRUE /\ r.old = Line(s).old
      BY <3>1, LineGood DEF Session
    <3>4. Authorised(r)
      BY <3>1, <3>3 DEF Authorised, MayAuth
    <3> QED
      BY <3>1, <3>2, <3>4 DEF Good, Command
  <2> QED
    BY <1>0, <1>6, <2>1, ContinueSafe DEF AuthSuccess
<1>7. CASE AuthFailure(s)
  <2> DEFINE r == [Line(s) EXCEPT !.authFailures = @ + 1]
  <2>1. Good(s, r)
    BY <1>7, LineGood DEF AuthFailure, MayAuth, Good, Session, Authorised
  <2> QED
    BY <1>0, <1>7, <2>1, ContinueSafe DEF AuthFailure
<1>8. CASE Mail(s)
  <2> DEFINE r == [Line(s) EXCEPT !.mailFrom = TRUE]
  <2>1. Good(s, r)
    <3>1. Command(s) /\ Line(s) \in Session /\ Authorised(Line(s))
      BY <1>8, LineGood DEF Mail, Good
    <3>2. r \in Session
      BY <3>1 DEF Session
    <3>3. /\ r.isTLS = Line(s).isTLS /\ r.mailFrom = TRUE
          /\ r.greeted = Line(s).greeted /\ r.authed = Line(s).authed
          /\ r.old = Line(s).old
          /\ Line(s).greeted = sess[s].greeted /\ Line(s).authed = sess[s].authed
      BY <3>1, LineGood DEF Session
    <3>4. Authorised(r)
      BY <1>8, <3>1, <3>3 DEF Authorised, Mail
    <3> QED
      BY <3>1, <3>2, <3>4 DEF Good, Command
  <2> QED
    BY <1>0, <1>8, <2>1, ContinueSafe DEF Mail
<1>9. CASE Rcpt(s)
  <2> DEFINE r == [Line(s) EXCEPT !.rcptTo = @ + 1]
  <2>1. Good(s, r)
    BY <1>9, LineGood DEF Rcpt, Good, Session, Authorised
  <2> QED
    BY <1>0, <1>9, <2>1, ContinueSafe DEF Rcpt
<1>10. CASE Data(s)
  <2>1. Command(s)
    BY <1>10 DEF Data
  <2>2. Line(s) \in Session /\ Authorised(Line(s)) /\ Line(s).rcptTo > 0
    BY <1>10, <2>1, LineGood DEF Data, Good
  <2>3. TypeOK'
    BY <1>10, <2>2 DEF Data, Safe, TypeOK, Open
  <2>4. EnvelopeAuthorised'
    BY <1>10, <2>2 DEF Data, Safe, TypeOK, EnvelopeAuthorised, Authorised, Receiving
  <2> QED
    BY <2>3, <2>4 DEF Safe
<1>11. CASE BodyComplete(s)
  <2>1. TypeOK'
    BY <1>11 DEF BodyComplete, Safe, TypeOK, Open
  <2>2. EnvelopeAuthorised'
    BY <1>11 DEF BodyComplete, Safe, TypeOK, EnvelopeAuthorised, Authorised, Receiving
  <2> QED
    BY <2>1, <2>2 DEF Safe
<1>12. ASSUME phase[s] \in {"body", "store"}
       PROVE  /\ Good(s, sess[s]) /\ Good(s, ResetEnvelope(sess[s]))
              /\ Ended(ResetEnvelope(sess[s]), Envelope) = ResetEnvelope(sess[s])
  <2>1. sess[s] \in Session /\ Authorised(sess[s])
    BY DEF Safe, TypeOK, EnvelopeAuthorised
  <2> QED
    BY <1>12, <2>1, ResetGood, NothingKept DEF Good
<1>13. CASE BodyTooLarge(s)
  <2>1. CASE Hangup(s)
    BY <1>0, <1>13, <2>1, HangupSafe DEF BodyTooLarge
  <2>2. CASE /\ phase' = [phase EXCEPT ![s] = "command"]
             /\ sess' = [sess EXCEPT ![s] = Ended(ResetEnvelope(@), Envelope)]
             /\ inBody' = inBody \ {s}
    <3> DEFINE r == ResetEnvelope(sess[s])
    <3>0. Good(s, r) /\ Ended(r, Envelope) = r
      BY <1>12, <1>13 DEF BodyTooLarge
    <3>1. sess' = [sess EXCEPT ![s] = r]
      BY <2>2, <3>0
    <3> HIDE DEF r
    <3>2. TypeOK'
      BY <1>13, <2>2, <3>0, <3>1 DEF BodyTooLarge, Good, Safe, TypeOK, Open
    <3>3. EnvelopeAuthorised'
      BY <1>13, <2>2, <3>0, <3>1
      DEF BodyTooLarge, Good, Safe, TypeOK, EnvelopeAuthorised, Authorised, Receiving
    <3> QED
      BY <3>2, <3>3 DEF Safe
  <2> QED
    BY <1>13, <2>1, <2>2 DEF BodyTooLarge
<1>14. CASE BodyReadError(s)
  BY <1>0, <1>12, <1>14, ContinueSafe DEF BodyReadError
<1>15. CASE StoreError(s)
  BY <1>0, <1>12, <1>15, ContinueSafe DEF StoreError
<1>16. CASE Store(s)
  BY <1>0, <1>12, <1>16, ContinueSafe DEF Store
<1> QED
  BY <1>1, <1>2, <1>3, <1>4, <1>5, <1>6, <1>7, <1>8, <1>9, <1>10, <1>11, <1>13,
     <1>14, <1>15, <1>16 DEF Step

(* The types and the envelopes survive every step of the server.            *)
LEMMA SafeStep == Safe /\ [Next]_vars => Safe'
<1> SUFFICES ASSUME Safe, [Next]_vars PROVE Safe'
  OBVIOUS
<1>1. ASSUME NEW s \in Sessions, Accept(s) PROVE Safe'
  <2>1. NewSession(s \in ImplicitTLS) \in Session
    BY LimitsAssumption DEF NewSession, Session
  <2>2. Authorised(NewSession(s \in ImplicitTLS))
    BY DEF NewSession, Authorised
  <2>3. TypeOK'
    BY <1>1, <2>1 DEF Accept, Arrives, Elsewhere, Safe, TypeOK, Open
  <2>4. EnvelopeAuthorised'
    BY <1>1, <2>2
    DEF Accept, Elsewhere, Safe, TypeOK, EnvelopeAuthorised, Authorised, Receiving
  <2> QED
    BY <2>3, <2>4 DEF Safe
<1>2. ASSUME NEW s \in Sessions, Greet(s) PROVE Safe'
  <2>1. Good(s, sess[s])
    BY <1>2 DEF Greet, Good, Safe, TypeOK, EnvelopeAuthorised
  <2> QED
    BY <1>2, <2>1, ContinueSafe DEF Greet, Elsewhere, Safe, TypeOK
<1>3. ASSUME NEW s \in Sessions, Step(s) PROVE Safe'
  BY <1>3, CommandSafe
<1>4. ASSUME Drain \/ Signal \/ CloseListeners \/ CutConnections \/ UNCHANGED vars
      PROVE  /\ UNCHANGED <<phase, sess, inBody, late>>
             /\ backlog' \in Nat
             /\ listening' \in BOOLEAN /\ stopping' \in BOOLEAN /\ cut' \in BOOLEAN
  <2>1. /\ backlog \in Nat
        /\ listening \in BOOLEAN /\ stopping \in BOOLEAN /\ cut \in BOOLEAN
    BY DEF Safe, TypeOK
  <2>2. CASE Drain
    BY <2>1, <2>2 DEF Drain
  <2>3. CASE Signal
    BY <2>1, <2>3 DEF Signal
  <2>4. CASE CloseListeners
    BY <2>1, <2>4 DEF CloseListeners
  <2>5. CASE CutConnections
    BY <2>1, <2>5 DEF CutConnections
  <2>6. CASE UNCHANGED vars
    BY <2>1, <2>6 DEF vars
  <2> QED
    BY <1>4, <2>2, <2>3, <2>4, <2>5, <2>6
<1>5. CASE Drain \/ Signal \/ CloseListeners \/ CutConnections \/ UNCHANGED vars
  <2>1. TypeOK'
    BY <1>4, <1>5 DEF Safe, TypeOK, Open
  <2>2. EnvelopeAuthorised'
    BY <1>4, <1>5 DEF Safe, EnvelopeAuthorised, Authorised, Receiving
  <2> QED
    BY <2>1, <2>2 DEF Safe
<1>6. ASSUME NEW s \in Sessions, Refuse(s) PROVE Safe'
  <2>1. TypeOK'
    BY <1>6 DEF Refuse, Arrives, Elsewhere, Safe, TypeOK, Open
  <2>2. EnvelopeAuthorised'
    BY <1>6
    DEF Refuse, Elsewhere, Safe, TypeOK, EnvelopeAuthorised, Authorised, Receiving
  <2> QED
    BY <2>1, <2>2 DEF Safe
<1>7. ASSUME NEW s \in Sessions, RefuseDone(s) PROVE Safe'
  BY <1>7, HangupSafe DEF RefuseDone, Elsewhere, Safe, TypeOK
<1> QED
  BY <1>1, <1>2, <1>3, <1>5, <1>6, <1>7 DEF Next

-----------------------------------------------------------------------------
(* How a session's step moves it among the open, the serving and the        *)
(* receiving ones.                                                          *)
LEMMA StepMoves ==
  ASSUME Safe, NEW s \in Sessions, RefuseDone(s) \/ Greet(s) \/ Step(s)
  PROVE  \/ /\ UNCHANGED <<backlog, stopping, late>>
            /\ Open' \subseteq Open /\ Receiving' \subseteq Receiving
            /\ stopping => Serving' \subseteq Serving
         \/ /\ UNCHANGED <<backlog, stopping, late>>
            /\ backlog < MaxBacklog
            /\ Open' = Open /\ Serving' = Serving /\ Receiving' = Receiving \cup {s}
         \/ /\ backlog' = backlog + 1 /\ UNCHANGED stopping
            /\ late' = IF stopping THEN late + 1 ELSE late
            /\ s \in Receiving /\ s \in Serving /\ Open' \subseteq Open
            /\ Receiving' = Receiving \ {s}
            /\ stopping => Serving' = Serving \ {s}
<1> USE DEF Safe, TypeOK, Open, Serving, Receiving, Elsewhere
<1>1. CASE Data(s)
  BY <1>1 DEF Data, Command
<1>2. CASE Store(s)
  BY <1>2 DEF Store, Continue, Hangup
<1>3. CASE BodyComplete(s)
  BY <1>3 DEF BodyComplete
<1>4. ASSUME \/ Hangup(s)
             \/ ~stopping /\ s \in Open /\ phase' = [phase EXCEPT ![s] = "command"]
             \/ s \in Serving /\ phase' = [phase EXCEPT ![s] = "command"]
      PROVE  /\ Open' \subseteq Open /\ Receiving' \subseteq Receiving
             /\ stopping => Serving' \subseteq Serving
  BY <1>4 DEF Hangup
<1>5. ASSUME Greet(s) \/ RefuseDone(s)
      PROVE  /\ UNCHANGED <<backlog, stopping, late>>
             /\ \/ Hangup(s)
                \/ ~stopping /\ s \in Open /\ phase' = [phase EXCEPT ![s] = "command"]
  BY <1>5 DEF Greet, RefuseDone, Continue
<1>6. ASSUME Step(s), ~Data(s), ~Store(s), ~BodyComplete(s)
      PROVE  /\ UNCHANGED <<backlog, stopping, late>>
             /\ \/ Hangup(s)
                \/ s \in Serving /\ phase' = [phase EXCEPT ![s] = "command"]
  BY <1>6
  DEF Step, Disconnect, TooManyCommands, ReplyOnly, Hello, StartTLS,
      AuthSuccess, AuthFailure, AuthCut, MayAuth, Mail, Rcpt, DataCut, BodyTooLarge,
      BodyReadError, StoreError, Rset, Quit, Command, Continue
<1> QED
  BY <1>1, <1>2, <1>3, <1>4, <1>5, <1>6

(* The three sets are finite, each within the one before.                   *)
LEMMA Counts ==
  /\ IsFiniteSet(Open) /\ IsFiniteSet(Serving) /\ IsFiniteSet(Receiving)
  /\ Cardinality(Open) \in Nat /\ Cardinality(Serving) \in Nat
  /\ Cardinality(Receiving) \in Nat
  /\ Cardinality(Receiving) <= Cardinality(Open)
  /\ Cardinality(Serving) <= Cardinality(Open)
<1>1. Open \subseteq Sessions /\ Receiving \subseteq Open /\ Serving \subseteq Open
  BY DEF Open, Serving, Receiving
<1>2. IsFiniteSet(Open)
  BY <1>1, SessionsAssumption, FS_Subset
<1> QED
  BY <1>1, <1>2, FS_Subset, FS_CardinalityType

(* The same in the next state.                                              *)
LEMMA CountsNext ==
  /\ IsFiniteSet(Open') /\ IsFiniteSet(Serving') /\ IsFiniteSet(Receiving')
  /\ Cardinality(Open') \in Nat /\ Cardinality(Serving') \in Nat
  /\ Cardinality(Receiving') \in Nat
  /\ Cardinality(Receiving') <= Cardinality(Open')
  /\ Cardinality(Serving') <= Cardinality(Open')
<1>1. Open' \subseteq Sessions /\ Receiving' \subseteq Open' /\ Serving' \subseteq Open'
  BY DEF Open, Serving, Receiving
<1>2. IsFiniteSet(Open')
  BY <1>1, SessionsAssumption, FS_Subset
<1> QED
  BY <1>1, <1>2, FS_Subset, FS_CardinalityType

(* The slots and the reservations survive every step: a 354 is given only   *)
(* below the limit, to one of at most MaxConnections sessions, and a store  *)
(* turns a reservation into a row.                                          *)
LEMMA ReservedStep == Safe /\ Reserved /\ [Next]_vars => Reserved'
<1> SUFFICES ASSUME Safe, Reserved, [Next]_vars PROVE Reserved'
  OBVIOUS
<1> USE Counts, CountsNext, LimitsAssumption
<1>0. backlog \in Nat /\ late \in Nat /\ stopping \in BOOLEAN
  BY DEF Safe, TypeOK
<1>1. ASSUME NEW s \in Sessions, Accept(s) PROVE Reserved'
  <2>1. /\ Open' = Open \cup {s} /\ s \notin Open
        /\ Serving' = Serving /\ Receiving' = Receiving
    BY <1>1 DEF Accept, Arrives, Safe, TypeOK, Open, Serving, Receiving
  <2>2. Cardinality(Open') = Cardinality(Open) + 1
    BY <2>1, FS_AddElement
  <2>3. UNCHANGED <<backlog, stopping, late>> /\ Cardinality(Open) < MaxConnections
    BY <1>1 DEF Accept, Elsewhere
  <2> QED
    BY <1>0, <2>1, <2>2, <2>3 DEF Reserved
<1>2. ASSUME NEW s \in Sessions, RefuseDone(s) \/ Greet(s) \/ Step(s) PROVE Reserved'
  <2>1. CASE /\ UNCHANGED <<backlog, stopping, late>>
             /\ Open' \subseteq Open /\ Receiving' \subseteq Receiving
             /\ stopping => Serving' \subseteq Serving
    <3>1. /\ Cardinality(Open') <= Cardinality(Open)
          /\ Cardinality(Receiving') <= Cardinality(Receiving)
          /\ stopping => Cardinality(Serving') <= Cardinality(Serving)
      BY <2>1, FS_Subset
    <3> QED
      BY <1>0, <2>1, <3>1 DEF Reserved
  <2>2. CASE /\ UNCHANGED <<backlog, stopping, late>>
             /\ backlog < MaxBacklog
             /\ Open' = Open /\ Serving' = Serving /\ Receiving' = Receiving \cup {s}
    BY <1>0, <2>2 DEF Reserved
  <2>3. CASE /\ backlog' = backlog + 1 /\ UNCHANGED stopping
             /\ late' = IF stopping THEN late + 1 ELSE late
             /\ s \in Receiving /\ s \in Serving /\ Open' \subseteq Open
             /\ Receiving' = Receiving \ {s}
             /\ stopping => Serving' = Serving \ {s}
    <3>1. Cardinality(Receiving') = Cardinality(Receiving) - 1
      BY <2>3, FS_RemoveElement
    <3>2. Cardinality(Open') <= Cardinality(Open)
      BY <2>3, FS_Subset
    <3>3. stopping => Cardinality(Serving') = Cardinality(Serving) - 1
      BY <2>3, FS_RemoveElement
    <3> QED
      BY <1>0, <2>3, <3>1, <3>2, <3>3 DEF Reserved
  <2> QED
    BY <1>2, <2>1, <2>2, <2>3, StepMoves
<1>3. ASSUME NEW s \in Sessions, Refuse(s) PROVE Reserved'
  <2>1. Open' = Open /\ Serving' = Serving /\ Receiving' = Receiving
    BY <1>3 DEF Refuse, Arrives, Safe, TypeOK, Open, Serving, Receiving
  <2>2. UNCHANGED <<backlog, stopping, late>>
    BY <1>3 DEF Refuse, Elsewhere
  <2> QED
    BY <1>0, <2>1, <2>2 DEF Reserved
<1>4. CASE Drain \/ Signal \/ CloseListeners \/ CutConnections \/ UNCHANGED vars
  <2>1. /\ UNCHANGED <<phase, late>> /\ backlog' <= backlog /\ backlog' \in Nat
        /\ ~stopping' => ~stopping
    BY <1>0, <1>4 DEF Drain, Signal, CloseListeners, CutConnections, vars
  <2>2. Open' = Open /\ Serving' = Serving /\ Receiving' = Receiving
    BY <2>1 DEF Open, Serving, Receiving
  <2> QED
    BY <1>0, <2>1, <2>2 DEF Reserved
<1> QED
  BY <1>1, <1>2, <1>3, <1>4 DEF Next

-----------------------------------------------------------------------------
(* The inductive invariant holds in every reachable state.                  *)
THEOREM SessionInvariant == Spec => [](Safe /\ Reserved)
<1>1. Init => Safe /\ Reserved
  <2> SUFFICES ASSUME Init PROVE Safe /\ Reserved
    OBVIOUS
  <2>1. NewSession(FALSE) \in Session /\ Authorised(NewSession(FALSE))
    BY LimitsAssumption DEF NewSession, Session, Authorised
  <2>2. Safe
    BY <2>1 DEF Init, Safe, TypeOK, Open, EnvelopeAuthorised, Authorised, Receiving
  <2>3. Open = {} /\ Serving = {} /\ Receiving = {}
    BY DEF Init, Open, Serving, Receiving
  <2>4. Reserved
    BY <2>3, FS_EmptySet, LimitsAssumption DEF Init, Reserved
  <2> QED
    BY <2>2, <2>4
<1>2. Safe /\ Reserved /\ [Next]_vars => (Safe /\ Reserved)'
  BY SafeStep, ReservedStep
<1> QED
  BY <1>1, <1>2, PTL DEF Spec

(* Sessions keep their types: three strikes, the recipient limit and the    *)
(* command limit hold in every interleaving.                                *)
THEOREM SessionTypes == Spec => []TypeOK
<1>1. Safe => TypeOK
  BY DEF Safe
<1> QED
  BY <1>1, SessionInvariant, PTL

(* No message is taken from, and no envelope opened by, a client that was   *)
(* not greeted and authenticated on its present channel, and no envelope    *)
(* holds what an earlier transaction of its session was given.              *)
THEOREM EnvelopesAreAuthorised == Spec => []EnvelopeAuthorised
<1>1. Safe => EnvelopeAuthorised
  BY DEF Safe
<1> QED
  BY <1>1, SessionInvariant, PTL

(* The queue never outgrows QUEUE_MAX_BACKLOG by SMTP_MAX_CONNECTIONS,      *)
(* although the limit is checked long before the INSERT.                    *)
THEOREM BacklogIsBounded == Spec => []BacklogBounded
<1>1. Safe /\ Reserved => BacklogBounded
  BY Counts, LimitsAssumption DEF Safe, TypeOK, Reserved, BacklogBounded
<1> QED
  BY <1>1, SessionInvariant, PTL

(* After SIGTERM at most one message per serving session is still stored.   *)
THEOREM LateMessagesAreBounded == Spec => []LateMessagesBounded
<1>1. Reserved => LateMessagesBounded
  BY DEF Reserved, LateMessagesBounded
<1> QED
  BY <1>1, SessionInvariant, PTL

-----------------------------------------------------------------------------
\* The stages Admission sees.
Stages == [s \in Sessions |-> Standing(phase[s])]

(* A step that changes one session's phase changes its stage alone.         *)
LEMMA StageMoves ==
  ASSUME Safe, NEW s \in Sessions, NEW p, phase' = [phase EXCEPT ![s] = p]
  PROVE  Stages' = [Stages EXCEPT ![s] = Standing(p)]
<1>1. phase \in [Sessions -> {"closed", "refused", "greeting", "command", "body", "store"}]
  BY DEF Safe, TypeOK
<1>2. \A t \in Sessions : phase'[t] = IF t = s THEN p ELSE phase[t]
  BY <1>1
<1>3. \A t \in Sessions : Standing(phase'[t]) = IF t = s THEN Standing(p) ELSE Stages[t]
  BY <1>2 DEF Stages
<1> QED
  BY <1>3 DEF Stages

(* The steps of the server are steps of Admission.                          *)
LEMMA AdmissionStep == Safe /\ Reserved /\ [Next]_vars => [A!Next]_(A!vars)
<1> SUFFICES ASSUME Safe, Reserved, [Next]_vars PROVE A!Next \/ UNCHANGED A!vars
  OBVIOUS
<1>0. A!Inside = Serving
  BY DEF A!Inside, Serving, Standing
<1>1. ASSUME NEW s \in Sessions, ~stopping, Stages[s] = "away",
             Cardinality(Serving) < MaxConnections,
             Stages' = [Stages EXCEPT ![s] = "ready"], UNCHANGED <<backlog, stopping>>
      PROVE  A!Next
  <2>0. A!Cardinality(A!Inside) < MaxConnections
    BY <1>0, <1>1 DEF A!Cardinality, Cardinality
  <2>1. A!Admit(s)
    BY <1>1, <2>0 DEF A!Admit, Stages
  <2> QED
    BY <2>1 DEF A!Next
<1>2. ASSUME NEW s \in Sessions, Stages[s] # "away",
             Stages' = [Stages EXCEPT ![s] = "away"], UNCHANGED <<backlog, stopping>>
      PROVE  A!Next
  BY <1>2 DEF A!Next, A!Leave, Stages
<1>3. ASSUME NEW s \in Sessions, ~stopping, Stages[s] = "receiving",
             Stages' = [Stages EXCEPT ![s] = "ready"], UNCHANGED <<backlog, stopping>>
      PROVE  A!Next
  BY <1>3 DEF A!Next, A!GiveUp, Stages
<1>4. ASSUME Stages' = Stages, UNCHANGED <<backlog, stopping>> PROVE UNCHANGED A!vars
  BY <1>4 DEF A!vars, Stages
<1>5. /\ Stages \in [Sessions -> {"away", "ready", "receiving"}]
      /\ \A s \in Sessions : Stages[s] = Standing(phase[s])
      /\ DOMAIN Stages = Sessions
  BY DEF Stages, Standing
<1>6. ASSUME NEW s \in Sessions, NEW p,
             phase' = [phase EXCEPT ![s] = p], Standing(p) = Stages[s],
             UNCHANGED <<backlog, stopping>>
      PROVE  UNCHANGED A!vars
  <2>1. Stages' = [Stages EXCEPT ![s] = Stages[s]]
    BY <1>6, StageMoves
  <2>2. Stages' = Stages
    BY <1>5, <2>1
  <2> QED
    BY <1>4, <1>6, <2>2
<1>7. ASSUME NEW s \in Sessions, Hangup(s), UNCHANGED <<backlog, stopping>>
      PROVE  A!Next \/ UNCHANGED A!vars
  BY <1>2, <1>5, <1>6, <1>7, StageMoves DEF Hangup, Standing
<1>8. ASSUME NEW s \in Sessions, s \in Serving, ~stopping,
             phase' = [phase EXCEPT ![s] = "command"], UNCHANGED <<backlog, stopping>>
      PROVE  A!Next \/ UNCHANGED A!vars
  <2>1. Stages' = [Stages EXCEPT ![s] = "ready"]
    BY <1>8, StageMoves DEF Standing
  <2>2. Stages[s] \in {"ready", "receiving"}
    BY <1>5, <1>8 DEF Serving, Standing
  <2> QED
    BY <1>3, <1>4, <1>5, <1>8, <2>1, <2>2
<1>9. ASSUME NEW s \in Sessions, Accept(s) \/ Refuse(s) \/ RefuseDone(s) \/ Greet(s)
      PROVE  A!Next \/ UNCHANGED A!vars
  <2> USE DEF Elsewhere
  <2>1. CASE Accept(s)
    BY <1>5, <1>6, <2>1 DEF Accept, Arrives, Standing
  <2>2. CASE Refuse(s)
    BY <1>5, <1>6, <2>2 DEF Refuse, Arrives, Standing
  <2>3. CASE RefuseDone(s)
    BY <1>7, <2>3 DEF RefuseDone
  <2>4. CASE Greet(s)
    <3>1. UNCHANGED <<backlog, stopping>> /\ phase[s] = "greeting"
      BY <2>4 DEF Greet
    <3>2. CASE Hangup(s)
      BY <1>7, <3>1, <3>2
    <3>3. CASE ~stopping /\ phase' = [phase EXCEPT ![s] = "command"]
      <4>1. Stages' = [Stages EXCEPT ![s] = "ready"] /\ Stages[s] = "away"
        BY <1>5, <3>1, <3>3, StageMoves DEF Standing
      <4>2. Serving \subseteq Open /\ s \in Open /\ s \notin Serving
        BY <3>1 DEF Serving, Open
      <4>3. Cardinality(Serving) < MaxConnections
        <5>1. Serving \subseteq Open \ {s}
          BY <4>2
        <5>2. IsFiniteSet(Open \ {s}) /\ Cardinality(Open \ {s}) = Cardinality(Open) - 1
          BY <4>2, Counts, FS_RemoveElement
        <5>3. Cardinality(Serving) <= Cardinality(Open) - 1
          BY <5>1, <5>2, FS_Subset
        <5> QED
          BY <5>3, Counts, LimitsAssumption DEF Reserved
      <4> QED
        BY <1>1, <3>1, <3>3, <4>1, <4>3
    <3> QED
      BY <2>4, <3>2, <3>3 DEF Greet, Continue
  <2> QED
    BY <1>9, <2>1, <2>2, <2>3, <2>4
<1>10. ASSUME NEW s \in Sessions, Data(s) PROVE A!Next
  <2>1. /\ phase[s] = "command" /\ phase' = [phase EXCEPT ![s] = "body"]
        /\ backlog < MaxBacklog /\ UNCHANGED <<backlog, stopping>>
    BY <1>10 DEF Data, Command, Elsewhere
  <2>2. Stages[s] = "ready" /\ Stages' = [Stages EXCEPT ![s] = "receiving"]
    BY <1>5, <2>1, StageMoves DEF Standing
  <2> QED
    BY <2>1, <2>2 DEF A!Next, A!Receive, Stages
<1>11. ASSUME NEW s \in Sessions, BodyComplete(s) PROVE UNCHANGED A!vars
  BY <1>5, <1>6, <1>11 DEF BodyComplete, Elsewhere, Standing
<1>12. ASSUME NEW s \in Sessions, Store(s) PROVE A!Next
  <2>1. phase[s] = "store" /\ backlog' = backlog + 1 /\ UNCHANGED stopping
    BY <1>12 DEF Store
  <2>2. phase' = [phase EXCEPT ![s] = IF stopping THEN "closed" ELSE "command"]
    BY <1>12 DEF Store, Continue, Hangup
  <2>3. /\ Stages[s] = "receiving"
        /\ Stages' = [Stages EXCEPT ![s] = IF stopping THEN "away" ELSE "ready"]
    <3>1. Stages[s] = "receiving"
      BY <1>5, <2>1 DEF Standing
    <3>2. CASE stopping
      <4>1. phase' = [phase EXCEPT ![s] = "closed"]
        BY <2>2, <3>2
      <4>2. Standing("closed") = "away"
        BY DEF Standing
      <4>3. Stages' = [Stages EXCEPT ![s] = Standing("closed")]
        BY <4>1, StageMoves
      <4> QED
        BY <3>1, <3>2, <4>2, <4>3
    <3>3. CASE ~stopping
      <4>1. phase' = [phase EXCEPT ![s] = "command"]
        BY <2>2, <3>3
      <4>2. Standing("command") = "ready"
        BY DEF Standing
      <4>3. Stages' = [Stages EXCEPT ![s] = Standing("command")]
        BY <4>1, StageMoves
      <4> QED
        BY <3>1, <3>3, <4>2, <4>3
    <3> QED
      BY <3>2, <3>3
  <2> QED
    BY <2>1, <2>3 DEF A!Next, A!Insert, Stages
<1>13. ASSUME NEW s \in Sessions, Step(s), ~Data(s), ~Store(s), ~BodyComplete(s)
       PROVE  A!Next \/ UNCHANGED A!vars
  <2>1. /\ UNCHANGED <<backlog, stopping>>
        /\ \/ Hangup(s)
           \/ s \in Serving /\ ~stopping /\ phase' = [phase EXCEPT ![s] = "command"]
    <3> USE DEF Continue
    <3>1. CASE BodyTooLarge(s)
      BY <3>1 DEF BodyTooLarge, Elsewhere, Serving
    <3>2. CASE BodyReadError(s) \/ StoreError(s)
      BY <3>2 DEF BodyReadError, StoreError, Elsewhere, Serving
    <3>3. CASE Disconnect(s) \/ TooManyCommands(s) \/ AuthCut(s) \/ DataCut(s) \/ Quit(s)
      BY <3>3 DEF Disconnect, TooManyCommands, AuthCut, DataCut, Quit, Elsewhere
    <3>4. CASE \/ ReplyOnly(s) \/ Hello(s) \/ StartTLS(s) \/ AuthSuccess(s)
               \/ AuthFailure(s) \/ Mail(s) \/ Rcpt(s) \/ Rset(s)
      BY <3>4 DEF ReplyOnly, Hello, StartTLS, AuthSuccess, AuthFailure, MayAuth, Mail,
                  Rcpt, Rset, Command, Elsewhere, Serving
    <3> QED
      BY <1>13, <3>1, <3>2, <3>3, <3>4 DEF Step
  <2> QED
    BY <1>7, <1>8, <2>1
<1>14. CASE Drain
  BY <1>14 DEF Drain, A!Next, A!Drain, A!vars
<1>15. CASE Signal
  BY <1>15 DEF Signal, A!Next, A!Signal
<1>16. CASE CloseListeners \/ CutConnections \/ UNCHANGED vars
  BY <1>4, <1>16 DEF CloseListeners, CutConnections, vars, Stages
<1> QED
  BY <1>9, <1>10, <1>11, <1>12, <1>13, <1>14, <1>15, <1>16 DEF Next

(* Every step of the front end, with any number of clients and for every    *)
(* value of the limits, is a step that Admission allows or a stutter.       *)
THEOREM FrontEndKeepsAdmission == Spec => AdmissionSteps
<1>1. Init => A!Init
  BY DEF Init, A!Init, Standing
<1>2. Safe /\ Reserved /\ [Next]_vars => [A!Next]_(A!vars)
  BY AdmissionStep
<1> QED
  BY <1>1, <1>2, SessionInvariant, PTL DEF Spec, AdmissionSteps
-----------------------------------------------------------------------------
\* What a served session has left to spend: a command line, and then the parts
\* of a DATA.
Rest(p) == IF p = "body" THEN 2 ELSE IF p = "store" THEN 1 ELSE 0

Left(s) == 3 * (MaxCommands - sess[s].commands) + Rest(phase[s])

\* A step ends the session, leaves it alone, or spends some of what it has left.
Spends(s) == \/ phase'[s] = "closed"
             \/ phase'[s] = phase[s] /\ sess'[s] = sess[s]
             \/ s \in Serving' /\ Left(s)' < Left(s)

\* Failed AUTHs of a connection are forgotten only by its success or its end.
Remembers(s) == \/ phase'[s] = "closed" \/ AuthSuccess(s)
                \/ sess'[s].authFailures >= sess[s].authFailures

(* What is left of a session is a number, and bounded.                      *)
LEMMA LeftBounded ==
  ASSUME Safe, NEW s \in Sessions
  PROVE  /\ Left(s) \in 0..(3 * MaxCommands + 2)
         /\ sess[s].commands \in 0..MaxCommands /\ sess[s].authFailures \in 0..3
<1>1. sess[s] \in Session
  BY DEF Safe, TypeOK
<1>2. sess[s].commands \in 0..MaxCommands /\ sess[s].authFailures \in 0..3
  BY <1>1 DEF Session
<1> QED
  BY <1>2, LimitsAssumption DEF Left, Rest

(* Each of a session's own steps spends, and remembers its failures.        *)
LEMMA StepSpends ==
  ASSUME Safe, NEW s \in Sessions, Step(s), phase[s] # "greeting"
  PROVE  Spends(s) /\ Remembers(s)
<1> DEFINE n == sess[s].commands
           f == sess[s].authFailures
<1>0. /\ n \in 0..MaxCommands /\ f \in 0..3 /\ MaxCommands \in Nat
      /\ phase \in [Sessions -> {"closed", "refused", "greeting", "command",
                                 "body", "store"}]
      /\ sess \in [Sessions -> Session]
  BY LeftBounded, LimitsAssumption DEF Safe, TypeOK
<1> HIDE DEF n, f
<1>1. CASE Hangup(s)
  BY <1>0, <1>1 DEF Hangup, Spends, Remembers
<1>2. ASSUME NEW r, NEW q \in {"command", "body", "store"},
             phase' = [phase EXCEPT ![s] = q], sess' = [sess EXCEPT ![s] = r],
             \/ r.commands = n + 1 /\ n + 1 <= MaxCommands /\ phase[s] = "command"
             \/ r.commands = n /\ Rest(q) < Rest(phase[s])
      PROVE  Spends(s)
  <2>1. phase'[s] = q /\ sess'[s].commands = r.commands
    BY <1>0, <1>2
  <2>2. s \in Serving'
    BY <1>2, <2>1 DEF Serving
  <2>3. Left(s) = 3 * (MaxCommands - n) + Rest(phase[s])
        /\ Left(s)' = 3 * (MaxCommands - r.commands) + Rest(q)
    BY <2>1 DEF Left, n
  <2>4. Rest(q) \in 0..2 /\ Rest(phase[s]) \in 0..2
    BY DEF Rest
  <2>5. Left(s)' < Left(s)
    BY <1>0, <1>2, <2>3, <2>4 DEF Rest
  <2> QED
    BY <2>2, <2>5 DEF Spends
<1>3. ASSUME NEW r, sess' = [sess EXCEPT ![s] = r], r.authFailures \in {f, f + 1}
      PROVE  Remembers(s)
  <2>1. sess'[s].authFailures = r.authFailures
    BY <1>0, <1>3
  <2> QED
    BY <1>0, <1>3, <2>1 DEF Remembers, f
<1>4. ASSUME Command(s)
      PROVE  /\ n + 1 <= MaxCommands /\ phase[s] = "command"
             /\ Line(s).commands = n + 1 /\ Line(s).authFailures = f
             /\ Line(s) \in Session
             /\ ResetEnvelope(Line(s)).commands = n + 1
             /\ ResetEnvelope(Line(s)).authFailures = f
             /\ ResetEnvelope(Line(s)) \in Session
  <2>1. n < MaxCommands /\ phase[s] = "command"
    BY <1>4 DEF Command, n
  <2>2. Line(s).commands = n + 1 /\ Line(s).authFailures = f
    BY <1>4, LineGood DEF n, f
  <2>3. Line(s) \in Session /\ ResetEnvelope(Line(s)) \in Session
    BY <1>4, LineGood DEF Good
  <2>4. /\ ResetEnvelope(Line(s)).commands = Line(s).commands
        /\ ResetEnvelope(Line(s)).authFailures = Line(s).authFailures
    BY <2>3 DEF ResetEnvelope, Session
  <2> QED
    BY <1>0, <2>1, <2>2, <2>3, <2>4
<1>5. ASSUME NEW r, Command(s), Continue(s, r), r.commands = n + 1
      PROVE  Spends(s)
  BY <1>1, <1>2, <1>4, <1>5 DEF Continue
<1>6. ASSUME NEW r, Continue(s, r), r.authFailures \in {f, f + 1} PROVE Remembers(s)
  BY <1>1, <1>3, <1>6 DEF Continue
<1>7. ASSUME Command(s), ReplyOnly(s) \/ Hello(s) \/ StartTLS(s) \/ Rset(s)
      PROVE  Spends(s) /\ Remembers(s)
  <2> DEFINE l == Line(s)
             v == ResetEnvelope(l)
             h == [v EXCEPT !.greeted = TRUE]
             t == [v EXCEPT !.isTLS = TRUE, !.greeted = FALSE, !.authed = FALSE]
  <2>1. /\ l.commands = n + 1 /\ l.authFailures = f
        /\ v \in Session /\ v.commands = n + 1 /\ v.authFailures = f
    BY <1>4, <1>7
  <2>2. Ended(v, Envelope) = v /\ Ended(h, Envelope) = h /\ Ended(t, Facts) = t
    BY <1>7, LineGood, NothingKept DEF Good
  <2>3. \/ Hangup(s) \/ Continue(s, l) \/ Continue(s, v)
        \/ Continue(s, h) \/ Continue(s, t)
    BY <1>7, <2>2 DEF ReplyOnly, Hello, StartTLS, Rset
  <2> HIDE DEF v, l
  <2>4. h.commands = n + 1 /\ h.authFailures = f
    BY <2>1 DEF Session
  <2>5. t.commands = n + 1 /\ t.authFailures = f
    BY <2>1 DEF Session
  <2> HIDE DEF h, t
  <2> QED
    BY <1>1, <1>5, <1>6, <1>7, <2>1, <2>3, <2>4, <2>5
<1>8. ASSUME Command(s), AuthFailure(s) \/ Mail(s) \/ Rcpt(s)
      PROVE  Spends(s) /\ Remembers(s)
  <2> DEFINE l == Line(s)
             a == [l EXCEPT !.authFailures = @ + 1]
             m == [l EXCEPT !.mailFrom = TRUE]
             c == [l EXCEPT !.rcptTo = @ + 1]
  <2>1. l \in Session /\ l.commands = n + 1 /\ l.authFailures = f
    BY <1>4, <1>8
  <2>2. Continue(s, a) \/ Continue(s, m) \/ Continue(s, c)
    BY <1>8 DEF AuthFailure, Mail, Rcpt
  <2> HIDE DEF l
  <2>3. /\ a.commands = n + 1 /\ a.authFailures = f + 1
        /\ m.commands = n + 1 /\ m.authFailures = f
        /\ c.commands = n + 1 /\ c.authFailures = f
    BY <2>1 DEF Session
  <2> HIDE DEF a, m, c
  <2> QED
    BY <1>5, <1>6, <1>8, <2>2, <2>3
<1>9. CASE AuthSuccess(s)
  <2> DEFINE l == Line(s)
             a == [l EXCEPT !.authed = TRUE, !.authFailures = 0]
  <2>1. Command(s) /\ Continue(s, a)
    BY <1>9 DEF AuthSuccess, MayAuth
  <2>2. l \in Session /\ l.commands = n + 1
    BY <1>4, <2>1
  <2> HIDE DEF l
  <2>3. a.commands = n + 1
    BY <2>2 DEF Session
  <2> HIDE DEF a
  <2> QED
    BY <1>5, <1>9, <2>1, <2>3 DEF Remembers
<1>10. CASE Data(s)
  <2>1. Command(s) /\ phase' = [phase EXCEPT ![s] = "body"]
        /\ sess' = [sess EXCEPT ![s] = Line(s)]
    BY <1>10 DEF Data
  <2> QED
    BY <1>2, <1>3, <1>4, <2>1
<1>11. CASE BodyComplete(s)
  <2>1. /\ phase[s] = "body" /\ phase' = [phase EXCEPT ![s] = "store"]
        /\ sess' = [sess EXCEPT ![s] = sess[s]]
    BY <1>0, <1>11 DEF BodyComplete
  <2>2. sess[s].commands = n /\ sess[s].authFailures = f
    BY DEF n, f
  <2>3. Rest("store") < Rest("body")
    BY DEF Rest
  <2> QED
    BY <1>2, <1>3, <2>1, <2>2, <2>3
<1>12. CASE BodyTooLarge(s) \/ BodyReadError(s) \/ Store(s) \/ StoreError(s)
  <2>1. phase[s] \in {"body", "store"}
    BY <1>12 DEF BodyTooLarge, BodyReadError, Store, StoreError
  <2>2. /\ sess[s].commands = n /\ sess[s].authFailures = f
        /\ ResetEnvelope(sess[s]).commands = n
        /\ ResetEnvelope(sess[s]).authFailures = f
    BY <1>0 DEF n, f, ResetEnvelope, Session
  <2>3. Ended(ResetEnvelope(sess[s]), Envelope) = ResetEnvelope(sess[s])
    BY <1>0, NothingKept DEF Safe, EnvelopeAuthorised
  <2>4. \/ Hangup(s)
        \/ \E r : /\ r.commands = n /\ r.authFailures = f
                  /\ phase' = [phase EXCEPT ![s] = "command"]
                  /\ sess' = [sess EXCEPT ![s] = r]
    BY <1>12, <2>2, <2>3 DEF BodyTooLarge, BodyReadError, Store, StoreError, Continue
  <2>5. Rest("command") < Rest(phase[s])
    BY <2>1 DEF Rest
  <2> QED
    BY <1>1, <1>2, <1>3, <2>4, <2>5
<1>13. CASE Disconnect(s) \/ TooManyCommands(s) \/ AuthCut(s) \/ DataCut(s) \/ Quit(s)
  BY <1>1, <1>13 DEF Disconnect, TooManyCommands, AuthCut, DataCut, Quit
<1>14. /\ ReplyOnly(s) \/ Hello(s) \/ StartTLS(s) \/ Rset(s) => Command(s)
       /\ AuthFailure(s) \/ Mail(s) \/ Rcpt(s) => Command(s)
  BY DEF ReplyOnly, Hello, StartTLS, Rset, AuthFailure, MayAuth, Mail, Rcpt
<1> QED
  BY <1>7, <1>8, <1>9, <1>10, <1>11, <1>12, <1>13, <1>14 DEF Step

(* Nothing but a session's own steps touches it while it is served.         *)
LEMMA NextSpends ==
  ASSUME Safe, [Next]_vars, NEW s \in Serving
  PROVE  Spends(s) /\ Remembers(s)
<1>0. /\ s \in Sessions /\ phase[s] \in {"command", "body", "store"}
      /\ phase \in [Sessions -> {"closed", "refused", "greeting", "command",
                                 "body", "store"}]
      /\ sess \in [Sessions -> Session]
  BY DEF Serving, Safe, TypeOK
<1>1. CASE phase'[s] = phase[s] /\ sess'[s] = sess[s]
  BY <1>0, <1>1, LeftBounded DEF Spends, Remembers
<1>2. ASSUME NEW t \in Sessions,
             Accept(t) \/ Refuse(t) \/ RefuseDone(t) \/ Greet(t)
      PROVE  phase'[s] = phase[s] /\ sess'[s] = sess[s]
  BY <1>0, <1>2 DEF Accept, Refuse, RefuseDone, Greet, Arrives, Continue, Hangup
<1>3. ASSUME NEW t \in Sessions, Step(t), t # s
      PROVE  phase'[s] = phase[s] /\ sess'[s] = sess[s]
  BY <1>0, <1>3
  DEF Step, Disconnect, TooManyCommands, ReplyOnly, Hello, StartTLS, AuthSuccess,
      AuthFailure, AuthCut, Mail, Rcpt, Data, DataCut, BodyComplete, BodyTooLarge,
      BodyReadError, Store, StoreError, Rset, Quit, Continue, Hangup
<1>4. ASSUME Step(s) PROVE Spends(s) /\ Remembers(s)
  BY <1>0, <1>4, StepSpends
<1>5. ASSUME Drain \/ Signal \/ CloseListeners \/ CutConnections \/ UNCHANGED vars
      PROVE  phase'[s] = phase[s] /\ sess'[s] = sess[s]
  BY <1>5 DEF Drain, Signal, CloseListeners, CutConnections, vars
<1> QED
  BY <1>1, <1>2, <1>3, <1>4, <1>5 DEF Next

(* Why sessions end: whatever a client sends, each step of a served session *)
(* ends it or spends part of a bounded budget, 3 * (the commands left) + 2  *)
(* at most.  This is the variant under ConnectionsEnd and ShutdownDrains.   *)
THEOREM SessionsWearOut ==
  Spec => /\ [](\A s \in Serving : Left(s) \in 0..(3 * MaxCommands + 2))
          /\ [][\A s \in Serving : Spends(s)]_vars
<1>1. Safe => \A s \in Serving : Left(s) \in 0..(3 * MaxCommands + 2)
  BY LeftBounded DEF Serving
<1>2. Safe /\ [Next]_vars => [\A s \in Serving : Spends(s)]_vars
  BY NextSpends
<1> QED
  BY <1>1, <1>2, SessionInvariant, PTL DEF Spec

(* The limit of three failed AUTHs is a connection's: no EHLO, STARTTLS,    *)
(* RSET or message gives a client attempts back, only a success does.       *)
THEOREM FailuresAreRemembered == Spec => [][\A s \in Serving : Remembers(s)]_vars
<1>1. Safe /\ [Next]_vars => [\A s \in Serving : Remembers(s)]_vars
  BY NextSpends
<1> QED
  BY <1>1, SessionInvariant, PTL DEF Spec
=============================================================================
