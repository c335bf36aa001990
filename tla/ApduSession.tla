---------------------------- MODULE ApduSession ----------------------------
(***************************************************************************)
(* Sessions on the SIM card: a connection to qmi-proxy, a client id, a     *)
(* logical channel, some APDUs, and both given back.  The modem answers    *)
(* the requests of a connection in order, sometimes after the session has  *)
(* stopped to wait; the session compares the kind of an answer with the    *)
(* kind it waits for, and not the transaction.  Services hold the arbiter  *)
(* of the device; the functions that take a proxy do not, and retry.       *)
(***************************************************************************)
EXTENDS Naturals, Sequences, Functions

CONSTANTS
  Sims,         \* who uses the card
  Lines,        \* the logical channels of the card
  MaxExchanges, \* MAX_APDU_EXCHANGES
  Attempts,     \* QmiUimRetryPolicy::attempts
  MaxSessions   \* bound on sessions, timeouts and refusals together

NoLine == "no channel"

ASSUME ApduAssumption ==
  /\ NoLine \notin Lines /\ "none" \notin Sims
  /\ {MaxExchanges, Attempts} \subseteq Nat \ {0} /\ MaxSessions \in Nat

\* UsimAuthService and EuiccService, with or without an APDU; the function that
\* retries; the one that does not; the check of the application, without an APDU
Uses    == {"service", "retried", "single", "verify"}
Phases   == {"client", "open", "apdu", "close", "release"}
Ask     == [kind : Phases, line : Lines \cup {NoLine}, tag : Nat]
Answer  == [kind : Phases, line : Lines \cup {NoLine}, tag : Nat, ok : BOOLEAN, more : BOOLEAN]

VARIABLES
  session,  \* what each user does, with its connection: out was asked and not
            \* done, in was answered and not read
  stray,    \* external: requests of closed connections
  open,     \* external: the channels that are open, and for whom
  arbiter,
  leaked,   \* history: channels opened too late, left open by a use that ended,
            \* or not closed when asked to
  sessions

simCard == <<session, stray, open, arbiter, leaked, sessions>>

Unused == [at |-> "idle", use |-> "service", line |-> NoLine, tag |-> 0, parts |-> 0, try |-> 1,
            ok |-> TRUE, out |-> << >>, in |-> << >>]

ApduTypeOK ==
  /\ \A u \in Sims :
       /\ session[u] \in [at : Phases \cup {"idle", "lock"}, use : Uses, line : Lines \cup {NoLine},
                          tag : Nat, parts : 0..MaxExchanges, try : 1..Attempts, ok : BOOLEAN,
                          out : Seq(Ask), in : Seq(Answer)]
       /\ stray[u] \in Seq(Ask)
  /\ DOMAIN open \subseteq Lines /\ Range(open) \subseteq Sims
  /\ arbiter \in Sims \cup {"none"}
  /\ arbiter # "none" => session[arbiter].use = "service" /\ session[arbiter].at \in Phases
  /\ leaked \subseteq Lines
  /\ sessions \in 0..MaxSessions

ApduInit ==
  /\ session = [u \in Sims |-> Unused]
  /\ stray = [u \in Sims |-> << >>]
  /\ open = << >> /\ arbiter = "none" /\ leaked = {} /\ sessions = 0

Budget == sessions < MaxSessions /\ sessions' = sessions + 1

-----------------------------------------------------------------------------
(* The session *)

\* send_and_recv: the request of this kind is written, and its answer awaited.
Asking(s, kind) ==
  [s EXCEPT !.at = kind, !.tag = @ + 1,
            !.out = Append(@, [kind |-> kind, line |-> s.line, tag |-> s.tag + 1])]

GoesOn(u, s, kind) ==
  /\ session' = [session EXCEPT ![u] = Asking(s, kind)]
  /\ UNCHANGED <<stray, arbiter>>

\* Mutant: a session that ends keeps the arbiter.
ClosesHolding(u, s) ==
  /\ stray' = [stray EXCEPT ![u] = @ \o s.out]
  /\ session' = [session EXCEPT ![u] = Unused]
  /\ UNCHANGED arbiter

\* The connection is closed; the modem may still do what it was asked.  The
\* functions that retry make a failed attempt again, unless its reason is final.
Closes(u, s) ==
  /\ stray' = [stray EXCEPT ![u] = @ \o s.out]
  /\ \/ session' = [session EXCEPT ![u] = Unused]
     \/ /\ ~s.ok /\ s.use \in {"retried", "verify"} /\ s.try < Attempts
        /\ session' = [session EXCEPT ![u] =
                         Asking([Unused EXCEPT !.use = s.use, !.try = s.try + 1], "client")]
  /\ arbiter' = IF arbiter = u THEN "none" ELSE arbiter

StartSession(u, use) ==
  /\ session[u].at = "idle"
  /\ Budget
  /\ session' = [session EXCEPT ![u] = IF use = "service"
                                       THEN [Unused EXCEPT !.at = "lock"]
                                       ELSE Asking([Unused EXCEPT !.use = use], "client")]
  /\ UNCHANGED <<stray, open, arbiter, leaked>>

TakeArbiter(u) ==
  /\ session[u].at = "lock" /\ arbiter = "none"
  /\ arbiter' = u
  /\ session' = [session EXCEPT ![u] = Asking(@, "client")]
  /\ UNCHANGED <<stray, open, leaked, sessions>>

\* The parts of an answer that a session asks for: of a longer one, or with a
\* corrected length
MaxParts(use) == CASE use = "service" -> MaxExchanges [] use = "retried" -> 2 [] OTHER -> 1

Succeeds(u, s, a) ==
  CASE a.kind = "client"  -> GoesOn(u, s, "open")
    [] a.kind = "open"    -> \E next \in {"apdu", "close"} :
                               /\ next = "apdu"  => s.use # "verify"
                               /\ next = "close" => s.use # "single"
                               /\ GoesOn(u, [s EXCEPT !.line = a.line,
                                                      !.ok = (next = "apdu" \/ s.use # "retried")],
                                         next)
    [] a.kind = "apdu"    -> IF a.more /\ s.parts + 1 < MaxParts(s.use)
                             THEN GoesOn(u, [s EXCEPT !.parts = @ + 1], "apdu")
                             ELSE GoesOn(u, [s EXCEPT !.ok = ~a.more], "close")
    [] a.kind = "close"   -> GoesOn(u, s, "release")
    [] a.kind = "release" -> Closes(u, s)

\* The APDU cannot be built: all give the channel back but this use, which ends.
LeavesOpen(u, s, a) ==
  /\ a.kind = "open" /\ s.use = "single"
  /\ Closes(u, [s EXCEPT !.ok = FALSE])
  /\ leaked' = leaked \cup {a.line}

\* Mutant: a failed exchange is tried again on its connection.
FailsAgain(u, s) ==
  CASE s.at = "client"  -> Closes(u, s)
    [] s.at = "open"    -> IF s.use = "single" THEN Closes(u, s) ELSE GoesOn(u, s, "release")
    [] s.at = "apdu"    -> IF s.parts = 0 THEN GoesOn(u, [s EXCEPT !.parts = 1], "apdu")
                                          ELSE GoesOn(u, s, "close")
    [] s.at = "close"   -> GoesOn(u, s, "release")
    [] s.at = "release" -> Closes(u, s)

\* The first error ends the exchange, and what was got is given back.
Fails(u, s) ==
  CASE s.at = "client"  -> Closes(u, s)
    [] s.at = "open"    -> IF s.use = "single" THEN Closes(u, s) ELSE GoesOn(u, s, "release")
    [] s.at = "apdu"    -> GoesOn(u, s, "close")
    [] s.at = "close"   -> GoesOn(u, s, "release")
    [] s.at = "release" -> Closes(u, s)

\* An error of giving back is ignored, or hides no other one.
Failing(s) == [s EXCEPT !.ok = @ /\ s.at \in {"close", "release"}]

Reads(u) ==
  /\ session[u].in # << >>
  /\ LET a == Head(session[u].in)
         s == [session[u] EXCEPT !.in = Tail(@)]
     IN  \/ a.kind = s.at /\ a.ok /\ Succeeds(u, s, a) /\ UNCHANGED leaked
         \/ a.kind = s.at /\ a.ok /\ LeavesOpen(u, s, a)
         \/ ~(a.kind = s.at /\ a.ok) /\ Fails(u, Failing(s)) /\ UNCHANGED leaked
  /\ UNCHANGED <<open, sessions>>

\* set_read_timeout
TimesOut(u) ==
  /\ session[u].at \in Phases /\ session[u].in = << >>
  /\ Budget
  /\ Fails(u, Failing(session[u]))
  /\ UNCHANGED <<open, leaked>>

-----------------------------------------------------------------------------
(* The modem *)

\* A channel that is opened for a session that does not wait for it any more
\* cannot be closed by it.
Opens(u, waited, l) ==
  /\ l \notin DOMAIN open
  /\ open' = [m \in DOMAIN open \cup {l} |-> IF m = l THEN u ELSE open[m]]
  /\ leaked' = IF waited THEN leaked ELSE leaked \cup {l}

Full == Lines \subseteq DOMAIN open

Answers(u, ok, line, more) ==
  LET r == Head(session[u].out)
  IN  /\ session' = [session EXCEPT
                       ![u].out = Tail(@),
                       ![u].in = Append(@, [kind |-> r.kind, line |-> line, tag |-> r.tag,
                                            ok |-> ok, more |-> more])]
      /\ UNCHANGED <<stray, arbiter>>

Serve(u) ==
  /\ session[u].out # << >>
  /\ LET r == Head(session[u].out)
     IN  CASE r.kind = "open" /\ ~Full ->
                \E l \in Lines : Opens(u, r.tag = session[u].tag, l) /\ Answers(u, TRUE, l, FALSE)
           [] r.kind = "open" /\ Full -> Answers(u, FALSE, NoLine, FALSE) /\ UNCHANGED <<open, leaked>>
           [] r.kind = "close" -> /\ open' = Restrict(open, DOMAIN open \ {r.line})
                                  /\ Answers(u, TRUE, r.line, FALSE)
                                  /\ UNCHANGED leaked
           [] r.kind = "apdu" -> /\ \E more \in BOOLEAN : Answers(u, TRUE, r.line, more)
                                 /\ UNCHANGED <<open, leaked>>
           [] OTHER -> Answers(u, TRUE, NoLine, FALSE) /\ UNCHANGED <<open, leaked>>
  /\ UNCHANGED sessions

Refuse(u) ==
  /\ session[u].out # << >>
  /\ Budget
  /\ Answers(u, FALSE, NoLine, FALSE)
  /\ leaked' = leaked \cup {r.line : r \in {r \in {Head(session[u].out)} : r.kind = "close"}}
  /\ UNCHANGED open

\* A request whose connection is closed is done, or lost with it.
ServeStray(u) ==
  /\ stray[u] # << >>
  /\ stray' = [stray EXCEPT ![u] = Tail(@)]
  /\ LET r == Head(stray[u])
     IN  \/ r.kind = "open" /\ \E l \in Lines : Opens(u, FALSE, l)
         \/ r.kind = "close" /\ open' = Restrict(open, DOMAIN open \ {r.line}) /\ UNCHANGED leaked
         \/ r.kind = "close" /\ leaked' = leaked \cup {r.line} /\ UNCHANGED open
         \/ r.kind # "close" /\ UNCHANGED <<open, leaked>>
  /\ UNCHANGED <<session, arbiter, sessions>>

ApduNext ==
  \E u \in Sims :
    \/ \E use \in Uses : StartSession(u, use)
    \/ TakeArbiter(u) \/ Reads(u) \/ TimesOut(u) \/ Serve(u) \/ Refuse(u) \/ ServeStray(u)

-----------------------------------------------------------------------------
\* An answer that is accepted answers the request the session waits for, and an
\* APDU goes out on the session's own channel, although answers come late, only
\* their kind is compared, and channels are given again.  When nothing is under
\* way, the channels that are still open are those that were opened after the
\* session stopped to wait, that the modem did not close when asked to, or that
\* the use without retries left open because its APDU could not be built.
\* (send_and_recv, send_apdu, close_with_result, execute_usim_authenticate_via_proxy)
SessionsKeepApart ==
  /\ \A u \in Sims :
       /\ session[u].in # << >> /\ Head(session[u].in).kind = session[u].at
            => Head(session[u].in).tag = session[u].tag
       /\ session[u].at = "apdu" => session[u].line \in DOMAIN open /\ open[session[u].line] = u
  /\ (\A u \in Sims : session[u].at = "idle" /\ stray[u] = << >>) => DOMAIN open \subseteq leaked
=============================================================================
