---------------------------- MODULE Registration ----------------------------
(***************************************************************************)
(* Phone registration (cmd/linego/main.go: runRegister;                    *)
(* registration/client.go: RegisterPhone): a script of calls to the LINE   *)
(* gateway, three of which may be answered with a demand for human         *)
(* verification. Verify (registration/browser.go) then opens the page in   *)
(* Chrome over a DevTools connection and waits for the page's verdict.     *)
(*                                                                         *)
(* The gateway, Chrome and the user are external. A DevTools message is    *)
(* the answer to a command or an event; events are told apart by what      *)
(* Verify does with them.                                                  *)
(***************************************************************************)
EXTENDS Naturals, Sequences

CONSTANTS
    QueueSize,      \* capacity of cdpClient.events
    MaxEmits,       \* bound on the events of one Chrome
    MaxWire,        \* bound on the messages under way from Chrome
    MaxChallenges   \* bound on the demands for human verification

ASSUME RegistrationAssumption ==
    /\ QueueSize \in Nat \ {0} /\ MaxWire \in Nat \ {0}
    /\ MaxEmits \in Nat /\ MaxChallenges \in Nat

VARIABLES
    reg,        \* the registration: next call, its attempt, how it ended
    gateway,    \* what the gateway did: PINs sent, accounts created
    verify,     \* the goroutine of Verify
    reader,     \* the goroutine of readLoop
    cdp,        \* the DevTools client
    chrome      \* the process and what it still has to say

verifyVars       == <<verify, reader, cdp, chrome>>
registrationVars == <<reg, gateway, verifyVars>>

Script == << "openSession", "getCountryInfo", "getAllowedRegistrationMethod",
             "getPhoneVerifMethodForRegistration", "requestToSendPhonePinCode",
             "providePIN", "verifyPhonePinCode", "validateProfile",
             "getPasswordHashingParametersForPwdReg", "setHashedPassword",
             "registerPrimaryUsingPhoneWithTokenV3", "save" >>

\* The calls made through callWithHumanVerification.
Guarded == {"requestToSendPhonePinCode", "verifyPhonePinCode",
            "registerPrimaryUsingPhoneWithTokenV3"}

Attempts == 3   \* of getCountryInfo: there are two delays

Verdicts == {"accepted", "cancelled"}
Events   == {"noise", "paused"} \cup Verdicts
Messages == Events \cup {"answer", "refusal", "navigation"}

\* lost: something failed once the gateway had created the account.
\* pending: the command that the goroutine of Verify waits for. wire: what
\* Chrome sent and readLoop has not read. doomed: a reader that holds an event
\* for a channel that is closed. dropped: a verdict met a full queue.
RegistrationTypeOK ==
    /\ reg \in [step : 1 .. Len(Script), attempt : 1 .. Attempts, verified : BOOLEAN, lost : BOOLEAN,
                status : {"running", "verifying", "saved", "failed", "dead"}]
    /\ gateway \in [pins : Nat, accounts : Nat, challenges : 0 .. MaxChallenges]
    /\ verify \in [pc : {"none", "launch", "setup", "loop", "answer", "closing"}, ok : BOOLEAN]
    /\ reader \in [event : Events \cup {"none"}, doomed : BOOLEAN]
    /\ cdp \in [open : BOOLEAN, pending : {"none", "waiting", "answered", "refused", "closed"},
                queue : Seq(Events), failure : BOOLEAN]
    /\ Len(cdp.queue) <= QueueSize
    /\ chrome \in [alive : BOOLEAN, expired : BOOLEAN, wire : Seq(Messages), emits : 0 .. MaxEmits,
                   verdict : Verdicts \cup {"none"}, dropped : BOOLEAN]

NoClient == [open |-> FALSE, pending |-> "none", queue |-> <<>>, failure |-> FALSE]
NoChrome == [alive |-> FALSE, expired |-> FALSE, wire |-> <<>>, emits |-> 0, verdict |-> "none",
             dropped |-> FALSE]

RegistrationInit ==
    /\ reg = [step |-> 1, attempt |-> 1, verified |-> FALSE, lost |-> FALSE, status |-> "running"]
    /\ gateway = [pins |-> 0, accounts |-> 0, challenges |-> 0]
    /\ verify = [pc |-> "none", ok |-> FALSE]
    /\ reader = [event |-> "none", doomed |-> FALSE]
    /\ cdp = NoClient /\ chrome = NoChrome

-----------------------------------------------------------------------------
(* RegisterPhone, and the save that ends it.                               *)

Call == Script[reg.step]

Calling == reg.status = "running"

\* What a call does at the gateway.
Performed ==
    [gateway EXCEPT !.pins = IF Call = "requestToSendPhonePinCode" THEN @ + 1 ELSE @,
                    !.accounts = IF Call = "registerPrimaryUsingPhoneWithTokenV3" THEN @ + 1 ELSE @]

Succeed ==
    /\ Calling
    /\ gateway' = Performed
    /\ reg' = IF Call = "save" THEN [reg EXCEPT !.status = "saved"]
              ELSE [reg EXCEPT !.step = @ + 1, !.attempt = 1, !.verified = FALSE]
    /\ UNCHANGED verifyVars

\* Mutant: a call is repeated whatever the error was.
FailAgain ==
    /\ Calling
    /\ gateway' \in {gateway, Performed}
    /\ reg' = IF reg.attempt < Attempts THEN [reg EXCEPT !.attempt = @ + 1]
              ELSE [reg EXCEPT !.status = "failed", !.lost = gateway'.accounts > 0]
    /\ UNCHANGED verifyVars

\* The call fails, its answer is lost or cannot be used, no PIN is given, a
\* verified call is challenged again, the session cannot be saved: RegisterPhone
\* ends, whether or not the gateway did what was asked.
Fail ==
    /\ Calling
    /\ gateway' \in {gateway, Performed}
    /\ reg' = [reg EXCEPT !.status = "failed", !.lost = gateway'.accounts > 0]
    /\ UNCHANGED verifyVars

\* callWithTransientRetry: a temporary error of getCountryInfo.
TransientRetry ==
    /\ Calling /\ Call = "getCountryInfo" /\ reg.attempt < Attempts
    /\ reg' = [reg EXCEPT !.attempt = @ + 1]
    /\ UNCHANGED <<gateway, verifyVars>>

\* callWithHumanVerification: code 5, once a call; the gateway did nothing yet.
Challenge ==
    /\ Calling /\ Call \in Guarded /\ ~reg.verified
    /\ gateway.challenges < MaxChallenges
    /\ gateway' = [gateway EXCEPT !.challenges = @ + 1]
    /\ reg' = [reg EXCEPT !.status = "verifying"]
    /\ verify' = [pc |-> "launch", ok |-> FALSE]
    /\ UNCHANGED <<reader, cdp, chrome>>

-----------------------------------------------------------------------------
(* Chrome and the DevTools connection.                                     *)

\* Whether Chrome still has to answer the command.
Owed ==
    /\ cdp.pending = "waiting"
    /\ \A i \in DOMAIN chrome.wire : chrome.wire[i] \notin {"answer", "refusal"}

Says(m) ==
    /\ chrome.alive /\ cdp.open
    /\ chrome' = [chrome EXCEPT !.wire = Append(@, m)]
    /\ UNCHANGED <<reg, gateway, verify, reader, cdp>>

ChromeAnswers == Owed /\ (Says("answer") \/ Says("refusal"))

\* Events; the page's verdict is one of them, once it was navigated to.
ChromeEmits(e) ==
    /\ chrome.alive /\ cdp.open
    /\ chrome.emits < MaxEmits /\ Len(chrome.wire) < MaxWire
    /\ e \in Verdicts \cup {"navigation"} => verify.pc \in {"loop", "answer"} /\ chrome.verdict = "none"
    /\ chrome' = [chrome EXCEPT !.wire = Append(@, e), !.emits = @ + 1,
                                !.verdict = IF e \in Verdicts THEN e ELSE @]
    /\ UNCHANGED <<reg, gateway, verify, reader, cdp>>

\* The window is closed, or Chrome crashes.
ChromeQuits ==
    /\ chrome.alive
    /\ chrome' = [chrome EXCEPT !.alive = FALSE]
    /\ UNCHANGED <<reg, gateway, verify, reader, cdp>>

\* The timeout of the verification passes.
Expire ==
    /\ verify.pc \notin {"none", "launch"} /\ ~chrome.expired
    /\ chrome' = [chrome EXCEPT !.expired = TRUE]
    /\ UNCHANGED <<reg, gateway, verify, reader, cdp>>

\* Mutant: nothing ties the process to the context.
KillNever == FALSE /\ UNCHANGED registrationVars

\* exec.CommandContext kills Chrome.
Kill ==
    /\ chrome.expired /\ chrome.alive
    /\ chrome' = [chrome EXCEPT !.alive = FALSE]
    /\ UNCHANGED <<reg, gateway, verify, reader, cdp>>

\* close, by whoever comes first: the connection, the pending command, events.
Closed(c) == [c EXCEPT !.open = FALSE, !.pending = IF @ = "waiting" THEN "closed" ELSE @]

Delivered(m) ==
    CASE m = "answer"     -> [cdp EXCEPT !.pending = IF @ = "waiting" THEN "answered" ELSE @]
      [] m = "refusal"    -> [cdp EXCEPT !.pending = IF @ = "waiting" THEN "refused" ELSE @]
      [] m = "navigation" -> [cdp EXCEPT !.failure = TRUE]

\* readLoop: the next message is the answer to a command (that of Page.navigate,
\* an error, has a channel of its own) or an event, which it holds on to.
Read ==
    /\ cdp.open /\ reader.event = "none" /\ chrome.wire # <<>>
    /\ LET m == Head(chrome.wire)
       IN  IF m \in Events THEN reader' = [reader EXCEPT !.event = m] /\ UNCHANGED cdp
                           ELSE cdp' = Delivered(m) /\ UNCHANGED reader
    /\ chrome' = [chrome EXCEPT !.wire = Tail(@)]
    /\ UNCHANGED <<reg, gateway, verify>>

\* Mutant: the reader waits for room in the queue.
PutOrWait ==
    /\ cdp.open /\ reader.event # "none" /\ Len(cdp.queue) < QueueSize
    /\ cdp' = [cdp EXCEPT !.queue = Append(@, reader.event)]
    /\ reader' = [reader EXCEPT !.event = "none"]
    /\ UNCHANGED <<reg, gateway, verify, chrome>>

\* The event is queued, or dropped when the queue is full.
Put ==
    /\ cdp.open /\ reader.event # "none"
    /\ IF Len(cdp.queue) < QueueSize
       THEN cdp' = [cdp EXCEPT !.queue = Append(@, reader.event)] /\ UNCHANGED chrome
       ELSE chrome' = [chrome EXCEPT !.dropped = @ \/ reader.event \in Verdicts] /\ UNCHANGED cdp
    /\ reader' = [reader EXCEPT !.event = "none"]
    /\ UNCHANGED <<reg, gateway, verify>>

\* The connection broke: readLoop closes the client and ends.
ReadError ==
    /\ cdp.open /\ reader.event = "none" /\ ~chrome.alive /\ chrome.wire = <<>>
    /\ cdp' = Closed(cdp)
    /\ UNCHANGED <<reg, gateway, verify, reader, chrome>>

\* The select of a reader whose client was closed under it sends on a closed
\* channel: the process panics, and a verification under way ends with it.
Panic ==
    /\ reader.doomed /\ reg.status \in {"running", "verifying"}
    /\ reg' = [reg EXCEPT !.status = "dead"]
    /\ verify' = [pc |-> "none", ok |-> FALSE]
    /\ reader' = [reader EXCEPT !.event = "none"]
    /\ cdp' = NoClient /\ chrome' = NoChrome
    /\ UNCHANGED gateway

-----------------------------------------------------------------------------
(* The goroutine of Verify.                                                *)

Alive == reg.status = "verifying"

\* No browser, no connection, or the first command is on its way.
Launch ==
    /\ Alive /\ verify.pc = "launch"
    /\ \/ /\ verify' = [verify EXCEPT !.pc = "setup"]
          /\ cdp' = [NoClient EXCEPT !.open = TRUE, !.pending = "waiting"]
          /\ chrome' = [NoChrome EXCEPT !.alive = TRUE]
          /\ UNCHANGED reg
       \/ /\ verify' = [verify EXCEPT !.pc = "none"]
          /\ reg' = [reg EXCEPT !.status = "failed"]
          /\ UNCHANGED <<cdp, chrome>>
    /\ UNCHANGED <<gateway, reader>>

\* Verify returns; its deferred calls begin with Browser.close, which waits for
\* an answer or the end of the connection, whatever the timeout.
Return(ok, client) ==
    /\ verify' = [pc |-> "closing", ok |-> ok]
    /\ cdp' = [client EXCEPT !.pending = IF client.open THEN "waiting" ELSE "closed"]

\* removePending: readLoop ignores the answer to a command that was given up.
Abandoned == [chrome EXCEPT !.wire = SelectSeq(@, LAMBDA m : m \notin {"answer", "refusal"})]

\* send of the commands that prepare the page, or that let a request go on.
AwaitCommand ==
    /\ Alive /\ verify.pc \in {"setup", "answer"}
    /\ \/ /\ cdp.pending = "answered"
          /\ verify' = [verify EXCEPT !.pc = "loop"]
          /\ cdp' = [cdp EXCEPT !.pending = "none"]
       \/ cdp.pending \in {"refused", "closed"} /\ Return(FALSE, [cdp EXCEPT !.failure = TRUE])
       \/ chrome.expired /\ Return(FALSE, cdp)
    /\ chrome' = IF cdp.pending = "waiting" /\ verify'.pc = "closing" THEN Abandoned ELSE chrome
    /\ UNCHANGED <<reg, gateway, reader>>

\* The next event: a paused request is let go on, a verdict ends it.
Handle(e) ==
    LET client == [cdp EXCEPT !.queue = Tail(@)]
    IN  \/ e = "noise" /\ cdp' = client /\ UNCHANGED verify
        \/ /\ e = "paused"
           /\ IF cdp.open THEN /\ verify' = [verify EXCEPT !.pc = "answer"]
                               /\ cdp' = [client EXCEPT !.pending = "waiting"]
              ELSE Return(FALSE, [client EXCEPT !.failure = TRUE])
        \/ e \in Verdicts /\ Return(e = "accepted", client)

\* The select: any of its cases that is ready.
Select ==
    /\ Alive /\ verify.pc = "loop"
    /\ \/ chrome.expired /\ Return(FALSE, cdp)
       \/ cdp.failure /\ Return(FALSE, cdp)
       \/ ~chrome.alive /\ Return(FALSE, cdp)
       \/ cdp.queue # <<>> /\ Handle(Head(cdp.queue))
       \/ cdp.queue = <<>> /\ ~cdp.open /\ Return(FALSE, cdp)
    /\ UNCHANGED <<reg, gateway, reader, chrome>>

\* The client is closed, the context cancelled (Chrome is killed), and the call
\* is made again, or the registration ends.
Finish ==
    /\ Alive /\ verify.pc = "closing" /\ cdp.pending # "waiting"
    /\ verify' = [pc |-> "none", ok |-> FALSE]
    /\ reader' = [event |-> "none", doomed |-> reader.doomed \/ reader.event # "none"]
    /\ cdp' = NoClient /\ chrome' = NoChrome
    /\ reg' = [reg EXCEPT !.status = IF verify.ok THEN "running" ELSE "failed", !.verified = verify.ok]
    /\ UNCHANGED gateway

-----------------------------------------------------------------------------
Browser == ChromeAnswers \/ ChromeQuits \/ Expire \/ \E e \in Events \cup {"navigation"} : ChromeEmits(e)
ReadLoop == Read \/ Put \/ ReadError
Verifier == Launch \/ AwaitCommand \/ Select \/ Finish

RegistrationNext ==
    \/ Succeed \/ Fail \/ TransientRetry \/ Challenge
    \/ Browser \/ Kill \/ ReadLoop \/ Panic \/ Verifier

\* Goroutines run, and the runtime kills the process of an expired context.
\* Nothing is assumed of Chrome, the gateway and the clock.
RegistrationFairness ==
    /\ WF_registrationVars(Read) /\ WF_registrationVars(Put) /\ WF_registrationVars(ReadError)
    /\ WF_registrationVars(Verifier)
    /\ WF_registrationVars(Kill)

-----------------------------------------------------------------------------
\* The gateway is asked for one PIN and one account, whatever answers were lost
\* or had to be verified, and a registration that ends without a saved session
\* after the account was created had a request or the save fail after that, or
\* died because a DevTools reader outlived its client.
OneAccount ==
    /\ gateway.pins <= 1 /\ gateway.accounts <= 1
    /\ gateway.accounts = 1 /\ reg.status \in {"failed", "dead"} => reg.lost \/ reader.doomed

\* The drop of readLoop keeps a reader and a Verify that waits for an answer
\* from blocking each other: once the page has accepted the user, Verify returns
\* success, unless the verdict was dropped, a command failed, the timeout passed
\* or Chrome is gone, or until Chrome owes the answer to a command.
VerdictHeard ==
    chrome.verdict = "accepted" /\ ~Owed
        ~> \/ verify.pc = "closing" /\ verify.ok
           \/ verify.pc = "none" \/ reg.status = "dead"
           \/ chrome.dropped \/ cdp.failure \/ chrome.expired \/ ~chrome.alive \/ Owed

\* Verify returns once its timeout has passed, though its deferred Browser.close
\* waits without one: the dead process ends the connection.
VerifyEnds == chrome.expired ~> verify.pc = "none" \/ reg.status = "dead"
=============================================================================
