------------------------------ MODULE Accounts ------------------------------
(***************************************************************************)
(* Several accounts in one process (multi/manager.go: Run): a goroutine an *)
(* account opens its session, prepares it step by step and listens; the    *)
(* first error stops them all. What the steps do is in TokenRefresh,       *)
(* SyncListener, E2EEKeys and Ghosts (RegisterClient); here they succeed   *)
(* or fail.                                                                *)
(***************************************************************************)
EXTENDS Naturals, Sequences, FiniteSets

CONSTANTS
    Names   \* the accounts of the configuration

ASSUME AccountsAssumption == Names # {} /\ IsFiniteSet(Names)

VARIABLES
    usable,     \* the accounts whose session file holds an access token
    stage,      \* where the goroutine of an account is
    errors,     \* the channel
    failed,     \* history: the accounts that had an error
    signalled,  \* the context Run was given is done
    run         \* the goroutine of Run

accountVars == <<usable, stage, errors, failed, signalled, run>>

Preparation == << "open", "token", "profile", "revision", "selfKey", "ready", "listen" >>

AccountsTypeOK ==
    /\ usable \subseteq Names
    /\ stage \in [Names -> 1 .. Len(Preparation) + 2]
    /\ errors \in Seq(Names) /\ failed \subseteq Names
    /\ signalled \in BOOLEAN
    /\ run \in [pc : {"off", "select", "wait", "returned"}, cancelled : BOOLEAN,
                result : {"none", "nil", "error"}]

Listening == Len(Preparation)
Reporting == Listening + 1
Ended     == Listening + 2

Done == \A a \in Names : stage[a] = Ended

AccountsInit ==
    /\ stage = [a \in Names |-> 1]
    /\ errors = <<>> /\ failed = {}
    /\ signalled = FALSE
    /\ run = [pc |-> "off", cancelled |-> FALSE, result |-> "none"]

\* Run starts the goroutines.
Start ==
    /\ run.pc = "off"
    /\ run' = [run EXCEPT !.pc = "select"]
    /\ UNCHANGED <<usable, stage, errors, failed, signalled>>

Started == run.pc # "off"

Cancelled == signalled \/ run.cancelled

\* The next step of the preparation succeeds; Open needs a saved session, the
\* others a context that is not done.
Prepare(a) ==
    /\ Started /\ stage[a] < Listening
    /\ IF stage[a] = 1 THEN a \in usable ELSE ~Cancelled
    /\ stage' = [stage EXCEPT ![a] = @ + 1]
    /\ UNCHANGED <<usable, errors, failed, signalled, run>>

\* It fails.
Error(a) ==
    /\ Started /\ stage[a] < Listening
    /\ stage' = [stage EXCEPT ![a] = Reporting]
    /\ failed' = failed \cup {a}
    /\ UNCHANGED <<usable, errors, signalled, run>>

\* Mutant: the channel has room for one error.
CapacityOne == 1

Capacity == Cardinality(Names)

\* The error is sent to the channel, and the goroutine is done.
Report(a) ==
    /\ stage[a] = Reporting /\ Len(errors) < Capacity
    /\ errors' = Append(errors, a)
    /\ stage' = [stage EXCEPT ![a] = Ended]
    /\ UNCHANGED <<usable, failed, signalled, run>>

\* Listen returns without an error when the context is done.
ListenReturns(a) ==
    /\ stage[a] = Listening /\ Cancelled
    /\ stage' = [stage EXCEPT ![a] = Ended]
    /\ UNCHANGED <<usable, errors, failed, signalled, run>>

\* Listen returns an error of the service; it retries the others.
ListenFails(a) ==
    /\ stage[a] = Listening
    /\ stage' = [stage EXCEPT ![a] = Reporting]
    /\ failed' = failed \cup {a}
    /\ UNCHANGED <<usable, errors, signalled, run>>

Signal ==
    /\ Started /\ ~signalled
    /\ signalled' = TRUE
    /\ UNCHANGED <<usable, stage, errors, failed, run>>

\* Mutant: without an error to take, Run ends as soon as an account has.
SelectEarly ==
    /\ run.pc = "select"
    /\ \/ signalled /\ run' = [run EXCEPT !.pc = "wait", !.result = "nil"] /\ UNCHANGED errors
       \/ /\ errors # <<>>
          /\ errors' = Tail(errors)
          /\ run' = [pc |-> "wait", cancelled |-> TRUE, result |-> "error"]
       \/ /\ \E a \in Names : stage[a] = Ended
          /\ run' = [pc |-> "returned", cancelled |-> TRUE, result |-> "nil"]
          /\ UNCHANGED errors
    /\ UNCHANGED <<usable, stage, failed, signalled>>

\* The select: the context is done, an error is there, all goroutines are done,
\* any that is ready.
SelectRun ==
    /\ run.pc = "select"
    /\ \/ signalled /\ run' = [run EXCEPT !.pc = "wait", !.result = "nil"] /\ UNCHANGED errors
       \/ /\ errors # <<>>
          /\ errors' = Tail(errors)
          /\ run' = [pc |-> "wait", cancelled |-> TRUE, result |-> "error"]
       \/ Done /\ run' = [pc |-> "returned", cancelled |-> TRUE, result |-> "nil"] /\ UNCHANGED errors
    /\ UNCHANGED <<usable, stage, failed, signalled>>

\* group.Wait, then Run returns and cancels its context.
Wait ==
    /\ run.pc = "wait" /\ Done
    /\ run' = [run EXCEPT !.pc = "returned", !.cancelled = TRUE]
    /\ UNCHANGED <<usable, stage, errors, failed, signalled>>

Goroutine(a) == Prepare(a) \/ Error(a) \/ Report(a) \/ ListenReturns(a)

AccountsNext == Start \/ Signal \/ SelectRun \/ Wait \/ \E a \in Names : Goroutine(a) \/ ListenFails(a)

\* The steps of the preparation end (every request has a timeout), and Run's
\* goroutine runs.
AccountsFairness ==
    /\ \A a \in Names : WF_accountVars(Goroutine(a))
    /\ WF_accountVars(SelectRun) /\ WF_accountVars(Wait)

-----------------------------------------------------------------------------
\* One account that fails takes the others with it: all goroutines end, none of
\* them stuck on the error channel, and Run returns.
StopsTogether == failed # {} ~> run.pc = "returned" /\ Done

\* Run tells of an error unless a signal stopped it, or no account was left: the
\* end of all goroutines can be noticed before their errors.
ErrorReported ==
    run.pc = "returned" /\ failed # {} => run.result = "error" \/ signalled \/ failed = Names
=============================================================================
