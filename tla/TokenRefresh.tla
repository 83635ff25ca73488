---------------------------- MODULE TokenRefresh ----------------------------
(***************************************************************************)
(* The access token of one account (service/service.go: call;              *)
(* client/client.go: EnsureAccessToken, refreshAccessToken): goroutines    *)
(* call the LINE service with the token they find, and one whose token has *)
(* expired replaces it and calls again, once.                              *)
(*                                                                         *)
(* Tokens are numbered in the order the server issues them. The server,    *)
(* which accepts the latest access token until it expires and the latest   *)
(* refresh token, is external. When a refresh is due is a choice.          *)
(***************************************************************************)
EXTENDS Naturals

CONSTANTS
    Callers,    \* goroutines that use the client
    None,       \* nobody
    MaxCalls,   \* bound on the calls
    MaxCrashes  \* bound on the crashes

ASSUME TokenAssumption ==
    /\ None \notin Callers
    /\ MaxCalls \in Nat /\ MaxCrashes \in Nat

VARIABLES
    server,     \* the tokens the server accepts
    session,    \* c.Session
    talk,       \* Talk.access, the token the calls use
    file,       \* the session file
    lock,       \* who holds refreshMu
    callers,
    calls, crashes,
    mishap      \* history: an answer was lost, or a save failed, or a crash
                \* came between an answer and its save

client == <<session, talk, file>>
bounds == <<calls, crashes>>
vars   == <<server, client, lock, callers, bounds, mishap>>

Pair == [access : Nat, refresh : Nat]

PCs == {"idle", "load", "post", "lock", "request", "store", "set"}

\* token is the token the caller used, reply what the server or another caller
\* gave it instead.
Caller == [pc : PCs, kind : {"call", "ensure", "force"}, token : Nat, reply : Pair,
           retried : BOOLEAN]

Nobody == [pc |-> "idle", kind |-> "call", token |-> 0, reply |-> [access |-> 0, refresh |-> 0],
           retried |-> FALSE]

Accepted(t) == server.live /\ t = server.access

Init ==
    /\ server = [access |-> 0, refresh |-> 0, live |-> TRUE]
    /\ session = [access |-> 0, refresh |-> 0] /\ file = session
    /\ talk = 0
    /\ lock = None
    /\ callers = [c \in Callers |-> Nobody]
    /\ calls = 0 /\ crashes = 0
    /\ mishap = FALSE

-----------------------------------------------------------------------------
\* The access token expires or is revoked.
Expire ==
    /\ server.live
    /\ server' = [server EXCEPT !.live = FALSE]
    /\ UNCHANGED <<client, lock, callers, bounds, mishap>>

Begin(c, caller) ==
    /\ callers[c].pc = "idle"
    /\ calls < MaxCalls /\ calls' = calls + 1
    /\ callers' = [callers EXCEPT ![c] = caller]
    /\ UNCHANGED <<server, client, lock, crashes, mishap>>

Call(c) == Begin(c, [Nobody EXCEPT !.pc = "load"])

\* EnsureAccessToken of a token that is due; RefreshAccessToken whatever it is.
EnsureAccessToken(c) ==
    Begin(c, [Nobody EXCEPT !.pc = "lock", !.kind = "ensure", !.token = session.access])

RefreshAccessToken(c) == Begin(c, [Nobody EXCEPT !.pc = "lock", !.kind = "force"])

End(c) == callers' = [callers EXCEPT ![c] = Nobody]

-----------------------------------------------------------------------------
(* call, and again when it is retried.                                     *)

Load(c) ==
    /\ callers[c].pc = "load"
    /\ callers' = [callers EXCEPT ![c].pc = "post", ![c].token = talk]
    /\ UNCHANGED <<server, client, lock, bounds, mishap>>

\* The call ends with a result or an error, but an expired token is replaced
\* the first time.
Post(c) ==
    /\ callers[c].pc = "post"
    /\ \/ End(c)
       \/ /\ ~Accepted(callers[c].token) /\ ~callers[c].retried
          /\ callers' = [callers EXCEPT ![c].pc = "lock"]
    /\ UNCHANGED <<server, client, lock, bounds, mishap>>

\* Mutant: the token may have been replaced while the caller waited.
LockUnchecked(c) ==
    /\ callers[c].pc = "lock" /\ lock = None
    /\ callers' = [callers EXCEPT ![c].pc = "request"]
    /\ lock' = c
    /\ UNCHANGED <<server, client, bounds, mishap>>

\* Mutant: the lock is not waited for.
LockShared(c) ==
    /\ callers[c].pc = "lock"
    /\ callers' = [callers EXCEPT ![c].pc = "request"]
    /\ lock' = c
    /\ UNCHANGED <<server, client, bounds, mishap>>

\* refreshMu is taken. If the token is not the one that failed any more, that
\* is all.
Lock(c) ==
    /\ callers[c].pc = "lock" /\ lock = None
    /\ \/ /\ callers[c].kind # "force" /\ session.access # callers[c].token
          /\ callers' = [callers EXCEPT ![c].pc = "set", ![c].reply.access = session.access]
          /\ UNCHANGED lock
       \/ /\ callers[c].kind = "force" \/ session.access = callers[c].token
          /\ callers' = [callers EXCEPT ![c].pc = "request"]
          /\ lock' = c
    /\ UNCHANGED <<server, client, bounds, mishap>>

\* Mutant: an answer without an access token is taken for one.
RequestUnchecked(c) ==
    /\ callers[c].pc = "request"
    /\ session.refresh = server.refresh
    /\ callers' = [callers EXCEPT ![c].pc = "store",
                                  ![c].reply = [access |-> None, refresh |-> server.refresh]]
    /\ UNCHANGED <<server, client, lock, bounds, mishap>>

\* The server issues a token, and a refresh token if it likes.
Request(c) ==
    /\ callers[c].pc = "request"
    /\ session.refresh = server.refresh
    /\ \E refresh \in {server.refresh, server.refresh + 1} :
         LET new == [access |-> server.access + 1, refresh |-> refresh]
         IN  /\ server' = [access |-> new.access, refresh |-> new.refresh, live |-> TRUE]
             /\ callers' = [callers EXCEPT ![c].pc = "store", ![c].reply = new]
    /\ UNCHANGED <<client, lock, bounds, mishap>>

\* The request or its answer is lost, or the server refuses the refresh token.
RequestFails(c) ==
    /\ callers[c].pc = "request"
    /\ \/ UNCHANGED <<server, mishap>>
       \/ /\ session.refresh = server.refresh
          /\ server' = [access |-> server.access + 1, refresh |-> server.refresh + 1, live |-> TRUE]
          /\ mishap' = TRUE
    /\ End(c)
    /\ lock' = None
    /\ UNCHANGED <<client, bounds>>

\* Mutant: the new refresh token is not kept.
StoreAccessOnly(c) ==
    /\ callers[c].pc = "store"
    /\ session' = [session EXCEPT !.access = callers[c].reply.access]
    /\ talk' = callers[c].reply.access
    /\ lock' = None
    /\ file' = session' /\ callers' = [callers EXCEPT ![c].pc = "set"]
    /\ UNCHANGED <<server, bounds, mishap>>

\* Mutant: a failing save returns without the unlock.
StoreKeepsLock(c) ==
    /\ callers[c].pc = "store"
    /\ session' = callers[c].reply
    /\ talk' = callers[c].reply.access
    /\ \/ /\ file' = session' /\ callers' = [callers EXCEPT ![c].pc = "set"]
          /\ lock' = None
          /\ UNCHANGED mishap
       \/ file' = file /\ mishap' = TRUE /\ End(c) /\ UNCHANGED lock
    /\ UNCHANGED <<server, bounds>>

\* The session and the service get the token, and the session is saved. A
\* failing save is an error of the call, and the token stays.
Store(c) ==
    /\ callers[c].pc = "store"
    /\ session' = callers[c].reply
    /\ talk' = callers[c].reply.access
    /\ lock' = None
    /\ \/ /\ file' = session' /\ callers' = [callers EXCEPT ![c].pc = "set"]
          /\ UNCHANGED mishap
       \/ file' = file /\ mishap' = TRUE /\ End(c)
    /\ UNCHANGED <<server, bounds>>

\* SetAccessToken once more, after the lock was released, and the second call.
Set(c) ==
    /\ callers[c].pc = "set"
    /\ \/ /\ callers[c].kind = "call"
          /\ talk' = callers[c].reply.access
          /\ callers' = [callers EXCEPT ![c] = [Nobody EXCEPT !.pc = "load", !.retried = TRUE]]
       \/ callers[c].kind # "call" /\ End(c) /\ UNCHANGED talk
    /\ UNCHANGED <<server, session, file, lock, bounds, mishap>>

-----------------------------------------------------------------------------
\* Another part of the client saves the session.
SaveElsewhere ==
    /\ file # session
    /\ file' = session
    /\ UNCHANGED <<server, session, talk, lock, callers, bounds, mishap>>

\* The process dies and is started again.
Restart ==
    /\ crashes < MaxCrashes /\ crashes' = crashes + 1
    /\ session' = file /\ talk' = file.access
    /\ lock' = None
    /\ callers' = [c \in Callers |-> Nobody]
    /\ mishap' = (mishap \/ \E c \in Callers : callers[c].pc = "store")
    /\ UNCHANGED <<server, file, calls>>

Step(c) ==
    Load(c) \/ Post(c) \/ Lock(c) \/ Request(c) \/ RequestFails(c) \/ Store(c) \/ Set(c)

Next ==
    \/ Expire \/ SaveElsewhere \/ Restart
    \/ \E c \in Callers : Call(c) \/ EnsureAccessToken(c) \/ RefreshAccessToken(c) \/ Step(c)

\* Goroutines run, and a request returns or times out.
Fairness == \A c \in Callers : WF_vars(Step(c))

Spec == Init /\ [][Next]_vars /\ Fairness

-----------------------------------------------------------------------------
TypeOK ==
    /\ server \in [access : Nat, refresh : Nat, live : BOOLEAN]
    /\ session \in Pair /\ file \in Pair /\ talk \in Nat
    /\ lock \in Callers \cup {None}
    /\ callers \in [Callers -> Caller]
    /\ calls \in 0..MaxCalls /\ crashes \in 0..MaxCrashes
    /\ mishap \in BOOLEAN

\* A token that was replaced already is not replaced again: of the callers
\* that fail with the same token, one refreshes it and the others get its token.
RefreshedOnce ==
    [][\A c \in Callers : Request(c) /\ callers[c].kind # "force" /\ ~mishap
          => callers[c].token = server.access]_vars

\* The refresh token in the session file is the one the server accepts, except
\* while an answer is being stored, so that a restart needs no new login; after
\* a mishap this cannot be promised.
RestartCanRefresh ==
    \/ file.refresh = server.refresh
    \/ mishap
    \/ \E c \in Callers : callers[c].pc = "store"

\* Two callers never rotate the refresh token at the same time: who asks for a
\* new token presents the refresh token the server gave last.
RefreshTokenCurrent ==
    \A c \in Callers : callers[c].pc = "request" /\ ~mishap => session.refresh = server.refresh

\* Every call ends, with at most one retry, whatever the other callers do.
CallsEnd == \A c \in Callers : callers[c].pc # "idle" ~> callers[c].pc = "idle"
=============================================================================
