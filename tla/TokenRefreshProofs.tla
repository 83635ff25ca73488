------------------------- MODULE TokenRefreshProofs -------------------------
(***************************************************************************)
(* The theorems of TokenRefresh, for any number of goroutines and calls.   *)
(*                                                                         *)
(* The properties follow from three facts about the lock: who is between   *)
(* the check and the update holds it, the session does not change under    *)
(* the holder, and outside of such an update session, file and server      *)
(* agree as long as there was no mishap.                                   *)
(***************************************************************************)
EXTENDS TokenRefresh, TLAPS

Storing == \E c \in Callers : callers[c].pc = "store"

\* A goroutine holds the lock exactly from the check to the update.
LockHeld == \A c \in Callers : callers[c].pc \in {"request", "store"} <=> lock = c

\* What the holder checked is still true when it asks the server.
CheckHolds ==
    \A c \in Callers : callers[c].pc = "request" /\ callers[c].kind # "force"
                          => callers[c].token = session.access

\* The answer to be stored is the latest the server gave.
ReplyIsLatest ==
    \A c \in Callers : callers[c].pc = "store" =>
        callers[c].reply = [access |-> server.access, refresh |-> server.refresh]

\* Session, file and server agree.
Agree ==
    ~mishap => /\ file = session
               /\ ~Storing => session = [access |-> server.access, refresh |-> server.refresh]

IInv == TypeOK /\ LockHeld /\ CheckHolds /\ ReplyIsLatest /\ Agree

-----------------------------------------------------------------------------
\* The initial state satisfies the invariant.
LEMMA InitInvariant == Init => IInv
  <1> SUFFICES ASSUME Init PROVE IInv
    OBVIOUS
  <1>1. TypeOK
    <2>1. mishap \in BOOLEAN /\ server.live \in BOOLEAN
      BY DEF Init
    <2>2. callers \in [Callers -> Caller]
      BY DEF Init, Nobody, Caller, PCs, Pair
    <2> QED BY <2>1, <2>2, TokenAssumption DEF Init, TypeOK, Pair
  <1>2. LockHeld /\ CheckHolds /\ ReplyIsLatest
    BY TokenAssumption DEF Init, LockHeld, CheckHolds, ReplyIsLatest, Nobody
  <1>3. Agree
    BY DEF Init, Agree, Storing, Nobody
  <1> QED BY <1>1, <1>2, <1>3 DEF IInv

\* A goroutine that is not in the locked part before or after its step, and
\* changes neither the session nor the server.
LEMMA OutsideStep ==
    ASSUME IInv, NEW c \in Callers, NEW k \in Caller,
           callers' = [callers EXCEPT ![c] = k],
           callers[c].pc \notin {"request", "store"}, k.pc \notin {"request", "store"},
           UNCHANGED <<server, session, file, lock, mishap>>
    PROVE  (LockHeld /\ CheckHolds /\ ReplyIsLatest /\ Agree)' /\ callers' \in [Callers -> Caller]
  <1> USE DEF IInv
  <1>1. callers \in [Callers -> Caller]
    BY DEF TypeOK
  <1>2. callers'[c] = k /\ \A d \in Callers \ {c} : callers'[d] = callers[d]
    BY <1>1
  <1>3. LockHeld'
    BY <1>2 DEF LockHeld
  <1>4. CheckHolds' /\ ReplyIsLatest'
    BY <1>2 DEF CheckHolds, ReplyIsLatest
  <1>5. Agree'
    BY <1>2 DEF Agree, Storing
  <1> QED BY <1>1, <1>2, <1>3, <1>4, <1>5

\* The steps of a goroutine.
LEMMA CallerStep ==
    ASSUME IInv, NEW c \in Callers,
           Call(c) \/ EnsureAccessToken(c) \/ RefreshAccessToken(c) \/ Step(c)
    PROVE  IInv'
  <1> USE DEF IInv
  <1>1. callers \in [Callers -> Caller] /\ callers[c] \in Caller
    BY DEF TypeOK
  <1>2. Nobody \in Caller /\ Nobody.pc = "idle"
    BY DEF Nobody, Caller, PCs, Pair
  <1>3. ASSUME NEW k \in Caller, Begin(c, k), k.pc \notin {"request", "store"}
        PROVE  IInv'
    <2>1. /\ callers' = [callers EXCEPT ![c] = k]
          /\ callers[c].pc \notin {"request", "store"}
          /\ UNCHANGED <<server, session, file, lock, mishap>>
      BY <1>3 DEF Begin, client
    <2>2. (LockHeld /\ CheckHolds /\ ReplyIsLatest /\ Agree)' /\ callers' \in [Callers -> Caller]
      BY <1>3, <2>1, OutsideStep
    <2>3. calls' \in 0..MaxCalls
      BY <1>3, TokenAssumption DEF Begin, TypeOK
    <2> QED BY <1>3, <2>2, <2>3 DEF Begin, TypeOK, client
  <1>4. CASE Call(c)
    <2>1. [Nobody EXCEPT !.pc = "load"] \in Caller /\ [Nobody EXCEPT !.pc = "load"].pc = "load"
      BY DEF Nobody, Caller, PCs, Pair
    <2> QED BY <1>3, <1>4, <2>1 DEF Call
  <1>5. CASE EnsureAccessToken(c)
    <2> DEFINE k == [Nobody EXCEPT !.pc = "lock", !.kind = "ensure", !.token = session.access]
    <2>1. k \in Caller /\ k.pc = "lock"
      BY DEF Nobody, Caller, PCs, Pair, TypeOK
    <2>2. Begin(c, k)
      BY <1>5 DEF EnsureAccessToken
    <2> QED BY <1>3, <2>1, <2>2
  <1>6. CASE RefreshAccessToken(c)
    <2> DEFINE k == [Nobody EXCEPT !.pc = "lock", !.kind = "force"]
    <2>1. k \in Caller /\ k.pc = "lock"
      BY DEF Nobody, Caller, PCs, Pair
    <2>2. Begin(c, k)
      BY <1>6 DEF RefreshAccessToken
    <2> QED BY <1>3, <2>1, <2>2
  <1>7. ASSUME NEW k \in Caller, callers' = [callers EXCEPT ![c] = k],
               callers[c].pc \notin {"request", "store"}, k.pc \notin {"request", "store"},
               UNCHANGED <<server, session, file, lock, mishap, bounds>>, talk' \in Nat
        PROVE  IInv'
    <2>1. (LockHeld /\ CheckHolds /\ ReplyIsLatest /\ Agree)' /\ callers' \in [Callers -> Caller]
      BY <1>7, OutsideStep
    <2> QED BY <1>7, <2>1 DEF TypeOK, bounds
  <1>8. CASE Load(c)
    <2> DEFINE k == [callers[c] EXCEPT !.pc = "post", !.token = talk]
    <2>1. k \in Caller /\ k.pc = "post"
      BY <1>1 DEF Caller, PCs, TypeOK
    <2>2. callers' = [callers EXCEPT ![c] = k]
      BY <1>1, <1>8 DEF Load, Caller
    <2> QED BY <1>7, <1>8, <2>1, <2>2 DEF Load, client, TypeOK
  <1>9. CASE Post(c)
    <2> DEFINE k == [callers[c] EXCEPT !.pc = "lock"]
    <2>1. k \in Caller /\ k.pc = "lock"
      BY <1>1 DEF Caller, PCs
    <2>2. callers' = [callers EXCEPT ![c] = k] \/ callers' = [callers EXCEPT ![c] = Nobody]
      BY <1>1, <1>9 DEF Post, End, Caller
    <2> QED BY <1>2, <1>7, <1>9, <2>1, <2>2 DEF Post, client, TypeOK
  <1>10. CASE Lock(c) /\ UNCHANGED lock
    <2> DEFINE k == [callers[c] EXCEPT !.pc = "set", !.reply.access = session.access]
    <2>1. k \in Caller /\ k.pc = "set"
      BY <1>1 DEF Caller, PCs, Pair, TypeOK
    <2>2. callers' = [callers EXCEPT ![c] = k]
      BY <1>1, <1>10, TokenAssumption DEF Lock, Caller
    <2> QED BY <1>7, <1>10, <2>1, <2>2 DEF Lock, client, TypeOK
  <1>11. CASE Lock(c) /\ lock' = c
    <2>1. callers' = [callers EXCEPT ![c].pc = "request"] /\ lock = None
      BY <1>11, TokenAssumption DEF Lock
    <2>2. /\ callers'[c] = [callers[c] EXCEPT !.pc = "request"]
          /\ \A d \in Callers \ {c} : callers'[d] = callers[d]
      BY <1>1, <2>1
    <2>3. /\ callers'[c].pc = "request" /\ callers'[c].kind = callers[c].kind
          /\ callers'[c].token = callers[c].token /\ callers'[c] \in Caller
      BY <1>1, <2>2 DEF Caller, PCs
    <2>4. \A d \in Callers : callers[d].pc \notin {"request", "store"}
      BY <2>1, TokenAssumption DEF LockHeld
    <2>5. LockHeld'
      BY <1>11, <2>2, <2>3, <2>4 DEF LockHeld
    <2>6. callers[c].kind = "force" \/ session.access = callers[c].token
      BY <1>11, <2>1, TokenAssumption DEF Lock
    <2>7. UNCHANGED <<server, session, talk, file, mishap, bounds>>
      BY <1>11 DEF Lock, client
    <2>8. CheckHolds' /\ ReplyIsLatest'
      BY <2>2, <2>3, <2>4, <2>6, <2>7 DEF CheckHolds, ReplyIsLatest
    <2>9. Agree'
      BY <2>2, <2>3, <2>4, <2>7 DEF Agree, Storing
    <2>10. callers' \in [Callers -> Caller]
      BY <1>1, <2>1, <2>3
    <2> QED BY <1>11, <2>5, <2>7, <2>8, <2>9, <2>10 DEF TypeOK, bounds
  <1>12. CASE Set(c)
    <2> DEFINE k == [Nobody EXCEPT !.pc = "load", !.retried = TRUE]
    <2>1. k \in Caller /\ k.pc = "load"
      BY DEF Nobody, Caller, PCs, Pair
    <2>2. callers' = [callers EXCEPT ![c] = k] \/ callers' = [callers EXCEPT ![c] = Nobody]
      BY <1>12 DEF Set, End
    <2>3. talk' \in Nat
      BY <1>1, <1>12 DEF Set, TypeOK, Caller, Pair
    <2> QED BY <1>2, <1>7, <1>12, <2>1, <2>2, <2>3 DEF Set
  <1>13. CASE Request(c)
    <2>1. PICK refresh \in {server.refresh, server.refresh + 1} :
            /\ server' = [access |-> server.access + 1, refresh |-> refresh, live |-> TRUE]
            /\ callers' = [callers EXCEPT ![c].pc = "store",
                             ![c].reply = [access |-> server.access + 1, refresh |-> refresh]]
      BY <1>13 DEF Request
    <2> DEFINE new == [access |-> server.access + 1, refresh |-> refresh]
    <2>2. /\ server'.access = server.access + 1 /\ server'.refresh = refresh
          /\ server' \in [access : Nat, refresh : Nat, live : BOOLEAN] /\ new \in Pair
      <3>1. server.access \in Nat /\ refresh \in Nat
        BY DEF TypeOK
      <3> QED BY <2>1, <3>1 DEF Pair
    <2>3. /\ callers'[c] = [callers[c] EXCEPT !.pc = "store", !.reply = new]
          /\ \A d \in Callers \ {c} : callers'[d] = callers[d]
      BY <1>1, <2>1
    <2>4. callers'[c].pc = "store" /\ callers'[c].reply = new /\ callers'[c] \in Caller
      BY <1>1, <2>2, <2>3 DEF Caller, PCs
    <2>5. /\ UNCHANGED <<session, talk, file, lock, bounds, mishap>>
          /\ callers[c].pc = "request"
      BY <1>13 DEF Request, client
    <2>6. \A d \in Callers \ {c} : callers[d].pc \notin {"request", "store"}
      BY <2>5 DEF LockHeld
    <2>7. LockHeld'
      BY <2>3, <2>4, <2>5 DEF LockHeld
    <2>8. CheckHolds' /\ ReplyIsLatest'
      BY <2>2, <2>3, <2>4, <2>6 DEF CheckHolds, ReplyIsLatest
    <2>9. Agree'
      BY <2>4, <2>5 DEF Agree, Storing
    <2>10. callers' \in [Callers -> Caller]
      BY <1>1, <2>1, <2>4
    <2> QED BY <2>2, <2>5, <2>7, <2>8, <2>9, <2>10 DEF TypeOK, bounds
  <1>14. ASSUME callers[c].pc \in {"request", "store"}, lock' = None,
                callers' = [callers EXCEPT ![c] = Nobody], mishap' = TRUE \/ UNCHANGED mishap,
                mishap' = TRUE \/ (UNCHANGED <<server, session, file>> /\ callers[c].pc = "request"),
                server' \in [access : Nat, refresh : Nat, live : BOOLEAN],
                session' \in Pair, talk' \in Nat, UNCHANGED <<file, bounds>>
         PROVE  IInv'
    <2>1. callers'[c].pc = "idle" /\ \A d \in Callers \ {c} : callers'[d] = callers[d]
      BY <1>1, <1>2, <1>14
    <2>2. \A d \in Callers \ {c} : callers[d].pc \notin {"request", "store"}
      BY <1>14 DEF LockHeld
    <2>3. LockHeld' /\ CheckHolds' /\ ReplyIsLatest'
      BY <1>14, <2>1, <2>2, TokenAssumption DEF LockHeld, CheckHolds, ReplyIsLatest
    <2>4. Agree'
      BY <1>14, <2>1, <2>2 DEF Agree, Storing
    <2>5. callers' \in [Callers -> Caller]
      BY <1>1, <1>2, <1>14
    <2>6. mishap' \in BOOLEAN
      <3>1. mishap \in BOOLEAN
        BY DEF TypeOK
      <3> QED BY <1>14, <3>1, Zenon
    <2> QED BY <1>14, <2>3, <2>4, <2>5, <2>6 DEF TypeOK, bounds
  <1>15. CASE RequestFails(c)
    <2>1. server' \in [access : Nat, refresh : Nat, live : BOOLEAN]
      <3>1. server \in [access : Nat, refresh : Nat, live : BOOLEAN]
        BY DEF TypeOK
      <3>2. \/ server' = server
            \/ server' = [access |-> server.access + 1, refresh |-> server.refresh + 1, live |-> TRUE]
        BY <1>15, Zenon DEF RequestFails
      <3>3. server.access + 1 \in Nat /\ server.refresh + 1 \in Nat
        BY <3>1
      <3>4. [access |-> server.access + 1, refresh |-> server.refresh + 1, live |-> TRUE]
              \in [access : Nat, refresh : Nat, live : BOOLEAN]
        BY <3>3
      <3> QED BY <3>1, <3>2, <3>4, Zenon
    <2>2. /\ callers[c].pc = "request" /\ lock' = None
          /\ callers' = [callers EXCEPT ![c] = Nobody]
          /\ UNCHANGED <<session, talk, file, bounds>>
      BY <1>15 DEF RequestFails, End, client
    <2>3. mishap' = TRUE \/ UNCHANGED <<server, mishap>>
      BY <1>15, Zenon DEF RequestFails
    <2>4. session' \in Pair /\ talk' \in Nat
      BY <2>2 DEF TypeOK
    <2> QED BY <1>14, <2>1, <2>2, <2>3, <2>4
  <1>16. CASE Store(c) /\ mishap' = TRUE /\ UNCHANGED file /\ End(c)
    <2>1. callers[c].reply \in Pair /\ callers[c].reply.access \in Nat
      BY <1>1 DEF Caller, Pair
    <2>2. /\ callers[c].pc = "store" /\ session' = callers[c].reply /\ lock' = None
          /\ talk' = callers[c].reply.access /\ UNCHANGED <<server, bounds>>
          /\ callers' = [callers EXCEPT ![c] = Nobody]
      BY <1>16 DEF Store, End
    <2>3. server' \in [access : Nat, refresh : Nat, live : BOOLEAN]
      BY <2>2 DEF TypeOK
    <2>4. mishap' = TRUE /\ UNCHANGED file
      BY <1>16
    <2>5. /\ mishap' = TRUE \/ UNCHANGED mishap
          /\ mishap' = TRUE \/ (UNCHANGED <<server, session, file>> /\ callers[c].pc = "request")
      BY <2>4
    <2>6. session' \in Pair /\ talk' \in Nat /\ callers[c].pc \in {"request", "store"}
      BY <2>1, <2>2
    <2> QED BY <1>14, <2>2, <2>3, <2>4, <2>5, <2>6
  <1>17. CASE /\ Store(c) /\ UNCHANGED mishap /\ file' = session'
              /\ callers' = [callers EXCEPT ![c].pc = "set"]
    <2>1. callers[c].reply \in Pair /\ callers[c].reply.access \in Nat
      BY <1>1 DEF Caller, Pair
    <2>2. /\ callers[c].pc = "store" /\ session' = callers[c].reply /\ lock' = None
          /\ talk' = callers[c].reply.access /\ UNCHANGED <<server, bounds>>
      BY <1>17 DEF Store
    <2>3. /\ callers'[c] = [callers[c] EXCEPT !.pc = "set"]
          /\ \A d \in Callers \ {c} : callers'[d] = callers[d]
      BY <1>1, <1>17
    <2>4. callers'[c].pc = "set" /\ callers'[c] \in Caller
      BY <1>1, <2>3 DEF Caller, PCs
    <2>5. \A d \in Callers \ {c} : callers[d].pc \notin {"request", "store"}
      BY <2>2 DEF LockHeld
    <2>6. LockHeld' /\ CheckHolds' /\ ReplyIsLatest'
      BY <2>2, <2>3, <2>4, <2>5, TokenAssumption DEF LockHeld, CheckHolds, ReplyIsLatest
    <2>7. session' = [access |-> server.access, refresh |-> server.refresh]
      BY <2>2 DEF ReplyIsLatest
    <2>8. Agree'
      BY <1>17, <2>2, <2>7 DEF Agree
    <2>9. callers' \in [Callers -> Caller]
      BY <1>1, <1>17, <2>4
    <2> QED BY <1>17, <2>1, <2>2, <2>6, <2>8, <2>9 DEF TypeOK, bounds
  <1>18. Lock(c) => UNCHANGED lock \/ lock' = c
    BY DEF Lock
  <1>19. Store(c) => \/ UNCHANGED mishap /\ file' = session' /\ callers' = [callers EXCEPT ![c].pc = "set"]
                     \/ mishap' = TRUE /\ UNCHANGED file /\ End(c)
    BY DEF Store
  <1> QED BY <1>4, <1>5, <1>6, <1>8, <1>9, <1>10, <1>11, <1>12, <1>13, <1>15, <1>16, <1>17,
             <1>18, <1>19 DEF Step

\* The invariant of the whole specification.
THEOREM TokenInvariant == Spec => []IInv
  <1>1. IInv /\ [Next]_vars => IInv'
    <2> SUFFICES ASSUME IInv, [Next]_vars PROVE IInv'
      OBVIOUS
    <2> USE DEF IInv
    <2>1. CASE UNCHANGED vars
      BY <2>1 DEF vars, client, bounds, TypeOK, LockHeld, CheckHolds, ReplyIsLatest, Agree, Storing
    <2>2. CASE Expire
      <3>1. /\ server' \in [access : Nat, refresh : Nat, live : BOOLEAN]
            /\ server'.access = server.access /\ server'.refresh = server.refresh
        BY <2>2 DEF Expire, TypeOK
      <3> QED BY <2>2, <3>1 DEF Expire, client, bounds, TypeOK, LockHeld, CheckHolds, ReplyIsLatest,
                                Agree, Storing
    <2>3. CASE SaveElsewhere
      BY <2>3 DEF SaveElsewhere, bounds, TypeOK, LockHeld, CheckHolds, ReplyIsLatest, Agree, Storing
    <2>4. CASE Restart
      <3>1. \A c \in Callers : callers'[c].pc = "idle"
        BY <2>4 DEF Restart, Nobody
      <3>2. callers' \in [Callers -> Caller]
        BY <2>4 DEF Restart, Nobody, Caller, PCs, Pair
      <3>3. mishap' \in BOOLEAN /\ mishap' = (mishap \/ Storing)
        BY <2>4 DEF Restart, Storing
      <3>4. LockHeld' /\ CheckHolds' /\ ReplyIsLatest'
        BY <2>4, <3>1, TokenAssumption DEF Restart, LockHeld, CheckHolds, ReplyIsLatest
      <3>5. Agree'
        BY <2>4, <3>3 DEF Restart, Agree
      <3>6. TypeOK'
        BY <2>4, <3>2, <3>3, TokenAssumption DEF Restart, TypeOK, Pair
      <3> QED BY <3>4, <3>5, <3>6
    <2> QED BY <2>1, <2>2, <2>3, <2>4, CallerStep DEF Next
  <1> QED BY <1>1, InitInvariant, PTL DEF Spec

\* Every variable keeps its type.
THEOREM TokenTypeCorrect == Spec => []TypeOK
  <1>1. IInv => TypeOK
    BY DEF IInv
  <1> QED BY <1>1, TokenInvariant, PTL

\* As long as there was no mishap, a restart finds the refresh token that the
\* server accepts in the session file, unless an answer is just being stored.
THEOREM RestartNeedsNoLogin == Spec => []RestartCanRefresh
  <1>1. IInv => RestartCanRefresh
    BY DEF IInv, Agree, Storing, RestartCanRefresh
  <1> QED BY <1>1, TokenInvariant, PTL

\* Whoever asks for a new token presents the latest refresh token.
THEOREM RefreshTokenAlwaysCurrent == Spec => []RefreshTokenCurrent
  <1>1. IInv => RefreshTokenCurrent
    <2> SUFFICES ASSUME IInv, NEW c \in Callers, callers[c].pc = "request", ~mishap
                 PROVE  session.refresh = server.refresh
      BY DEF RefreshTokenCurrent
    <2>1. ~Storing
      BY DEF IInv, LockHeld, Storing
    <2> QED BY <2>1 DEF IInv, Agree
  <1> QED BY <1>1, TokenInvariant, PTL

\* Without a mishap a token is refreshed at most once, however many callers
\* fail with it.
THEOREM TokenRefreshedOnce == Spec => RefreshedOnce
  <1>1. IInv => \A c \in Callers : Request(c) /\ callers[c].kind # "force" /\ ~mishap
                                      => callers[c].token = server.access
    <2> SUFFICES ASSUME IInv, NEW c \in Callers, Request(c), callers[c].kind # "force", ~mishap
                 PROVE  callers[c].token = server.access
      OBVIOUS
    <2>1. callers[c].pc = "request"
      BY DEF Request
    <2>2. ~Storing
      BY <2>1 DEF IInv, LockHeld, Storing
    <2> QED BY <2>1, <2>2 DEF IInv, Agree, CheckHolds
  <1> QED BY <1>1, TokenInvariant, PTL DEF RefreshedOnce
=============================================================================
