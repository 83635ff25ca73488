----------------------------- MODULE AccountProofs -----------------------------
(***************************************************************************)
(* The theorems of Onboarding and of E2EEKeys: how an account comes into   *)
(* service, and the keys it then has, for any accounts, goroutines and     *)
(* bounds.                                                                 *)
(*                                                                         *)
(* The service is asked once because the scripts only move forward: while  *)
(* a script has not passed a call, the service has not done what the call  *)
(* asks for, and a call is made again only after a refusal.                *)
(*                                                                         *)
(* Nothing an account owned is ever forgotten: a device key that the       *)
(* server handed out is in the session, or it is one of those that were    *)
(* never kept, belong to another device or are hidden by a newer keychain. *)
(* Whatever a goroutine read, the server or a cache gave it, so a message  *)
(* it cannot open is one for which a key of the second kind is needed.     *)
(***************************************************************************)
EXTENDS Onboarding, E2EEKeys, FiniteSetTheorems, SequenceTheorems, WellFoundedInduction, TLAPS

-----------------------------------------------------------------------------
(* Phone registration.                                                     *)

Underway == reg.status \in {"running", "verifying"}

\* Steps 5, 7 and 11 are the calls that may be challenged; 5 sends the PIN and
\* 11 creates the account.
OneAccountInv ==
    /\ reg \in [step : 1 .. 12, attempt : Nat, verified : BOOLEAN, lost : BOOLEAN,
                status : {"running", "verifying", "saved", "failed", "dead"}]
    /\ gateway \in [pins : Nat, accounts : Nat, challenges : Nat]
    /\ verify \in [pc : {"none", "launch", "setup", "loop", "answer", "closing"}, ok : BOOLEAN]
    /\ reader \in [event : Events \cup {"none"}, doomed : BOOLEAN]
    /\ Underway /\ reg.step <= 5 => gateway.pins = 0
    /\ Underway /\ reg.step <= 11 => gateway.accounts = 0
    /\ reg.status = "verifying" => reg.step \in {5, 7, 11}
    /\ OneAccount

LEMMA ScriptCalls ==
    /\ Len(Script) = 12
    /\ \A i \in 1 .. 12 :
         /\ Script[i] = "requestToSendPhonePinCode" <=> i = 5
         /\ Script[i] = "registerPrimaryUsingPhoneWithTokenV3" <=> i = 11
         /\ Script[i] = "save" <=> i = 12
         /\ Script[i] \in Guarded <=> i \in {5, 7, 11}
  BY DEF Script, Guarded

LEMMA RegistrationStep ==
    ASSUME OneAccountInv, RegistrationNext
    PROVE  OneAccountInv'
  <1>1. /\ Call = "requestToSendPhonePinCode" <=> reg.step = 5
        /\ Call = "registerPrimaryUsingPhoneWithTokenV3" <=> reg.step = 11
        /\ Call = "save" <=> reg.step = 12
        /\ Call \in Guarded <=> reg.step \in {5, 7, 11}
    BY ScriptCalls DEF Call, OneAccountInv
  <1>2. /\ Performed \in [pins : Nat, accounts : Nat, challenges : Nat]
        /\ Performed.pins = IF reg.step = 5 THEN gateway.pins + 1 ELSE gateway.pins
        /\ Performed.accounts = IF reg.step = 11 THEN gateway.accounts + 1 ELSE gateway.accounts
    <2>1. /\ gateway \in [pins : Nat, accounts : Nat, challenges : Nat] /\ reg.step \in 1 .. 12
      BY DEF OneAccountInv
    <2> DEFINE p == IF reg.step = 5 THEN gateway.pins + 1 ELSE gateway.pins
               a == IF reg.step = 11 THEN gateway.accounts + 1 ELSE gateway.accounts
    <2>2. Performed = [gateway EXCEPT !.pins = p, !.accounts = a]
      BY <1>1 DEF Performed
    <2>3. p \in Nat /\ a \in Nat
      BY <2>1
    <2> HIDE DEF p, a
    <2>4. /\ Performed \in [pins : Nat, accounts : Nat, challenges : Nat]
          /\ Performed.pins = p /\ Performed.accounts = a
      BY <2>1, <2>2, <2>3
    <2> QED BY <2>4 DEF p, a
  <1>3. CASE Succeed
    <2>1. UNCHANGED <<verify, reader>> /\ gateway' = Performed /\ reg.status = "running"
      BY <1>3 DEF Succeed, Calling, verifyVars
    <2>2. CASE reg.step = 12
      <3>1. reg' = [reg EXCEPT !.status = "saved"]
        BY <1>1, <1>3, <2>2 DEF Succeed
      <3> QED BY <1>2, <2>1, <2>2, <3>1 DEF OneAccountInv, OneAccount, Underway
    <2>3. CASE reg.step # 12
      <3> DEFINE n == reg.step + 1
      <3>1. reg' = [reg EXCEPT !.step = n, !.attempt = 1, !.verified = FALSE]
        BY <1>1, <1>3, <2>3 DEF Succeed
      <3>2. n \in 1 .. 12 /\ n = reg.step + 1
        BY <2>3 DEF OneAccountInv
      <3> HIDE DEF n
      <3>3. /\ reg' \in [step : 1 .. 12, attempt : Nat, verified : BOOLEAN, lost : BOOLEAN,
                         status : {"running", "verifying", "saved", "failed", "dead"}]
            /\ reg'.step = n /\ reg'.status = "running"
        BY <2>1, <3>1, <3>2 DEF OneAccountInv
      <3> QED BY <1>2, <2>1, <2>3, <3>2, <3>3 DEF OneAccountInv, OneAccount, Underway
    <2> QED BY <2>2, <2>3
  <1>4. CASE Fail
    <2>1. /\ UNCHANGED <<verify, reader>> /\ gateway' \in {gateway, Performed} /\ reg.status = "running"
      BY <1>4 DEF Fail, Calling, verifyVars
    <2> DEFINE lost == gateway'.accounts > 0
    <2>2. reg' = [reg EXCEPT !.status = "failed", !.lost = lost] /\ lost \in BOOLEAN
      BY <1>4 DEF Fail
    <2>3. lost <=> gateway'.accounts > 0
      OBVIOUS
    <2> HIDE DEF lost
    <2>4. /\ reg' \in [step : 1 .. 12, attempt : Nat, verified : BOOLEAN, lost : BOOLEAN,
                       status : {"running", "verifying", "saved", "failed", "dead"}]
          /\ reg'.status = "failed" /\ (reg'.lost <=> lost)
      BY <2>2 DEF OneAccountInv
    <2>5. /\ gateway' \in [pins : Nat, accounts : Nat, challenges : Nat]
          /\ gateway'.pins <= 1 /\ gateway'.accounts <= 1
      BY <1>2, <2>1 DEF OneAccountInv, OneAccount, Underway
    <2> QED BY <2>1, <2>3, <2>4, <2>5 DEF OneAccountInv, OneAccount, Underway
  <1>5. CASE TransientRetry
    BY <1>5 DEF TransientRetry, Calling, OneAccountInv, OneAccount, Underway, verifyVars
  <1>6. CASE Challenge
    BY <1>1, <1>6 DEF Challenge, Calling, OneAccountInv, OneAccount, Underway
  <1>7. CASE UNCHANGED <<reg, gateway, verify, reader>>
    BY <1>7 DEF OneAccountInv, OneAccount, Underway
  <1>8. CASE Read \/ Put
    <2>1. reader' \in [event : Events \cup {"none"}, doomed : BOOLEAN] /\ reader'.doomed = reader.doomed
      BY <1>8 DEF Read, Put, OneAccountInv
    <2> QED BY <1>8, <2>1 DEF Read, Put, OneAccountInv, OneAccount, Underway
  <1>9. CASE Panic
    BY <1>9 DEF Panic, OneAccountInv, OneAccount, Underway
  <1>10. CASE Launch
    BY <1>10 DEF Launch, Alive, OneAccountInv, OneAccount, Underway
  <1>11. CASE AwaitCommand \/ Select
    <2>1. UNCHANGED <<reg, gateway, reader>>
      BY <1>11 DEF AwaitCommand, Select
    <2>2. \A ok, c : ok \in BOOLEAN /\ Return(ok, c) =>
             verify' \in [pc : {"none", "launch", "setup", "loop", "answer", "closing"}, ok : BOOLEAN]
      BY DEF Return
    <2>3. verify' \in [pc : {"none", "launch", "setup", "loop", "answer", "closing"}, ok : BOOLEAN]
      BY <1>11, <2>2 DEF AwaitCommand, Select, Handle, OneAccountInv
    <2> QED BY <2>1, <2>3 DEF OneAccountInv, OneAccount, Underway
  <1>12. CASE Finish
    <2>1. /\ UNCHANGED gateway /\ reg.status = "verifying"
          /\ verify' = [pc |-> "none", ok |-> FALSE]
          /\ reg' = [reg EXCEPT !.status = IF verify.ok THEN "running" ELSE "failed", !.verified = verify.ok]
          /\ reader' = [event |-> "none", doomed |-> reader.doomed \/ reader.event # "none"]
      BY <1>12 DEF Finish, Alive
    <2>2. /\ reg' \in [step : 1 .. 12, attempt : Nat, verified : BOOLEAN, lost : BOOLEAN,
                       status : {"running", "verifying", "saved", "failed", "dead"}]
          /\ reg'.step = reg.step /\ reg'.status \in {"running", "failed"}
      BY <2>1 DEF OneAccountInv
    <2>3. reader' \in [event : Events \cup {"none"}, doomed : BOOLEAN]
      BY <2>1 DEF OneAccountInv
    <2>4. gateway.accounts = 0
      BY <2>1 DEF OneAccountInv, Underway
    <2> QED BY <2>1, <2>2, <2>3, <2>4 DEF OneAccountInv, OneAccount, Underway
  <1> QED BY <1>3, <1>4, <1>5, <1>6, <1>7, <1>8, <1>9, <1>10, <1>11, <1>12
          DEF RegistrationNext, Browser, ChromeAnswers, ChromeEmits, ChromeQuits, Expire, Says, Kill,
              ReadLoop, ReadError, Verifier

-----------------------------------------------------------------------------
(* QR login.                                                               *)

\* Steps 4 to 7 make the user scan and trust, 8 completes the login, 10 saves.
OneLoginInv ==
    /\ qr \in [step : 1 .. 11, status : {"running", "done", "failed"}, saved : BOOLEAN, lost : BOOLEAN]
    /\ login \in [scanned : BOOLEAN, trusted : BOOLEAN, logins : Nat]
    /\ Running /\ qr.step >= 5 => login.scanned
    /\ Running /\ qr.step >= 8 => login.trusted
    /\ Running /\ qr.step <= 8 => login.logins = 0
    /\ Running /\ qr.step = 11 => qr.saved
    /\ OneLogin

LEMMA QRSteps ==
    /\ Len(Steps) = 11
    /\ StepOf("qrCodeLoginV2ForSecure") = 8
    /\ \A i \in 1 .. 11 :
         /\ Steps[i] = "checkQrCodeVerified" <=> i = 4
         /\ Steps[i] = "verifyCertificate" <=> i = 5
         /\ Steps[i] = "checkPinCodeVerified" <=> i = 7
         /\ Steps[i] = "qrCodeLoginV2ForSecure" <=> i = 8
         /\ Steps[i] = "save" <=> i = 10
         /\ Steps[i] = "generateUserTicket" <=> i = 11
  <1>1. /\ Len(Steps) = 11 /\ DOMAIN Steps = 1 .. 11
        /\ \A i \in 1 .. 11 :
             /\ Steps[i] = "checkQrCodeVerified" <=> i = 4
             /\ Steps[i] = "verifyCertificate" <=> i = 5
             /\ Steps[i] = "checkPinCodeVerified" <=> i = 7
             /\ Steps[i] = "qrCodeLoginV2ForSecure" <=> i = 8
             /\ Steps[i] = "save" <=> i = 10
             /\ Steps[i] = "generateUserTicket" <=> i = 11
    BY DEF Steps
  <1>2. \E i \in DOMAIN Steps : Steps[i] = "qrCodeLoginV2ForSecure"
    BY <1>1
  <1>3. /\ StepOf("qrCodeLoginV2ForSecure") \in DOMAIN Steps
        /\ Steps[StepOf("qrCodeLoginV2ForSecure")] = "qrCodeLoginV2ForSecure"
    BY <1>2 DEF StepOf
  <1> QED BY <1>1, <1>3

LEMMA QRStep ==
    ASSUME OneLoginInv, QRNext
    PROVE  OneLoginInv'
  <1>1. /\ Step = "checkQrCodeVerified" <=> qr.step = 4
        /\ Step = "verifyCertificate" <=> qr.step = 5
        /\ Step = "checkPinCodeVerified" <=> qr.step = 7
        /\ Step = "qrCodeLoginV2ForSecure" <=> qr.step = 8
        /\ Step = "save" <=> qr.step = 10
        /\ Step = "generateUserTicket" <=> qr.step = 11
    BY QRSteps DEF Step, OneLoginInv
  <1>2. qr'.step \in 1 .. 11 => (Step' = "qrCodeLoginV2ForSecure" <=> qr'.step = 8)
    BY QRSteps DEF Step
  <1>3. /\ Confirmed \in [scanned : BOOLEAN, trusted : BOOLEAN, logins : Nat]
        /\ login.scanned \/ qr.step = 4 => Confirmed.scanned
        /\ login.trusted \/ qr.step \in {5, 7} => Confirmed.trusted
        /\ Confirmed.logins = IF qr.step = 8 THEN login.logins + 1 ELSE login.logins
    <2>1. login \in [scanned : BOOLEAN, trusted : BOOLEAN, logins : Nat] /\ qr.step \in 1 .. 11
      BY DEF OneLoginInv
    <2>2. CASE qr.step = 4
      <3>1. Confirmed = [login EXCEPT !.scanned = TRUE]
        BY <1>1, <2>2 DEF Confirmed
      <3>2. /\ Confirmed \in [scanned : BOOLEAN, trusted : BOOLEAN, logins : Nat]
            /\ Confirmed.scanned
        BY <2>1, <3>1
      <3>3. Confirmed.trusted = login.trusted /\ Confirmed.logins = login.logins
        BY <2>1, <3>1
      <3> QED BY <2>2, <3>2, <3>3
    <2>3. CASE qr.step \in {5, 7}
      <3>1. Confirmed = [login EXCEPT !.trusted = TRUE]
        BY <1>1, <2>3 DEF Confirmed
      <3>2. /\ Confirmed \in [scanned : BOOLEAN, trusted : BOOLEAN, logins : Nat]
            /\ Confirmed.trusted
        BY <2>1, <3>1
      <3>3. Confirmed.scanned = login.scanned /\ Confirmed.logins = login.logins
        BY <2>1, <3>1
      <3> QED BY <2>3, <3>2, <3>3
    <2>4. CASE qr.step = 8
      <3> DEFINE n == login.logins + 1
      <3>1. Confirmed = [login EXCEPT !.logins = n]
        BY <1>1, <2>4 DEF Confirmed
      <3>2. n \in Nat /\ n = login.logins + 1
        BY <2>1
      <3> HIDE DEF n
      <3> QED BY <2>1, <2>4, <3>1, <3>2
    <2>5. CASE qr.step \notin {4, 5, 7, 8}
      <3>1. Confirmed = login
        BY <1>1, <2>1, <2>5 DEF Confirmed
      <3> QED BY <2>1, <2>5, <3>1
    <2> QED BY <2>2, <2>3, <2>4, <2>5
  <1>4. CASE QRSucceed
    <2>1. /\ qr \in [step : 1 .. 11, status : {"running", "done", "failed"}, saved : BOOLEAN, lost : BOOLEAN]
          /\ Running /\ qr.status = "running" /\ login' = Confirmed
      BY <1>4 DEF QRSucceed, Running, OneLoginInv
    <2>2. CASE qr.step = 11
      <3>1. qr' = [qr EXCEPT !.status = "done"]
        BY <1>1, <1>4, <2>2 DEF QRSucceed
      <3>2. /\ qr' \in [step : 1 .. 11, status : {"running", "done", "failed"}, saved : BOOLEAN, lost : BOOLEAN]
            /\ qr'.step = 11 /\ qr'.status = "done" /\ qr'.saved = qr.saved
        BY <2>1, <2>2, <3>1
      <3> QED BY <1>2, <1>3, <2>1, <2>2, <3>2 DEF Running, OneLoginInv, OneLogin
    <2>3. CASE qr.step # 11
      <3> DEFINE n == IF qr.step = 5 THEN 8 ELSE qr.step + 1
                 saved == Step = "save"
      <3>1. qr' = [qr EXCEPT !.step = n, !.saved = saved]
        BY <1>1, <1>4, <2>3, QRSteps DEF QRSucceed
      <3>2. n \in 1 .. 11 /\ n = IF qr.step = 5 THEN 8 ELSE qr.step + 1
        BY <2>1, <2>3
      <3>3. saved \in BOOLEAN /\ (saved <=> qr.step = 10)
        BY <1>1
      <3> HIDE DEF n, saved
      <3>4. /\ qr' \in [step : 1 .. 11, status : {"running", "done", "failed"}, saved : BOOLEAN, lost : BOOLEAN]
            /\ qr'.step = n /\ qr'.status = "running" /\ (qr'.saved <=> saved)
        BY <2>1, <3>1, <3>2, <3>3
      <3> QED BY <1>2, <1>3, <2>1, <2>3, <3>2, <3>3, <3>4 DEF Running, OneLoginInv, OneLogin
    <2> QED BY <2>2, <2>3
  <1>5. CASE NoCertificate
    <2>1. qr.step = 5 /\ UNCHANGED login
      BY <1>1, <1>5 DEF NoCertificate
    <2> DEFINE n == qr.step + 1
    <2>2. qr' = [qr EXCEPT !.step = n] /\ n = 6
      BY <1>5, <2>1 DEF NoCertificate
    <2> HIDE DEF n
    <2>3. /\ qr' \in [step : 1 .. 11, status : {"running", "done", "failed"}, saved : BOOLEAN, lost : BOOLEAN]
          /\ qr'.step = 6 /\ qr'.status = qr.status
      BY <2>2 DEF OneLoginInv
    <2> QED BY <1>2, <1>5, <2>1, <2>3 DEF NoCertificate, Running, OneLoginInv, OneLogin
  <1>6. CASE QRFail
    <2> DEFINE lost == login'.logins > 0
    <2>1. /\ qr' = [qr EXCEPT !.status = "failed", !.lost = lost] /\ lost \in BOOLEAN
          /\ Running /\ login' \in {login, Confirmed}
      BY <1>6 DEF QRFail
    <2>2. lost <=> login'.logins > 0
      OBVIOUS
    <2> HIDE DEF lost
    <2>3. /\ qr' \in [step : 1 .. 11, status : {"running", "done", "failed"}, saved : BOOLEAN, lost : BOOLEAN]
          /\ qr'.status = "failed" /\ (qr'.lost <=> lost)
      BY <2>1 DEF OneLoginInv
    <2>4. login' \in [scanned : BOOLEAN, trusted : BOOLEAN, logins : Nat] /\ login'.logins <= 1
      BY <1>3, <2>1 DEF OneLoginInv, OneLogin
    <2> QED BY <2>2, <2>3, <2>4 DEF Running, OneLoginInv, OneLogin
  <1> QED BY <1>4, <1>5, <1>6 DEF QRNext

-----------------------------------------------------------------------------
(* Several accounts.                                                       *)

EndedAccounts == {a \in Names : stage[a] = Ended}

\* Nothing but Run and the signal cancels the context, so the goroutine that
\* ended before had an error; and every error in the channel is of a goroutine
\* that has ended.
ReportedInv ==
    /\ AccountsTypeOK
    /\ run.pc \in {"off", "select"} => ~run.cancelled /\ run.result = "none"
    /\ run.pc \in {"wait", "returned"} => run.result = "error" \/ signalled \/ failed = Names
    /\ \A a \in Names : /\ stage[a] = Reporting => a \in failed
                        /\ stage[a] = Ended /\ ~Cancelled => a \in failed
    /\ Len(errors) <= Cardinality(EndedAccounts)

\* A goroutine that ends is one more.
LEMMA OneMoreEnds ==
    ASSUME AccountsTypeOK, NEW a \in Names, stage[a] # Ended, stage' = [stage EXCEPT ![a] = Ended]
    PROVE  /\ Cardinality(EndedAccounts') = Cardinality(EndedAccounts) + 1
           /\ Cardinality(EndedAccounts) \in Nat
  <1>1. EndedAccounts' = EndedAccounts \cup {a}
    BY DEF EndedAccounts, AccountsTypeOK, Ended, Listening
  <1>2. IsFiniteSet(EndedAccounts) /\ a \notin EndedAccounts
    BY AccountsAssumption, FS_Subset DEF EndedAccounts
  <1> QED BY <1>1, <1>2, FS_AddElement, FS_CardinalityType

LEMMA Stages == Listening = 7 /\ Reporting = 8 /\ Ended = 9 /\ Len(Preparation) = 7
  BY DEF Listening, Reporting, Ended, Preparation

LEMMA AccountsStep ==
    ASSUME ReportedInv, AccountsNext
    PROVE  ReportedInv'
  <1>1. /\ AccountsTypeOK /\ stage \in [Names -> 1 .. 9] /\ errors \in Seq(Names)
        /\ Cardinality(EndedAccounts) \in Nat
    <2>1. IsFiniteSet(EndedAccounts)
      BY AccountsAssumption, FS_Subset DEF EndedAccounts
    <2> QED BY <2>1, Stages, FS_CardinalityType DEF ReportedInv, AccountsTypeOK
  <1>2. ASSUME UNCHANGED stage
        PROVE  EndedAccounts' = EndedAccounts
    BY <1>2 DEF EndedAccounts, Ended, Listening
  <1>3. CASE Start
    <2>1. run' \in [pc : {"off", "select", "wait", "returned"}, cancelled : BOOLEAN,
                    result : {"none", "nil", "error"}]
          /\ run'.pc = "select" /\ run'.result = run.result /\ run'.cancelled = run.cancelled
      BY <1>1, <1>3 DEF Start, AccountsTypeOK
    <2> QED BY <1>2, <1>3, <2>1 DEF Start, ReportedInv, AccountsTypeOK, Cancelled
  <1>4. CASE Signal
    BY <1>2, <1>4 DEF Signal, ReportedInv, AccountsTypeOK, Cancelled
  <1>5. CASE SelectRun
    <2>1. UNCHANGED <<usable, stage, failed, signalled>> /\ run.pc = "select" /\ ~run.cancelled
      BY <1>5 DEF SelectRun, ReportedInv
    <2>2. CASE signalled /\ run' = [run EXCEPT !.pc = "wait", !.result = "nil"] /\ UNCHANGED errors
      <3>1. run' \in [pc : {"off", "select", "wait", "returned"}, cancelled : BOOLEAN,
                      result : {"none", "nil", "error"}]
            /\ run'.pc = "wait"
        BY <1>1, <2>2 DEF AccountsTypeOK
      <3> QED BY <1>2, <2>1, <2>2, <3>1 DEF ReportedInv, AccountsTypeOK, Cancelled
    <2>3. CASE /\ errors # <<>> /\ errors' = Tail(errors)
               /\ run' = [pc |-> "wait", cancelled |-> TRUE, result |-> "error"]
      <3>1. errors' \in Seq(Names) /\ Len(errors') <= Len(errors)
        BY <1>1, <2>3
      <3>2. Len(errors') <= Cardinality(EndedAccounts')
        BY <1>1, <1>2, <2>1, <3>1 DEF ReportedInv
      <3> QED BY <2>1, <2>3, <3>1, <3>2 DEF ReportedInv, AccountsTypeOK, Cancelled
    <2>4. CASE /\ Done /\ run' = [pc |-> "returned", cancelled |-> TRUE, result |-> "nil"]
               /\ UNCHANGED errors
      <3>1. signalled \/ failed = Names
        BY <2>1, <2>4 DEF Done, ReportedInv, AccountsTypeOK, Cancelled
      <3> QED BY <1>2, <2>1, <2>4, <3>1 DEF ReportedInv, AccountsTypeOK, Cancelled
    <2> QED BY <1>5, <2>2, <2>3, <2>4 DEF SelectRun
  <1>6. CASE Wait
    <2>1. /\ run' \in [pc : {"off", "select", "wait", "returned"}, cancelled : BOOLEAN,
                       result : {"none", "nil", "error"}]
          /\ run'.pc = "returned" /\ run'.cancelled
      BY <1>1, <1>6 DEF Wait, AccountsTypeOK
    <2>2. run'.result = run.result
      BY <1>1, <1>6 DEF Wait, AccountsTypeOK
    <2> QED BY <1>2, <1>6, <2>1, <2>2 DEF Wait, ReportedInv, AccountsTypeOK, Cancelled
  <1>7. ASSUME NEW a \in Names, Goroutine(a) \/ ListenFails(a)
        PROVE  ReportedInv'
    <2>1. CASE Prepare(a)
      <3> DEFINE s == stage[a] + 1
      <3>1. stage' = [stage EXCEPT ![a] = s] /\ s \in 1 .. 7 /\ stage[a] \in 1 .. 6
        BY <1>1, <2>1, Stages DEF Prepare
      <3> HIDE DEF s
      <3>2. EndedAccounts' = EndedAccounts
        <4>1. \A b \in Names : stage'[b] = 9 <=> stage[b] = 9
          BY <1>1, <3>1
        <4> QED BY <4>1, Stages DEF EndedAccounts, Ended, Listening
      <3>3. UNCHANGED <<usable, errors, failed, signalled, run>>
        BY <2>1 DEF Prepare
      <3>4. stage' \in [Names -> 1 .. 9] /\ \A b \in Names : stage'[b] \in {8, 9} => stage[b] = stage'[b]
        BY <1>1, <3>1
      <3> QED BY <3>2, <3>3, <3>4, Stages DEF ReportedInv, AccountsTypeOK, Cancelled, Reporting, Ended, Listening
    <2>2. CASE Error(a) \/ ListenFails(a)
      <3>1. /\ stage' = [stage EXCEPT ![a] = 8] /\ stage[a] \in 1 .. 7 /\ failed' = failed \cup {a}
            /\ UNCHANGED <<usable, errors, signalled, run>>
        BY <1>1, <2>2, Stages DEF Error, ListenFails
      <3>2. EndedAccounts' = EndedAccounts
        <4>1. \A b \in Names : stage'[b] = 9 <=> stage[b] = 9
          BY <1>1, <3>1
        <4> QED BY <4>1, Stages DEF EndedAccounts, Ended, Listening
      <3>3. /\ stage' \in [Names -> 1 .. 9] /\ stage'[a] = 8
            /\ \A b \in Names : b # a => stage'[b] = stage[b]
        BY <1>1, <3>1
      <3> QED BY <3>1, <3>2, <3>3, Stages DEF ReportedInv, AccountsTypeOK, Cancelled, Reporting, Ended, Listening
    <2>3. CASE Report(a)
      <3>1. /\ stage' = [stage EXCEPT ![a] = Ended] /\ stage[a] = 8 /\ errors' = Append(errors, a)
            /\ UNCHANGED <<usable, failed, signalled, run>>
        BY <2>3, Stages DEF Report
      <3>2. Cardinality(EndedAccounts') = Cardinality(EndedAccounts) + 1
        <4>1. stage[a] # Ended
          BY <3>1, Stages
        <4> QED BY <1>1, <3>1, <4>1, OneMoreEnds
      <3>3. errors' \in Seq(Names) /\ Len(errors') = Len(errors) + 1 /\ Len(errors) \in Nat
        BY <1>1, <3>1
      <3>4. Len(errors') <= Cardinality(EndedAccounts')
        BY <1>1, <3>2, <3>3 DEF ReportedInv
      <3>5. /\ stage' \in [Names -> 1 .. 9] /\ stage'[a] = 9
            /\ \A b \in Names : b # a => stage'[b] = stage[b]
        BY <1>1, <3>1, Stages
      <3> QED BY <3>1, <3>3, <3>4, <3>5, Stages
              DEF ReportedInv, AccountsTypeOK, Cancelled, Reporting, Ended, Listening
    <2>4. CASE ListenReturns(a)
      <3>1. /\ stage' = [stage EXCEPT ![a] = Ended] /\ stage[a] = 7 /\ Cancelled
            /\ UNCHANGED <<usable, errors, failed, signalled, run>>
        BY <2>4, Stages DEF ListenReturns
      <3>2. Cardinality(EndedAccounts') = Cardinality(EndedAccounts) + 1
        <4>1. stage[a] # Ended
          BY <3>1, Stages
        <4> QED BY <1>1, <3>1, <4>1, OneMoreEnds
      <3>3. Len(errors) \in Nat /\ Len(errors') <= Cardinality(EndedAccounts')
        BY <1>1, <3>1, <3>2 DEF ReportedInv
      <3>4. /\ stage' \in [Names -> 1 .. 9] /\ stage'[a] = 9
            /\ \A b \in Names : b # a => stage'[b] = stage[b]
        BY <1>1, <3>1, Stages
      <3> QED BY <3>1, <3>3, <3>4, Stages DEF ReportedInv, AccountsTypeOK, Cancelled, Reporting, Ended, Listening
    <2> QED BY <1>7, <2>1, <2>2, <2>3, <2>4 DEF Goroutine
  <1> QED BY <1>3, <1>4, <1>5, <1>6, <1>7 DEF AccountsNext

-----------------------------------------------------------------------------
(* The commands together.                                                  *)

OnboardingInv == OneAccountInv /\ OneLoginInv /\ ReportedInv

LEMMA OnboardingInitInv == ASSUME OnboardingInit PROVE OnboardingInv
  <1>1. OneAccountInv
    BY DEF OnboardingInit, RegistrationInit, OneAccountInv, OneAccount, Underway
  <1>2. OneLoginInv
    <2>1. Step # "qrCodeLoginV2ForSecure"
      BY QRSteps DEF OnboardingInit, QRInit, Step
    <2> QED BY <2>1 DEF OnboardingInit, QRInit, OneLoginInv, OneLogin, Running
  <1>3. ReportedInv
    <2>1. /\ usable \subseteq Names /\ stage = [a \in Names |-> 1] /\ errors = <<>> /\ failed = {}
          /\ signalled = FALSE /\ run = [pc |-> "off", cancelled |-> FALSE, result |-> "none"]
      BY DEF OnboardingInit, AccountsInit
    <2>2. EndedAccounts = {}
      BY <2>1, Stages DEF EndedAccounts
    <2>3. Len(errors) <= Cardinality(EndedAccounts)
      BY <2>1, <2>2, FS_EmptySet
    <2>4. AccountsTypeOK
      <3>1. errors \in Seq(Names)
        BY <2>1
      <3>2. run \in [pc : {"off", "select", "wait", "returned"}, cancelled : BOOLEAN,
                     result : {"none", "nil", "error"}]
        BY <2>1
      <3>3. stage \in [Names -> 1 .. Len(Preparation) + 2]
        BY <2>1, Stages
      <3> QED BY <2>1, <3>1, <3>2, <3>3 DEF AccountsTypeOK
    <2> QED BY <2>1, <2>3, <2>4, Stages DEF ReportedInv, Cancelled
  <1> QED BY <1>1, <1>2, <1>3 DEF OnboardingInv

LEMMA OnboardingNextInv == ASSUME OnboardingInv, [OnboardingNext]_onboardingVars PROVE OnboardingInv'
  <1>1. ASSUME UNCHANGED registrationVars PROVE OneAccountInv'
    BY <1>1 DEF OnboardingInv, registrationVars, verifyVars, OneAccountInv, OneAccount, Underway
  <1>2. ASSUME UNCHANGED qrVars PROVE OneLoginInv'
    BY <1>2 DEF OnboardingInv, qrVars, OneLoginInv, OneLogin, Running, Step
  <1>3. ASSUME UNCHANGED <<stage, errors, failed, signalled, run>>, usable' \subseteq Names
        PROVE  ReportedInv'
    BY <1>3 DEF OnboardingInv, ReportedInv, AccountsTypeOK, Cancelled, EndedAccounts, Reporting, Ended, Listening
  <1>4. usable \subseteq Names
    BY DEF OnboardingInv, ReportedInv, AccountsTypeOK
  <1>5. CASE Register
    BY <1>2, <1>3, <1>4, <1>5, RegistrationStep DEF Register, OnboardingInv, accountVars
  <1>6. CASE QR
    BY <1>1, <1>3, <1>4, <1>6, QRStep DEF QR, OnboardingInv, accountVars
  <1>7. CASE MultiListen
    BY <1>1, <1>2, <1>3, <1>4, <1>7, OnboardingAssumption DEF MultiListen, OnboardingInv
  <1>8. CASE Listen
    BY <1>1, <1>2, <1>8, AccountsStep DEF Listen, OnboardingInv
  <1>9. CASE UNCHANGED onboardingVars
    BY <1>1, <1>2, <1>3, <1>4, <1>9 DEF onboardingVars, OnboardingInv, accountVars
  <1> QED BY <1>5, <1>6, <1>7, <1>8, <1>9 DEF OnboardingNext

\* The strengthening of what follows holds of every reachable state.
THEOREM OnboardingInvariant == OnboardingSpec => []OnboardingInv
  <1>1. OnboardingInit => OnboardingInv
    BY OnboardingInitInv
  <1>2. OnboardingInv /\ [OnboardingNext]_onboardingVars => OnboardingInv'
    BY OnboardingNextInv
  <1> QED BY <1>1, <1>2, PTL DEF OnboardingSpec

\* The gateway is asked for one PIN and one account, the login service for one
\* login, and what was created is not lost without an error (RegisterPhone,
\* LoginQR).
THEOREM AskedForOnce == OnboardingSpec => []AskedOnce
  <1>1. OnboardingInv => AskedOnce
    BY DEF OnboardingInv, OneAccountInv, OneLoginInv, AskedOnce
  <1> QED BY <1>1, OnboardingInvariant, PTL

\* Run of the manager reports an error unless a signal stopped it or every
\* account had one.
THEOREM ErrorIsReported == OnboardingSpec => []ErrorReported
  <1>1. OnboardingInv => ErrorReported
    BY DEF OnboardingInv, ReportedInv, ErrorReported
  <1> QED BY <1>1, OnboardingInvariant, PTL

\* No goroutine has to wait for room on the error channel, however many of the
\* accounts fail and though Run takes one error at most.
THEOREM ReportsNeverWait ==
    OnboardingSpec => [](\A a \in Names : stage[a] = Reporting => Len(errors) < Capacity)
  <1>1. ASSUME OnboardingInv, NEW a \in Names, stage[a] = Reporting
        PROVE  Len(errors) < Capacity
    <2>1. a \notin EndedAccounts /\ EndedAccounts \subseteq Names /\ IsFiniteSet(Names)
      BY <1>1, Stages, AccountsAssumption DEF EndedAccounts
    <2>2. /\ Cardinality(EndedAccounts) \in Nat /\ Cardinality(Names) \in Nat
          /\ Cardinality(EndedAccounts) < Cardinality(Names)
      BY <2>1, FS_Subset, FS_CardinalityType
    <2>3. Len(errors) \in Nat /\ Len(errors) <= Cardinality(EndedAccounts)
      BY <1>1 DEF OnboardingInv, ReportedInv, AccountsTypeOK
    <2> QED BY <2>2, <2>3 DEF Capacity
  <1>2. OnboardingInv => \A a \in Names : stage[a] = Reporting => Len(errors) < Capacity
    BY <1>1
  <1> QED BY <1>2, OnboardingInvariant, PTL

-----------------------------------------------------------------------------
(* E2EE keys.                                                              *)

\* The device keys that were handed out for an account are among these.
Held(a) == orphans \cup foreign \cup session[a].chain \cup session[a].device

\* The keys of one account: memory, file and server.
AccountOK(a) ==
    /\ file[a] = session[a]
    /\ latest[a] \in 1 .. lastKey /\ latest[a] \in Held(a)
    /\ session[a].chain \cup session[a].device \subseteq 1 .. lastKey
    /\ \/ session[a].meta # 0 /\ session[a].chain = {session[a].meta}
       \/ session[a].meta = 0 /\ session[a].chain = {} /\ session[a].device # {}
    /\ keys[a] \in {{}, Source(session[a])}
    /\ phase[a] = "up" => \/ latest[a] \in Source(session[a])
                          \/ a \in replaced /\ latest[a] \in foreign

\* A group key is wrapped for keys that were handed out; one that nobody can
\* unwrap was made while another device replaced the creator's key.
GroupOK(g) ==
    /\ g.with # g.creatorKey => g.creatorKey \in foreign
    /\ \A a \in Accounts : g.wrap[a] # 0 => g.wrap[a] \in Held(a)

\* A key as the server or a cache gives it to the account.
GoodKey(a, key) ==
    /\ key.id = key.secret
    /\ IF chat = "group" THEN key.id \in DOMAIN groups ELSE key.id \in Held(Peer(a))

\* A reader that has the right group key lacks the key it was wrapped for.
Unopenable(r, m) ==
    \/ groups[m.id].wrap[r] = 0
    \/ groups[m.id].creatorKey \in foreign
    \/ Gone(r, groups[m.id].wrap[r])

\* Why the account could not read the message.
Explained(r, m) ==
    \/ r \in m.faulted
    \/ m.from = r /\ Gone(r, m.senderKey)
    \/ chat = "group" /\ Unopenable(r, m)
    \/ chat = "direct" /\ Gone(r, m.id)

\* A message was sealed with a key that was handed out, by a key of its sender.
MsgOK(m) ==
    /\ m.plain => m.failed = {}
    /\ ~m.plain => /\ m.from \in Accounts =>
                         m.senderKey \in session[m.from].chain \cup session[m.from].device
                   /\ chat = "group" => m.id = m.secret /\ m.id \in DOMAIN groups
                   /\ chat = "direct" => m.from \in Accounts /\ m.id \in Held(Peer(m.from))
    /\ \A r \in m.failed : Explained(r, m)

\* What a goroutine has read still holds.
TaskOK(t) ==
    t.pc # "idle" =>
        /\ t.acct \in Accounts /\ phase[t.acct] = "up"
        /\ t.msg # 0 => t.msg \in DOMAIN msgs /\ ~msgs[t.msg].plain
        /\ t.pc \in {"plain", "post"} => t.msg = 0
        /\ t.pc = "open" => /\ chat = "group" /\ t.got \in DOMAIN groups
                            /\ t.msg # 0 => t.got = msgs[t.msg].id
        /\ t.pc = "register" => /\ chat = "group"
                                /\ t.own = latest[t.acct] \/ latest[t.acct] \in foreign
                                /\ \A a \in Accounts : t.wrap[a] # 0 => t.wrap[a] \in Held(a)
                                /\ t.msg # 0 => Unopenable(t.acct, msgs[t.msg])
        /\ t.pc = "post" => GoodKey(t.acct, t.key)

AccountsOK == orphans \cup foreign \subseteq 1 .. lastKey /\ \A a \in Accounts : AccountOK(a)
GroupsOK == Len(groups) > 0 /\ \A g \in DOMAIN groups : GroupOK(groups[g])
CachesOK == \A a \in Accounts : known[a] # NoKey => GoodKey(a, known[a])
MsgsOK == \A i \in DOMAIN msgs : MsgOK(msgs[i])
TasksOK == \A w \in Workers : TaskOK(tasks[w])

Basics == TypeOK /\ AccountsOK /\ (chat = "direct" => Cardinality(Accounts) = 2)

IInv == Basics /\ GroupsOK /\ CachesOK /\ MsgsOK /\ TasksOK /\ Sends

-----------------------------------------------------------------------------
(* The keychain.                                                           *)

\* A set of key ids has a greatest one.
LEMMA GreatestKey ==
    ASSUME NEW n \in Nat, NEW S, S \subseteq 1 .. n, S # {}
    PROVE  Max(S) \in S
  <1> DEFINE T == {n - x : x \in S}
             less == {p \in Nat \X Nat : p[1] < p[2]}
  <1>1. T \subseteq Nat /\ T # {}
    <2>1. \A x \in S : n - x \in Nat
      OBVIOUS
    <2>2. PICK x : x \in S
      OBVIOUS
    <2>3. n - x \in T
      BY <2>2
    <2> QED BY <2>1, <2>3
  <1>2. IsWellFoundedOn(less, Nat)
    <2>1. less = OpToRel(<, Nat)
      BY DEF OpToRel
    <2> QED BY <2>1, NatLessThanWellFounded
  <1>3. \A x, y \in Nat : <<y, x>> \in less <=> y < x
    OBVIOUS
  <1> HIDE DEF less
  <1>4. PICK d \in T : \A e \in T : ~ (<<e, d>> \in less)
    BY <1>1, <1>2, WFMin
  <1>5. PICK x \in S : d = n - x
    OBVIOUS
  <1>6. ASSUME NEW y \in S PROVE x >= y
    <2>1. ~ (n - y < n - x)
      BY <1>1, <1>3, <1>4, <1>5
    <2> QED BY <2>1
  <1>7. \A y \in S : x >= y
    BY <1>6
  <1> QED BY <1>7 DEF Max

\* The keychain is the one of the session, and an account has a key of its own
\* unless the keys of its login are superseded.
LEMMA OwnKeys ==
    ASSUME TypeOK, NEW a \in Accounts, AccountOK(a)
    PROVE  /\ Keychain(a) = Source(session[a])
           /\ Source(session[a]) \subseteq session[a].chain \cup session[a].device
           /\ OwnKey(a, 0) \subseteq Source(session[a])
           /\ OwnKey(a, 0) = {} => Superseded(a) # {}
           /\ \A k \in Nat \ {0} : OwnKey(a, k) = Source(session[a]) \cap {k}
           /\ \A k \in session[a].chain \cup session[a].device :
                k \notin Source(session[a]) => k \in Superseded(a)
  <1>1. /\ session[a] \in Session /\ lastKey \in Nat
        /\ session[a].chain \cup session[a].device \subseteq 1 .. lastKey
    BY DEF TypeOK, AccountOK
  <1>2. Keychain(a) = Source(session[a])
    BY DEF AccountOK, Keychain
  <1>3. /\ Source(session[a]) \subseteq session[a].chain \cup session[a].device
        /\ Source(session[a]) # {}
    BY DEF AccountOK, Source
  <1>4. Max(Source(session[a])) \in Source(session[a])
    BY <1>1, <1>3, GreatestKey
  <1>5. OwnKey(a, 0) \subseteq Source(session[a])
    BY <1>2, <1>4 DEF OwnKey
  <1>6. OwnKey(a, 0) = {} => Superseded(a) # {}
    <2> SUFFICES ASSUME OwnKey(a, 0) = {}
                 PROVE  Superseded(a) # {}
      OBVIOUS
    <2>1. session[a].meta # 0 /\ session[a].meta \notin Source(session[a])
      BY <1>2, <1>3 DEF OwnKey
    <2> QED BY <2>1 DEF AccountOK, Source, Superseded
  <1>7. \A k \in Nat \ {0} : OwnKey(a, k) = Source(session[a]) \cap {k}
    BY <1>2 DEF OwnKey
  <1>8. \A k \in session[a].chain \cup session[a].device :
          k \notin Source(session[a]) => k \in Superseded(a)
    BY DEF Source, Superseded
  <1> QED BY <1>2, <1>3, <1>5, <1>6, <1>7, <1>8

\* A key that was handed out and is not in the keychain is gone for good.
LEMMA NotOwned ==
    ASSUME TypeOK, NEW a \in Accounts, AccountOK(a), NEW k \in Held(a), k \in Nat \ {0}, OwnKey(a, k) = {}
    PROVE  Gone(a, k)
  BY OwnKeys DEF Held, Gone

\* Every account has a peer, and in a direct chat no more than one.
LEMMA PeerOf ==
    ASSUME NEW a \in Accounts
    PROVE  /\ Peer(a) \in Accounts /\ Peer(a) # a
           /\ Cardinality(Accounts) = 2 => \A r \in Accounts : r = a \/ r = Peer(a)
  <1>1. IsFiniteSet(Accounts) /\ Cardinality(Accounts) >= 2 /\ Cardinality(Accounts) \in Nat
    BY E2EEAssumption, FS_CardinalityType
  <1>2. \E b \in Accounts : b # a
    <2> SUFFICES ASSUME Accounts = {a}
                 PROVE  FALSE
      OBVIOUS
    <2>1. Cardinality({a}) = 1
      BY FS_Singleton
    <2> QED BY <1>1, <2>1
  <1>3. Peer(a) \in Accounts /\ Peer(a) # a
    BY <1>2 DEF Peer
  <1>4. ASSUME Cardinality(Accounts) = 2, NEW r \in Accounts, r # a
        PROVE  r = Peer(a)
    <2>1. Cardinality(Accounts \ {a}) = 1
      BY <1>1, <1>4, FS_RemoveElement
    <2>2. PICK x : Accounts \ {a} = {x}
      BY <1>1, <2>1, FS_Singleton, FS_RemoveElement
    <2> QED BY <1>3, <1>4, <2>2
  <1> QED BY <1>3, <1>4

-----------------------------------------------------------------------------
(* What a step leaves as it was.                                           *)

\* Keys are added, never lost, and a group key does not change.
Grows ==
    /\ chat' = chat
    /\ \A a \in Accounts : /\ session'[a].meta = session[a].meta
                           /\ session'[a].chain = session[a].chain
                           /\ session[a].device \subseteq session'[a].device
    /\ orphans \subseteq orphans' /\ foreign \subseteq foreign'
    /\ \A i \in DOMAIN groups : i \in DOMAIN groups' /\ groups'[i] = groups[i]

\* A message later on.
Later(m, n) ==
    /\ n.from = m.from /\ n.plain = m.plain /\ n.id = m.id
    /\ n.secret = m.secret /\ n.senderKey = m.senderKey
    /\ m.faulted \subseteq n.faulted

MsgsGrow == \A i \in DOMAIN msgs : i \in DOMAIN msgs' /\ Later(msgs[i], msgs'[i])

\* A reason why a key is not there, and a key that is good, remain so.
LEMMA Persists ==
    ASSUME Grows, NEW a \in Accounts
    PROVE  /\ Held(a) \subseteq Held(a)'
           /\ Superseded(a) \subseteq Superseded(a)'
           /\ \A k : Gone(a, k) => Gone(a, k)'
           /\ \A key : GoodKey(a, key) => GoodKey(a, key)'
           /\ \A m : m.id \in DOMAIN groups /\ Unopenable(a, m) => Unopenable(a, m)'
  <1>1. Held(a) \subseteq Held(a)' /\ Held(Peer(a)) \subseteq Held(Peer(a))'
    BY PeerOf DEF Grows, Held
  <1>2. Superseded(a) \subseteq Superseded(a)'
    BY DEF Grows, Superseded
  <1>3. \A k : Gone(a, k) => Gone(a, k)'
    BY <1>2 DEF Grows, Gone
  <1>4. \A key : GoodKey(a, key) => GoodKey(a, key)'
    BY <1>1 DEF Grows, GoodKey
  <1>5. \A m : m.id \in DOMAIN groups /\ Unopenable(a, m) => Unopenable(a, m)'
    BY <1>3 DEF Grows, Unopenable
  <1> QED BY <1>1, <1>2, <1>3, <1>4, <1>5

\* So does the reason why a message could not be read.
LEMMA ExplainedPersists ==
    ASSUME Grows, NEW r \in Accounts, NEW m, NEW n, Later(m, n), Explained(r, m),
           chat = "group" => m.id \in DOMAIN groups
    PROVE  Explained(r, n)'
  <1>1. /\ n.from = m.from /\ n.id = m.id /\ n.senderKey = m.senderKey
        /\ m.faulted \subseteq n.faulted /\ chat' = chat
    BY DEF Later, Grows
  <1>2. \A k : Gone(r, k) => Gone(r, k)'
    BY Persists
  <1>3. m.id \in DOMAIN groups /\ Unopenable(r, m) => Unopenable(r, n)'
    BY <1>1, <1>2 DEF Grows, Unopenable
  <1> QED BY <1>1, <1>2, <1>3 DEF Explained

\* The messages keep their promise when every new failure has a reason.
LEMMA MessagesKept ==
    ASSUME TypeOK, msgs' \in Seq(Message), Grows, MsgsGrow, MsgsOK,
           \A i \in DOMAIN msgs : \A r \in msgs'[i].failed :
              \/ r \in msgs[i].failed
              \/ ~msgs[i].plain /\ (r \in msgs'[i].faulted \/ Explained(r, msgs[i])),
           \A i \in DOMAIN msgs' : i \notin DOMAIN msgs => MsgOK(msgs[i])'
    PROVE  MsgsOK'
  <1> SUFFICES ASSUME NEW i \in DOMAIN msgs, i \in DOMAIN msgs' PROVE MsgOK(msgs[i])'
    BY DEF MsgsOK
  <1>1. PICK m \in Message, n \in Message : m = msgs[i] /\ n = msgs'[i]
    BY ElementOfSeq DEF TypeOK
  <1>2. Later(m, n) /\ MsgOK(m)
    BY <1>1 DEF MsgsGrow, MsgsOK
  <1>3. /\ n.from = m.from /\ n.plain = m.plain /\ n.id = m.id
        /\ n.secret = m.secret /\ n.senderKey = m.senderKey /\ chat' = chat
    BY <1>2 DEF Later, Grows
  <1>4. n.plain => n.failed = {}
    BY <1>1, <1>2, <1>3 DEF MsgOK
  <1>5. ~n.plain => /\ n.from \in Accounts =>
                          n.senderKey \in session'[n.from].chain \cup session'[n.from].device
                    /\ chat' = "group" => n.id = n.secret /\ n.id \in DOMAIN groups'
                    /\ chat' = "direct" => n.from \in Accounts /\ n.id \in Held(Peer(n.from))'
    <2>1. n.from \in Accounts => Held(Peer(n.from)) \subseteq Held(Peer(n.from))'
      BY Persists, PeerOf
    <2> QED BY <1>2, <1>3, <2>1 DEF MsgOK, Grows
  <1>6. ASSUME NEW r \in n.failed PROVE Explained(r, n)'
    <2>1. r \in Accounts
      BY DEF Message
    <2>2. r \in n.faulted \/ Explained(r, m)
      BY <1>1, <1>2 DEF MsgOK
    <2>3. ~m.plain
      BY <1>3, <1>4
    <2>4. CASE r \in n.faulted
      BY <2>4 DEF Explained
    <2>5. CASE Explained(r, m)
      BY <1>2, <2>1, <2>3, <2>5, ExplainedPersists DEF MsgOK
    <2> QED BY <2>2, <2>4, <2>5
  <1>7. MsgOK(n)'
    BY <1>3, <1>4, <1>5, <1>6 DEF MsgOK
  <1> QED BY <1>1, <1>7 DEF MsgOK, Explained, Unopenable

\* What a goroutine has read still holds as long as its account is up.
LEMMA TaskPersists ==
    ASSUME TypeOK, Grows, MsgsGrow, MsgsOK, NEW t \in Task, TaskOK(t),
           t.pc # "idle" => /\ phase'[t.acct] = "up"
                            /\ latest'[t.acct] = latest[t.acct] \/ latest'[t.acct] \in foreign'
    PROVE  TaskOK(t)'
  <1> SUFFICES ASSUME t.pc # "idle"
               PROVE  TaskOK(t)'
    BY DEF TaskOK
  <1>1. /\ t.acct \in Accounts /\ phase'[t.acct] = "up" /\ chat' = chat
        /\ t.pc \in {"plain", "post"} => t.msg = 0
    BY DEF TaskOK, Grows
  <1>2. t.msg # 0 => /\ t.msg \in DOMAIN msgs' /\ ~msgs'[t.msg].plain
                     /\ msgs'[t.msg].id = msgs[t.msg].id
    BY DEF TaskOK, MsgsGrow, Later
  <1>3. t.pc = "open" => /\ chat = "group" /\ t.got \in DOMAIN groups'
                         /\ t.msg # 0 => t.got = msgs'[t.msg].id
    BY <1>2 DEF TaskOK, Grows
  <1>4. t.pc = "register" => /\ chat = "group"
                             /\ t.own = latest'[t.acct] \/ latest'[t.acct] \in foreign'
                             /\ \A a \in Accounts : t.wrap[a] # 0 => t.wrap[a] \in Held(a)'
    <2>1. foreign \subseteq foreign' /\ \A a \in Accounts : Held(a) \subseteq Held(a)'
      BY Persists DEF Grows
    <2> QED BY <2>1 DEF TaskOK
  <1>5. ASSUME t.pc = "register", t.msg # 0
        PROVE  Unopenable(t.acct, msgs[t.msg])'
    <2>1. PICK m, n : m = msgs[t.msg] /\ n = msgs'[t.msg]
      OBVIOUS
    <2>2. m.id \in DOMAIN groups /\ n.id = m.id /\ Unopenable(t.acct, m)
      BY <1>2, <1>5, <2>1 DEF TaskOK, MsgsOK, MsgOK
    <2>3. Unopenable(t.acct, m)'
      BY <1>1, <2>2, Persists
    <2> QED BY <2>1, <2>2, <2>3 DEF Unopenable
  <1>6. t.pc = "post" => GoodKey(t.acct, t.key)'
    BY <1>1, Persists DEF TaskOK
  <1> QED BY <1>1, <1>2, <1>3, <1>4, <1>5, <1>6 DEF TaskOK

\* An account's keys are not disturbed while they are not written.
Untouched(a) ==
    /\ session'[a] = session[a] /\ file'[a] = file[a] /\ keys'[a] = keys[a]
    /\ latest'[a] = latest[a] /\ phase'[a] = phase[a]
    /\ a \in replaced => a \in replaced'

LEMMA AccountUntouched ==
    ASSUME Basics, NEW a \in Accounts, Untouched(a), lastKey' \in Nat, lastKey <= lastKey',
           orphans \subseteq orphans', foreign \subseteq foreign'
    PROVE  AccountOK(a)'
  <1>1. lastKey \in Nat /\ AccountOK(a)
    BY DEF Basics, AccountsOK, TypeOK
  <1>2. Source(session[a])' = Source(session[a]) /\ Held(a) \subseteq Held(a)'
    BY DEF Untouched, Source, Held
  <1>3. latest'[a] \in 1 .. lastKey' /\ session'[a].chain \cup session'[a].device \subseteq 1 .. lastKey'
    BY <1>1 DEF Untouched, AccountOK
  <1>4. phase'[a] = "up" => \/ latest'[a] \in Source(session[a])
                            \/ a \in replaced' /\ latest'[a] \in foreign'
    BY <1>1 DEF Untouched, AccountOK
  <1> QED BY <1>1, <1>2, <1>3, <1>4 DEF Untouched, AccountOK

LEMMA OtherDeviceStep ==
    ASSUME Basics, NEW a \in Accounts, OtherDevice(a)
    PROVE  Basics' /\ Grows
  <1>1. /\ lastKey \in Nat /\ lastKey' = lastKey + 1 /\ latest' = [latest EXCEPT ![a] = lastKey + 1]
        /\ foreign' = foreign \cup {lastKey + 1} /\ replaced' = replaced \cup {a}
        /\ events' \in 0 .. MaxEvents
        /\ UNCHANGED <<chat, sealed, members, groups, msgs, client, tasks, orphans, unsent>>
    BY E2EEAssumption DEF OtherDevice, Event, Basics, TypeOK
  <1>2. TypeOK'
    BY <1>1 DEF Basics, TypeOK, client
  <1>3. \A b \in Accounts \ {a} : AccountOK(b)'
    <2> SUFFICES ASSUME NEW b \in Accounts, b # a PROVE AccountOK(b)'
      OBVIOUS
    <2>1. Untouched(b)
      BY <1>1 DEF Untouched, client, Basics, TypeOK
    <2> QED BY <1>1, <2>1, AccountUntouched
  <1>4. AccountOK(a)'
    <2>1. latest'[a] = lastKey + 1 /\ AccountOK(a)
      BY <1>1 DEF Basics, AccountsOK, TypeOK
    <2>2. latest'[a] \in 1 .. lastKey' /\ latest'[a] \in foreign' /\ a \in replaced'
      BY <1>1, <2>1
    <2>3. session[a].chain \cup session[a].device \subseteq 1 .. lastKey'
      BY <1>1, <2>1 DEF AccountOK
    <2> QED BY <1>1, <2>1, <2>2, <2>3 DEF AccountOK, Source, Held, client
  <1>5. orphans' \cup foreign' \subseteq 1 .. lastKey'
    BY <1>1 DEF Basics, AccountsOK
  <1> QED BY <1>1, <1>2, <1>3, <1>4, <1>5 DEF Basics, AccountsOK, Grows, client

\* A start reads the file, which is what memory held.
LEMMA OpenStep ==
    ASSUME Basics, NEW a \in Accounts, Open(a)
    PROVE  /\ Basics' /\ Grows
           /\ known' \in [Accounts -> Key \cup {NoKey}]
           /\ \A b \in Accounts : known'[b] \in {known[b], NoKey}
           /\ \A b \in Accounts : phase[b] = "up" => phase'[b] = "up"
  <1>1. /\ phase[a] = "down" /\ AccountOK(a) /\ lastKey \in Nat
        /\ session' = session /\ known' = [known EXCEPT ![a] = NoKey]
        /\ marked' = marked \ {a} /\ keys' = [keys EXCEPT ![a] = Source(session[a])]
        /\ phase' = [phase EXCEPT ![a] = IF latest[a] \in Source(session[a]) THEN "up" ELSE "register"]
        /\ replaced' = replaced \ {a}
        /\ UNCHANGED <<server, file, tasks, events, orphans, foreign, unsent>>
    BY DEF Open, OwnsLatest, Basics, AccountsOK, AccountOK, TypeOK
  <1>2. Source(session[a]) \subseteq Nat
    BY DEF Basics, TypeOK, Session, Source
  <1>3. TypeOK'
    BY <1>1, <1>2 DEF Basics, TypeOK, server, Phases
  <1>4. \A b \in Accounts \ {a} : AccountOK(b)'
    <2> SUFFICES ASSUME NEW b \in Accounts, b # a PROVE AccountOK(b)'
      OBVIOUS
    <2>1. Untouched(b)
      BY <1>1 DEF Untouched, server, Basics, TypeOK
    <2> QED BY <1>1, <2>1, AccountUntouched DEF server
  <1>5. AccountOK(a)'
    <2>1. /\ keys'[a] = Source(session[a])
          /\ phase'[a] = "up" => latest[a] \in Source(session[a])
      BY <1>1 DEF Basics, TypeOK
    <2> QED BY <1>1, <2>1 DEF AccountOK, Source, Held, server
  <1>6. /\ \A b \in Accounts : known'[b] \in {known[b], NoKey}
        /\ \A b \in Accounts : phase[b] = "up" => phase'[b] = "up"
    BY <1>1 DEF Basics, TypeOK
  <1> QED BY <1>1, <1>3, <1>4, <1>5, <1>6 DEF Basics, AccountsOK, Grows, server, TypeOK

\* The new key is kept, in memory and in the file, or nobody has it.
LEMMA RegisterSelfStep ==
    ASSUME Basics, NEW a \in Accounts, RegisterSelf(a)
    PROVE  Basics' /\ Grows
  <1> DEFINE id == lastKey + 1
  <1>1. /\ lastKey \in Nat /\ lastKey' = id /\ latest' = [latest EXCEPT ![a] = id]
        /\ Keep(a, id) /\ AccountOK(a) /\ phase[a] = "register"
        /\ UNCHANGED <<chat, sealed, members, groups, msgs, known, marked, tasks, foreign, replaced, unsent>>
    BY DEF RegisterSelf, Basics, AccountsOK, TypeOK
  <1>2. id \in Nat /\ id \in 1 .. lastKey' /\ 1 .. lastKey \subseteq 1 .. lastKey' /\ lastKey <= lastKey'
    BY <1>1
  <1> HIDE DEF id
  <1>3. session[a] \in Session /\ session \in [Accounts -> Session] /\ file \in [Accounts -> Session]
    BY DEF Basics, TypeOK
  <1>4. \/ /\ phase' = [phase EXCEPT ![a] = "up"]
           /\ \E s \in Session : /\ s.meta = session[a].meta /\ s.chain = session[a].chain
                                 /\ s.device = session[a].device \cup {id}
                                 /\ session' = [session EXCEPT ![a] = s]
                                 /\ file' = [file EXCEPT ![a] = s]
           /\ keys' = [keys EXCEPT ![a] = {}]
           /\ UNCHANGED <<events, orphans>>
        \/ /\ events' \in 0 .. MaxEvents
           /\ phase' = [phase EXCEPT ![a] = "down"]
           /\ orphans' = orphans \cup {id}
           /\ UNCHANGED <<session, keys, file>>
    <2>1. CASE /\ phase' = [phase EXCEPT ![a] = "up"]
               /\ session' = [session EXCEPT ![a].device = @ \cup {id}]
               /\ keys' = [keys EXCEPT ![a] = {}]
               /\ file' = [file EXCEPT ![a] = session'[a]]
               /\ NoEvent /\ UNCHANGED orphans
      <3> DEFINE s == [session[a] EXCEPT !.device = @ \cup {id}]
      <3>1. /\ s \in Session /\ s.meta = session[a].meta /\ s.chain = session[a].chain
            /\ s.device = session[a].device \cup {id}
        BY <1>2, <1>3 DEF Session
      <3>2. session' = [session EXCEPT ![a] = s] /\ session'[a] = s
        BY <1>3, <2>1
      <3> HIDE DEF s
      <3> QED BY <2>1, <3>1, <3>2 DEF NoEvent
    <2>2. CASE /\ Event
               /\ phase' = [phase EXCEPT ![a] = "down"]
               /\ orphans' = orphans \cup {id}
               /\ UNCHANGED <<session, keys, file>>
      BY <2>2, E2EEAssumption DEF Event, Basics, TypeOK
    <2> QED BY <1>1, <2>1, <2>2 DEF Keep
  <1>5. TypeOK'
    <2>1. /\ phase' \in [Accounts -> Phases] /\ session' \in [Accounts -> Session]
          /\ file' \in [Accounts -> Session] /\ keys' \in [Accounts -> SUBSET Nat]
          /\ events' \in 0 .. MaxEvents /\ orphans' \subseteq Nat
      <3>1. phase' \in [Accounts -> Phases]
        BY <1>4 DEF Basics, TypeOK, Phases
      <3>2. session' \in [Accounts -> Session] /\ file' \in [Accounts -> Session]
        BY <1>3, <1>4
      <3>3. keys' \in [Accounts -> SUBSET Nat]
        BY <1>4 DEF Basics, TypeOK
      <3>4. events' \in 0 .. MaxEvents /\ orphans' \subseteq Nat
        BY <1>2, <1>4 DEF Basics, TypeOK
      <3> QED BY <3>1, <3>2, <3>3, <3>4
    <2>2. latest' \in [Accounts -> Nat] /\ lastKey' \in Nat
      BY <1>1, <1>2 DEF Basics, TypeOK
    <2> QED BY <1>1, <2>1, <2>2 DEF Basics, TypeOK
  <1>6. orphans \subseteq orphans' /\ foreign' = foreign
    BY <1>1, <1>4
  <1>7. \A b \in Accounts \ {a} : AccountOK(b)'
    <2> SUFFICES ASSUME NEW b \in Accounts, b # a PROVE AccountOK(b)'
      OBVIOUS
    <2>1. Untouched(b)
      BY <1>1, <1>4 DEF Untouched, Basics, TypeOK
    <2> QED BY <1>1, <1>2, <1>6, <2>1, AccountUntouched DEF TypeOK
  <1>8. AccountOK(a)'
    <2>1. latest'[a] = id
      BY <1>1 DEF Basics, TypeOK
    <2>2. CASE UNCHANGED <<session, keys, file>> /\ phase' = [phase EXCEPT ![a] = "down"]
               /\ orphans' = orphans \cup {id}
      <3>1. phase'[a] = "down"
        BY <2>2 DEF Basics, TypeOK
      <3> QED BY <1>1, <1>2, <2>1, <2>2, <3>1 DEF AccountOK, Source, Held
    <2>3. ASSUME NEW s \in Session, s.meta = session[a].meta, s.chain = session[a].chain,
                 s.device = session[a].device \cup {id}, session' = [session EXCEPT ![a] = s],
                 file' = [file EXCEPT ![a] = s], keys' = [keys EXCEPT ![a] = {}]
          PROVE  AccountOK(a)'
      <3>1. session'[a] = s /\ file'[a] = s /\ keys'[a] = {}
        BY <1>3, <2>3 DEF Basics, TypeOK
      <3>2. Source(s) = s.device /\ id \in s.device
        BY <2>3 DEF Source
      <3>3. s.chain \cup s.device \subseteq 1 .. lastKey'
        BY <1>1, <1>2, <2>3 DEF AccountOK
      <3> QED BY <1>1, <1>2, <2>1, <2>3, <3>1, <3>2, <3>3 DEF AccountOK, Held
    <2> QED BY <1>4, <2>2, <2>3
  <1>9. orphans' \cup foreign' \subseteq 1 .. lastKey'
    BY <1>1, <1>2, <1>4 DEF Basics, AccountsOK
  <1>10. Grows
    BY <1>1, <1>3, <1>4, <1>6 DEF Grows
  <1> QED BY <1>1, <1>5, <1>7, <1>8, <1>9, <1>10 DEF Basics, AccountsOK

-----------------------------------------------------------------------------
(* What a goroutine does.                                                  *)

\* It does not touch the keys of the accounts.
Frame == UNCHANGED <<chat, sealed, members, latest, lastKey, phase, session, file, keys,
                     orphans, foreign, replaced>>

GroupsGrow ==
    /\ groups' \in Seq(Group)
    /\ \A i \in DOMAIN groups : i \in DOMAIN groups' /\ groups'[i] = groups[i]
    /\ \A i \in DOMAIN groups' : i \notin DOMAIN groups => GroupOK(groups[i])'

\* It caches good keys only.
Caching ==
    /\ known' \in [Accounts -> Key \cup {NoKey}]
    /\ \A a \in Accounts : \/ known'[a] = known[a]
                           \/ GoodKey(a, known[a])'

\* It goes on with a task whose facts hold, and whatever it cannot read or send
\* has one of the reasons.
Outcome(w) ==
    /\ events' \in 0 .. MaxEvents
    /\ msgs' \in Seq(Message) /\ MsgsGrow
    /\ \A i \in DOMAIN msgs : \A r \in msgs'[i].failed :
          \/ r \in msgs[i].failed
          \/ ~msgs[i].plain /\ (r \in msgs'[i].faulted \/ Explained(r, msgs[i]))
    /\ \A i \in DOMAIN msgs' : i \notin DOMAIN msgs => MsgOK(msgs[i])'
    /\ \E n \in Task : tasks' = [tasks EXCEPT ![w] = n] /\ (TaskOK(n) \/ TaskOK(n)')
    /\ unsent' \subseteq Accounts \X Nat
    /\ \A u \in unsent' : u \in unsent \/ Superseded(u[1]) # {} \/ u[2] \in foreign

LEMMA WorkStep ==
    ASSUME IInv, NEW w \in Workers, Frame, GroupsGrow, Caching, marked' \subseteq Accounts, Outcome(w)
    PROVE  IInv'
  <1> USE DEF IInv
  <1>1. Grows
    BY DEF Frame, GroupsGrow, Grows
  <1>2. PICK n \in Task : tasks' = [tasks EXCEPT ![w] = n] /\ (TaskOK(n) \/ TaskOK(n)')
    BY DEF Outcome
  <1>3. TypeOK /\ tasks \in [Workers -> Task] /\ tasks' \in [Workers -> Task]
    BY <1>2 DEF Basics, TypeOK
  <1>4. TypeOK'
    BY <1>3 DEF Frame, GroupsGrow, Caching, Outcome, TypeOK
  <1>5. AccountsOK'
    <2>1. \A a \in Accounts : Untouched(a)
      BY DEF Frame, Untouched
    <2> QED BY <1>3, <2>1, AccountUntouched DEF Frame, TypeOK, Basics, AccountsOK
  <1>6. Basics'
    BY <1>4, <1>5 DEF Basics, Frame
  <1>7. GroupsOK'
    <2>1. DOMAIN groups = 1 .. Len(groups) /\ DOMAIN groups' = 1 .. Len(groups')
          /\ Len(groups) \in Nat /\ Len(groups') \in Nat
      BY <1>3, <1>4, LenProperties DEF TypeOK
    <2>2. Len(groups') > 0
      BY <2>1 DEF GroupsOK, GroupsGrow
    <2>3. \A i \in DOMAIN groups : GroupOK(groups[i])'
      BY <1>1, Persists DEF GroupsOK, GroupOK, Grows
    <2> QED BY <2>2, <2>3 DEF GroupsOK, GroupsGrow
  <1>8. CachesOK'
    <2> SUFFICES ASSUME NEW a \in Accounts, known'[a] # NoKey PROVE GoodKey(a, known[a])'
      BY DEF CachesOK
    <2>1. CASE known'[a] = known[a]
      <3>1. PICK key : key = known[a] /\ GoodKey(a, key)
        BY <2>1 DEF CachesOK
      <3>2. GoodKey(a, key)'
        BY <1>1, <3>1, Persists
      <3> QED BY <2>1, <3>1, <3>2 DEF GoodKey
    <2> QED BY <2>1 DEF Caching
  <1>9. MsgsOK'
    BY <1>1, <1>3, MessagesKept DEF Outcome
  <1>10. TasksOK'
    <2> SUFFICES ASSUME NEW v \in Workers PROVE TaskOK(tasks[v])'
      BY DEF TasksOK
    <2>1. PICK t \in Task : t = tasks'[v] /\ (TaskOK(t) \/ TaskOK(t)')
      BY <1>2, <1>3 DEF TasksOK
    <2>2. TaskOK(t) => TaskOK(t)'
      <3> SUFFICES ASSUME TaskOK(t) PROVE TaskOK(t)'
        OBVIOUS
      <3>1. t.pc # "idle" => phase'[t.acct] = "up" /\ latest'[t.acct] = latest[t.acct]
        BY DEF TaskOK, Frame
      <3> QED BY <1>1, <1>3, <3>1, TaskPersists DEF Outcome
    <2>3. TaskOK(t)'
      BY <2>1, <2>2
    <2> QED BY <2>1, <2>3 DEF TaskOK
  <1>11. Sends'
    <2> SUFFICES ASSUME NEW u \in unsent' PROVE Superseded(u[1])' # {} \/ u[2] \in foreign'
      BY DEF Sends
    <2>1. u[1] \in Accounts /\ (Superseded(u[1]) # {} \/ u[2] \in foreign)
      BY DEF Outcome, Sends
    <2> QED BY <1>1, <2>1, Persists DEF Grows
  <1> QED BY <1>6, <1>7, <1>8, <1>9, <1>10, <1>11

\* A goroutine that works for an account: it sends, or reads a sealed message.
Runs(t) ==
    /\ t \in Task /\ t.acct \in Accounts /\ phase[t.acct] = "up"
    /\ t.msg # 0 => t.msg \in DOMAIN msgs /\ ~msgs[t.msg].plain

LEMMA IdleTask ==
    /\ Idle \in Task /\ TaskOK(Idle) /\ Idle.msg = 0
    /\ \A a \in Accounts : [Idle EXCEPT !.acct = a] \in Task
  <1>1. Idle \in Task
    BY DEF Idle, Task, PCs, Key
  <1>2. TaskOK(Idle) /\ Idle.msg = 0
    BY DEF Idle, TaskOK
  <1>3. ASSUME NEW a \in Accounts PROVE [Idle EXCEPT !.acct = a] \in Task
    BY DEF Idle, Task, PCs, Key
  <1> QED BY <1>1, <1>2, <1>3

\* One message is marked as read or as one that could not be read.
LEMMA Marked ==
    ASSUME TypeOK, NEW i \in DOMAIN msgs, NEW n \in Message, Later(msgs[i], n),
           msgs' = [msgs EXCEPT ![i] = n]
    PROVE  /\ msgs' \in Seq(Message) /\ DOMAIN msgs' = DOMAIN msgs /\ MsgsGrow
           /\ msgs'[i] = n
           /\ \A j \in DOMAIN msgs : j # i => msgs'[j] = msgs[j]
  <1>1. msgs \in Seq(Message)
    BY DEF TypeOK
  <1>2. /\ msgs' \in Seq(Message) /\ DOMAIN msgs' = DOMAIN msgs
        /\ msgs'[i] = n /\ \A j \in DOMAIN msgs : j # i => msgs'[j] = msgs[j]
    BY <1>1, ExceptSeq, LenProperties
  <1>3. MsgsGrow
    BY <1>2 DEF MsgsGrow, Later
  <1> QED BY <1>2, <1>3

\* The messages as they were: nothing to explain.
LEMMA MessagesSame ==
    ASSUME TypeOK, UNCHANGED msgs
    PROVE  /\ msgs' \in Seq(Message) /\ MsgsGrow
           /\ \A i \in DOMAIN msgs : msgs'[i].failed = msgs[i].failed
           /\ \A i \in DOMAIN msgs' : i \in DOMAIN msgs
  BY DEF TypeOK, MsgsGrow, Later

\* A message that is marked is read by somebody, whose failure has a reason.
LEMMA MarkedOutcome ==
    ASSUME TypeOK, NEW w \in Workers, NEW i \in DOMAIN msgs, NEW n \in Message, Later(msgs[i], n),
           msgs' = [msgs EXCEPT ![i] = n],
           \A r \in n.failed : \/ r \in msgs[i].failed
                               \/ ~msgs[i].plain /\ (r \in n.faulted \/ Explained(r, msgs[i])),
           events' \in 0 .. MaxEvents, UNCHANGED unsent,
           NEW t \in Task, tasks' = [tasks EXCEPT ![w] = t], TaskOK(t)
    PROVE  Outcome(w)
  <1>1. /\ msgs' \in Seq(Message) /\ DOMAIN msgs' = DOMAIN msgs /\ MsgsGrow
        /\ msgs'[i] = n /\ \A j \in DOMAIN msgs : j # i => msgs'[j] = msgs[j]
    BY Marked
  <1>2. \A j \in DOMAIN msgs : \A r \in msgs'[j].failed :
          \/ r \in msgs[j].failed
          \/ ~msgs[j].plain /\ (r \in msgs'[j].faulted \/ Explained(r, msgs[j]))
    <2> SUFFICES ASSUME NEW j \in DOMAIN msgs, NEW r \in msgs'[j].failed
                 PROVE  \/ r \in msgs[j].failed
                        \/ ~msgs[j].plain /\ (r \in msgs'[j].faulted \/ Explained(r, msgs[j]))
      OBVIOUS
    <2>1. CASE j = i
      BY <1>1, <2>1
    <2>2. CASE j # i
      BY <1>1, <2>2
    <2> QED BY <2>1, <2>2
  <1>3. unsent' \subseteq Accounts \X Nat
    BY DEF TypeOK
  <1> QED BY <1>1, <1>2, <1>3 DEF Outcome

LEMMA ReadsOutcome ==
    ASSUME TypeOK, NEW w \in Workers, NEW t, t.msg \in DOMAIN msgs, Reads(w, t)
    PROVE  Outcome(w)
  <1> DEFINE i == t.msg
             n == [msgs[i] EXCEPT !.unread = @ \ {t.acct}]
  <1>1. msgs[i] \in Message /\ events' \in 0 .. MaxEvents
    BY ElementOfSeq DEF TypeOK, Reads, NoEvent
  <1>2. n \in Message /\ Later(msgs[i], n) /\ n.failed = msgs[i].failed
    BY <1>1 DEF Message, Later
  <1>3. msgs' = [msgs EXCEPT ![i] = n] /\ tasks' = [tasks EXCEPT ![w] = Idle] /\ UNCHANGED unsent
    BY DEF Reads, End
  <1> HIDE DEF n
  <1> QED BY <1>1, <1>2, <1>3, MarkedOutcome, IdleTask

\* A task that goes on leaves the message to others.
LEMMA ContinueOutcome ==
    ASSUME TypeOK, NEW w \in Workers, NEW t \in Task, t.msg # 0 => t.msg \in DOMAIN msgs,
           Continue(w, t), TaskOK(t) \/ (t.msg = 0 /\ TaskOK(t)')
    PROVE  Outcome(w)
  <1>1. tasks' = [tasks EXCEPT ![w] = t] /\ UNCHANGED unsent /\ events' \in 0 .. MaxEvents
    BY DEF Continue, NoEvent, TypeOK
  <1>2. CASE t.msg = 0
    <2>1. UNCHANGED msgs
      BY <1>2 DEF Continue, Sending
    <2>2. /\ msgs' \in Seq(Message) /\ MsgsGrow /\ unsent' \subseteq Accounts \X Nat
          /\ \A i \in DOMAIN msgs : msgs'[i].failed = msgs[i].failed
          /\ \A i \in DOMAIN msgs' : i \in DOMAIN msgs
      BY <1>1, <2>1, MessagesSame DEF TypeOK
    <2> QED BY <1>1, <2>2 DEF Outcome
  <1>3. CASE t.msg # 0
    <2> DEFINE i == t.msg
               n == [msgs[i] EXCEPT !.unread = @ \ {t.acct}]
    <2>1. i \in DOMAIN msgs /\ msgs[i] \in Message
      BY <1>3, ElementOfSeq DEF TypeOK
    <2>2. n \in Message /\ Later(msgs[i], n) /\ n.failed = msgs[i].failed
      BY <2>1 DEF Message, Later
    <2>3. msgs' = [msgs EXCEPT ![i] = n] /\ TaskOK(t)
      BY <1>3 DEF Continue, Sending
    <2> HIDE DEF n
    <2> QED BY <1>1, <2>1, <2>2, <2>3, MarkedOutcome
  <1> QED BY <1>2, <1>3

LEMMA FaultsOutcome ==
    ASSUME TypeOK, NEW w \in Workers, NEW t, Runs(t), Faults(w, t)
    PROVE  Outcome(w)
  <1>1. tasks' = [tasks EXCEPT ![w] = Idle] /\ UNCHANGED unsent /\ events' \in 0 .. MaxEvents
    BY E2EEAssumption DEF Faults, End, Event, TypeOK
  <1>2. CASE t.msg = 0
    <2>1. UNCHANGED msgs
      BY <1>2 DEF Faults, Sending
    <2>2. /\ msgs' \in Seq(Message) /\ MsgsGrow /\ unsent' \subseteq Accounts \X Nat
          /\ \A i \in DOMAIN msgs : msgs'[i].failed = msgs[i].failed
          /\ \A i \in DOMAIN msgs' : i \in DOMAIN msgs
      BY <1>1, <2>1, MessagesSame DEF TypeOK
    <2> QED BY <1>1, <2>2, IdleTask DEF Outcome
  <1>3. CASE t.msg # 0
    <2> DEFINE i == t.msg
               n == [msgs[i] EXCEPT !.unread = @ \ {t.acct}, !.failed = @ \cup {t.acct},
                                    !.faulted = @ \cup {t.acct}]
    <2>1. i \in DOMAIN msgs /\ msgs[i] \in Message /\ ~msgs[i].plain /\ t.acct \in Accounts
      BY <1>3, ElementOfSeq DEF TypeOK, Runs
    <2>2. /\ n \in Message /\ Later(msgs[i], n)
          /\ n.failed = msgs[i].failed \cup {t.acct} /\ t.acct \in n.faulted
      BY <2>1 DEF Message, Later
    <2>3. msgs' = [msgs EXCEPT ![i] = n]
      BY <1>3 DEF Faults, Sending
    <2> HIDE DEF n
    <2> QED BY <1>1, <2>1, <2>2, <2>3, MarkedOutcome, IdleTask
  <1> QED BY <1>2, <1>3

\* Whoever does not succeed has a reason.
LEMMA FailsOutcome ==
    ASSUME TypeOK, NEW w \in Workers, NEW t, Runs(t), Fails(w, t),
           t.msg = 0 => Superseded(t.acct) # {} \/ latest[t.acct] \in foreign,
           t.msg # 0 => Explained(t.acct, msgs[t.msg])
    PROVE  Outcome(w)
  <1>1. tasks' = [tasks EXCEPT ![w] = Idle] /\ events' \in 0 .. MaxEvents /\ t.acct \in Accounts
    BY DEF Fails, End, NoEvent, TypeOK, Runs
  <1>2. CASE t.msg = 0
    <2>1. UNCHANGED msgs /\ unsent' = unsent \cup {<<t.acct, latest[t.acct]>>}
      BY <1>2 DEF Fails, Sending
    <2>2. /\ msgs' \in Seq(Message) /\ MsgsGrow
          /\ \A i \in DOMAIN msgs : msgs'[i].failed = msgs[i].failed
          /\ \A i \in DOMAIN msgs' : i \in DOMAIN msgs
      BY <2>1, MessagesSame
    <2>3. unsent' \subseteq Accounts \X Nat
      BY <1>1, <2>1 DEF TypeOK
    <2>4. \A u \in unsent' : u \in unsent \/ Superseded(u[1]) # {} \/ u[2] \in foreign
      BY <1>2, <2>1
    <2> QED BY <1>1, <2>2, <2>3, <2>4, IdleTask DEF Outcome
  <1>3. CASE t.msg # 0
    <2> DEFINE i == t.msg
               n == [msgs[i] EXCEPT !.unread = @ \ {t.acct}, !.failed = @ \cup {t.acct}]
    <2>1. i \in DOMAIN msgs /\ msgs[i] \in Message /\ ~msgs[i].plain
      BY <1>3, ElementOfSeq DEF TypeOK, Runs
    <2>2. n \in Message /\ Later(msgs[i], n) /\ n.failed = msgs[i].failed \cup {t.acct}
      BY <1>1, <2>1 DEF Message, Later
    <2>3. msgs' = [msgs EXCEPT ![i] = n] /\ UNCHANGED unsent /\ Explained(t.acct, msgs[i])
      BY <1>3 DEF Fails, Sending
    <2> HIDE DEF n
    <2> QED BY <1>1, <2>1, <2>2, <2>3, MarkedOutcome, IdleTask
  <1> QED BY <1>2, <1>3

\* With a good key the text is posted; the right key opens a message, unless
\* the account's own device key is gone.
LEMMA ProceedOutcome ==
    ASSUME IInv, UNCHANGED phase, NEW w \in Workers, NEW t, Runs(t), NEW key \in Key, Proceed(w, t, key),
           t.msg = 0 => GoodKey(t.acct, key)',
           t.msg # 0 => \/ key.id = msgs[t.msg].id /\ key.secret = msgs[t.msg].secret
                        \/ Explained(t.acct, msgs[t.msg])
    PROVE  Outcome(w)
  <1> USE DEF IInv
  <1>1. TypeOK /\ t.acct \in Accounts /\ phase[t.acct] = "up" /\ AccountOK(t.acct)
    BY DEF Basics, AccountsOK, Runs
  <1>2. CASE t.msg = 0
    <2> DEFINE n == [Idle EXCEPT !.acct = t.acct, !.pc = "post", !.key = key]
    <2>1. /\ n \in Task /\ n.acct = t.acct /\ n.msg = 0 /\ n.pc = "post" /\ n.key = key
      BY <1>1 DEF Idle, Task, PCs
    <2>2. Continue(w, n)
      BY <1>2 DEF Proceed, Sending
    <2> HIDE DEF n
    <2>3. TaskOK(n)'
      BY <1>1, <1>2, <2>1 DEF TaskOK
    <2> QED BY <1>1, <2>1, <2>2, <2>3, ContinueOutcome
  <1>3. CASE t.msg # 0 /\ Decrypts(t.acct, msgs[t.msg], key)
    <2>1. Reads(w, t) /\ t.msg \in DOMAIN msgs
      BY <1>3 DEF Proceed, Sending, Runs
    <2> QED BY <1>1, <2>1, ReadsOutcome
  <1>4. CASE t.msg # 0 /\ ~Decrypts(t.acct, msgs[t.msg], key)
    <2>1. Fails(w, t)
      BY <1>4 DEF Proceed, Sending
    <2>2. Explained(t.acct, msgs[t.msg])
      <3> SUFFICES ASSUME key.id = msgs[t.msg].id /\ key.secret = msgs[t.msg].secret
                   PROVE  Explained(t.acct, msgs[t.msg])
        BY <1>4
      <3>1. msgs[t.msg].from = t.acct /\ OwnKey(t.acct, msgs[t.msg].senderKey) = {}
        BY <1>4 DEF Decrypts
      <3>2. msgs[t.msg].senderKey \in session[t.acct].chain \cup session[t.acct].device
        BY <1>1, <1>4, <3>1 DEF MsgsOK, MsgOK, Runs
      <3>3. msgs[t.msg].senderKey \in Nat \ {0} /\ msgs[t.msg].senderKey \in Held(t.acct)
        BY <1>1, <3>2 DEF AccountOK, Held, TypeOK
      <3>4. Gone(t.acct, msgs[t.msg].senderKey)
        BY <1>1, <3>1, <3>3, NotOwned
      <3> QED BY <3>1, <3>4 DEF Explained
    <2> QED BY <1>1, <1>4, <2>1, <2>2, FailsOutcome
  <1> QED BY <1>2, <1>3, <1>4

\* A cached key was good when it was cached.
LEMMA HitOutcome ==
    ASSUME IInv, Frame, UNCHANGED groups, NEW w \in Workers, NEW t, Runs(t), Hit(t),
           t.msg # 0 => chat = "group", Proceed(w, t, known[t.acct])
    PROVE  Outcome(w)
  <1> USE DEF IInv
  <1>1. /\ TypeOK /\ t.acct \in Accounts /\ known[t.acct] # NoKey /\ UNCHANGED phase
        /\ known[t.acct] \in Key /\ Grows
    BY DEF Basics, TypeOK, Runs, Hit, Frame, Grows
  <1>2. PICK key \in Key : key = known[t.acct] /\ GoodKey(t.acct, key)
    BY <1>1 DEF CachesOK
  <1>3. GoodKey(t.acct, key)'
    BY <1>1, <1>2, Persists
  <1>4. t.msg # 0 => key.id = msgs[t.msg].id /\ key.secret = msgs[t.msg].secret
    BY <1>2 DEF Hit, Sending, GoodKey, MsgsOK, MsgOK, Runs
  <1> QED BY <1>1, <1>2, <1>3, <1>4, ProceedOutcome

LEMMA InGroupOutcome ==
    ASSUME IInv, Frame, UNCHANGED groups, NEW w \in Workers, NEW t, Runs(t), chat = "group", InGroup(w, t)
    PROVE  Outcome(w) /\ Caching
  <1> USE DEF IInv
  <1>1. TypeOK /\ UNCHANGED known
    BY DEF Basics, InGroup
  <1>2. Caching
    BY <1>1 DEF TypeOK, Caching
  <1>3. CASE Hit(t) /\ Proceed(w, t, known[t.acct])
    BY <1>2, <1>3, HitOutcome
  <1>4. CASE Continue(w, [t EXCEPT !.pc = "open",
                                   !.got = IF Sending(t) THEN Len(groups) ELSE msgs[t.msg].id])
    <2> DEFINE got == IF Sending(t) THEN Len(groups) ELSE msgs[t.msg].id
               n == [t EXCEPT !.pc = "open", !.got = got]
    <2>1. got \in DOMAIN groups /\ got \in Nat /\ (t.msg # 0 => got = msgs[t.msg].id)
      <3>1. groups \in Seq(Group) /\ Len(groups) \in Nat /\ DOMAIN groups = 1 .. Len(groups)
        BY <1>1, LenProperties DEF TypeOK
      <3>2. Len(groups) \in DOMAIN groups
        BY <3>1 DEF GroupsOK
      <3>3. t.msg # 0 => msgs[t.msg].id \in DOMAIN groups
        BY DEF MsgsOK, MsgOK, Runs
      <3> QED BY <3>1, <3>2, <3>3 DEF Sending
    <2> HIDE DEF got
    <2>2. t \in Task
      BY DEF Runs
    <2>3. n \in Task
      BY <2>1, <2>2 DEF Task, PCs
    <2>4. n.pc = "open" /\ n.acct = t.acct /\ n.msg = t.msg /\ n.got = got
      BY <2>2 DEF Task
    <2>5. Continue(w, n)
      BY <1>4 DEF got
    <2> HIDE DEF n
    <2>6. TaskOK(n)
      BY <2>1, <2>4 DEF TaskOK, Runs
    <2>7. n.msg # 0 => n.msg \in DOMAIN msgs
      BY <2>4 DEF Runs
    <2> QED BY <1>1, <1>2, <2>3, <2>5, <2>6, <2>7, ContinueOutcome
  <1>5. CASE Faults(w, t)
    BY <1>1, <1>2, <1>5, FaultsOutcome
  <1> QED BY <1>2, <1>3, <1>4, <1>5 DEF InGroup

LEMMA InDirectOutcome ==
    ASSUME IInv, Frame, UNCHANGED groups, NEW w \in Workers, NEW t, Runs(t), chat = "direct", InDirect(w, t)
    PROVE  Outcome(w) /\ Caching
  <1> USE DEF IInv
  <1>1. TypeOK /\ t.acct \in Accounts /\ AccountOK(t.acct) /\ UNCHANGED phase /\ Grows
    BY DEF Basics, AccountsOK, Runs, Frame, Grows
  <1>2. PICK peer \in Nat : peer = latest[Peer(t.acct)] /\ peer \in Held(Peer(t.acct))
    <2>1. PICK a \in Accounts : a = Peer(t.acct)
      BY <1>1, PeerOf
    <2>2. latest[a] \in Nat
      BY <1>1 DEF TypeOK
    <2>3. latest[a] \in Held(a)
      BY DEF Basics, AccountsOK, AccountOK
    <2> QED BY <2>1, <2>2, <2>3
  <1>3. PICK key \in Key : key = [id |-> peer, secret |-> peer] /\ key.id = peer /\ key.secret = peer
    <2> DEFINE k == [id |-> peer, secret |-> peer]
    <2>1. k \in Key /\ k.id = peer /\ k.secret = peer
      BY DEF Key
    <2> QED BY <2>1
  <1>4. GoodKey(t.acct, key) /\ GoodKey(t.acct, key)'
    BY <1>1, <1>2, <1>3, Persists DEF GoodKey
  <1>5. PICK m : m = msgs[t.msg]
    OBVIOUS
  <1>6. PICK need : need = IF m.from = t.acct THEN m.senderKey ELSE m.id
    OBVIOUS
  <1>7. \/ Sending(t) /\ Hit(t) /\ Proceed(w, t, known[t.acct]) /\ UNCHANGED known
        \/ Sending(t) /\ Proceed(w, t, key) /\ Cache(t.acct, key)
        \/ Faults(w, t) /\ UNCHANGED known
        \/ ~Sending(t) /\ Reads(w, t) /\ UNCHANGED known
        \/ ~Sending(t) /\ OwnKey(t.acct, need) = {} /\ Fails(w, t) /\ UNCHANGED known
    BY <1>2, <1>3, <1>5, <1>6 DEF InDirect
  <1>8. Caching
    <2>1. CASE UNCHANGED known
      BY <1>1, <2>1 DEF Caching, TypeOK
    <2>2. CASE Cache(t.acct, key)
      <3>1. known' = [known EXCEPT ![t.acct] = key] /\ known \in [Accounts -> Key \cup {NoKey}]
        BY <1>1, <2>2 DEF Cache, TypeOK
      <3>2. known'[t.acct] = key
        BY <1>1, <3>1
      <3>3. GoodKey(t.acct, known[t.acct])'
        BY <1>4, <3>2 DEF GoodKey
      <3> QED BY <1>1, <3>1, <3>3 DEF Caching
    <2> QED BY <1>7, <2>1, <2>2
  <1>9. CASE Sending(t) /\ Hit(t) /\ Proceed(w, t, known[t.acct])
    BY <1>8, <1>9, HitOutcome DEF Sending
  <1>10. CASE Sending(t) /\ Proceed(w, t, key)
    BY <1>1, <1>4, <1>8, <1>10, ProceedOutcome DEF Sending
  <1>11. CASE Faults(w, t)
    BY <1>1, <1>8, <1>11, FaultsOutcome
  <1>12. CASE ~Sending(t) /\ Reads(w, t)
    BY <1>1, <1>8, <1>12, ReadsOutcome DEF Sending, Runs
  <1>13. CASE ~Sending(t) /\ OwnKey(t.acct, need) = {} /\ Fails(w, t)
    <2>1. t.msg \in DOMAIN msgs /\ ~m.plain /\ MsgOK(m) /\ t.msg # 0
      BY <1>5, <1>13 DEF Runs, Sending, MsgsOK
    <2>2. Held(t.acct) \subseteq 1 .. lastKey /\ lastKey \in Nat
      BY <1>1 DEF Basics, AccountsOK, AccountOK, Held, TypeOK
    <2>3. need \in Held(t.acct)
      <3>1. CASE m.from = t.acct
        BY <1>1, <1>6, <2>1, <3>1 DEF MsgOK, Held
      <3>2. CASE m.from # t.acct
        <4>1. m.from \in Accounts /\ m.id \in Held(Peer(m.from))
          BY <2>1 DEF MsgOK
        <4>2. Peer(m.from) = t.acct
          BY <1>1, <3>2, <4>1, PeerOf DEF Basics
        <4> QED BY <1>6, <3>2, <4>1, <4>2
      <3> QED BY <3>1, <3>2
    <2>4. need \in Nat \ {0}
      BY <2>2, <2>3
    <2>5. Gone(t.acct, need)
      BY <1>1, <1>13, <2>3, <2>4, NotOwned
    <2>6. Explained(t.acct, m)
      BY <1>6, <2>5 DEF Explained
    <2> QED BY <1>1, <1>5, <1>8, <1>13, <2>1, <2>6, FailsOutcome
  <1> QED BY <1>7, <1>9, <1>10, <1>11, <1>12, <1>13

\* EncryptText and DecryptText, up to their first answer.
LEMMA LookupOutcome ==
    ASSUME IInv, Frame, UNCHANGED groups, NEW w \in Workers, NEW t, Runs(t), Lookup(w, t)
    PROVE  Outcome(w) /\ Caching
  <1>1. TypeOK /\ AccountOK(t.acct) /\ chat \in {"group", "direct"}
    BY DEF IInv, Basics, AccountsOK, Runs, TypeOK
  <1>2. CASE Sending(t) /\ OwnKey(t.acct, 0) = {}
    <2>1. Fails(w, t) /\ UNCHANGED known
      BY <1>2 DEF Lookup
    <2>2. Superseded(t.acct) # {}
      BY <1>1, <1>2, OwnKeys DEF Runs
    <2>3. Caching
      BY <1>1, <2>1 DEF Caching, TypeOK
    <2> QED BY <1>1, <1>2, <2>1, <2>2, <2>3, FailsOutcome DEF Sending
  <1>3. CASE ~(Sending(t) /\ OwnKey(t.acct, 0) = {}) /\ chat = "group"
    BY <1>3, InGroupOutcome DEF Lookup
  <1>4. CASE ~(Sending(t) /\ OwnKey(t.acct, 0) = {}) /\ chat = "direct"
    BY <1>4, InDirectOutcome DEF Lookup
  <1> QED BY <1>1, <1>2, <1>3, <1>4

\* An accepted message was sealed with a good key by a key of its sender.
LEMMA AcceptedMessage ==
    ASSUME TypeOK, NEW m \in Message, Accepted(m), MsgOK(m)'
    PROVE  /\ msgs' \in Seq(Message) /\ MsgsGrow
           /\ \A i \in DOMAIN msgs : msgs'[i].failed = msgs[i].failed
           /\ \A i \in DOMAIN msgs' : i \notin DOMAIN msgs => MsgOK(msgs[i])'
  <1>1. msgs \in Seq(Message) /\ msgs' = Append(msgs, m)
    BY DEF TypeOK, Accepted
  <1>2. /\ msgs' \in Seq(Message) /\ Len(msgs) \in Nat /\ DOMAIN msgs = 1 .. Len(msgs)
        /\ DOMAIN msgs' = 1 .. (Len(msgs) + 1)
        /\ \A i \in DOMAIN msgs : msgs'[i] = msgs[i]
        /\ msgs'[Len(msgs) + 1] = m
    BY <1>1, AppendProperties, LenProperties
  <1>3. MsgsGrow
    BY <1>2 DEF MsgsGrow, Later
  <1>4. \A i \in DOMAIN msgs' : i \notin DOMAIN msgs => MsgOK(msgs[i])'
    <2> SUFFICES ASSUME NEW i \in DOMAIN msgs', i \notin DOMAIN msgs PROVE MsgOK(msgs[i])'
      OBVIOUS
    <2>1. msgs'[i] = m
      BY <1>2
    <2> QED BY <2>1 DEF MsgOK, Explained, Unopenable
  <1> QED BY <1>2, <1>3, <1>4

LEMMA LetterType ==
    ASSUME TypeOK, NEW from \in Accounts \cup {User}, NEW key \in Key, NEW own \in Nat,
           NEW m, m = Letter(from, key, own)
    PROVE  /\ m \in Message /\ [m EXCEPT !.plain = TRUE] \in Message
           /\ m.from = from /\ ~m.plain /\ m.id = key.id /\ m.secret = key.secret
           /\ m.senderKey = own /\ m.failed = {}
  <1>1. m \in Message /\ m.failed = {}
    BY DEF TypeOK, Letter, Key, Message
  <1> QED BY <1>1 DEF Letter, Message

LEMMA GroupsSame ==
    ASSUME TypeOK, UNCHANGED groups
    PROVE  GroupsGrow
  BY DEF TypeOK, GroupsGrow

LEMMA SendMessageStep ==
    ASSUME IInv, NEW w \in Workers, NEW a \in Accounts, SendMessage(w, a)
    PROVE  IInv'
  <1>1. /\ Frame /\ UNCHANGED <<groups, marked>> /\ phase[a] = "up" /\ TypeOK /\ AccountOK(a)
        /\ \/ Lookup(w, [Idle EXCEPT !.acct = a])
           \/ Continue(w, [[Idle EXCEPT !.acct = a] EXCEPT !.pc = "plain"]) /\ UNCHANGED known
    BY DEF SendMessage, Frame, IInv, Basics, AccountsOK
  <1>2. PICK t \in Task : t = [Idle EXCEPT !.acct = a]
    BY IdleTask
  <1>3. t.acct = a /\ t.msg = 0 /\ Runs(t)
    BY <1>1, <1>2, IdleTask DEF Idle, Runs
  <1>4. Outcome(w) /\ Caching
    <2>1. CASE Lookup(w, t)
      BY <1>1, <1>3, <2>1, LookupOutcome
    <2>2. CASE Continue(w, [t EXCEPT !.pc = "plain"]) /\ UNCHANGED known
      <3>1. PICK n \in Task : n = [t EXCEPT !.pc = "plain"] /\ n.pc = "plain" /\ n.msg = 0 /\ n.acct = a
        <4> DEFINE n == [t EXCEPT !.pc = "plain"]
        <4>1. n \in Task
          BY DEF Task, PCs
        <4>2. n.pc = "plain" /\ n.msg = 0 /\ n.acct = a
          BY <1>3 DEF Task
        <4> QED BY <4>1, <4>2
      <3>2. TaskOK(n)
        BY <1>1, <3>1 DEF TaskOK
      <3>3. Outcome(w)
        BY <1>1, <2>2, <3>1, <3>2, ContinueOutcome
      <3> QED BY <1>1, <2>2, <3>3 DEF Caching, TypeOK
    <2> QED BY <1>1, <1>2, <2>1, <2>2
  <1> QED BY <1>1, <1>4, GroupsSame, WorkStep DEF TypeOK

LEMMA SendPlainStep ==
    ASSUME IInv, NEW w \in Workers, SendPlain(w)
    PROVE  IInv'
  <1>1. /\ Frame /\ UNCHANGED groups /\ TypeOK
        /\ \/ /\ End(w) /\ NoEvent /\ UNCHANGED <<marked, known, unsent>>
              /\ Accepted([Letter(tasks[w].acct, tasks[w].key, 0) EXCEPT !.plain = TRUE])
           \/ marked' = marked \cup {tasks[w].acct} /\ Lookup(w, tasks[w])
           \/ Faults(w, tasks[w]) /\ UNCHANGED <<marked, known>>
    BY DEF SendPlain, Frame, IInv, Basics
  <1>2. PICK t \in Task : t = tasks[w] /\ TaskOK(t) /\ t.pc = "plain"
    BY DEF SendPlain, IInv, TasksOK, Basics, TypeOK
  <1>3. t.acct \in Accounts /\ t.msg = 0 /\ Runs(t)
    BY <1>2 DEF TaskOK, Runs
  <1>4. marked' \subseteq Accounts
    BY <1>1, <1>2, <1>3 DEF TypeOK
  <1>5. CASE End(w) /\ NoEvent /\ UNCHANGED <<known, unsent>>
             /\ Accepted([Letter(t.acct, t.key, 0) EXCEPT !.plain = TRUE])
    <2>1. t.key \in Key
      BY DEF Task
    <2>2. PICK l : l = Letter(t.acct, t.key, 0)
      OBVIOUS
    <2>3. l \in Message /\ [l EXCEPT !.plain = TRUE] \in Message /\ l.failed = {}
      BY <1>1, <1>3, <2>1, <2>2, LetterType
    <2>4. PICK m \in Message : m = [l EXCEPT !.plain = TRUE] /\ m.plain /\ m.failed = {}
      BY <2>3 DEF Message
    <2>5. MsgOK(m)' /\ Accepted(m)
      BY <1>5, <2>2, <2>4 DEF MsgOK
    <2>6. /\ msgs' \in Seq(Message) /\ MsgsGrow
          /\ \A i \in DOMAIN msgs : msgs'[i].failed = msgs[i].failed
          /\ \A i \in DOMAIN msgs' : i \notin DOMAIN msgs => MsgOK(msgs[i])'
      BY <1>1, <2>5, AcceptedMessage
    <2>7. tasks' = [tasks EXCEPT ![w] = Idle] /\ Caching
      BY <1>1, <1>5 DEF End, Caching, TypeOK
    <2>8. events' \in 0 .. MaxEvents /\ unsent' \subseteq Accounts \X Nat /\ unsent' = unsent
      BY <1>1, <1>5 DEF NoEvent, TypeOK
    <2>9. Outcome(w)
      BY <2>6, <2>7, <2>8, IdleTask DEF Outcome
    <2> QED BY <1>1, <1>4, <2>7, <2>9, GroupsSame, WorkStep
  <1>6. CASE Lookup(w, t)
    BY <1>1, <1>3, <1>4, <1>6, LookupOutcome, GroupsSame, WorkStep
  <1>7. CASE Faults(w, t) /\ UNCHANGED known
    <2>1. Caching
      BY <1>1, <1>7 DEF Caching, TypeOK
    <2> QED BY <1>1, <1>3, <1>4, <1>7, <2>1, FaultsOutcome, GroupsSame, WorkStep
  <1> QED BY <1>1, <1>2, <1>5, <1>6, <1>7

LEMMA ReadMessageStep ==
    ASSUME IInv, NEW w \in Workers, NEW a \in Accounts, NEW i \in DOMAIN msgs, ReadMessage(w, a, i)
    PROVE  IInv'
  <1>1. /\ Frame /\ UNCHANGED groups /\ phase[a] = "up" /\ TypeOK
        /\ marked' \subseteq Accounts
        /\ \/ Reads(w, [Idle EXCEPT !.acct = a, !.msg = i]) /\ UNCHANGED known
           \/ ~msgs[i].plain /\ Lookup(w, [Idle EXCEPT !.acct = a, !.msg = i])
    BY DEF ReadMessage, Frame, IInv, Basics, TypeOK
  <1>2. PICK t \in Task : t = [Idle EXCEPT !.acct = a, !.msg = i] /\ t.acct = a /\ t.msg = i
    <2> DEFINE t == [Idle EXCEPT !.acct = a, !.msg = i]
    <2>1. i \in Nat
      BY <1>1, LenProperties DEF TypeOK
    <2>2. t \in Task
      BY <2>1, IdleTask DEF Task
    <2>3. t.acct = a /\ t.msg = i
      BY IdleTask DEF Task
    <2> QED BY <2>2, <2>3
  <1>3. Outcome(w) /\ Caching
    <2>1. CASE Reads(w, t) /\ UNCHANGED known
      <3>1. Caching
        BY <1>1, <2>1 DEF Caching, TypeOK
      <3> QED BY <1>1, <1>2, <2>1, <3>1, ReadsOutcome
    <2>2. CASE ~msgs[i].plain /\ Lookup(w, t)
      <3>1. Runs(t)
        BY <1>1, <1>2, <2>2 DEF Runs
      <3> QED BY <1>1, <2>2, <3>1, LookupOutcome
    <2> QED BY <1>1, <1>2, <2>1, <2>2
  <1> QED BY <1>1, <1>3, GroupsSame, WorkStep

LEMMA PostStep ==
    ASSUME IInv, NEW w \in Workers, Post(w)
    PROVE  IInv'
  <1>1. /\ Frame /\ UNCHANGED <<groups, known, marked>> /\ TypeOK
        /\ \/ /\ \E k \in OwnKey(tasks[w].acct, 0) : Accepted(Letter(tasks[w].acct, tasks[w].key, k))
              /\ End(w) /\ NoEvent /\ UNCHANGED unsent
           \/ End(w) /\ NoEvent /\ UNCHANGED <<msgs, unsent>>
           \/ Faults(w, tasks[w])
    BY DEF Post, Frame, client, IInv, Basics
  <1>2. PICK t \in Task : t = tasks[w] /\ TaskOK(t) /\ t.pc = "post"
    BY DEF Post, IInv, TasksOK, Basics, TypeOK
  <1>3. /\ t.acct \in Accounts /\ t.msg = 0 /\ Runs(t) /\ GoodKey(t.acct, t.key)
        /\ AccountOK(t.acct) /\ t.key \in Key
    BY <1>2 DEF TaskOK, Runs, IInv, Basics, AccountsOK, Task
  <1>4. Caching /\ GroupsGrow /\ marked' \subseteq Accounts
    BY <1>1, GroupsSame DEF Caching, TypeOK
  <1>5. ASSUME NEW k \in OwnKey(t.acct, 0), Accepted(Letter(t.acct, t.key, k)),
               End(w), NoEvent, UNCHANGED unsent
        PROVE  Outcome(w)
    <2>1. k \in session[t.acct].chain \cup session[t.acct].device
      BY <1>1, <1>3, OwnKeys
    <2>2. k \in Nat
      BY <1>1, <1>3, <2>1 DEF AccountOK, TypeOK
    <2>3. PICK m : m = Letter(t.acct, t.key, k)
      OBVIOUS
    <2>4. /\ m \in Message /\ m.from = t.acct /\ ~m.plain /\ m.id = t.key.id
          /\ m.secret = t.key.secret /\ m.senderKey = k /\ m.failed = {}
      <3>1. PICK own \in Nat, from \in Accounts \cup {User}, key \in Key :
               own = k /\ from = t.acct /\ key = t.key
        BY <1>3, <2>2
      <3>2. m = Letter(from, key, own)
        BY <2>3, <3>1
      <3>3. m \in Message /\ m.failed = {}
        BY <1>1, <3>2 DEF TypeOK, Letter, Key, Message
      <3>4. /\ m.from = from /\ ~m.plain /\ m.id = key.id
            /\ m.secret = key.secret /\ m.senderKey = own
        BY <3>2, <3>3 DEF Letter, Message
      <3> QED BY <3>1, <3>3, <3>4
    <2>5. GoodKey(t.acct, t.key)' /\ Held(t.acct)' = Held(t.acct)
      BY <1>1, <1>3 DEF Frame, GoodKey, Held
    <2>6. MsgOK(m)'
      BY <1>1, <1>3, <2>1, <2>4, <2>5 DEF MsgOK, GoodKey, Frame
    <2>7. /\ msgs' \in Seq(Message) /\ MsgsGrow
          /\ \A i \in DOMAIN msgs : msgs'[i].failed = msgs[i].failed
          /\ \A i \in DOMAIN msgs' : i \notin DOMAIN msgs => MsgOK(msgs[i])'
      BY <1>1, <1>5, <2>3, <2>4, <2>6, AcceptedMessage
    <2> QED BY <1>1, <1>5, <2>7, IdleTask DEF Outcome, End, NoEvent, TypeOK
  <1>6. ASSUME End(w), NoEvent, UNCHANGED <<msgs, unsent>>
        PROVE  Outcome(w)
    <2>1. /\ msgs' \in Seq(Message) /\ MsgsGrow
          /\ \A i \in DOMAIN msgs : msgs'[i].failed = msgs[i].failed
          /\ \A i \in DOMAIN msgs' : i \in DOMAIN msgs
      BY <1>1, <1>6, MessagesSame
    <2> QED BY <1>1, <1>6, <2>1, IdleTask DEF Outcome, End, NoEvent, TypeOK
  <1>7. CASE Faults(w, t)
    BY <1>1, <1>3, <1>4, <1>7, FaultsOutcome, WorkStep
  <1> QED BY <1>1, <1>2, <1>4, <1>5, <1>6, <1>7, WorkStep

\* A group key that an account cannot unwrap.
LEMMA CannotOpen ==
    ASSUME IInv, NEW a \in Accounts, NEW g \in DOMAIN groups, ~CanOpen(a, g)
    PROVE  \/ groups[g].wrap[a] = 0
           \/ groups[g].creatorKey \in foreign
           \/ Gone(a, groups[g].wrap[a])
  <1>1. TypeOK /\ AccountOK(a) /\ GroupOK(groups[g])
    BY DEF IInv, Basics, AccountsOK, GroupsOK
  <1>2. groups[g] \in Group
    BY <1>1, ElementOfSeq DEF TypeOK
  <1>3. groups[g].wrap[a] \in Nat
    BY <1>2 DEF Group
  <1>4. CASE groups[g].wrap[a] # 0 /\ OwnKey(a, groups[g].wrap[a]) = {}
    BY <1>1, <1>3, <1>4, NotOwned DEF GroupOK
  <1> QED BY <1>1, <1>4 DEF CanOpen, GroupOK

\* An account is given its own key and the others' as the server has them.
LEMMA FetchMembersOutcome ==
    ASSUME IInv, Frame, UNCHANGED groups, NEW w \in Workers, NEW t, Runs(t), t.pc = "open", chat = "group",
           t.msg # 0 => Unopenable(t.acct, msgs[t.msg]), FetchMembers(w, t)
    PROVE  Outcome(w)
  <1>1. /\ TypeOK /\ t.acct \in Accounts /\ AccountOK(t.acct) /\ t \in Task
        /\ phase[t.acct] = "up"
    BY DEF IInv, Basics, AccountsOK, Runs
  <1>2. PICK a \in Accounts, id \in Nat \ {0} : a = t.acct /\ id = latest[a]
    BY <1>1 DEF AccountOK, TypeOK
  <1>3. OwnKey(a, id) = Source(session[a]) \cap {id}
    BY <1>1, <1>2, OwnKeys
  <1>4. CASE OwnKey(a, id) = {} /\ Fails(w, t)
    <2>1. id \in foreign
      BY <1>1, <1>2, <1>3, <1>4 DEF AccountOK
    <2>2. t.msg # 0 => Explained(t.acct, msgs[t.msg])
      BY DEF Explained
    <2> QED BY <1>1, <1>2, <1>4, <2>1, <2>2, FailsOutcome
  <1>5. ASSUME NEW k \in OwnKey(a, id),
               Continue(w, [t EXCEPT !.pc = "register", !.got = 0, !.own = k, !.wrap = Wrapped(members)])
        PROVE  Outcome(w)
    <2>1. k = id /\ k \in Nat
      BY <1>3
    <2>2. PICK wrap \in [Accounts -> Nat] :
             wrap = Wrapped(members) /\ \A b \in Accounts : wrap[b] \in {0, latest[b]}
      <3> DEFINE f == Wrapped(members)
      <3>1. f \in [Accounts -> Nat] /\ \A b \in Accounts : f[b] \in {0, latest[b]}
        BY <1>1 DEF Wrapped, TypeOK
      <3> QED BY <3>1
    <2>3. PICK n : n = [t EXCEPT !.pc = "register", !.got = 0, !.own = k, !.wrap = wrap]
      OBVIOUS
    <2>4. n \in Task
      BY <1>1, <2>1, <2>3 DEF Task, PCs
    <2>5. /\ n.pc = "register" /\ n.acct = t.acct /\ n.msg = t.msg /\ n.own = k /\ n.wrap = wrap
      BY <1>1, <2>3 DEF Task
    <2>6. \A b \in Accounts : wrap[b] # 0 => wrap[b] \in Held(b)
      BY <2>2 DEF IInv, Basics, AccountsOK, AccountOK
    <2>7. TaskOK(n)
      BY <1>2, <2>1, <2>5, <2>6 DEF TaskOK, Runs
    <2>8. Continue(w, n) /\ (n.msg # 0 => n.msg \in DOMAIN msgs)
      BY <1>5, <2>2, <2>3, <2>5 DEF Runs
    <2> QED BY <1>1, <2>4, <2>7, <2>8, ContinueOutcome
  <1>6. CASE Faults(w, t)
    BY <1>1, <1>6, FaultsOutcome
  <1> QED BY <1>2, <1>4, <1>5, <1>6 DEF FetchMembers

LEMMA OpenGroupStep ==
    ASSUME IInv, NEW w \in Workers, OpenGroup(w)
    PROVE  IInv'
  <1>1. PICK t \in Task : t = tasks[w] /\ TaskOK(t) /\ t.pc = "open"
    BY DEF OpenGroup, IInv, TasksOK, Basics, TypeOK
  <1>2. PICK key \in Key : key = [id |-> t.got, secret |-> t.got] /\ key.id = t.got /\ key.secret = t.got
    <2> DEFINE k == [id |-> t.got, secret |-> t.got]
    <2>1. t.got \in Nat
      BY DEF Task
    <2>2. k \in Key /\ k.id = t.got /\ k.secret = t.got
      BY <2>1 DEF Key
    <2> QED BY <2>2
  <1>3. /\ Frame /\ UNCHANGED <<groups, marked>> /\ TypeOK
        /\ IF CanOpen(t.acct, t.got) THEN Cache(t.acct, key) /\ Proceed(w, t, key)
           ELSE FetchMembers(w, t) /\ UNCHANGED known
    BY <1>1, <1>2 DEF OpenGroup, Frame, IInv, Basics
  <1>4. /\ Runs(t) /\ t.acct \in Accounts /\ chat = "group" /\ t.got \in DOMAIN groups
        /\ UNCHANGED phase
    BY <1>1, <1>3 DEF TaskOK, Runs, Frame
  <1>5. t.msg # 0 => t.got = msgs[t.msg].id /\ t.got = msgs[t.msg].secret
    BY <1>1, <1>4 DEF TaskOK, IInv, MsgsOK, MsgOK, Runs
  <1>6. CASE CanOpen(t.acct, t.got)
    <2>1. Cache(t.acct, key) /\ Proceed(w, t, key)
      BY <1>3, <1>6
    <2>2. GoodKey(t.acct, key)'
      BY <1>2, <1>3, <1>4 DEF GoodKey, Frame
    <2>3. Caching
      <3>1. known' = [known EXCEPT ![t.acct] = key] /\ known \in [Accounts -> Key \cup {NoKey}]
        BY <1>3, <2>1 DEF Cache, TypeOK
      <3>2. known'[t.acct] = key
        BY <1>4, <3>1
      <3>3. GoodKey(t.acct, known[t.acct])'
        BY <2>2, <3>2 DEF GoodKey
      <3> QED BY <1>4, <3>1, <3>3 DEF Caching
    <2>4. Outcome(w)
      BY <1>2, <1>4, <1>5, <2>1, <2>2, ProceedOutcome
    <2> QED BY <1>3, <2>3, <2>4, GroupsSame, WorkStep DEF TypeOK
  <1>7. CASE ~CanOpen(t.acct, t.got)
    <2>1. FetchMembers(w, t) /\ UNCHANGED known
      BY <1>3, <1>7
    <2>2. t.msg # 0 => Unopenable(t.acct, msgs[t.msg])
      BY <1>4, <1>5, <1>7, CannotOpen DEF Unopenable
    <2>3. Outcome(w)
      BY <1>1, <1>3, <1>4, <2>1, <2>2, FetchMembersOutcome
    <2>4. Caching
      BY <1>3, <2>1 DEF Caching, TypeOK
    <2> QED BY <1>3, <2>3, <2>4, GroupsSame, WorkStep DEF TypeOK
  <1> QED BY <1>6, <1>7

\* The groups keep their promise when one more key is made.
LEMMA GroupAdded ==
    ASSUME TypeOK, NEW g \in Group, groups' = Append(groups, g), GroupOK(g)'
    PROVE  GroupsGrow /\ Len(groups) + 1 \in DOMAIN groups'
  <1>1. groups \in Seq(Group)
    BY DEF TypeOK
  <1>2. /\ groups' \in Seq(Group) /\ Len(groups) \in Nat /\ DOMAIN groups = 1 .. Len(groups)
        /\ DOMAIN groups' = 1 .. (Len(groups) + 1)
        /\ \A i \in DOMAIN groups : groups'[i] = groups[i]
        /\ groups'[Len(groups) + 1] = g
    BY <1>1, AppendProperties, LenProperties
  <1>3. \A i \in DOMAIN groups' : i \notin DOMAIN groups => GroupOK(groups[i])'
    <2> SUFFICES ASSUME NEW i \in DOMAIN groups', i \notin DOMAIN groups PROVE GroupOK(groups[i])'
      OBVIOUS
    <2>1. groups'[i] = g
      BY <1>2
    <2> QED BY <2>1 DEF GroupOK
  <1> QED BY <1>2, <1>3 DEF GroupsGrow

LEMMA RegisterGroupStep ==
    ASSUME IInv, NEW w \in Workers, RegisterGroup(w)
    PROVE  IInv'
  <1>1. PICK t \in Task : t = tasks[w] /\ TaskOK(t) /\ t.pc = "register"
    BY DEF RegisterGroup, IInv, TasksOK, Basics, TypeOK
  <1>2. PICK a \in Accounts, id \in Nat : a = t.acct /\ id = latest[a]
    BY <1>1 DEF IInv, Basics, TypeOK, TaskOK
  <1>3. PICK g : g = [creator |-> a, with |-> t.own, creatorKey |-> id, wrap |-> t.wrap]
    OBVIOUS
  <1>4. PICK key : key = NewKey(t)
    OBVIOUS
  <1>5. /\ g \in Group /\ g.with = t.own /\ g.creatorKey = id /\ g.wrap = t.wrap
    <2>1. t.own \in Nat /\ t.wrap \in [Accounts -> Nat]
      BY DEF Task
    <2>2. g \in Group
      BY <1>3, <2>1 DEF Group
    <2> QED BY <1>3, <2>2 DEF Group
  <1>6. /\ Frame /\ UNCHANGED marked /\ TypeOK /\ groups' = Append(groups, g)
        /\ \/ Cache(a, key) /\ Proceed(w, t, key)
           \/ t.own # id /\ Fails(w, t) /\ UNCHANGED known
           \/ Faults(w, t) /\ UNCHANGED known
    BY <1>1, <1>2, <1>3, <1>4, <1>5 DEF RegisterGroup, Frame, IInv, Basics
  <1>7. /\ Runs(t) /\ chat = "group" /\ UNCHANGED phase
        /\ t.own # id => id \in foreign
        /\ \A b \in Accounts : t.wrap[b] # 0 => t.wrap[b] \in Held(b)
        /\ t.msg # 0 => Explained(a, msgs[t.msg])
    BY <1>1, <1>2, <1>6 DEF TaskOK, Runs, Frame, Explained
  <1>8. GroupOK(g)'
    <2>1. foreign' = foreign /\ \A b \in Accounts : Held(b)' = Held(b)
      BY <1>6 DEF Frame, Held
    <2> QED BY <1>5, <1>7, <2>1 DEF GroupOK
  <1>9. GroupsGrow /\ Len(groups) + 1 \in DOMAIN groups'
    BY <1>5, <1>6, <1>8, GroupAdded
  <1>10. key \in Key /\ key.id = Len(groups) + 1 /\ key.secret = Len(groups) + 1
    <2>1. Len(groups) + 1 \in Nat
      BY <1>6, LenProperties DEF TypeOK
    <2> HIDE DEF NewKey
    <2>2. PICK i \in Nat : i = Len(groups) + 1
      BY <2>1
    <2>3. key = [id |-> i, secret |-> i]
      BY <1>4, <2>2 DEF NewKey
    <2>4. key \in Key /\ key.id = i /\ key.secret = i
      BY <2>3 DEF Key
    <2> QED BY <2>2, <2>4
  <1>11. GoodKey(a, key)'
    BY <1>6, <1>7, <1>9, <1>10 DEF GoodKey, Frame
  <1>12. CASE Cache(a, key) /\ Proceed(w, t, key)
    <2>1. Caching
      <3>1. known' = [known EXCEPT ![a] = key] /\ known \in [Accounts -> Key \cup {NoKey}]
        BY <1>6, <1>12 DEF Cache, TypeOK
      <3>2. known'[a] = key
        BY <3>1
      <3>3. GoodKey(a, known[a])'
        BY <1>11, <3>2 DEF GoodKey
      <3> QED BY <1>10, <3>1, <3>3 DEF Caching
    <2>2. Outcome(w)
      BY <1>2, <1>7, <1>10, <1>11, <1>12, ProceedOutcome
    <2> QED BY <1>6, <1>9, <2>1, <2>2, WorkStep DEF TypeOK
  <1>13. CASE t.own # id /\ Fails(w, t) /\ UNCHANGED known
    <2>1. Outcome(w)
      BY <1>2, <1>6, <1>7, <1>13, FailsOutcome
    <2>2. Caching
      BY <1>6, <1>13 DEF Caching, TypeOK
    <2> QED BY <1>6, <1>9, <2>1, <2>2, WorkStep DEF TypeOK
  <1>14. CASE Faults(w, t) /\ UNCHANGED known
    <2>1. Outcome(w)
      BY <1>6, <1>7, <1>14, FaultsOutcome
    <2>2. Caching
      BY <1>6, <1>14 DEF Caching, TypeOK
    <2> QED BY <1>6, <1>9, <2>1, <2>2, WorkStep DEF TypeOK
  <1> QED BY <1>6, <1>12, <1>13, <1>14

-----------------------------------------------------------------------------
(* The other steps, and the theorems.                                      *)

\* A step that no goroutine takes: caches and tasks are kept or dropped, and
\* the accounts that work keep the keys they had.
LEMMA QuietStep ==
    ASSUME IInv, Basics', Grows, GroupsGrow, UNCHANGED unsent,
           \A a \in Accounts : known'[a] \in {known[a], NoKey},
           msgs' \in Seq(Message), MsgsGrow,
           \A i \in DOMAIN msgs : msgs'[i].failed = msgs[i].failed,
           \A i \in DOMAIN msgs' : i \notin DOMAIN msgs => MsgOK(msgs[i])',
           \A w \in Workers :
              \/ tasks'[w] = Idle
              \/ /\ tasks'[w] = tasks[w]
                 /\ tasks[w].pc # "idle" =>
                      /\ phase'[tasks[w].acct] = "up"
                      /\ \/ latest'[tasks[w].acct] = latest[tasks[w].acct]
                         \/ latest'[tasks[w].acct] \in foreign'
    PROVE  IInv'
  <1> USE DEF IInv
  <1>1. TypeOK /\ TypeOK'
    BY DEF Basics
  <1>2. GroupsOK'
    <2>1. DOMAIN groups = 1 .. Len(groups) /\ DOMAIN groups' = 1 .. Len(groups')
          /\ Len(groups) \in Nat /\ Len(groups') \in Nat
      BY <1>1, LenProperties DEF TypeOK
    <2>2. Len(groups') > 0
      BY <2>1 DEF GroupsOK, GroupsGrow
    <2>3. \A i \in DOMAIN groups : GroupOK(groups[i])'
      BY Persists DEF GroupsOK, GroupOK, Grows
    <2> QED BY <2>2, <2>3 DEF GroupsOK, GroupsGrow
  <1>3. CachesOK'
    <2> SUFFICES ASSUME NEW a \in Accounts, known'[a] # NoKey PROVE GoodKey(a, known[a])'
      BY DEF CachesOK
    <2>1. PICK key : key = known[a] /\ key = known'[a] /\ GoodKey(a, key)
      BY DEF CachesOK
    <2>2. GoodKey(a, key)'
      BY <2>1, Persists
    <2> QED BY <2>1, <2>2 DEF GoodKey
  <1>4. MsgsOK'
    BY <1>1, MessagesKept
  <1>5. TasksOK'
    <2> SUFFICES ASSUME NEW w \in Workers PROVE TaskOK(tasks[w])'
      BY DEF TasksOK
    <2>1. CASE tasks'[w] = Idle
      BY <2>1 DEF TaskOK, Idle
    <2>2. CASE tasks'[w] = tasks[w]
      <3>1. PICK t \in Task : t = tasks[w] /\ t = tasks'[w] /\ TaskOK(t)
        BY <1>1, <2>2 DEF TasksOK, TypeOK
      <3>2. CASE t.pc = "idle"
        BY <3>1, <3>2 DEF TaskOK
      <3>3. CASE t.pc # "idle"
        <4>1. tasks'[w] # Idle
          BY <3>1, <3>3 DEF Idle
        <4>2. TaskOK(t)'
          BY <1>1, <3>1, <4>1, TaskPersists
        <4> QED BY <3>1, <4>2 DEF TaskOK
      <3> QED BY <3>2, <3>3
    <2> QED BY <2>1, <2>2
  <1>6. Sends'
    <2> SUFFICES ASSUME NEW u \in unsent PROVE Superseded(u[1])' # {} \/ u[2] \in foreign'
      BY DEF Sends
    <2>1. u[1] \in Accounts /\ (Superseded(u[1]) # {} \/ u[2] \in foreign)
      BY <1>1 DEF Sends, TypeOK
    <2> QED BY <2>1, Persists DEF Grows
  <1> QED BY <1>2, <1>3, <1>4, <1>5, <1>6

\* An account that works is not in its start.
LEMMA WorkingIsUp ==
    ASSUME IInv, NEW w \in Workers, tasks[w].pc # "idle"
    PROVE  tasks[w].acct \in Accounts /\ phase[tasks[w].acct] = "up"
  BY DEF IInv, TasksOK, TaskOK

\* Only what the account is or owns changes.
LEMMA AccountStep ==
    ASSUME IInv, Basics', Grows, UNCHANGED <<groups, msgs, unsent>>,
           \A a \in Accounts : known'[a] \in {known[a], NoKey},
           \A w \in Workers :
              \/ tasks'[w] = Idle
              \/ /\ tasks'[w] = tasks[w]
                 /\ tasks[w].pc # "idle" =>
                      /\ phase'[tasks[w].acct] = "up"
                      /\ \/ latest'[tasks[w].acct] = latest[tasks[w].acct]
                         \/ latest'[tasks[w].acct] \in foreign'
    PROVE  IInv'
  <1>1. TypeOK
    BY DEF IInv, Basics
  <1> QED BY <1>1, MessagesSame, GroupsSame, QuietStep

LEMMA MembersStep ==
    ASSUME IInv, NEW a \in Accounts, Join(a) \/ Removed(a)
    PROVE  IInv'
  <1>1. /\ events' \in 0 .. MaxEvents /\ members' \subseteq Accounts
        /\ UNCHANGED <<chat, sealed, latest, lastKey, groups, msgs, client, tasks, history>>
    BY E2EEAssumption DEF Join, Removed, Event, IInv, Basics, TypeOK
  <1>2. Basics'
    <2>1. TypeOK'
      BY <1>1 DEF IInv, Basics, TypeOK, client, history
    <2>2. AccountsOK'
      BY <1>1 DEF IInv, Basics, AccountsOK, AccountOK, Held, Source, client, history
    <2> QED BY <1>1, <2>1, <2>2 DEF IInv, Basics
  <1>3. Grows
    BY <1>1 DEF Grows, client, history
  <1> QED BY <1>1, <1>2, <1>3, WorkingIsUp, AccountStep DEF client, history

LEMMA UserRegistersStep ==
    ASSUME IInv, UserRegisters
    PROVE  IInv'
  <1>1. TypeOK /\ AccountsOK
    BY DEF IInv, Basics
  <1>2. PICK wrap \in [Accounts -> Nat] :
           wrap = Wrapped(members) /\ \A b \in Accounts : wrap[b] \in {0, latest[b]}
    <2> DEFINE f == Wrapped(members)
    <2>1. f \in [Accounts -> Nat] /\ \A b \in Accounts : f[b] \in {0, latest[b]}
      BY <1>1 DEF Wrapped, TypeOK
    <2> QED BY <2>1
  <1>3. PICK g : g = [creator |-> User, with |-> 0, creatorKey |-> 0, wrap |-> wrap]
    OBVIOUS
  <1>4. g \in Group /\ g.with = 0 /\ g.creatorKey = 0 /\ g.wrap = wrap
    BY <1>3 DEF Group
  <1>5. /\ groups' = Append(groups, g) /\ events' \in 0 .. MaxEvents
        /\ UNCHANGED <<chat, sealed, members, latest, lastKey, msgs, client, tasks, history>>
    BY <1>1, <1>2, <1>3, E2EEAssumption DEF UserRegisters, Event, TypeOK
  <1>6. GroupOK(g)'
    <2>1. \A b \in Accounts : wrap[b] # 0 => wrap[b] \in Held(b)'
      BY <1>1, <1>2, <1>5 DEF AccountsOK, AccountOK, Held, client, history
    <2> QED BY <1>4, <2>1 DEF GroupOK
  <1>7. GroupsGrow
    BY <1>1, <1>4, <1>5, <1>6, GroupAdded
  <1>8. Grows
    BY <1>5, <1>7 DEF Grows, GroupsGrow, client, history
  <1>9. Basics'
    <2>1. TypeOK'
      BY <1>1, <1>5, <1>7 DEF TypeOK, GroupsGrow, client, history
    <2>2. AccountsOK'
      BY <1>1, <1>5 DEF AccountsOK, AccountOK, Held, Source, client, history
    <2> QED BY <1>5, <2>1, <2>2 DEF IInv, Basics
  <1> QED BY <1>1, <1>5, <1>7, <1>8, <1>9, MessagesSame, WorkingIsUp, QuietStep DEF client, history

LEMMA UserSendsStep ==
    ASSUME IInv, UserSends
    PROVE  IInv'
  <1>1. TypeOK /\ Len(groups) \in DOMAIN groups /\ Len(groups) \in Nat
    <2>1. TypeOK /\ GroupsOK
      BY DEF IInv, Basics
    <2> QED BY <2>1, LenProperties DEF TypeOK, GroupsOK
  <1>2. PICK n \in Nat : n = Len(groups)
    BY <1>1
  <1>3. PICK m : m = Letter(User, [id |-> n, secret |-> n], 0)
    OBVIOUS
  <1>4. m \in Message /\ m.failed = {}
    BY <1>1, <1>3 DEF TypeOK, Letter, Key, Message
  <1>5. m.from = User /\ ~m.plain /\ m.id = n /\ m.secret = n
    BY <1>3, <1>4 DEF Letter, Message
  <1>6. /\ Accepted(m) /\ chat = "group"
        /\ UNCHANGED <<chat, sealed, members, latest, lastKey, groups, client, tasks, events, history>>
    BY <1>2, <1>3 DEF UserSends
  <1>7. MsgOK(m)'
    BY <1>1, <1>2, <1>4, <1>5, <1>6, E2EEAssumption DEF MsgOK
  <1>8. /\ msgs' \in Seq(Message) /\ MsgsGrow
        /\ \A i \in DOMAIN msgs : msgs'[i].failed = msgs[i].failed
        /\ \A i \in DOMAIN msgs' : i \notin DOMAIN msgs => MsgOK(msgs[i])'
    BY <1>1, <1>4, <1>6, <1>7, AcceptedMessage
  <1>9. Basics'
    <2>1. TypeOK'
      BY <1>1, <1>6, <1>8 DEF TypeOK, client, history
    <2>2. AccountsOK'
      BY <1>6 DEF IInv, Basics, AccountsOK, AccountOK, Held, Source, client, history
    <2> QED BY <1>6, <2>1, <2>2 DEF IInv, Basics
  <1>10. Grows /\ GroupsGrow
    BY <1>1, <1>6, GroupsSame DEF Grows, client, history
  <1> QED BY <1>6, <1>8, <1>9, <1>10, WorkingIsUp, QuietStep DEF client, history

LEMMA CrashStep ==
    ASSUME IInv, NEW a \in Accounts, Crash(a)
    PROVE  IInv'
  <1>1. /\ events' \in 0 .. MaxEvents /\ phase' = [phase EXCEPT ![a] = "down"]
        /\ tasks' = [w \in Workers |-> IF tasks[w].acct = a THEN Idle ELSE tasks[w]]
        /\ UNCHANGED <<server, session, file, keys, known, marked, history>>
    BY E2EEAssumption DEF Crash, Event, IInv, Basics, TypeOK
  <1>2. TypeOK'
    BY <1>1, IdleTask DEF IInv, Basics, TypeOK, Phases, server, history
  <1>3. AccountsOK'
    <2>1. \A b \in Accounts : phase'[b] = "up" => phase[b] = "up"
      BY <1>1 DEF IInv, Basics, TypeOK
    <2> QED BY <1>1, <2>1 DEF IInv, Basics, AccountsOK, AccountOK, Held, Source, server, history
  <1>4. Basics'
    BY <1>1, <1>2, <1>3 DEF IInv, Basics, server
  <1>5. Grows
    BY <1>1 DEF Grows, server, history
  <1>6. \A w \in Workers :
           \/ tasks'[w] = Idle
           \/ /\ tasks'[w] = tasks[w]
              /\ tasks[w].pc # "idle" => phase'[tasks[w].acct] = "up"
    <2> SUFFICES ASSUME NEW w \in Workers, tasks[w].acct # a
                 PROVE  tasks'[w] = tasks[w] /\ (tasks[w].pc # "idle" => phase'[tasks[w].acct] = "up")
      BY <1>1
    <2>1. tasks[w].pc # "idle" => tasks[w].acct \in Accounts /\ phase[tasks[w].acct] = "up"
      BY WorkingIsUp
    <2> QED BY <1>1, <2>1 DEF IInv, Basics, TypeOK
  <1> QED BY <1>1, <1>4, <1>5, <1>6, AccountStep DEF server, history

\* A start and another device give the account keys, and no goroutine works for
\* an account in its start.
LEMMA StartStep ==
    ASSUME IInv, NEW a \in Accounts, Open(a) \/ RegisterSelf(a) \/ OtherDevice(a)
    PROVE  IInv'
  <1>1. Basics
    BY DEF IInv
  <1>2. CASE Open(a)
    <2>1. /\ Basics' /\ Grows /\ \A b \in Accounts : known'[b] \in {known[b], NoKey}
          /\ \A b \in Accounts : phase[b] = "up" => phase'[b] = "up"
      BY <1>1, <1>2, OpenStep
    <2>2. UNCHANGED <<groups, msgs, unsent, tasks, latest>>
      BY <1>2 DEF Open, server
    <2> QED BY <2>1, <2>2, WorkingIsUp, AccountStep
  <1>3. CASE RegisterSelf(a)
    <2>1. Basics' /\ Grows
      BY <1>1, <1>3, RegisterSelfStep
    <2>2. /\ phase[a] = "register" /\ UNCHANGED <<groups, msgs, unsent, tasks, known>>
          /\ \A b \in Accounts \ {a} : phase'[b] = phase[b] /\ latest'[b] = latest[b]
      BY <1>1, <1>3 DEF RegisterSelf, Keep, Basics, TypeOK
    <2>3. \A w \in Workers : tasks[w].pc # "idle" =>
             phase'[tasks[w].acct] = "up" /\ latest'[tasks[w].acct] = latest[tasks[w].acct]
      BY <2>2, WorkingIsUp
    <2> QED BY <2>1, <2>2, <2>3, AccountStep
  <1>4. CASE OtherDevice(a)
    <2>1. Basics' /\ Grows
      BY <1>1, <1>4, OtherDeviceStep
    <2>2. /\ UNCHANGED <<groups, msgs, unsent, tasks, known, phase>>
          /\ \A b \in Accounts : latest'[b] = latest[b] \/ latest'[b] \in foreign'
      BY <1>1, <1>4 DEF OtherDevice, client, Basics, TypeOK
    <2>3. \A w \in Workers : tasks[w].pc # "idle" =>
             /\ phase'[tasks[w].acct] = "up"
             /\ \/ latest'[tasks[w].acct] = latest[tasks[w].acct]
                \/ latest'[tasks[w].acct] \in foreign'
      BY <2>2, WorkingIsUp
    <2> QED BY <2>1, <2>2, <2>3, AccountStep
  <1> QED BY <1>2, <1>3, <1>4

LEMMA StutterStep ==
    ASSUME IInv, UNCHANGED vars
    PROVE  IInv'
  <1>1. UNCHANGED <<chat, sealed, members, latest, lastKey, groups, msgs, phase, session, file, keys,
                    known, marked, tasks, events, orphans, foreign, replaced, unsent>>
    BY DEF vars, server, client, history
  <1>2. Basics'
    <2>1. TypeOK'
      BY <1>1 DEF IInv, Basics, TypeOK
    <2>2. AccountsOK'
      BY <1>1 DEF IInv, Basics, AccountsOK, AccountOK, Held, Source
    <2> QED BY <1>1, <2>1, <2>2 DEF IInv, Basics
  <1>3. Grows
    BY <1>1 DEF Grows
  <1> QED BY <1>1, <1>2, <1>3, WorkingIsUp, AccountStep

LEMMA InitInvariant == Init => IInv
  <1> SUFFICES ASSUME Init
               PROVE  IInv
    OBVIOUS
  <1>1. PICK n \in Nat : n = Cardinality(Accounts)
    BY E2EEAssumption, FS_CardinalityType
  <1>2. /\ latest \in [Accounts -> 1 .. n] /\ lastKey = n /\ members \subseteq Accounts
        /\ chat \in {"group", "direct"} /\ sealed \in BOOLEAN
        /\ chat = "direct" => n = 2
    BY <1>1 DEF Init
  <1>3. /\ session \in [Accounts -> Session]
        /\ \A a \in Accounts : /\ session[a].chain \cup session[a].device = {latest[a]}
                              /\ \/ session[a].meta = latest[a] /\ session[a].chain = {latest[a]}
                                 \/ session[a].meta = 0 /\ session[a].chain = {}
    <2>1. session = [a \in Accounts |->
             IF a \in QRLogins THEN [meta |-> latest[a], chain |-> {latest[a]}, device |-> {}]
                               ELSE [meta |-> 0, chain |-> {}, device |-> {latest[a]}]]
      BY DEF Init
    <2>2. ASSUME NEW a \in Accounts
          PROVE  /\ session[a] \in Session
                 /\ session[a].chain \cup session[a].device = {latest[a]}
                 /\ \/ session[a].meta = latest[a] /\ session[a].chain = {latest[a]}
                    \/ session[a].meta = 0 /\ session[a].chain = {}
      <3>1. PICK k \in Nat : k = latest[a]
        BY <1>2
      <3>2. CASE a \in QRLogins
        <4>1. session[a] = [meta |-> k, chain |-> {k}, device |-> {}]
          BY <2>1, <3>1, <3>2
        <4> QED BY <3>1, <4>1 DEF Session
      <3>3. CASE a \notin QRLogins
        <4>1. session[a] = [meta |-> 0, chain |-> {}, device |-> {k}]
          BY <2>1, <3>1, <3>3
        <4> QED BY <3>1, <4>1 DEF Session
      <3> QED BY <3>2, <3>3
    <2> QED BY <2>1, <2>2
  <1>4. /\ file = session /\ keys = [a \in Accounts |-> {}] /\ marked = {}
        /\ known = [a \in Accounts |-> NoKey] /\ phase = [a \in Accounts |-> "down"]
        /\ tasks = [w \in Workers |-> Idle] /\ events = 0 /\ msgs = <<>>
        /\ orphans = {} /\ foreign = {} /\ replaced = {} /\ unsent = {}
    BY DEF Init
  <1>5. PICK wrap \in [Accounts -> Nat] :
           wrap = Wrapped(members) /\ \A b \in Accounts : wrap[b] \in {0, latest[b]}
    <2> DEFINE f == Wrapped(members)
    <2>1. f \in [Accounts -> Nat] /\ \A b \in Accounts : f[b] \in {0, latest[b]}
      BY <1>2 DEF Wrapped
    <2> QED BY <2>1
  <1>6. PICK g : g = [creator |-> User, with |-> 0, creatorKey |-> 0, wrap |-> wrap]
    OBVIOUS
  <1>7. g \in Group /\ g.with = 0 /\ g.creatorKey = 0 /\ g.wrap = wrap
    BY <1>6 DEF Group
  <1>8. groups = <<g>>
    BY <1>5, <1>6 DEF Init
  <1>9. groups \in Seq(Group) /\ Len(groups) = 1 /\ groups[1] = g /\ DOMAIN groups = {1}
    BY <1>7, <1>8
  <1>10. msgs \in Seq(Message) /\ DOMAIN msgs = {}
    BY <1>4
  <1>11. TypeOK
    <2>1. keys \in [Accounts -> SUBSET Nat] /\ known \in [Accounts -> Key \cup {NoKey}]
      BY <1>4
    <2>2. phase \in [Accounts -> Phases] /\ tasks \in [Workers -> Task]
      BY <1>4, IdleTask DEF Phases
    <2>3. latest \in [Accounts -> Nat] /\ lastKey \in Nat /\ events \in 0 .. MaxEvents
      BY <1>2, <1>4, E2EEAssumption
    <2> QED BY <1>2, <1>3, <1>4, <1>9, <1>10, <2>1, <2>2, <2>3 DEF TypeOK
  <1>12. AccountsOK
    <2>1. ASSUME NEW a \in Accounts PROVE AccountOK(a)
      <3>1. latest[a] \in 1 .. lastKey /\ latest[a] # 0
        BY <1>2
      <3>2. keys[a] = {} /\ phase[a] = "down" /\ file[a] = session[a]
        BY <1>4
      <3> QED BY <1>3, <3>1, <3>2 DEF AccountOK, Held
    <2> QED BY <1>4, <2>1 DEF AccountsOK
  <1>13. GroupsOK
    <2>1. GroupOK(g)
      BY <1>3, <1>5, <1>7 DEF GroupOK, Held
    <2> QED BY <1>9, <2>1 DEF GroupsOK
  <1>14. CachesOK /\ MsgsOK /\ TasksOK /\ Sends
    BY <1>4, <1>10, IdleTask DEF CachesOK, MsgsOK, TasksOK, Sends
  <1> QED BY <1>1, <1>2, <1>11, <1>12, <1>13, <1>14 DEF IInv, Basics

LEMMA NextInvariant == IInv /\ [Next]_vars => IInv'
  <1> SUFFICES ASSUME IInv, [Next]_vars
               PROVE  IInv'
    OBVIOUS
  <1>1. CASE UserRegisters
    BY <1>1, UserRegistersStep
  <1>2. CASE UserSends
    BY <1>2, UserSendsStep
  <1>3. ASSUME NEW a \in Accounts, Join(a) \/ Removed(a)
        PROVE  IInv'
    BY <1>3, MembersStep
  <1>4. ASSUME NEW a \in Accounts, Open(a) \/ RegisterSelf(a) \/ OtherDevice(a)
        PROVE  IInv'
    BY <1>4, StartStep
  <1>5. ASSUME NEW a \in Accounts, Crash(a)
        PROVE  IInv'
    BY <1>5, CrashStep
  <1>6. ASSUME NEW w \in Workers, Works(w)
        PROVE  IInv'
    <2>1. ASSUME NEW a \in Accounts, SendMessage(w, a)
          PROVE  IInv'
      BY <2>1, SendMessageStep
    <2>2. ASSUME NEW a \in Accounts, NEW i \in DOMAIN msgs, ReadMessage(w, a, i)
          PROVE  IInv'
      BY <2>2, ReadMessageStep
    <2>3. CASE SendPlain(w)
      BY <2>3, SendPlainStep
    <2>4. CASE OpenGroup(w)
      BY <2>4, OpenGroupStep
    <2>5. CASE RegisterGroup(w)
      BY <2>5, RegisterGroupStep
    <2>6. CASE Post(w)
      BY <2>6, PostStep
    <2> QED BY <1>6, <2>1, <2>2, <2>3, <2>4, <2>5, <2>6 DEF Works
  <1>7. CASE UNCHANGED vars
    BY <1>7, StutterStep
  <1> QED BY <1>1, <1>2, <1>3, <1>4, <1>5, <1>6, <1>7 DEF Next, Environment, Starts

\* The inductive invariant holds in every state of every behaviour.
THEOREM Invariant == Spec => []IInv
  BY InitInvariant, NextInvariant, PTL DEF Spec

\* Sessions, keys, messages and tasks have their types: key ids are ids, and
\* what could not be read could not be read by accounts.
THEOREM TypeCorrect == Spec => []TypeOK
  <1>1. IInv => TypeOK
    BY DEF IInv, Basics
  <1> QED BY <1>1, Invariant, PTL

\* SyncE2EESelfKey: an account that finished its start has the private half of
\* the key the server hands out, in memory and in the file, or another device
\* replaced it since.
THEOREM AccountsReachable == Spec => []Reachable
  <1>1. IInv => Reachable
    BY DEF IInv, Basics, AccountsOK, AccountOK, Reachable
  <1> QED BY <1>1, Invariant, PTL

\* ResolveMessageText: an account that could not read a message and had no
\* failed request lacks a key that it never had or lost.
THEOREM MessagesReadable == Spec => []Readable
  <1>1. IInv => Readable
    <2> SUFFICES ASSUME IInv, NEW i \in DOMAIN msgs, NEW r \in msgs[i].failed
                 PROVE  LET m == msgs[i]
                        IN  \/ r \in m.faulted
                            \/ m.from = r /\ Gone(r, m.senderKey)
                            \/ chat = "group" /\ groups[m.id].wrap[r] = 0
                            \/ chat = "group" /\ groups[m.id].creatorKey \in foreign
                            \/ Gone(r, NeededKey(r, m))
      BY DEF Readable
    <2>1. Explained(r, msgs[i])
      BY DEF IInv, MsgsOK, MsgOK
    <2>2. chat = "direct" => chat # "group"
      OBVIOUS
    <2> QED BY <2>1, <2>2 DEF Explained, Unopenable, NeededKey
  <1> QED BY <1>1, Invariant, PTL

\* EncryptText: an account whose requests succeed seals its text, unless the
\* keys of its login are superseded or another device replaced its key.
THEOREM TextsAreSent == Spec => []Sends
  <1>1. IInv => Sends
    BY DEF IInv
  <1> QED BY <1>1, Invariant, PTL
==============================================================================
