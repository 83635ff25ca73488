----------------------------- MODULE Onboarding -----------------------------
(***************************************************************************)
(* The commands that bring an account into service: its session file comes *)
(* from linego register or linego qr, and the accounts then run together.  *)
(* The file is what the commands share: Open fails for an account whose    *)
(* registration or login left no session.                                  *)
(***************************************************************************)
EXTENDS Registration, QRLogin, Accounts

CONSTANT NewAccount     \* the account whose session is made first

ASSUME OnboardingAssumption == NewAccount \in Names

VARIABLE command        \* "register", "qr", "multi-listen"

onboardingVars == <<registrationVars, qrVars, accountVars, command>>

OnboardingInit ==
    /\ command \in {"register", "qr"}
    /\ RegistrationInit /\ QRInit /\ AccountsInit
    /\ usable = Names \ {NewAccount}

Register ==
    /\ command = "register" /\ RegistrationNext
    /\ UNCHANGED <<qrVars, accountVars, command>>

QR ==
    /\ command = "qr" /\ QRNext
    /\ UNCHANGED <<registrationVars, accountVars, command>>

\* The command has ended, well or not, and the accounts are started.
MultiListen ==
    /\ \/ command = "register" /\ reg.status \in {"saved", "failed", "dead"}
       \/ command = "qr" /\ ~Running
    /\ command' = "multi-listen"
    /\ usable' = usable \cup (IF reg.status = "saved" \/ qr.saved THEN {NewAccount} ELSE {})
    /\ UNCHANGED <<registrationVars, qrVars, stage, errors, failed, signalled, run>>

Listen ==
    /\ command = "multi-listen" /\ AccountsNext
    /\ UNCHANGED <<registrationVars, qrVars, command>>

OnboardingNext == Register \/ QR \/ MultiListen \/ Listen

OnboardingSpec == OnboardingInit /\ [][OnboardingNext]_onboardingVars /\ RegistrationFairness /\ AccountsFairness

-----------------------------------------------------------------------------
\* Registration and login ask the service for what cannot be taken back once.
AskedOnce == OneAccount /\ OneLogin

\* A verification whose time is up ends, and accounts one of which failed stop.
Ends == VerifyEnds /\ StopsTogether
=============================================================================
