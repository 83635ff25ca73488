------------------------------- MODULE QRLogin -------------------------------
(***************************************************************************)
(* QR login (cmd/linego/main.go: runQR; auth/client.go: LoginQR;           *)
(* service/qr.go): the user scans a code, confirms a PIN unless the        *)
(* certificate of an earlier login is accepted, and the session file is    *)
(* replaced. The login service and the user are external.                  *)
(***************************************************************************)
EXTENDS Naturals, Sequences

VARIABLES
    qr,         \* the login: next step, how it ended
    login       \* the login service: what the user confirmed, logins completed

qrVars == <<qr, login>>

Steps == << "load", "createSession", "createQrCodeForSecure", "checkQrCodeVerified",
            "verifyCertificate", "createPinCode", "checkPinCodeVerified",
            "qrCodeLoginV2ForSecure", "getProfile", "save", "generateUserTicket" >>

StepOf(name) == CHOOSE i \in DOMAIN Steps : Steps[i] = name

Step == Steps[qr.step]

\* lost: something failed once the service had completed the login.
QRTypeOK ==
    /\ qr \in [step : 1 .. Len(Steps), status : {"running", "done", "failed"}, saved : BOOLEAN,
               lost : BOOLEAN]
    /\ login \in [scanned : BOOLEAN, trusted : BOOLEAN, logins : Nat]

QRInit ==
    /\ qr = [step |-> 1, status |-> "running", saved |-> FALSE, lost |-> FALSE]
    /\ login = [scanned |-> FALSE, trusted |-> FALSE, logins |-> 0]

Running == qr.status = "running"

\* What a step does at the service: the user scans, the certificate is accepted
\* or the PIN confirmed, the login completed.
Confirmed ==
    CASE Step = "checkQrCodeVerified" -> [login EXCEPT !.scanned = TRUE]
      [] Step \in {"verifyCertificate", "checkPinCodeVerified"} -> [login EXCEPT !.trusted = TRUE]
      [] Step = "qrCodeLoginV2ForSecure" -> [login EXCEPT !.logins = @ + 1]
      [] OTHER -> login

\* A step succeeds; an accepted certificate makes the PIN unnecessary. The
\* session is written once the profile has shown that its token works.
QRSucceed ==
    /\ Running
    /\ login' = Confirmed
    /\ qr' = IF Step = "generateUserTicket" THEN [qr EXCEPT !.status = "done"]
             ELSE [qr EXCEPT !.step = IF Step = "verifyCertificate"
                                      THEN StepOf("qrCodeLoginV2ForSecure") ELSE @ + 1,
                             !.saved = Step = "save"]

\* Mutant: whatever the error, the certificate is not asked for again.
NoCertificateAny ==
    /\ Running /\ Step = "verifyCertificate"
    /\ qr' = [qr EXCEPT !.step = StepOf("qrCodeLoginV2ForSecure")]
    /\ UNCHANGED login

\* Code 2: there is no such certificate, and a PIN is made.
NoCertificate ==
    /\ Running /\ Step = "verifyCertificate"
    /\ qr' = [qr EXCEPT !.step = @ + 1]
    /\ UNCHANGED login

\* Any other error ends the login, and the file is what it was before the save.
QRFail ==
    /\ Running
    /\ login' \in {login, Confirmed}
    /\ qr' = [qr EXCEPT !.status = "failed", !.lost = login'.logins > 0]

QRNext == QRSucceed \/ NoCertificate \/ QRFail

\* The service is asked for one login, after the user scanned the code and was
\* trusted by certificate or PIN, and a login that was completed is in the
\* session file when the command ends, or a request or the save failed after it.
OneLogin ==
    /\ login.logins <= 1
    /\ Running /\ Step = "qrCodeLoginV2ForSecure" => login.scanned /\ login.trusted
    /\ login.logins = 1 /\ ~Running => qr.saved \/ qr.lost
=============================================================================
