----------------------------- MODULE Certificates -----------------------------
(***************************************************************************)
(* Certificates that certbot can only get while it listens on port 80      *)
(* itself: Nginx is stopped and started again.  Renewals are started by a  *)
(* timer, by the panel (schedule_certificate_renew, a unit with a name of  *)
(* its own each time) and by hand; nothing keeps two of them apart, and    *)
(* each trusts what it saw of Nginx before.                                *)
(***************************************************************************)
EXTENDS Naturals

CONSTANT Renewals   \* processes that run renew_certificates or run_certbot_request

VARIABLES
    nginx,      \* "up" or "down"
    renewal,    \* renewal[r]: its step and nginx_was_active
    troubled    \* a renewal was killed, or could not start Nginx

certificatesVars == <<nginx, renewal, troubled>>

Resting == [step |-> "resting", wasActive |-> FALSE]

CertificatesTypeOK ==
    /\ nginx \in {"up", "down"}
    /\ renewal \in [Renewals -> [step : {"resting", "stop", "certbot", "certified", "failed"},
                                wasActive : BOOLEAN]]
    /\ troubled \in BOOLEAN

CertificatesInit ==
    /\ nginx = "up"
    /\ renewal = [r \in Renewals |-> Resting]
    /\ troubled = FALSE

\* The webroot request has failed, or the certificate is a standalone one.
LookAtNginx(r) ==
    /\ renewal[r] = Resting
    /\ renewal' = [renewal EXCEPT ![r] =
                      [step |-> IF nginx = "up" THEN "stop" ELSE "certbot",
                       wasActive |-> nginx = "up"]]
    /\ UNCHANGED <<nginx, troubled>>

\* systemctl stop: an Nginx that is down already stays so.  If it fails, the
\* script ends and Nginx is as it was.
StopNginx(r) ==
    /\ renewal[r].step = "stop"
    /\ \/ nginx' = "down" /\ renewal' = [renewal EXCEPT ![r].step = "certbot"]
       \/ nginx' = nginx /\ renewal' = [renewal EXCEPT ![r] = Resting]
    /\ UNCHANGED troubled

\* It fails if the port is taken, and for reasons of its own.
Certbot(r) ==
    /\ renewal[r].step = "certbot"
    /\ \/ nginx = "down" /\ renewal' = [renewal EXCEPT ![r].step = "certified"]
       \/ renewal' = [renewal EXCEPT ![r].step = "failed"]
    /\ UNCHANGED <<nginx, troubled>>

\* Mutant of StartNginx: the script ends at once when certbot has failed.
StartNginxCertified(r) ==
    /\ renewal[r].step \in {"certified", "failed"}
    /\ \/ /\ nginx' = IF renewal[r].wasActive /\ renewal[r].step = "certified" THEN "up" ELSE nginx
          /\ UNCHANGED troubled
       \/ renewal[r].wasActive /\ nginx = "down" /\ nginx' = nginx /\ troubled' = TRUE
    /\ renewal' = [renewal EXCEPT ![r] = Resting]

\* Who stopped it starts it, whatever certbot has answered.
StartNginx(r) ==
    /\ renewal[r].step \in {"certified", "failed"}
    /\ \/ /\ nginx' = IF renewal[r].wasActive THEN "up" ELSE nginx
          /\ UNCHANGED troubled
       \/ renewal[r].wasActive /\ nginx = "down" /\ nginx' = nginx /\ troubled' = TRUE
    /\ renewal' = [renewal EXCEPT ![r] = Resting]

KillRenewal(r) ==
    /\ renewal[r] # Resting
    /\ renewal' = [renewal EXCEPT ![r] = Resting]
    /\ troubled' = TRUE
    /\ UNCHANGED nginx

StartNginxByHand ==
    /\ nginx = "down" /\ \A r \in Renewals : renewal[r] = Resting
    /\ nginx' = "up"
    /\ troubled' = FALSE
    /\ UNCHANGED renewal

CertificatesNext ==
    \/ \E r \in Renewals : LookAtNginx(r) \/ StopNginx(r) \/ Certbot(r) \/ StartNginx(r)
                           \/ KillRenewal(r)
    \/ StartNginxByHand

CertificatesSpec == CertificatesInit /\ [][CertificatesNext]_certificatesVars

-----------------------------------------------------------------------------
(* Properties.                                                             *)

\* Once no renewal is under way Nginx is up, and with it the panel's pages, in
\* whatever way renewals overlapped and whatever certbot answered; unless one was
\* killed or Nginx did not start, after which no later renewal starts it either.
NginxReturns ==
    (\A r \in Renewals : renewal[r] = Resting) /\ ~troubled => nginx = "up"
=============================================================================
