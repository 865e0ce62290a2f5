---------------------------- MODULE MCCertManager ----------------------------
(***************************************************************************)
(* CertManager with the values of the program, a tick being ten seconds.   *)
(* They leave the margin under which NeverServesExpired is claimed.        *)
(***************************************************************************)
EXTENDS CertManager

ASSUME MarginAssumption == Margin

=============================================================================
