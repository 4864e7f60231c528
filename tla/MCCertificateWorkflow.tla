----------------------- MODULE MCCertificateWorkflow ------------------------
(* A small instance of CertificateWorkflow for TLC. *)
EXTENDS CertificateWorkflow, TLC
=============================================================================
