------------------------------ MODULE MCStartup ------------------------------
(***************************************************************************)
(* A small instance of Startup: besides the defaults, a file that names a  *)
(* certificate, and one that leaves out the AK's handle and the period.    *)
(***************************************************************************)
EXTENDS Startup

CertificateAndIncomplete ==
    {[SignKeyHandle |-> 1, AKHandle |-> 2, EKCertPath |-> TRUE, Period |-> 1,
      RetryInterval |-> 30],
     [SignKeyHandle |-> 1, AKHandle |-> 0, EKCertPath |-> FALSE, Period |-> 0,
      RetryInterval |-> 30]}
=============================================================================
