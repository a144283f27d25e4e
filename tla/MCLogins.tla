------------------------------ MODULE MCLogins -------------------------------
(* Small instances of Logins: everyone calls from one address.                *)
EXTENDS Logins, TLC

CONSTANT a
OneAddress == [x \in Browsers |-> a]
=============================================================================
