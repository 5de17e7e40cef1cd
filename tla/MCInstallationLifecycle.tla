------------------------ MODULE MCInstallationLifecycle ------------------------
(* Instances of InstallationLifecycle for TLC.                               *)
EXTENDS InstallationLifecycle

Ev(name, kind, at) == [name |-> name, kind |-> kind, at |-> at]

(* An installation, a removal in the same second, and a reinstallation.      *)
Reinstalled == {Ev("a1", "authorized", 1), Ev("d1", "deauthorized", 1), Ev("a2", "authorized", 2)}

(* A refund around a removal.                                                *)
RefundAndRemoval == {Ev("r1", "refund", 1), Ev("d1", "deauthorized", 1)}
===============================================================================
