--------------------------- MODULE MCServiceLease ---------------------------
(* ServiceLease for TLC.  Processes and slots are interchangeable, but     *)
(* every run checks liveness, which symmetry would not preserve.           *)
EXTENDS ServiceLease, TLC
=============================================================================
