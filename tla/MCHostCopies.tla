------------------------------ MODULE MCHostCopies ------------------------------
(* Four steps with and without async scheduling, for each place of the drafter. *)
EXTENDS HostCopies

MCConfigs == {c \in [async : BOOLEAN, drafter : {"none", "gpu", "cpu"}] :
                c.async => c.drafter # "cpu"}
=============================================================================
