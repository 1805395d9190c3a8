------------------------ MODULE MCInstallationTokens ------------------------
(* TLC instance of InstallationTokens, with the liveness property and so   *)
(* without symmetry.                                                       *)
EXTENDS InstallationTokens
=============================================================================
