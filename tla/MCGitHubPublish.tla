--------------------------- MODULE MCGitHubPublish ---------------------------
(* GitHubPublish for TLC.                                                  *)
EXTENDS GitHubPublish, TLC

Symmetry == Permutations(Process) \cup Permutations(Run)
=============================================================================
