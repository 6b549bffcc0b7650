------------------------------ MODULE MCGitReview ------------------------------
(* Small instances of GitReview: one window, or two that share comparisons.  *)
EXTENDS GitReview

OneWindow == {1}
TwoWindows == {1, 2}
=============================================================================
