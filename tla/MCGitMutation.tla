---------------------------- MODULE MCGitMutation ----------------------------
(* Small instances of GitMutation: two files, replaced one after the other.  *)
EXTENDS GitMutation

TwoFiles == {1, 2}
Both == {TwoFiles}
Second == {2}
=============================================================================
