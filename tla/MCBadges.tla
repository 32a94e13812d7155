------------------------------ MODULE MCBadges ------------------------------
(* Two workspaces and two tones: the smallest instance with a tone flip in *)
(* one workspace while another is waiting for its report.                  *)
EXTENDS Badges, TLC

\* Workspaces and tones are interchangeable.
Symmetry == Permutations(Ws) \cup Permutations(Tokens)
=============================================================================
