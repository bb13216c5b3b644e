------------------------------ MODULE MCPoller ------------------------------
(* Poller on a small instance: three addresses for Channel objects, two    *)
(* descriptors that are reused, an event list of one entry at first.       *)
EXTENDS Poller, TLC

CONSTANTS c1, c2, c3, fd1, fd2

ThreeChannels == {c1, c2, c3}
TwoFds == {fd1, fd2}

Symmetry == Permutations(ThreeChannels) \cup Permutations(TwoFds)
=============================================================================
