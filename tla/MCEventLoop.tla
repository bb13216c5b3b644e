----------------------------- MODULE MCEventLoop -----------------------------
(* EventLoop on a small instance: two foreign threads, three functors, one *)
(* channel beside the eventfd, an eventfd that saturates at 2.             *)
EXTENDS EventLoop

CONSTANTS t1, t2, f1, f2, f3, io1

TwoThreads == {t1, t2}
ThreeFunctors == {f1, f2, f3}
OneChannel == {io1}
=============================================================================
