-------------------------- MODULE MCApplyLifecycle --------------------------
(* Instances of ApplyLifecycle for TLC.                                    *)
EXTENDS ApplyLifecycle

Shape(n, c, k) == [native |-> n, core |-> c, kernel |-> k]

\* tun, hybrid and fast mode: sing-box only, both, the kernel plane only.
HybridShapes == {Shape(TRUE, TRUE, TRUE)}
TunShapes == {Shape(TRUE, TRUE, FALSE)}
FastShapes == {Shape(TRUE, FALSE, TRUE)}
TunFastShapes == {Shape(TRUE, TRUE, FALSE), Shape(TRUE, FALSE, TRUE)}
=============================================================================
