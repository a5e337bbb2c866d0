----------------------------- MODULE MCDispatch -----------------------------
(* Instances of Dispatch for TLC: small ids, delays of one or two seconds. *)
EXTENDS Dispatch

CONSTANTS w1, w2

OneWorker == {w1}
TwoWorkers == {w1, w2}

OneBackoff == <<1>>
=============================================================================
