---------------------------- MODULE MCCheckQueue ----------------------------
\* Two workers and the master, and enough checks for a batch of more than one
\* while another thread still has work.
EXTENDS CheckQueue

CONSTANTS w1, w2, k1, k2, k3, k4
=============================================================================
