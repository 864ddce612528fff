----------------------------- MODULE MCThrottle -----------------------------
EXTENDS Throttle

\* both programs, waits as long as the window and longer, and each of the two
\* settings of c2s that bring a throttled client back
Some ==
    [router |-> [kind |-> "router", total |-> 3, seconds |-> 2, wait |-> 3, keepalive |-> 0, idle |-> 0],
     kept |-> [kind |-> "c2s", total |-> 3, seconds |-> 2, wait |-> 2, keepalive |-> 1, idle |-> 0],
     idle |-> [kind |-> "c2s", total |-> 2, seconds |-> 1, wait |-> 2, keepalive |-> 0, idle |-> 3]]
=============================================================================
