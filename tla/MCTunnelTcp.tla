---------------------------- MODULE MCTunnelTcp ----------------------------
(* The tunnel used by one link after the other, by one link that goes on    *)
(* after failures, by one at a time with longer transfers, and by two links *)
(* at once; over TLS, or over a transport whose writes fail.                *)
EXTENDS TunnelTcp

MCUses == {
    [over |-> "tls", links |-> 2, mss |-> 1,
     aligned |-> FALSE, alone |-> TRUE, writes |-> 0, units |-> 1, resends |-> 0, wire |-> 3, faults |-> 0],
    [over |-> "other", links |-> 1, mss |-> 1,
     aligned |-> FALSE, alone |-> FALSE, writes |-> 2, units |-> 1, resends |-> 1, wire |-> 3, faults |-> 1],
    [over |-> "other", links |-> 1, mss |-> 1,
     aligned |-> FALSE, alone |-> FALSE, writes |-> 1, units |-> 2, resends |-> 1, wire |-> 3, faults |-> 1],
    [over |-> "other", links |-> 1, mss |-> 2,
     aligned |-> FALSE, alone |-> TRUE, writes |-> 3, units |-> 1, resends |-> 0, wire |-> 3, faults |-> 1],
    [over |-> "tls", links |-> 1, mss |-> 2,
     aligned |-> FALSE, alone |-> TRUE, writes |-> 1, units |-> 3, resends |-> 0, wire |-> 3, faults |-> 1],
    [over |-> "tls", links |-> 2, mss |-> 1,
     aligned |-> TRUE, alone |-> FALSE, writes |-> 0, units |-> 1, resends |-> 0, wire |-> 2, faults |-> 0]}
=============================================================================
