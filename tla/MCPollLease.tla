------------------------------ MODULE MCPollLease ------------------------------
(* PollLease for TLC: two pollers over two sources of one lead each, one   *)
(* takeover, two run rows; a lease lasts two ticks, the maximum runtime is *)
(* two and the write lock is waited for at most one.                       *)
EXTENDS PollLease

CONSTANTS w1, w2, i1, i2

MCSourceOf == [i \in Item |-> IF i = i1 THEN 1 ELSE NumSources]
================================================================================
