----------------------------- MODULE MCAds868x -----------------------------
(***************************************************************************)
(* Ads868x on a device with two channels: reads of one channel and of both,*)
(* at once, on an interval and with a callback, a channel the device does  *)
(* not have, and a buffer one sample short.                                *)
(***************************************************************************)
EXTENDS Ads868x

MCRequests ==
    {[channels |-> {1}, extra |-> 0, size |-> 1, timed |-> FALSE, callback |-> FALSE],
     [channels |-> {0, 1}, extra |-> 1, size |-> 4, timed |-> TRUE, callback |-> FALSE],
     [channels |-> {0, 1}, extra |-> 1, size |-> 4, timed |-> FALSE, callback |-> TRUE],
     [channels |-> {0, 2}, extra |-> 0, size |-> 2, timed |-> FALSE, callback |-> FALSE],
     [channels |-> {0, 1}, extra |-> 1, size |-> 3, timed |-> TRUE, callback |-> FALSE]}
=============================================================================
