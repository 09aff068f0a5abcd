----------------------------- MODULE MCSbdLifecycle ----------------------------
(***************************************************************************)
(* An instance of SbdLifecycle for TLC: a device whose size wraps to three *)
(* sectors, and six requests: one of them not of the file system, one that *)
(* comes to the end of the three sectors, and one so far beyond it that    *)
(* its own end wraps.                                                      *)
(***************************************************************************)
EXTENDS SbdLifecycle

ARequest(n, fromFs, write, sector, segments, contents) ==
  [id |-> n, fs |-> fromFs, write |-> write, sector |-> sector,
   segs |-> segments, data |-> contents]

SomeValues == {"a", "b", "c"}

MixedRequests ==
  {ARequest(1, TRUE, TRUE, 0, <<1, 1>>, <<"a", "b">>),
   ARequest(2, TRUE, TRUE, 1, <<2>>, <<"c", "a">>),
   ARequest(3, TRUE, FALSE, 0, <<2, 1>>, <<"a", "a", "a">>),
   ARequest(4, FALSE, FALSE, 0, <<1>>, <<"a">>),
   ARequest(5, TRUE, TRUE, 2, <<1, 1>>, <<"b", "c">>),
   ARequest(6, TRUE, TRUE, 7, <<2>>, <<"b", "a">>)}
================================================================================
