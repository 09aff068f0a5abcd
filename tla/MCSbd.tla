---------------------------------- MODULE MCSbd --------------------------------
(***************************************************************************)
(* Instances of Sbd for TLC: a handful of requests for small devices.      *)
(***************************************************************************)
EXTENDS Sbd

Request(n, write, sector, segments, contents) ==
  [id |-> n, fs |-> TRUE, write |-> write, sector |-> sector,
   segs |-> segments, data |-> contents]

SomeValues == {"a", "b", "c"}

\* Extents that overlap, in one and in several segments, and a request that is not
\* of the file system.
SomeRequests ==
  {Request(1, TRUE, 0, <<1, 1>>, <<"a", "b">>), Request(2, TRUE, 1, <<2>>, <<"c", "a">>),
   Request(3, FALSE, 0, <<2, 1>>, <<"a", "a", "a">>),
   [Request(4, FALSE, 0, <<1>>, <<"a">>) EXCEPT !.fs = FALSE]}

\* Whole blocks of two sectors.
LargeRequests ==
  {Request(1, TRUE, 0, <<2>>, <<"a", "b">>), Request(2, FALSE, 0, <<2>>, <<"a", "a">>)}
================================================================================
