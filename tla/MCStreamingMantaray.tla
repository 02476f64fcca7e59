------------------------ MODULE MCStreamingMantaray ------------------------
(* Manifests for TLC.                                                      *)
EXTENDS StreamingMantaray

\* A path, and two that go on from it: an edge is split where no path ends, or
\* where one does, and a node with forks has an entry or none.
Branch == {<<1>>, <<1, 1>>, <<1, 2>>}

\* With a path of its own: three leaves, more than are uploaded at a time.
Branches == Branch \cup {<<2>>}
=============================================================================
