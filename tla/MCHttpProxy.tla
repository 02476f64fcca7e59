---------------------------- MODULE MCHttpProxy ----------------------------
(* Requests for TLC.                                                       *)
EXTENDS HttpProxy

CONSTANTS b1, b2, whole, part

Get(b, v)  == [method |-> "GET", body |-> b, variant |-> v]
Post(b, v) == [method |-> "POST", body |-> b, variant |-> v]

\* Two downloads that the cache cannot tell apart and one that it can, and two
\* uploads.
Mixed == {Get(b1, whole), Get(b1, part), Get(b2, whole), Post(b1, whole), Post(b2, whole)}

\* The downloads of one reference.
OneReference == {Get(b1, whole), Get(b1, part)}
=============================================================================
