----------------------------- MODULE DiffReply -----------------------------
(***************************************************************************)
(* The multipart reply of the differ (differ.go, the differHeader and       *)
(* differTrailer of protocol.go): a header, a body that is the delta of two *)
(* whole nars or anything else ("junk"), and a trailer that says which.     *)
(***************************************************************************)
EXTENDS Sequences

\* A reply, as far as it was written.
Replies == {<<>>, <<"header">>, <<"header", "body">>, <<"header", "junk">>,
            <<"header", "body", "ok">>, <<"header", "junk", "failed">>}
=============================================================================
