---------------------------- MODULE MCReplyCache ----------------------------
(* ReplyCache with three cells and a high water mark of two.               *)
EXTENDS ReplyCache, TLC

\* The values of --cache: none, a high mark, zero, a low one above it, a negative one.
SomeParams == {<<>>, <<0>>, <<2>>, <<3, 2>>, <<0, -1>>}
=============================================================================
