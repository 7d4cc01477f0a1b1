------------------------------ MODULE MCServer ------------------------------
(* Requests and notifications as lines and as frames, a second initialize, and a *)
(* frame that is too long.                                                       *)
EXTENDS Server

M(k, f) == [kind |-> k, framing |-> f]
MCScripts ==
  {<<M("init", "line"), M("note", "length"), M("call", "line")>>,
   <<M("note", "line"), M("call", "length")>>,
   <<M("init", "line"), M("init", "line")>>,
   <<M("call", "huge"), M("call", "line")>>}
=============================================================================
