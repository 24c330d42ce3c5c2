---------------------------- MODULE MCHttpStack ----------------------------
(* One network, which a client may also write with a percent escape, and   *)
(* paths of every shape that the path functions and the router tell apart. *)
EXTENDS HttpStack, TLC

MCNames == {"net", "%6Eet"}
MCPaths ==
  {<<"">>, <<"", "">>, <<"net">>, <<"net", "">>, <<"net", "rpc">>, <<"net", "events">>,
   <<"net", "binary">>, <<"net", "other">>, <<"net", "rpc", "">>, <<"", "net", "rpc">>,
   <<"net", "", "rpc">>, <<"%6Eet", "rpc">>, <<"none", "rpc">>, <<"none", "events">>}

Symmetry == Permutations(Handlers)
=============================================================================
