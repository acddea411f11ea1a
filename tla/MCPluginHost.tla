---------------------------- MODULE MCPluginHost ----------------------------
(***************************************************************************)
(* Instances of PluginHost: one controller whose agent calls the tools of  *)
(* the server, and several whose users and builds connect it.              *)
(***************************************************************************)
EXTENDS PluginHost, TLC

\* Whether the schema of an eager server is cached does not matter.
AllSettings == {<<"eager", FALSE>>} \cup ({"lazy", "background"} \X BOOLEAN)

\* Without a tool call a lazy server is never started, and the cache is never
\* asked.
StartedSettings == {<<"background", FALSE>>, <<"eager", FALSE>>}

\* The controllers are alike.
Symmetry == Permutations(Controllers)
=============================================================================
