----------------------------- MODULE MCProtogen -----------------------------
(* Protogen with two wanted files and one that nobody asked for. *)
EXTENDS Protogen

MCPaths ==
  { [dir |-> "out", base |-> "pb"],
    [dir |-> "out", base |-> "grpc"], [dir |-> "out", base |-> "other"] }
=============================================================================
