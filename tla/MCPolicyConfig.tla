---------------------------- MODULE MCPolicyConfig ----------------------------
(***************************************************************************)
(* Instances of PolicyConfig: keys of risky and harmless types, and        *)
(* patterns of a few action types as an agent's rules would have them.     *)
(***************************************************************************)
EXTENDS PolicyConfig

SomeKeys   == {"file_create", "file_delete", "map_execute", "unknown"}
AllFiles   == {"file.read", "file.write", "file.create", "file.delete"}
SomePatterns == {{"file.delete"}, AllFiles, AllFiles \cup {"api.call", "plugin.run"}}

===============================================================================
