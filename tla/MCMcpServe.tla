----------------------------- MODULE MCMcpServe -------------------------------
(***************************************************************************)
(* Instances of McpServe.                                                  *)
(***************************************************************************)
EXTENDS McpServe

\* A report of two checks, a line that has no answer, one that is refused.
AllSorts == <<"policy_audit", "blank", "malformed">>
Call     == <<"static", "policy_audit">>

SomeKeys == {"rules.map_execute", "auth.github_token_env", "maps.allow_execute",
             "retention.snapshot_days"}
\* One value that the audit calls risky, and one that only validation rejects.
Typed    == {<<"rules.map_execute", "auto">>, <<"retention.snapshot_days", "0">>}
\* No file, and one edited by hand in every way that a report can tell.
Edited   == [DEFAULT_CONFIG_TEXT EXCEPT !["rules.map_execute"] = "deny",
                                        !["maps.allow_execute"] = "true",
                                        !["retention.snapshot_days"] = WrongType]
Files    == {Missing, Edited}

\* Everything there and every token set.
Complete == {"database", "dependencies", "maps"}
Places   == {Complete}
Tokens   == {DataclassDefault(k) : k \in TokenKeys}

===============================================================================
