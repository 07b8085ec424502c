---------------------------- MODULE MCMapExecution ----------------------------
(***************************************************************************)
(* Instances of MapExecution: a few runs of `act`, beside the `config`     *)
(* commands of other processes.                                            *)
(***************************************************************************)
EXTENDS MapExecution, TLC

Github  == <<"github", "create_issue">>
Vercel  == <<"vercel", "list_projects">>
Netlify == <<"netlify", "list_sites">>
Slack   == <<"slack", "send_message">>      \* a map without an executor

RequiredInputs == (Github :> {"repo", "title"}) @@ (Slack :> {"channel", "text"})
                  @@ [flow \in {Vercel, Netlify} |-> {}]

Act(id, mode, flow, given) == [id |-> id, mode |-> mode, flow |-> flow, given |-> given]

CreateIssue  == Act("create", "execute", Github, {"repo", "title"})
ListProjects == Act("list", "execute", Vercel, {})
NoToken      == Act("sites", "execute", Netlify, {})
NoInput      == Act("half", "execute", Github, {"repo"})
NoExecutor   == Act("post", "execute", Slack, {"channel", "text"})
DryRun       == Act("plan", "dry_run", Github, {"repo", "title"})

RaceCommands == {CreateIssue, ListProjects, NoToken, NoInput, NoExecutor, DryRun}
OneCommand   == {CreateIssue}
Tokens       == {"GITHUB_TOKEN", "VERCEL_TOKEN", "MY_TOKEN"}

ThreeKeys == {"maps.allow_execute", "rules.map_execute", "auth.github_token_env"}
Typed     == {<<"maps.allow_execute", "true">>, <<"rules.map_execute", "block">>,
              <<"auth.github_token_env", "MY_TOKEN">>, <<"auth.github_token_env", "Q\"">>}
TypedElse == {<<"auth.github_token_env", "MY_TOKEN">>}

Fresh     == {Missing, DEFAULT_CONFIG_TEXT, Empty}
Blocked   == {[DEFAULT_CONFIG_TEXT EXCEPT !["maps.allow_execute"] = "true",
                                          !["rules.map_execute"] = "block"]}
NoQuote   == {"Q\""}
Others    == Permutations(Setters)

===============================================================================
