---------------------------- MODULE MCConfigLineage ----------------------------
(***************************************************************************)
(* An instance of ConfigLineage: three `config` commands of three          *)
(* processes, over a missing, an empty and a full file.                    *)
(***************************************************************************)
EXTENDS ConfigLineage, TLC

ThreeKeys == {"safety.default_policy", "maps.allow_execute", "rules.map_execute"}
Typed     == {<<"maps.allow_execute", "true">>, <<"rules.map_execute", "block">>,
              <<"safety.default_policy", "Q\"">>}
NoQuote   == {"Q\""}
Files     == {Missing, Empty, [DEFAULT_CONFIG_TEXT EXCEPT !["maps.allow_execute"] = "true"]}
Others    == Permutations(Setters)

===============================================================================
