----------------------------- MODULE MCPayloadWalks -----------------------------
(***************************************************************************)
(* Names of every table in the spellings that tell the normalisations      *)
(* apart, and depths and widths at and past every bound.                   *)
(***************************************************************************)
EXTENDS PayloadWalks

MCKeys ==
    [name : {"docker_command"}, spelling : {"snake", "kebab", "camel", "squashed"}]
        \cup Snake({"nft_rule", "select_action", "belief_score", "aws_secret_access_key"})
        \cup [name : {"tactical_effect", "council_vote"}, spelling : {"kebab"}]
        \cup [name : {"resource_tier", "inferred_role", "attacker_belief"}, spelling : {"camel"}]
        \cup [name : {"host_name"}, spelling : {"squashed"}]
        \cup {Unspelled(n) : n \in {"note", "executable", "not ASCII", "not a string", "oversized"}}

MCLeaves ==
    {Node("number", 0, {}), Node("false", 0, {}), Node("nan", 0, {}), Node("bytes", 0, {}),
     Node("text", 2048, {}), Node("text", 4097, {}), Node("text", 8193, {}),
     Node("secret", 20, {})}

MCLevels == {3, 6, 8, 12, 32}

MCWidths == {32, 33, 64, 65, 128, 129, 256, 257, 512, 513}
=============================================================================
