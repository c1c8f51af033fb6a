------------------------- MODULE MCDeployValidation -------------------------
\* Small instances of DeployValidation for TLC.
EXTENDS DeployValidation, TLC

CONSTANTS d1, d2

\* Blocks 1 and 2 share a deploy, the other deploy of block 1 has no valid
\* DeployInfo, block 3 has a replay, and block 4 lists a transfer of block 1 as a
\* deploy.
MCContent ==
    <<{<<d1, "Deploy">>, <<d2, "Transfer">>}, {<<d1, "Deploy">>}, {<<d1, "Deploy">>},
      {<<d2, "Deploy">>}>>
MCKind == d1 :> "Deploy" @@ d2 :> "Transfer"
MCMaxCount == "Deploy" :> 2 @@ "Transfer" :> 1
=============================================================================
