--------------------------- MODULE MCSimpleShell ---------------------------
(* Instances of SimpleShell for TLC.                                       *)
EXTENDS SimpleShell

MC_Lines == {<<"ls", "-a">>, <<"ls&">>, <<"ls", "|", "sort", ">", "new">>,
             <<"yes", "|", "typo", "&">>, <<"typo", "<", "new">>, <<"typo", "<", "old">>,
             <<"ls", "|", "sort", ">", "lost">>, <<"&">>, <<"!!">>, <<"exit">>}
MC_Programs == {"ls", "sort", "yes"}
MC_Output == [p \in MC_Programs |-> IF p = "yes" THEN 2 ELSE 1]
MC_Files == ("new" :> "absent") @@ ("old" :> "readable") @@ ("lost" :> "noplace")

(* The proof of ArgvAsTyped is for lines like these.                       *)
ASSUME MC_LinesRight == LinesRight
=============================================================================
