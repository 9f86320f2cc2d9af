-------------------------- MODULE MCGitSkillSource --------------------------
(* A small repository, for TLC: skills team and notes, a skill x below team, *)
(* and one of the same name in ops.                                          *)
EXTENDS GitSkillSource

MCUnder == {<<"team/x", "team">>}

MCName == [p \in {"team", "team/x", "ops/x", "notes"} |->
             IF p \in {"team/x", "ops/x"} THEN "x" ELSE p]

(* The second commit drops notes and brings ops/x.                           *)
MCHas == [c \in {1, 2} |-> {"team", "team/x"} \cup (IF c = 1 THEN {"notes"}
                                                             ELSE {"ops/x"})]

Configurations == {FullTree, <<"team">>, <<"team/x">>, <<"ops/x", "notes">>,
                   <<"team/x", "ops/x">>, <<"team", Malformed>>, <<>>}

OneNested == {FullTree, <<"team/x", "notes">>}
===============================================================================
