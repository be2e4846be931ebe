---------------------------- MODULE MCAddonBridge ----------------------------
(* AddonBridge with two entries, one that changes; versions differ in the  *)
(* cameras, among them names that collide with each other's suffixed path, *)
(* and the last version of the one that changes is its first one set back. *)
EXTENDS AddonBridge

CONSTANTS e1, e2

\* "a" and "a2" have the first six characters in common.
Cam(i, n) == [id |-> i, short |-> IF i = "a2" THEN "a" ELSE i, name |-> n]
MCNumerals == <<"2", "3">>
Plain(cams) == [cameras |-> cams, talkback |-> FALSE]
MCJson == [e \in {e1, e2} |->
  IF e = e1
    THEN [v \in {0, 1, 2} |->
            IF v = 1
              THEN Plain(<<Cam("a", <<"Baby">>), Cam("c", <<"Baby", "b">>), Cam("b", <<"Baby">>)>>)
              ELSE Plain(<<Cam("a", <<>>), Cam("b", <<"a">>), Cam("a", <<"Twin">>), Cam("", <<"x">>)>>)]
    ELSE [v \in {0, 1, 2} |->
            Plain(<<Cam("b", <<"Baby">>), Cam("a", <<"Baby">>),
                    Cam("a2", <<"Baby">>), Cam("d", <<"Baby", "a">>)>>)]]
=============================================================================
