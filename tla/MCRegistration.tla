--------------------------- MODULE MCRegistration ---------------------------
(* Two branches; the codes "a" and "A'" are different for the services and  *)
(* the same for the index.                                                  *)
EXTENDS Registration

MCKeyOf == [a |-> "a", accented |-> "a", b |-> "b"]
Full(code) == [code |-> code, complete |-> TRUE]
MCFiles == {<<Full("a"), Full("b")>>, <<Full("b"), Full("a"), Full("b")>>,
            <<[code |-> "b", complete |-> FALSE], Full("accented")>>}
=============================================================================
