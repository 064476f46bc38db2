--------------------------- MODULE MCDeploymentRun ---------------------------
(* A plan of three flows for TLC.  The first returns two documents of one   *)
(* class, of which the second takes the last; the second returns a control  *)
(* document that stops the group of the third.  With a document missing or  *)
(* the two swapped, the second flow returns something else.                 *)
EXTENDS DeploymentRun, TLC

CONSTANTS in, go, x1, x2, halt, w, g, h

MCDocs == {in, go, x1, x2, halt, w}
MCInputs == <<in, go>>
MCType == [d \in MCDocs |-> CASE d = in -> "In" [] d \in {x1, x2} -> "X" [] d \in {go, halt} -> "C"
                             [] d = w -> "W"]
MCFlag == [d \in MCDocs |-> CASE d = go -> "true" [] d = halt -> "false" [] OTHER -> "unparsable"]
MCGroups == {g}
MCGroupOf == <<None, None, g>>
MCRunIf == <<None, [type |-> "C", op |-> "truthy", onMissing |-> "skip"], None>>
MCStopIf == [s \in {g} |-> [type |-> "C", op |-> "falsy", onMissing |-> "run"]]
MCParam == <<[type |-> "In", kind |-> "all"], [type |-> "X", kind |-> "one"],
             [type |-> "W", kind |-> "optional"]>>
MCOutput(k, a) ==
  CASE k = 1 -> <<x1, x2>>
    [] k = 2 -> IF a = <<x2>> THEN <<halt>> ELSE <<w>>
    [] k = 3 -> <<w>>
Range(f, l, c) == [first |-> f, last |-> l, reuse |-> c]
MCRanges == {Range(1, 3, TRUE), Range(1, 2, FALSE), Range(3, 3, TRUE)}
MCBySha(s) == s

\* The other order of the two documents of one class, which OrderKept excludes.
Swapped(s) == IF s = <<x1, x2>> THEN <<x2, x1>> ELSE s

\* Spelt out; UninterruptedAssumption checks it against the recursion.
MCUninterrupted ==
  [k \in 0..Steps |->
     CASE k = 0 -> [docs |-> <<in, go>>, stopped |-> {}]
       [] k = 1 -> [docs |-> <<in, go, x1, x2>>, stopped |-> {}]
       [] OTHER -> [docs |-> <<in, go, x1, x2, halt>>, stopped |-> {g}]]
=============================================================================
