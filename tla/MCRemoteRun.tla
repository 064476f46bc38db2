----------------------------- MODULE MCRemoteRun -----------------------------
(* An instance of RemoteRun for TLC: two calls, at once or one after the    *)
(* other, of inputs that are alike or different, on either or both of two   *)
(* servers.                                                                 *)
EXTENDS RemoteRun, TLC

CONSTANTS c1, c2, a, b, m

MCCalls == {c1, c2}

\* One fingerprint: the documents change places, and the step to start with differs.
InOrder == [docs |-> <<a, b>>, options |-> [model |-> m, start |-> 1]]
Reordered == [docs |-> <<b, a>>, options |-> [model |-> m, start |-> 2]]
\* Other fingerprints: an option that is not set, and another document.
Unset == [docs |-> <<a, b>>, options |-> [model |-> None, start |-> 1]]
Single == [docs |-> <<a>>, options |-> [model |-> m, start |-> 1]]

MCInputs == {InOrder, Reordered, Unset, Single}

\* The calls are interchangeable, and inputs that are alike behave as one that is the same.
MCAssignments == {c1 :> i @@ c2 :> j : <<i, j>> \in
                    {<<InOrder, Reordered>>, <<InOrder, Unset>>, <<Unset, Single>>}}

MCCliFields == {"working_directory", "run_id", "start", "end"}

\* The digests of the last two collide.
MCDigest(f) == IF f = Fingerprint(Single) THEN Fingerprint(Unset) ELSE f
=============================================================================
