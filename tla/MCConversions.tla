--------------------------- MODULE MCConversions ---------------------------
EXTENDS Conversions

MCProjectOf == [t \in 1 .. 2 |-> IF t = 1 THEN "p1" ELSE "p2"]

MCKeys == {"prompt", "task_name"}

\* Prompts of up to two symbols; names that hold a blank or a placeholder.
MCVals ==
    [prompt : BoundedSeq({"w", Blank, Quote, Backslash, BadByte, Placeholder("task_name"),
                          Placeholder("other")}, 2),
     task_name : {<<>>, <<"n", Blank, Quote>>, <<Placeholder("prompt")>>}]

MCPaths == {<<"p">>, <<"p", Blank, Quote>>}

MCShellParts == {<<"agent">>, <<Placeholder("prompt")>>,
                 <<"x", Placeholder("prompt"), Placeholder("task_name")>>,
                 <<Placeholder("other")>>, <<Placeholder("Prompt")>>}

MCJSONParts == MCShellParts \cup {<<>>, <<Blank, Quote>>}

=============================================================================
