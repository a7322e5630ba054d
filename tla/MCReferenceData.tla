--------------------------- MODULE MCReferenceData ---------------------------
EXTENDS ReferenceData, TLC

\* Structures: text with and without case, and numbers.  Values: text that only
\* numbers refuse and that is stored differently without case, and what all
\* structures leave alone.
CONSTANTS exact, folded, number, text, plain

MCDataType ==
    [structure \in Structures |-> IF structure = number THEN "DECIMAL" ELSE "STRING"]

MCNormalized ==
    [pair \in Structures \X Values |->
        CASE pair[2] = plain \/ pair[1] = exact -> pair[2]
          [] pair[2] = text /\ pair[1] = folded -> plain
          [] OTHER -> NoValue]

\* A pair and its reverse.
MCPairs == {<<"EUR", "USD">>, <<"USD", "EUR">>}

MCMaxCalls == [dimensions |-> 5, rates |-> 4]

\* Once calls about dimensions have overlapped, the invariants claim nothing; and
\* one that was overtaken can only be refused, or end the claims.
StillClaimed == area = "dimensions" => ~overlapped /\ overtaken = {}

ReferenceSymmetry ==
    Permutations(Sessions) \cup Permutations(MappingCodes) \cup Permutations(Rates)
=============================================================================
