------------------------- MODULE MCComponentCatalog -------------------------
(***************************************************************************)
(* One profile code, two ways to fill in the versions of each kind.        *)
(***************************************************************************)
EXTENDS ComponentCatalog, TLC

CatalogueSymmetry == Permutations(ComponentCodes)

Lines(lines) == [document |-> FALSE, window |-> FALSE, lines |-> lines]

MCForms == [kind \in Kinds |->
    CASE kind = "ALLOCATION" -> {Lines({}), [Lines({}) EXCEPT !.document = TRUE]}
      [] kind = "CALCULATION" -> {Lines({}), [Lines({<<1, "WEIGHT">>}) EXCEPT !.window = TRUE]}
      [] kind = "BUSINESS_DATE" ->
            {Lines({<<1, "INVOICE_DATE">>}), Lines({<<1, "DOCUMENT_DATE">>})}
      [] kind = "FREE_TIME" -> {Lines({<<1, "DEMURRAGE">>}), Lines({<<2, "DETENTION">>})}]
=============================================================================
