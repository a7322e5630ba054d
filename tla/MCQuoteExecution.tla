--------------------------- MODULE MCQuoteExecution ---------------------------
(***************************************************************************)
(* One awarded and one direct document.                                    *)
(***************************************************************************)
EXTENDS QuoteExecution, TLC

MCLine(side, component, amount) ==
    [role |-> "POSTING", side |-> side, component |-> component, amount |-> amount,
     parent |-> NoValue, manual |-> TRUE, pending |-> FALSE]

MCPayloads == {1 :> MCLine("PAYER", "FREIGHT", 10)}

MCOption ==
    [lines |-> 1 :> [MCLine("PAYER", "FREIGHT", 10) EXCEPT !.manual = FALSE],
     payer |-> 10, payee |-> 0]

MCMeasure(weight) ==
    [container |-> NoValue, package |-> NoValue, weight |-> weight,
     quantity |-> NoValue]

MCAwards ==
    {[option |-> MCOption,
      terms  |-> [measure |-> [MCMeasure(2) EXCEPT !["quantity"] = 1], amount |-> 10]]}

MCOptions == {award.option : award \in MCAwards}

MCDraws == {[measure |-> MCMeasure(1), amount |-> NoValue],
            [measure |-> MCMeasure(NoValue), amount |-> 4]}

MCIdentities == {[source |-> "booking1", reference |-> NoValue],
                 [source |-> "booking2", reference |-> NoValue]}

MCInvoiceForms == {"FREIGHT" :> 12}
=============================================================================
