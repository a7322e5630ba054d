--------------------------- MODULE MCChargeDocument ---------------------------
(***************************************************************************)
(* A small instance of charge documents: line lists with a tree of three   *)
(* generations, a cycle, a pending snapshot, a derived source and a parent *)
(* that does not exist; options from contracts, whose lines add up, and    *)
(* from an offer, whose one line is on the payee side of a component the   *)
(* catalogue does not have.                                                *)
(***************************************************************************)
EXTENDS ChargeDocument, TLC

Line(role, side, component, amount, parent) ==
    [role |-> role, side |-> side, component |-> component, amount |-> amount,
     parent |-> parent, manual |-> TRUE, pending |-> FALSE]

Freight(side, amount) == Line("POSTING", side, "FREIGHT", amount, NoValue)

Step(parent) == Line("CALCULATION", "PAYER", "FREIGHT", 7, parent)

MCPayloads ==
    {1 :> Step(NoValue) @@ 2 :> Step(1)
        @@ 3 :> Line("POSTING", "PAYER", "FREIGHT", 10, 2),
     1 :> Freight("PAYER", 10) @@ 2 :> Freight("PAYEE", 12),
     1 :> [Freight("PAYER", 10) EXCEPT !.pending = TRUE],
     1 :> [Freight("PAYER", 10) EXCEPT !.manual = FALSE],
     1 :> Step(2) @@ 2 :> Step(1),
     1 :> Line("POSTING", "PAYEE", "FREIGHT", 10, 3)}

MCOptions ==
    {[lines |-> 1 :> [Freight("PAYER", 10) EXCEPT !.manual = FALSE]
                @@ 2 :> [Freight("PAYEE", 12) EXCEPT !.manual = FALSE],
      payer |-> 10, payee |-> 12],
     [lines |-> 1 :> [Line("POSTING", "PAYEE", "OFFER", 15, NoValue)
                         EXCEPT !.manual = FALSE],
      payer |-> 15, payee |-> 15]}

\* Within the tolerance, beyond it, and for a component nobody charged.
MCInvoiceForms == {"FREIGHT" :> 11, "FREIGHT" :> 12, "FUEL" :> 1}
=============================================================================
