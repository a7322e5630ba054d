-------------------------- MODULE MCQuoteCommitment --------------------------
(***************************************************************************)
(* A small instance of the commitment ledger.  The terms cover a           *)
(* commitment by weight whose amount does not divide evenly, one by        *)
(* containers and weight, one that commits no container, and one by        *)
(* quantity alone; the draws mix single measures, several measures and     *)
(* explicit amounts.                                                       *)
(***************************************************************************)
EXTENDS QuoteCommitment

Open == [d \in Dims |-> NoValue]

MCTerms ==
    {[measure |-> [Open EXCEPT !["weight"] = 3, !["quantity"] = 1], amount |-> 10],
     [measure |-> [Open EXCEPT !["container"] = 2, !["weight"] = 2, !["quantity"] = 1],
      amount |-> 5],
     [measure |-> [Open EXCEPT !["container"] = 0, !["quantity"] = 2], amount |-> 3],
     [measure |-> [Open EXCEPT !["quantity"] = 2], amount |-> 4]}

MCDraws ==
    {[measure |-> [Open EXCEPT !["weight"] = 1], amount |-> NoValue],
     [measure |-> [Open EXCEPT !["weight"] = 2], amount |-> NoValue],
     [measure |-> [Open EXCEPT !["container"] = 1], amount |-> NoValue],
     [measure |-> [Open EXCEPT !["container"] = 1, !["weight"] = 1], amount |-> 2],
     [measure |-> [Open EXCEPT !["quantity"] = 1], amount |-> NoValue],
     [measure |-> Open, amount |-> 3]}

\* The first two answer to the same identity: the reference only counts where
\* there is no source object.
MCIdentities ==
    {[source |-> "booking1", reference |-> NoValue],
     [source |-> "booking1", reference |-> "ref1"],
     [source |-> NoValue, reference |-> "ref1"],
     [source |-> "booking2", reference |-> "ref1"]}
=============================================================================
