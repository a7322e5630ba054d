--------------------------- MODULE MCQuoteLifecycle ---------------------------
(***************************************************************************)
(* Two quotes, two options between them, two different terms that rank     *)
(* differently and one that ties.                                          *)
(***************************************************************************)
EXTENDS QuoteLifecycle, TLC

MCKey == "cheap" :> 1 @@ "same" :> 1 @@ "dear" :> 2
MCTerms == DOMAIN MCKey
=============================================================================
