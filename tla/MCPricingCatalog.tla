-------------------------- MODULE MCPricingCatalog --------------------------
(***************************************************************************)
(* Three versions of books and templates with two codes each, and one      *)
(* contract that refers to them in every way.  Codes are interchangeable.  *)
(***************************************************************************)
EXTENDS PricingCatalog, TLC

CodeSymmetry == Permutations(BookCodes) \cup Permutations(TemplateCodes)

CONSTANTS freight, flat, weight

MCProfiles == {freight}
NoProfiles == {}
MCBases == {flat, weight}

Component(basis, profile) == [basis |-> basis, profile |-> profile]
MCComponentForms == {Component(flat, NoValue), Component(weight, freight)}
SteadyComponent == {Component(flat, NoValue)}

Book(price, basis, profile) ==
    [price |-> price, basis |-> basis, profile |-> profile, active |-> TRUE]
MCBookForms == {Book(1, flat, NoValue), Book(NoValue, flat, NoValue)}

Template(steps, active) == [steps |-> steps, active |-> active]
MCTemplateForms == {Template({1, NoValue}, TRUE), Template({}, FALSE)}

Line(book, template, profile) ==
    [book |-> book, template |-> template, profile |-> profile]
Contract(book, template, routes, lines) ==
    [book |-> book, template |-> template, routes |-> routes, lines |-> lines]

MCContractForms == {
    Contract(1, NoValue, {}, {Line(NoValue, 1, freight), Line(2, NoValue, freight)}),
    Contract(1, NoValue, {1}, {})}

\* For the trace of a replaced book.
PinnedBookForms == {Book(1, flat, NoValue)}
PinnedContractForms == {Contract(1, NoValue, {}, {Line(NoValue, NoValue, NoValue)})}
=============================================================================
