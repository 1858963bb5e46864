SPECIFICATION Spec
CONSTANT Limits <- MCTwoOffers
INVARIANT AnswerNamesItsOffer
CHECK_DEADLOCK FALSE
