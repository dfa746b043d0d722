--------------------------- MODULE MCStripeWebhooks ---------------------------
\* Instances of StripeWebhooks: a checkout, then a cancellation or an event without
\* effect.
EXTENDS StripeWebhooks

CONSTANTS h1, h2, free, pro, team

OneHandler == {h1}
TwoHandlers == {h1, h2}
AllPlans == {free, pro, team}
TwoEvents == {1, 2}
CheckoutThenCancel == [e \in Events |-> IF e = 1 THEN pro ELSE free]
None == {{}}
NoneOrSecond == {{}, {2}}
=============================================================================
