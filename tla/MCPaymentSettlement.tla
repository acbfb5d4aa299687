------------------------ MODULE MCPaymentSettlement ------------------------
EXTENDS PaymentSettlement

CONSTANTS o1, o2

\* The news of one order, without the second event of its invoice.
NewsOfOne == {o1} \X {"declined", "closed", "completed", "invoice"}
\* Two orders and their invoices.
Invoices == {o1, o2} \X {"invoice"}
=============================================================================
