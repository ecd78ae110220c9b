--------------------------- MODULE MCPaymentChain ---------------------------
EXTENDS PaymentChain

OneOp == {"op"}
=============================================================================
