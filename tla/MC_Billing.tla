------------------------------ MODULE MC_Billing ------------------------------
EXTENDS Billing
Days == <<3, 2, 1>>
=============================================================================
