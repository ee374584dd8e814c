-------------------------- MODULE MCInvestmentNFT --------------------------
EXTENDS InvestmentNFT
=============================================================================
