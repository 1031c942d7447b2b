------------------------------ MODULE MCIngest ------------------------------
EXTENDS Ingest

TwoPorts == <<"RS485", "RS232">>
=============================================================================
