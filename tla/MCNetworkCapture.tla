------------------------- MODULE MCNetworkCapture -------------------------
EXTENDS NetworkCapture
=============================================================================
