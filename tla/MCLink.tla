------------------------------- MODULE MCLink -------------------------------
EXTENDS Link
CONSTANTS e, f
OneKind == <<"frozen-sync">>
=============================================================================
