------------------------------- MODULE MCReader -------------------------------
EXTENDS LinkReader

\* Payloads that look like parts of the protocol.
MCPayloads == {<<>>, <<"$">>, <<"\r", "\n">>}
===============================================================================
