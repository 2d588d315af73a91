---------------------------- MODULE MCPinConnect -----------------------------
\* The receiver's enumerator: empty, a type the pin does not have, the pin's second
\* choice first, or a type of another size and then the first choice.
EXTENDS PinConnect

ReceiverOffers ==
    {<<>>, <<"YUY2">>, <<"RGB32", "RGB24">>, <<"foreign", "RGB24">>}
==============================================================================
