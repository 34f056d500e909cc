----------------------------- MODULE MCXBeeFrame -----------------------------
EXTENDS XBeeFrame
\* Frames with and without bytes to escape, in every place; the last two do not fit.
MCFrames == {<<1>>, <<7, 6>>, <<0, 5, 7>>, <<2, 0, 6>>, <<1, 3, 5, 4>>, <<1, 3, 5, 4, 0>>}

\* The layout of what the frames hold, for radios with bytes of every kind and an
\* array that still holds another frame.
Layout == INSTANCE XBeeLayout
Radios == {[msb |-> 1286656, lsb |-> 1086203735, my |-> 4660], [msb |-> 0, lsb |-> 255, my |-> 0],
           [msb |-> 2147483647, lsb |-> 256, my |-> 65535]}
Old == [k \in 0 .. 40 |-> k]
Data == {<<>>, <<0>>, <<255, 126, 7>>}
ASSUME LayoutKeepsAddressAndData == \A r \in Radios, data \in Data :
    /\ Layout!FoundIsOwn(Old, r)
    /\ \A q \in Radios : Layout!HeardByOwn(r, Layout!AddressOf(q), data)
    /\ Layout!DataIsOwn(Old, r, data)
==============================================================================
