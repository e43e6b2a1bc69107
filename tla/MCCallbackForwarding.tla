------------------------ MODULE MCCallbackForwarding ------------------------
EXTENDS CallbackForwarding, TLC

CONSTANTS b1, b2

\* A callback that cannot be converted, a merged invoice that is split over two
\* bills, and one that names a bill twice.
MCSplits == {<<>>, <<b1, b2>>, <<b1, b1>>}
=============================================================================
