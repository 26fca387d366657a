------------------------- MODULE MCOutboundStream -------------------------
\* OutboundStream with lengths modulo 4.
EXTENDS OutboundStream

\* The largest size that fits, twice; a size that is taken for zero; a string whose
\* length is cut like the size of its packet.
MCTexts ==
  {<< <<2>>, <<>> >>, << <<>>, <<1>> >>, << <<1>>, <<3>> >>, << <<>>, <<1, 2, 1, 2, 3>> >>}
=============================================================================
