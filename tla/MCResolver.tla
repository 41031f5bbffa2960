----------------------------- MODULE MCResolver -----------------------------
\* The second row cannot be parsed, the two after it have several IP addresses.
EXTENDS Resolver
MCIPsOf == <<{"x"}, {}, {"x", "y"}, {"y", "z"}>>
=============================================================================
