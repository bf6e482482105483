---------------------------- MODULE MCRdapLookup ----------------------------
(* Instance of RdapLookup for TLC: the Retry-After values are a negative    *)
(* one, one inside the clamp, one above it and a missing header.            *)
EXTENDS RdapLookup

MCRetryAfters == {-1, 1, 3, NoHeader}
=============================================================================
