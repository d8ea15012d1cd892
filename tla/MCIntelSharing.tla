--------------------------- MODULE MCIntelSharing ---------------------------
(* Instances of IntelSharing for TLC.                                      *)
EXTENDS IntelSharing

CONSTANTS d1, d2, t1, t2

\* d1 is the digest of a file and of a certificate, which is what an import
\* in the wrong column gives.
MCContents == {[threat |-> t1, cert |-> NoCert], [threat |-> t2, cert |-> d1]}

\* The whole base, and any one row of it: a since that is no version, which
\* leaves the rows in no order.  Other parameters give no other sets of rows.
MCQueries == {[limit |-> 2, from |-> 0, newest |-> TRUE],
              [limit |-> 1, from |-> 0, newest |-> FALSE]}
=============================================================================
